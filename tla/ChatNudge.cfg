CONSTANTS
  ch = ch
  Lanes = {"post", "attention"}
  MaxPos = 1
  MAX_ATTEMPTS = 2
  MAX_OPEN = 2
  Kinds = {"chatter"}
  PageSize = 2
  PagesPerPass = 2
  CatchUpBatch = 2
  InterAgentLimit = 1
  MaxRetries = 1
  MaxRestarts = 1
  MaxOther = 1
  MaxSnoozes = 1
SPECIFICATION FairSpec
PROPERTIES AckCatchesUp
