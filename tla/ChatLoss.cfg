CONSTANTS
  ch = ch
  Lanes = {"post"}
  MaxPos = 2
  MAX_ATTEMPTS = 2
  MAX_OPEN = 1
  Kinds = {"control", "agent"}
  PageSize = 1
  PagesPerPass = 2
  CatchUpBatch = 2
  InterAgentLimit = 1
  MaxRetries = 0
  MaxRestarts = 1
  MaxOther = 0
  MaxSnoozes = 0
SPECIFICATION Spec
INVARIANTS ReadInv NoPostSkipped TurnOnce MissedCommandNeverRuns
PROPERTIES JournalSpec
