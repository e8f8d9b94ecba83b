CONSTANTS
  NoId = NoId
  Epochs = {e1, e2}
  Msgs = {NoId}
  MaxPos = 1
  MAX_ATTEMPTS = 1
  MAX_OPEN = 1
  PAGE = 1
  WORK_BATCH = 1
  MaxGone = 0
  MaxResets = 2
  MaxRestarts = 1
  MaxRetries = 0
  SlowMigrate = FALSE
SPECIFICATION FairSpec
PROPERTIES EpochFollowed JournalSpec
