CONSTANTS
  NoId = NoId
  Epochs = {e1, e2}
  Msgs = {m1, NoId}
  MaxPos = 2
  MAX_ATTEMPTS = 1
  MAX_OPEN = 1
  PAGE = 2
  WORK_BATCH = 1
  MaxGone = 1
  MaxResets = 1
  MaxRestarts = 0
  MaxRetries = 1
  SlowMigrate = TRUE
SYMMETRY EpochSymmetry
SPECIFICATION Spec
INVARIANTS NoMailSkipped NewEpochFromStart ArtifactInv ReadOncePerId
