CONSTANTS
  MaxGen = 1
  UNMEASURED = 2
  BlindLists = TRUE
  MaxRev = 2
  Retries = 1
  CleanRetries = 1
  MaxUpsets = 1
  Blockable = TRUE
SPECIFICATION Spec
INVARIANTS NewestPlayed WakeInv
PROPERTIES DeletesTheMeant StallRetried SessionsGo
