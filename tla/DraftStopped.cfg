\* One turn whose streaming PATCH fails before the user stops it.
CONSTANTS
  MaxTurns = 1
  MaxTexts = 2
  MaxReplies = 0
  MaxTools = 0
  MaxRewrites = 0
  MaxUpsets = 1
SPECIFICATION Spec
INVARIANTS StoppedKeepsAll
CHECK_DEADLOCK FALSE
