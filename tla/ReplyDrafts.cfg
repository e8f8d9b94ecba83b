CONSTANTS
  MaxTurns = 2
  MaxTexts = 2
  MaxReplies = 1
  MaxTools = 1
  MaxRewrites = 1
  MaxUpsets = 1
SPECIFICATION FairSpec
INVARIANTS ReplyInv NoDraftLeaked DraftInv
PROPERTIES DraftsSettle
CHECK_DEADLOCK FALSE
