CONSTANTS
  MaxPosts = 2
  Page = 1
  Gap = 2
  MaxAttempts = 2
  MaxUpsets = 2
SPECIFICATION Spec
INVARIANTS NoPostLost TurnOnce FloorInv
PROPERTIES AllHandled
