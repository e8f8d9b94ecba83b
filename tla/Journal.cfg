CONSTANTS
  Sources = {s1}
  Lanes = {"post", "mail"}
  MaxPos = 2
  MAX_ATTEMPTS = 1
SPECIFICATION Spec
INVARIANTS SettledBelowOpen CursorOrder PrunedStayOut
PROPERTIES FinalStays
