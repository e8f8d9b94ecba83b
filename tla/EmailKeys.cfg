\* Two POSTs of one key at a time, a death of the plugin and a deployment.
CONSTANTS
  Mails = {m1}
  MaxVersion = 1
  Requests = {r1, r2}
  MAX_ATTEMPTS = 2
  DELIVERY_MAX_ATTEMPTS = 2
  MaxRestarts = 1
  MaxDeploys = 1
SYMMETRY RequestSymmetry
SPECIFICATION Spec
INVARIANTS KeyInv ServerSentOnce ServerRecordIsTrue
CHECK_DEADLOCK FALSE
