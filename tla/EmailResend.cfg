\* A second version of a mail while the first one may still go out.
CONSTANTS
  Mails = {m1}
  MaxVersion = 2
  Requests = {r1}
  MAX_ATTEMPTS = 2
  DELIVERY_MAX_ATTEMPTS = 2
  MaxRestarts = 0
  MaxDeploys = 0
SPECIFICATION LiveSpec
PROPERTIES SendsSpec DeliverySettles
CHECK_DEADLOCK FALSE
