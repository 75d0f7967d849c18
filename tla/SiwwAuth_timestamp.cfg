\* The user takes a second to sign.
SPECIFICATION Spec
CONSTANTS
  Tab = {t1}
  Wallet = {w1}
  Edpk = {w1}
  TTL = 2
  Skew = 2
  MaxTime = 1
  MaxNonces = 1
  MaxDeliveries = 1
  MaxRestarts = 0
INVARIANTS PostedTimestampIsSigned
\* The bounds on challenges and seconds stop the instance.
CHECK_DEADLOCK FALSE
