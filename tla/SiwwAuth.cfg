\* One tab, two challenges, deliveries up to and past the time to live.
SPECIFICATION Spec
CONSTANTS
  Tab = {t1}
  Wallet = {w1, w2, w3}
  Edpk = {w1, w2}
  TTL = 1
  Skew = 2
  MaxTime = 3
  MaxNonces = 2
  MaxDeliveries = 2
  MaxRestarts = 1
SYMMETRY MCSymmetry
INVARIANTS WelcomedOnce TypeOK AcceptedAreGood GoodAreAccepted
\* The bounds on challenges and seconds stop the instance.
CHECK_DEADLOCK FALSE
