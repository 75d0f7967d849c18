\* A reward scan that may always throw, one failure of the delegation scan,
\* one signal, at any point; pages of one operation.
SPECIFICATION Spec
CONSTANTS
  Batch = 1
  LevelParam = "ge"
  MaxLevel = 3
  MaxPerBlock = 1
  MaxFailures = 1
  MaxSignals = 1
INVARIANTS TypeOK OneScanAtATime
PROPERTIES BrokenSyncStallsNoOther NoSyncBeginsAfterSignal SignalStops
