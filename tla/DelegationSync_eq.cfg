\* The query as the code sends it: level=<first level>, an equality in TzKT.
SPECIFICATION Spec
CONSTANTS
  Wallet = {w1}
  Hash = {h1}
  Slot = {s1}
  OpStatus <- MCOpStatus
  NoRow = NoRow
  Batch = 1
  LevelParam = "eq"
  MaxLevel = 3
  MaxPerBlock = 1
  MaxRows = 1
  MaxAborts = 1
INVARIANTS ScanCoversWindow
CHECK_DEADLOCK FALSE
