\* Two wallets, two operations, pages of one operation: a window spans pages.
SPECIFICATION Spec
CONSTANTS
  Wallet = {w1, w2}
  Hash = {h1, h2}
  Slot = {s1}
  OpStatus <- MCOpStatus
  NoRow = NoRow
  Batch = 1
  LevelParam = "ge"
  MaxLevel = 3
  MaxPerBlock = 2
  MaxRows = 2
  MaxAborts = 1
SYMMETRY MCSymmetry
INVARIANTS TypeOK RowsTellTheTruth OnlyLateRowsAreStranded ScanCoversWindow
