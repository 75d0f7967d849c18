\* Two wallets race for one opsHash; one failure may hit any run.
SPECIFICATION FairSpec
CONSTANTS
  Wallet = {w1, w2}
  Hash = {h1}
  Slot = {s1, s2}
  OpStatus <- MCOpStatus
  NoRow = NoRow
  Batch = 1
  LevelParam = "ge"
  MaxLevel = 3
  MaxPerBlock = 1
  MaxRows = 2
  MaxAborts = 1
PROPERTIES TimelyRowsSettle ImplementsLedger
