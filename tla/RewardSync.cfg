\* Windows of several pages, one failure, an account that comes and goes, two
\* claims that may overlap.
SPECIFICATION FairSpec
CONSTANTS
  Wallet = {w1}
  ClaimHash = {c1, c2}
  NoClaim = NoClaim
  Slot = {s1, s2}
  Batch = 1
  LevelParam = "ge"
  MaxLevel = 3
  MaxPerBlock = 1
  MaxUsers = 2
  MaxAborts = 1
INVARIANTS TypeOK RewardsWellOwned OnlySkippedAreMissing
PROPERTIES ScanKeepsRows EligibleGetCredited ClaimIsFinal
\* The bounds on blocks and accounts stop the instance; the program goes on.
CHECK_DEADLOCK FALSE
