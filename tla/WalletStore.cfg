\* Two accounts to switch between, three calls in any order, one page load more.
SPECIFICATION WalletSpec
CONSTANTS
  Account = {a1, a2}
  None = None
  MaxTasks = 3
  MaxReloads = 1
INVARIANTS WalletTypeOK BusyHasATask
PROPERTIES DisconnectEnds
\* A page on which nothing is pending may stay as it is.
CHECK_DEADLOCK FALSE
