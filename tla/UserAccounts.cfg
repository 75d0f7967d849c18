\* Two wallets and three requests in any order, with a restart.
SPECIFICATION Spec
CONSTANTS
  Wallet = {w1, w2}
  Email = {e1}
  Chat = {c1}
  None = None
  MaxRequests = 3
  MaxRestarts = 1
SYMMETRY MCSymmetry
INVARIANTS TypeOK TokensAreSpentOnce AddressesAreExclusive ChoicesWereAskedFor
PROPERTIES NewAccountsAreBlank
\* The bound on requests stops the instance.
CHECK_DEADLOCK FALSE
