\* Two accounts, two dispatches at a time, one crash or one database fault,
\* in production, in development and without e-mail.
SPECIFICATION Spec
CONSTANTS
  Wallet = {w1, w2}
  Email = {e1}
  Chat = {c1}
  None = None
  Deployments <- MCDeployments
  MaxCalls = 2
  MaxFailures = 1
SYMMETRY MCSymmetry
INVARIANTS TypeOK SentWasDelivered PendingRowsHaveADispatch ReturnedCallsTriedAllChannels
\* The bound on calls of enqueue stops the instance; the program goes on.
CHECK_DEADLOCK FALSE
