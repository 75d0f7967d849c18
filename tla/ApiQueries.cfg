\* Each list of the site, messages marked as read, writes of this page and of
\* others, failed requests, a session that ends and begins again.
SPECIFICATION QuerySpec
CONSTANTS
  Pages <- MCPages
  Nil = Nil
  MaxWrites = 2
  MaxMutations = 1
  MaxFailed = 2
  MaxSignIns = 1
INVARIANTS QueryTypeOK OwnWritesShown
PROPERTIES BadgeCatchesUp
