\* Three bakers, of which one page of the snapshot and one list hold two; one
\* changes while a snapshot is asked for and written; TzKT answers badly three
\* times, two in a row make a call throw; one write or process fails.
SPECIFICATION Spec
CONSTANTS
  Baker = {b1, b2, b3}
  Fees <- MCFees
  NoRow = NoRow
  SnapshotLimit = 2
  MaxChanges = 1
  MaxAborts = 1
  ThrottleUnits = 2
  MaxRetries = 2
  Backoff <- MCBackoff
  MaxBad = 3
  Limit = 2
INVARIANTS TypeOK ShortOutagesAreAbsorbed
PROPERTIES RequestsAreSpaced ActiveBakersListed
