SPECIFICATION GrantsSpec
CONSTANTS
  Procs = {p1, p2}
  None = None
  Accounts = {a1, a2}
  BucketNames = {n1, n2}
  BucketIds <- ThreeIds
  MaxRequests = 2
INVARIANTS LatestReplaceRules RowsHaveBuckets
PROPERTIES LocalGrantStays EveryRequestEnds
CHECK_DEADLOCK FALSE
