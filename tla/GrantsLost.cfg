SPECIFICATION GrantsSafe
CONSTANTS
  Procs = {p1, p2}
  None = None
  Accounts = {a1}
  BucketNames = {n1}
  BucketIds <- TwoIds
  MaxRequests = 3
INVARIANT OwnBucketsStay
CHECK_DEADLOCK FALSE
