SPECIFICATION Spec
CONSTANTS
  Procs = {p1, p2}
  None = None
  \* Uploads
  ObjectKeys = {k1}
  TaskIds = {t1, t2}
  UploadIds = {m1, m2}
  \* Quota
  Buckets = {m1, m2}
  Names = {n1}
  Admissions = {t1, t2}
  Declared <- OneAndThree
  MaxObject = 1
  MaxInt = 3
  LimitChoices <- SomeLimits
  \* ApiAccess
  Applications = {m1, m2}
  AccessKeys = {c1}
  \* Rbac
  Users = {"o", "u"}
  Owner = "o"
  Groups = {"g"}
  PermIds = {"r1"}
  Templates = {"t"}
  RuleIds = {"s1"}
  AssignIds = {"a1"}
  SeenBuckets = {"b"}
  Paths <- ShortPaths
  Bodies <- SomeBodies
  Tables <- SomeTables
  MaxAdmin = 3
  \* RulePass
  RuleChoices <- PassRules
  MaxRules = 3
  Questions <- PassQuestions
  \* Listing
  Positions <- SixKeys
  FolderOf <- TheirFolders
  MaxKeys = 1
  ScanCap = 3
  \* Grants
  Accounts = {m1, m2}
  BucketNames = {n1}
  BucketIds <- TwoIds
  MaxRequests = 2
  \* BucketSettings
  DisplayNames = {n1}
  LogTargets = {b1}
  LogPrefixes = {x1, x2}
  DefaultLogPrefix = x1
  AskedSettings <- SomeSettings
  MaxChanges = 2
INVARIANTS
  TypesOK
  OpenUploadsAreSwept CompletedWereAssembled
  ClosedGatesStayShut KeysHaveApps
  DecisionsAreRight BucketCreateIsAccountWide
  PassAgrees
  StayingAreListed ListedOnce
  RowIsCoherent SettingsMatch
PROPERTIES
  FinishedStays QuotaKept DailyKept ReviewsInOrder
SYMMETRY Symmetry
CHECK_DEADLOCK FALSE
