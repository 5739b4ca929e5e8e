SPECIFICATION Spec
CONSTANTS
  Procs = {p1, p2}
  Users = {u1, u2}
  LockIds = {l1, l2}
  SessionIds = {}
  Tokens = {t1, t2, t3}
  Editors = {"onlyoffice"}
  Handlers = {"lockStatus", "lockAcquire", "lockRefresh", "lockRelease", "forceUnlock", "officeOpen"}
  None = None
  EmptyToken = EmptyToken
SYMMETRY Symmetry
PROPERTIES
  ImplementsLease
