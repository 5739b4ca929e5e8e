SPECIFICATION Spec
CONSTANTS
  Procs = {p1, p2}
  Users = {u1, u2}
  LockIds = {l1}
  SessionIds = {s1}
  Tokens = {t1, t2}
  Editors = {"monaco"}
  Handlers = {"textOpen", "lockAcquire"}
  None = None
  EmptyToken = EmptyToken
SYMMETRY Symmetry
INVARIANTS
  OccupiedOpensReadOnly
