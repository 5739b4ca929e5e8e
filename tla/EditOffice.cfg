SPECIFICATION Spec
CONSTANTS
  Procs = {p1, p2}
  Users = {u1, u2}
  LockIds = {l1, l2}
  SessionIds = {s1}
  Tokens = {t1, t2}
  Editors = {"onlyoffice"}
  Handlers = {"officeOpen", "officeSaved", "officeClose", "forceUnlock", "lockStatus"}
  None = None
  EmptyToken = EmptyToken
SYMMETRY Symmetry
INVARIANTS
  TypeOK
PROPERTIES
  OwnerEnds
