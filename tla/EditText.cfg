SPECIFICATION Spec
CONSTANTS
  Procs = {p1, p2}
  Users = {u1, u2}
  LockIds = {l1}
  SessionIds = {s1, s2}
  Tokens = {t1, t2}
  Editors = {"monaco"}
  Handlers = {"textOpen", "textSave", "textPresignSave", "textCompleteSave", "textClose"}
  None = None
  EmptyToken = EmptyToken
SYMMETRY Symmetry
INVARIANTS
  OneWriter
  OnlyGrantedWrite
