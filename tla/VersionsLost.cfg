SPECIFICATION Spec
CONSTANTS
  Handlers = {"save"}
  Procs = {p1, p2}
  Contents = {c1, c2}
  RecordIds = {r1, r2}
  MaxVersions = 2
  Keys = {"plain"}
  None = None
SYMMETRY Symmetry
INVARIANTS
  OverwrittenIsArchived
