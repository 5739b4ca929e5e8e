SPECIFICATION Spec
CONSTANTS
  Handlers = {"presign", "restore", "remove", "other"}
  Procs = {p1, p2}
  Contents = {c1, c2}
  RecordIds = {r1, r2}
  MaxVersions = 2
  Keys = {"plain", "escaped", "percent"}
  None = None
SYMMETRY Symmetry
INVARIANTS
  TypeOK
  Numbered
  OwnVersions
  RecordsDescribeCopies
  ArchivesKept
