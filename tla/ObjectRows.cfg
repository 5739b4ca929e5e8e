SPECIFICATION Spec
CONSTANTS
  Kinds = {"copy", "move", "trash", "permanent", "restore", "purge", "mkdir", "see"}
  Names = {n1, n2}
  Procs = {p1}
  Contents = {c1, c2}
  Empty = c1
  Unescapings <- Readings
  None = None
SYMMETRY NameSymmetry
CONSTRAINT Undisturbed
INVARIANTS
  NoneRaced
  RecordsDescribeObjects
