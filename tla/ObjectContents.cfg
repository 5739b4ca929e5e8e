SPECIFICATION Spec
CONSTANTS
  Kinds = {"copy", "move", "trash", "permanent", "restore", "purge", "mkdir"}
  Names = {n1, n2}
  Procs = {p1, p2}
  Contents = {c1}
  Empty = c1
  Unescapings <- NameReadings
  None = None
SYMMETRY Symmetry
CONSTRAINT Kept
INVARIANT TypeOK
PROPERTY NothingVanishes
