SPECIFICATION Spec
CONSTANTS
  Procs = {p1, p2}
  LinkIds = {l1}
  Budgets <- NoLimitOrOne
  Lifetimes = {3}
  Permissions <- Both
  Cap = 3
  Second = 2
  MaxTime = 4
  MaxCount = 2
  None = None
SYMMETRY Symmetry
INVARIANTS
  TypeOK
  AccessNumbersDiffer
  BudgetKept
  UrlsEndWithLink
PROPERTIES
  RevokedIsFinal
