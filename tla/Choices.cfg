CONSTANTS
  rent = rent
  food = food
  p = p
  q = q
  N = 2
  Categories = {rent, food}
  Transfer = transfer
  DepotTransfer = depottransfer
  LabelLimit = 1
  Phrases = {p, q}
  Text <- Texts
  Lesson <- Merchants
  Builtin <- Builtins
  OwnIban = {}
  SourceIban = {}
  SameHolder <- Holders
  DepotIban = {2}
  Priorities = {10, 50}
  Sessions = {s1, s2}
  None = None
SPECIFICATION Spec
INVARIANTS
  TypeOK
  ManualChoiceStays
  CategoriesFollowRules
PROPERTIES
  ExcludeStays
  NewestTeaches
SYMMETRY Alike
CHECK_DEADLOCK FALSE
