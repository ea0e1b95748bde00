SPECIFICATION Spec
CONSTANTS
  None = None
  c1 = c1
  c2 = c2
  ua = ua
  ub = ub
  Configs = {c1, c2}
  Invalid = {}
  UserLists = {ua, none}
  NoUsers = none
  Streaming = TRUE
  PartialReload = FALSE
  StatusCap = 1
  MaxEdits = 2
  MaxRenewals = 0
  MaxChanges = 2
SYMMETRY Symmetry
INVARIANTS
  AppliedMeansServed
