SPECIFICATION FairSpec
CONSTANTS
  None = None
  c1 = c1
  c2 = c2
  ua = ua
  ub = ub
  Configs = {c1, c2}
  Invalid = {}
  UserLists = {none, ua}
  NoUsers = none
  Streaming = TRUE
  PartialReload = TRUE
  StatusCap = 1
  MaxEdits = 2
  MaxRenewals = 1
  MaxChanges = 2
PROPERTY PollingConverges
