SPECIFICATION MCSpec
CONSTANTS
  W = 3
  MaxSeq = 6
  Callers = {"x", "y", "z"}
  MaxForgets = 2
  MaxFaults = 1
  None = None
  c1 = c1
  c2 = c2
  ua = ua
  ub = ub
  Configs = {c1, c2, bad}
  Invalid = {bad}
  UserLists = {none, ua, ub}
  NoUsers = none
  Streaming = TRUE
  PartialReload = TRUE
  StatusCap = 1
  MaxNodeEdits = 2
  MaxRenewals = 1
  MaxChanges = 3
  Names = {"a", "b", "c"}
  MaxTokens = 2
  MaxCommands = 3
  MaxCuts = 1
  Nodes = {"n1", "n2"}
  MaxEdits = 2
SYMMETRY Symmetry
CHECK_DEADLOCK FALSE
INVARIANTS
  FreshPasses
  CallsOnce
  BaselineServed
  FilesFollowCommands
  
PROPERTIES
  AcknowledgedForward ImplementsChannel
