SPECIFICATION FairSpec
CONSTANTS
  Nodes = {n1}
  Kernels = {k1, k2}
  DefaultKernel = k1
  Handles = {h1, h2, h3}
  Main = main
  Workers = {w1}
  None = None
  MaxEdits = 1
INVARIANTS
  ServicesKept
PROPERTIES
  NothingStartsAfterStop
  AssignmentConverges
