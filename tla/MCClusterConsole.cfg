CONSTANTS
  p1 = p1
  p2 = p2
  Ports <- MCPorts
  States <- MCStates
  QueueCap = 2
  MaxOps = 2
  MaxMoves = 1
  MaxCloses = 1
SYMMETRY PortSymmetry
SPECIFICATION Spec
CHECK_DEADLOCK FALSE
INVARIANTS TypeOK ShowsTheCluster
