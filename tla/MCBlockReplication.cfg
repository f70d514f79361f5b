CONSTANTS
  n1 = n1
  n2 = n2
  n3 = n3
  s1 = s1
  s2 = s2
  Node <- Nodes
  Boot <- n1
  Submission <- Pair
  TxOf <- RetryTxOf
  BatchSize = 2
  MaxBlocks = 2
  MaxRejoins = 1
SYMMETRY PairSymmetry
SPECIFICATION Spec
CHECK_DEADLOCK FALSE
INVARIANTS
  TypeOK
  LeaderChain
  NoDoubleOrder
  LogMatching
  CommittedByLeader
  MajorityHolds
PROPERTIES
  OrdersTotally
  SyncFollowsLeader
