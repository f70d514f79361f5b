CONSTANTS
  n0 = n0
  n1 = n1
  n2 = n2
  s1 = s1
  s2 = s2
  None = None
  Node <- Nodes
  Boot <- n0
  Priority <- JoinOrder
  Submission <- Two
  TxOf <- OwnTx
  BatchSize = 1
  MaxBlocks = 3
  MaxRejoins = 0
  MaxClaims = 1
SPECIFICATION ChangeSpec
CHECK_DEADLOCK FALSE
INVARIANT NoFork
