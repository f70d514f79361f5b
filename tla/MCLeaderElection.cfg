CONSTANTS
  n0 = n0
  n1 = n1
  n2 = n2
  n3 = n3
  n4 = n4
  None = None
  Node <- Three
  Boot <- n0
  Priority <- JoinOrder
  Mortal <- Nobody
  Prompt = FALSE
  MaxClaims = 1
  MaxFailures = 0
SPECIFICATION Spec
CHECK_DEADLOCK FALSE
INVARIANTS TypeOK Outvoted OneLeaderPerTerm
PROPERTIES Succeeds
