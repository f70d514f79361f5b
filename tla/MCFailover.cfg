CONSTANTS
  n0 = n0
  n1 = n1
  n2 = n2
  n3 = n3
  n4 = n4
  None = None
  Node <- Four
  Boot <- n0
  Priority <- JoinOrder
  Mortal <- FirstTwo
  Prompt = TRUE
  MaxClaims = 3
  MaxFailures = 0
SPECIFICATION FairSpec
CHECK_DEADLOCK FALSE
PROPERTIES LeaderReturns
