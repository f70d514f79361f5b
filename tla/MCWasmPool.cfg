CONSTANTS
  Executions = {x1, x2, x3}
  PoolSize = 2
  MaxDeploys = 2
SPECIFICATION Spec
SYMMETRY Symmetry
INVARIANTS
  TypeOK
  OneAtATime
  FreshUnlessOvertaken
CHECK_DEADLOCK FALSE
