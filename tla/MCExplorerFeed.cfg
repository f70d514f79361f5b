CONSTANTS
  alice = alice
  Users <- MCUsers
  NoUser = NoUser
  Tries = 2
  MaxHeight = 2
  MaxLoads = 3
  MaxBreaks = 1
  MaxVisits = 2
SPECIFICATION Spec
CHECK_DEADLOCK FALSE
INVARIANTS TypeOK OneStream ShowsTheTip
