CONSTANTS
  o1 = o1
  o2 = o2
  Orderer <- Orderers
  Refused <- ThirdRefused
  ChanCap = 1
  SubCap = 1
  MaxBlocks = 3
  MaxBreaks = 2
  MaxCrashes = 1
  MaxFailures = 1
SYMMETRY Symmetry
SPECIFICATION Spec
CHECK_DEADLOCK FALSE
INVARIANTS
  TypeOK
  HeightsFresh
  LossAccounted
  InOrder
PROPERTIES
  StreamForward
