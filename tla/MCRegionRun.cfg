SPECIFICATION MCSpec
CONSTANTS
  EMax = 15
  EBits = 4
  WordBits = 2
  ShlMax = 2
  ShrMax = 2
  ShrCap = 5
  Inputs <- EdgeIvs
  Literals <- Two
  Ops <- AllOps
  NParams = 2
  MaxValues = 3
  MaxAtoms = 2
  PairRels <- Orders
  Args <- EdgeValues
  OtherOps <- OtherOperations
  OtherSemantics <- BitSemantics
  OtherDefined <- BitDefined
  OtherTransfer <- BitTransfer
INVARIANTS Sound CanonicalFacts
PROPERTY ArmRestored
CHECK_DEADLOCK FALSE
