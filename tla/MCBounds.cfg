SPECIFICATION BoundsSpec
CONSTANTS
  M <- Two
  EdgeSets <- EdgeFamilies
  Cap = 8
  Low = 0
  High = 2
  EMax = 32767
  Atoms <- TwoAtoms
  CoefBits = 7
  LitBound = 8
  Scalars <- SomeLiterals
  Depth = 3
  MaxScales = 1
  Facts <- Ranges
  ArgMax = 3
  EBits = 15
  WordBits = 8
  ShlMax = 13
  ShrMax = 13
  ShrCap = 20
  H = 4
  HalfBits = 2
  WordHi = 63
  Params <- MCParams
  Loops <- MCLoops
  Literals = {1, 144}
  Counts = {1, 4, 5, 8}
  Divisors = {3, 8, 64}
  MaxOps = 2
INVARIANTS TypeOK Closed PathCovered StepSound PairsTypeOK RepresentationIndependent DigitsProven
PROPERTY Terminates
CHECK_DEADLOCK FALSE
