SPECIFICATION PairsSpec
CONSTANTS
  EMax = 32767
  EBits = 15
  WordBits = 8
  ShlMax = 13
  ShrMax = 13
  ShrCap = 20
  H = 4
  HalfBits = 2
  WordHi = 63
  Params <- MCParams
  Loops <- MCLoops
  Literals = {1}
  Counts = {1, 4, 5, 8}
  Divisors = {3, 8, 64}
  MaxOps = 2
INVARIANT AcceptedDenotes
CHECK_DEADLOCK FALSE
