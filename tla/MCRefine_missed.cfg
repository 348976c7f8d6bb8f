SPECIFICATION LoopSpec
CONSTANTS
  NumNames = 5
  WordHalf = 1024
  MaxScale = 2
  MaxFacts = 160
  MaxRows = 4096
  Loops <- Missed
  Params <- MCParams
  Length = 3
  MaxLength = 2
  Elements <- Small
  MaxIters = 4
INVARIANT ResultSummarized
CHECK_DEADLOCK FALSE
