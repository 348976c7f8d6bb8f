SPECIFICATION LocalSpec
CONSTANTS
  MaxPasses = 4
  LocalPrograms <- Eliminations
  Inputs = {0, 1, 2}
INVARIANT ProgramOrder
CHECK_DEADLOCK FALSE
