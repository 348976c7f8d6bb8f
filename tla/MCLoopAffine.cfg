SPECIFICATION ChecksSpec
CONSTANTS
  P = 2
  EMax = 31
  Programs <- Loops
  WordLo <- LeastWord
  WordHi = 15
  JoinRounds = 3
  ThresholdRounds = 16
  LoopBudget = 24
  DescendRounds = 2
  TripRounds = 4
  ScaleMax = 8
  ValMax = 12
  TripCap = 20
  Terms <- SmallTerms
  MaxTrips = 2
  MaxPasses = 4
  LocalPrograms <- LocalFamily
  Inputs = {0, 1, 2}
INVARIANTS TypeOK HeadSound ExitSound TripSound Converges StoresUnseen SameMeaning SingleThreaded
PROPERTY HaltsTrue
CHECK_DEADLOCK FALSE
