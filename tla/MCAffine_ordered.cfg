SPECIFICATION AffineSpec
CONSTANTS
  Terms <- SmallTerms
  MaxTrips = 2
INVARIANT AcceptedOrdered
CHECK_DEADLOCK FALSE
