SPECIFICATION Spec
CONSTANTS
  NPrograms = 2
  Emissions = {"a", "b"}
  Refusals = {"no"}
  Curtailed <- Remains
  Codes <- FlakyCodes
  Noise <- Quiet
  SlowDelta = 4
  MaxFailing = 1
  StepSets <- Whole
  Faults <- NoFaults
  Missing = Missing
  Malformed = Malformed
  MaxRuns = 2
  MaxLog = 4
INVARIANT EveryChangeLogged
CHECK_DEADLOCK FALSE
