SPECIFICATION GateReuseSpec
CONSTANTS
  NPrograms = 2
  Emissions = {"a", "b"}
  Refusals = {"no"}
  Curtailed <- Remains
  Codes <- AllCodes
  Noise <- Noisy
  SlowDelta = 4
  MaxFailing = 1
  StepSets <- Everything
  Faults <- AllFaults
  Missing = Missing
  Malformed = Malformed
  MaxRuns = 2
  MaxLog = 4
  Rewritable <- AllReached
  MaxObjects = 6
INVARIANTS TypeOK GreenBaseline BaselineJudged RegressionReported ReadsAgree
PROPERTIES NoSilentSlowdown AcceptIsAtomic
CHECK_DEADLOCK FALSE
