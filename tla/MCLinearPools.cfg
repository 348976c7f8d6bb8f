SPECIFICATION LinearSpec
CONSTANTS
  Questions <- Conjunctions
  NVars = 8
  Asked = 2
  WordBound = 4096
  Budget = 60
  Box = 12
  Easy = 12
  NumNames = 4
  WordHalf = 1024
  MaxScale = 4
  MaxFacts = 160
  MaxRows = 4096
  Inequalities <- LEs
  Equations <- EQs
  Goals <- GoalRows
  Spoken <- Three
  MaxAssumed = 3
  Reach = 3
  Loops <- MCLoops
  Params <- MCParams
  Length = 3
  MaxLength = 2
  Elements <- Small
  MaxIters = 4
  NJobs = 5
  JobsFlag <- Flags
  Entries <- SomeEntries
  Base <- BaseOf
  Host <- HostOf
  Plain = ""
  Widths <- Flags
  Stale <- Copies
INVARIANTS Correct Decides EntailmentSound FactsKept CertificateFound OrderUnseen IndexInRange InvariantsHold ResultSummarized SweepComplete VerdictExact
PROPERTIES SweepReturns Regenerated
