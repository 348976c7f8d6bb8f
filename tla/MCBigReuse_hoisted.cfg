SPECIFICATION ReuseSpec
CONSTANTS
  Rewritable <- Hoisted
  MaxObjects = 6
INVARIANT ReadsAgree
CHECK_DEADLOCK FALSE
