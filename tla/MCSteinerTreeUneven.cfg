CONSTANTS
  SX = 3
  SY = 1
  SZ = 3
  Hard <- MCHard
  Calls <- UnevenCalls
  Starts = 2
  LateStarts = 1
SPECIFICATION Spec
INVARIANTS
  AnyTreeIsFound
CHECK_DEADLOCK FALSE
