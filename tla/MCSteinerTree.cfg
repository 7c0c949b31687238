CONSTANTS
  SX = 3
  SY = 1
  SZ = 3
  Hard <- MCHard
  Calls <- MCCalls
  Starts = 2
  LateStarts = 1
SPECIFICATION Spec
INVARIANTS
  TreeIsSound
  PairIsCheapest
  EvenTreeIsFound
PROPERTIES
  SkippedCouldNotWin
CHECK_DEADLOCK FALSE
