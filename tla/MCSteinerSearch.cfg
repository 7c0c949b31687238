CONSTANTS
  SX = 3
  SY = 1
  SZ = 3
  Hard <- MCHard
  Queries <- MCQueries
SPECIFICATION SearchSpec
INVARIANTS
  StopIsExact
PROPERTIES
  SettledIsFinal
  Returns
CHECK_DEADLOCK FALSE
