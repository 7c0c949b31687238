CONSTANTS
  footprint = footprint
  volume = volume
  columns = columns
  none = none
  Columns = columns
  NoLimit = none
  Modes <- TwoModes
  Outcome <- MCOutcome
  Lines <- MCLines
  Calls <- MCCalls
  Durations = {1, 2}
  MaxBudgetRounds = 3
  MaxSeed = 6
SPECIFICATION Spec
INVARIANTS
  RoundsHold
  NeverWorseThanFast
  ParachuteAtHand
PROPERTIES
  Promise
  Terminates
CHECK_DEADLOCK FALSE
