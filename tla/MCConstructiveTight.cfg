CONSTANTS
  alone = alone
  g = g
  h = h
  Alone = alone
  SX = 3
  SY = 1
  SZ = 4
  Lines <- TightLines
SPECIFICATION Spec
INVARIANTS
  WontFitMeansNothingFits
CHECK_DEADLOCK FALSE
