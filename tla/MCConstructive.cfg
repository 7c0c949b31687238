CONSTANTS
  alone = alone
  g = g
  h = h
  Alone = alone
  SX = 4
  SY = 1
  SZ = 4
  Lines <- MCLines
SPECIFICATION Spec
INVARIANTS
  PlacementsLegal
  GroupingNeverLoses
PROPERTIES
  ColumnsBackToFront
CHECK_DEADLOCK FALSE
