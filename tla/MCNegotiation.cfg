CONSTANTS
  a = a
  b = b
  p = p
  q = q
  x = x
  c1 = c1
  c2 = c2
  c3 = c3
  c4 = c4
  k1 = k1
  Net <- MCNet
  Power <- MCPower
  Resource <- MCResource
  Dockless <- MCDockless
  Rank <- MCRank
  Trees <- MCTrees
  Brittle <- MCBrittle
  MaxRounds = 5
  StallRounds = 2
SPECIFICATION Spec
INVARIANTS
  LedgerExact
  CollisionFree
  EveryNetAnswered
  CongestionHasCause
  NoOldOverlap
PROPERTIES
  NeverGivesUpRoutable
  BrokenOffInTime
CHECK_DEADLOCK FALSE
