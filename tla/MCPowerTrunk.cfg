CONSTANTS
  SX = 4
  SY = 1
  SZ = 3
  Hard <- MCHard
  Calls <- MCCalls
  Scale <- MCScale
  Gauges <- MCGauges
SPECIFICATION Spec
INVARIANTS
  TrunkIsTree
  NoBlockBurns
  NoWastedCable
CHECK_DEADLOCK FALSE
