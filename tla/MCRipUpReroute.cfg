CONSTANTS
  lv = lv
  mv = mv
  hv = hv
  c1 = c1
  c2 = c2
  c3 = c3
  c4 = c4
  Net <- MCNet
  Cell <- MCCell
  Lays <- MCLays
  Rank <- MCRank
  MaxPasses = 3
SPECIFICATION Spec
INVARIANTS
  TrunksApart
  EveryNetAnswered
  RepeatIsHopeless
  StopsInTime
CHECK_DEADLOCK FALSE
