SPECIFICATION MCSpec
CONSTANTS
  Guilds = {g1, g2}
  Chans = {c1, c2, c3}
  Workers = {w1, w2}
  Sizes = {1, 2}
  Quota = 2
  MaxAtts = 3
  MaxPos = 2
  Faults = FALSE
  g1 = g1
  Scenarios = {"order"}
  None = None
PROPERTY MovesCollisionFree
SYMMETRY Interchangeable
CHECK_DEADLOCK FALSE
