SPECIFICATION MCSpec
CONSTANTS
  Packages = {p1, p2, p3}
  Workers = {w1, w2}
  LowWater = 2
  PackageTtl = 1
  RetainFor = 0
  PageLimit = 2
  MaxEpoch = 2
  MaxCommits = 3
  MaxWrites = 3
  MaxLows = 2
  MaxNow = 2
  Faults = TRUE
  Users = {u1, u2}
  MaxSessions = 3
  MaxHooks = 3
  MaxCleaners = 2
  u1 = u1
  None = None
INVARIANTS LowIsTold PagingComplete InfoCoversCommits BarredAreOut SessionStartsFresh
PROPERTIES GivenOnce LiveGroupSpared
SYMMETRY Interchangeable
CHECK_DEADLOCK FALSE
