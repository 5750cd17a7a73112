SPECIFICATION MCSpec
CONSTANTS
  Users = {u1, u2, u3}
  Codes = {c1}
  Workers = {w1, w2}
  Kinds <- Everything
  Cap = 1
  MaxUses = 1
  Lifetimes = {1}
  Faults = TRUE
  MaxSanctions = 2
  MaxNow = 1
  None = None
SYMMETRY Interchangeable
INVARIANTS SoleOwner AdminsByOwner LimitsHeld BannedIsOut
PROPERTIES MuteHolds
CHECK_DEADLOCK FALSE
