SPECIFICATION FairSpec
CONSTANTS
  Users = {u1, u2}
  Idx <- OneIdx
  Contents = {c1}
  Plans <- TwoSizedPlans
  Sizes = {1}
  SizeOf <- UnitSizes
  Ttl = 2
  MaxLifetime = 4
  Grace = 1
  None = None
  Archives = {a1, a2}
  Workers = {w1}
  Purger = Purger
  Backend = "postgres_bytea"
  Kinds = {"init", "upload", "confirm", "delete"}
  UserQuota = 1
  StagingCap = 2
  PresignTtl = 2
  Faults = FALSE
  MaxNow = 5
  c1 = c1
  c2 = c2
INVARIANT AdmissionHeld
PROPERTIES EventuallyCollected
CHECK_DEADLOCK FALSE
