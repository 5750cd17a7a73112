SPECIFICATION Spec
CONSTANTS
  Users = {u1}
  Idx <- OneIdx
  Contents = {c1, c2}
  Plans <- OneChunkPlans
  Sizes = {1}
  SizeOf <- UnitSizes
  Ttl = 3
  MaxLifetime = 5
  Grace = 1
  None = None
  Archives = {a1}
  Workers = {w1, w2}
  Purger = Purger
  Backend = "s3"
  Kinds = {"init", "window", "upload", "confirm", "finalize", "manifest", "download", "ack", "delete"}
  UserQuota = 1
  StagingCap = 2
  PresignTtl = 1
  Faults = TRUE
  MaxNow = 4
  c1 = c1
  c2 = c2
SYMMETRY Interchangeable
INVARIANTS FinalizedBound RowsHaveObjects AckReady
PROPERTIES ChunkRowsFrozen LifecycleMonotone SupersedeSparesActive
CHECK_DEADLOCK FALSE
