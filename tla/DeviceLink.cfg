SPECIFICATION Spec
CONSTANTS
  Users = {u1, u2}
  Devices = {d1}
  Keys = {k1}
  RootKey <- SameKeys
  RootDevice <- RootDevices
  Requests = {r1, r2}
  Codes = {x1}
  Claims = {t1, t2}
  Workers = {w1, w2}
  Kinds = {"certify", "revoke"}
  Routes = {"qr", "code"}
  Expiry = 1
  Faults = TRUE
  MaxNow = 2
  u1 = u1
  u2 = u2
  d1 = d1
  d2 = d2
  k1 = k1
  k2 = k2
  None = None
INVARIANTS ClaimSingleUse ResultAfterRegistration
SYMMETRY Interchangeable
CHECK_DEADLOCK FALSE
