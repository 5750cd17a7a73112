SPECIFICATION MCSpec
CONSTANTS
  c1 = c1
  c2 = c2
  u1 = u1
  d1 = d1
  Conns = {c1, c2}
  Users = {u1}
  Devices = {d1}
  UserOf <- OneUser
  DeviceOf <- OneDevice
  Workers = {w1}
  Kinds = {"kick", "leave", "revoke", "revokeAll"}
  Buf = 1
  None = None
INVARIANTS HubConsistent OutsidersCut
PROPERTY EventuallyUnregistered
CHECK_DEADLOCK FALSE
