SPECIFICATION MCSpec
CONSTANTS
  Users = {k1, k2}
  Names = {n1, n2}
  Devices = {d1}
  Nonces = {x1}
  Workers = {w1, w2}
  Modes = {"invite_only", "open"}
  UserLimit = 1
  InviteUses = 1
  NonceTtl = 1
  SessionTtl = 1
  BanTtl = 2
  Faults = TRUE
  MaxSessions = 2
  MaxBans = 1
  MaxNow = 2
  Kinds <- InAndOut
  w1 = w1
  w2 = w2
  k1 = k1
  n1 = n1
  None = None
INVARIANTS ChallengeOnce BannedIsCut RevokedIsCut AdmissionsBounded
CHECK_DEADLOCK FALSE
