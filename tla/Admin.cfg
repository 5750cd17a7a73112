SPECIFICATION MCSpec
CONSTANTS
  Admins = {a1, a2}
  Templates = {t1, t2, t3}
  Workers = {w1, w2}
  SessionTtl = 1
  RetainFor = 0
  MaxSessions = 2
  MaxKeys = 2
  MaxConfig = 2
  MaxNow = 2
  Faults = TRUE
  None = None
INVARIANTS OwnerKept BootstrapOnce SettingsAgree
SYMMETRY Interchangeable
CHECK_DEADLOCK FALSE
