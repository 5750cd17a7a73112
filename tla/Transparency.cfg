SPECIFICATION MCSpec
CONSTANTS
  Entries = {e1, e2}
  Owner <- OneOwner
  PubKeys = {k1}
  Readers = {p1}
  LogFaults = {"entry", "head", "crash"}
  MaxSize = 3
  MaxRestarts = 2
  Scenarios = {"log", "tree"}
  Data = {"x", "y"}
  MaxLeaves = 7
  e1 = e1
  e2 = e2
  k1 = k1
  NoEntry = NoEntry
INVARIANTS TreeIsRFC6962 VerifyExact ReceiptsKept SoundUnlessFaulted
CHECK_DEADLOCK FALSE
