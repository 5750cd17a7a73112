SPECIFICATION MCSpec
CONSTANTS
  Entries = {e1, e2}
  Owner <- OneOwner
  PubKeys = {k1}
  Readers = {}
  LogFaults = {"head"}
  MaxSize = 4
  MaxRestarts = 2
  Scenarios = {"log"}
  Data = {}
  MaxLeaves = 0
  e1 = e1
  e2 = e2
  k1 = k1
  NoEntry = NoEntry
INVARIANTS TreeMatchesLog
CHECK_DEADLOCK FALSE
