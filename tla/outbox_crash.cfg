\* The API process dies between the insert of a row and the add of its job.
CONSTANTS
  Keys = {k1}
  Callers = {c1}
  Admins = {}
  Workers = {w1}
  NoKey = NoKey
  MaxAttempts = 2
  MaxStalledCount = 1
  MaxTries = 2
  MaxFaults = 1
  MaxStalls = 0
SPECIFICATION Spec
INVARIANTS
  NoOrphanedRow
CHECK_DEADLOCK FALSE
