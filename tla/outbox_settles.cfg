\* One stalled worker, one replay: every row is finished.
CONSTANTS
  Keys = {k1}
  Callers = {c1}
  Admins = {a1}
  Workers = {w1, w2}
  NoKey = NoKey
  MaxAttempts = 3
  MaxStalledCount = 1
  MaxTries = 3
  MaxFaults = 0
  MaxStalls = 1
SPECIFICATION FairSpec
PROPERTIES
  EventuallySettled
  RecoversAfterOutage
  DeliverySpec
CHECK_DEADLOCK FALSE
