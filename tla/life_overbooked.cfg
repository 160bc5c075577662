\* Two assignments to one trip at the same time.
CONSTANTS
  Shipments = {s1, s2}
  Trips = {t1}
  Requests = {r1, r2}
  Pollers = {}
  Releasers = {}
  NoShipment = NoShipment
  NoTrip = NoTrip
  Ops <- MatchingOps
  Weights = {1}
  Capacity = 1
  MaxAvailable = 1
  MaxUnanswered = 0
  MaxFaults = 0
SPECIFICATION Spec
INVARIANTS
  NeverOverbooked
CHECK_DEADLOCK FALSE
