\* A shipment is assigned again after its first offer was rejected.
CONSTANTS
  Shipments = {s1}
  Trips = {t1}
  Requests = {r1}
  Pollers = {}
  Releasers = {}
  NoShipment = NoShipment
  NoTrip = NoTrip
  Ops <- MatchingOps
  Weights = {1}
  Capacity = 1
  MaxAvailable = 1
  MaxUnanswered = 0
  MaxFaults = 0
SPECIFICATION Spec
INVARIANTS
  MatchedHasChat
CHECK_DEADLOCK FALSE
