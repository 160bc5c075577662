\* The partial refund of a split settlement goes through the outbox.
CONSTANTS
  Shipments = {s1}
  Trips = {t1}
  Requests = {r1}
  Pollers = {poller}
  Releasers = {}
  NoShipment = NoShipment
  NoTrip = NoTrip
  Ops <- OutboxOps
  Weights = {1}
  Capacity = 1
  MaxAvailable = 1
  MaxUnanswered = 1
  MaxFaults = 0
SPECIFICATION Spec
INVARIANTS
  SplitReleasesRemainder
CHECK_DEADLOCK FALSE
