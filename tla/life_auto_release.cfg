\* A dispute is opened while the auto-release job is between its read and its write.
CONSTANTS
  Shipments = {s1}
  Trips = {t1}
  Requests = {r1}
  Pollers = {poller}
  Releasers = {releaser}
  NoShipment = NoShipment
  NoTrip = NoTrip
  Ops <- RaceOps
  Weights = {1}
  Capacity = 1
  MaxAvailable = 1
  MaxUnanswered = 0
  MaxFaults = 0
SPECIFICATION Spec
PROPERTIES
  AutoReleaseFromDelivered
CHECK_DEADLOCK FALSE
