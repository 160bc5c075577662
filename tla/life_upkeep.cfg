\* Two requests that keep apart, or one at a time and the cron jobs.
CONSTANTS
  Shipments = {s1, s2}
  Trips = {t1}
  Requests = {r1, r2}
  Pollers = {poller}
  Releasers = {releaser}
  NoShipment = NoShipment
  NoTrip = NoTrip
  Ops <- AllOps
  Weights = {1, 2}
  Capacity = 3
  MaxAvailable = 3
  MaxUnanswered = 0
  MaxFaults = 0
SPECIFICATION FairSpec
CONSTRAINT Within
INVARIANTS
  CapacityBalanced
PROPERTIES
  PaidOrderIsNoticed
  DeliveredIsClosed
CHECK_DEADLOCK FALSE
