\* Two requests and both cron jobs race on a shipment, or one request meets
\* calls without an answer.
CONSTANTS
  Shipments = {s1}
  Trips = {t1}
  Requests = {r1, r2}
  Pollers = {poller}
  Releasers = {releaser}
  NoShipment = NoShipment
  NoTrip = NoTrip
  Ops <- OutboxOps
  Weights = {1, 2}
  Capacity = 2
  MaxAvailable = 2
  MaxUnanswered = 1
  MaxFaults = 1
SPECIFICATION Spec
CONSTRAINT MixedBounds
SYMMETRY SymmetrySets
INVARIANTS
  TypeOK
  PaidIsFunded
  MoneyMovesWithCause
  ResolvedAfterFinance
PROPERTIES
  UsesDelivery
CHECK_DEADLOCK FALSE
