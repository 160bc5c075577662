\* A shipment paid from the wallet is never seen by the poller.
CONSTANTS
  Shipments = {s1}
  Trips = {t1}
  Requests = {r1}
  Pollers = {poller}
  Releasers = {releaser}
  NoShipment = NoShipment
  NoTrip = NoTrip
  Ops <- WalletOps
  Weights = {1}
  Capacity = 1
  MaxAvailable = 1
  MaxUnanswered = 0
  MaxFaults = 0
SPECIFICATION FairSpec
PROPERTIES
  FundedEscrowIsNoticed
CHECK_DEADLOCK FALSE
