\* The components around a shipment, two or three concurrent requests each.
\* The components never meet, so they share model values: one symmetry then serves all.
CONSTANTS
  p1 = p1
  p2 = p2
  v1 = v1
  v2 = v2
  v3 = v3
  t1 = t1
  Claimers = {e1, e2, e3}
  MaxListings = 3
  MaxCallFailures = 2
  MaxClaimCrashes = 1
  MaxTrips = 2
  Parcels = {b1}
  Requests = {e1, e2}
  MaxTripCrashes = 1
  Shipments = {e1, e2}
  Trips = {t1}
  TripHits <- AllPairs
  ShipmentHits <- AllPairs
  Take = 1
  MaxJobAttempts = 2
  MaxPublishers = 2
  MaxUpsets = 2
  ReviewCalls = {v1, v2, v3}
  Reviewed = {p1, p2}
  ReviewOf <- ReviewOfCalls
  Processes = {e1, e2}
  MaxRows = 2
  MaxStarts = 2
  MaxRedisErrors = 1
  Writers = {e1, e2}
  Weights = {1, 2}
  MaxNewEntries = 3
  MaxHalfDone = 1
  h1 = h1
  h2 = h2
  ChatCallers = {h1, h2}
  PartyOf <- PartyOfChatCallers
  PageSize = 1
  MaxMessages = 2
  MaxEvents = 1
  Quoters = {e1, e2}
  RuleIds = {e1, e2}
  RuleInputs <- RulesOfAdmins
  Cargos = {"COSMETICS"}
  Kilos = {1, 2}
  Offers = {221000}
  Given = {{}, {"to"}, {"kilos"}}
  Drifts <- DriftsOfDoubles
  MaxEdits = 2
  MaxQuoted = 3
  Entries = {e1, e2, e3}
  Places = {1, 2, 3}
  AskedLimits = {0, 3}
  DefaultLimit = 2
  MaxLimit = 2
  MaxChanges = 2
  o1 = o1
  Tellers = {e1, e2}
  OfRow = o1
  MaxRowTries = 2
  MaxCutShort = 1
  MaxReplays = 1
SPECIFICATION MarketAreaSpec
SYMMETRY MarketAreaSymmetry
INVARIANTS
  MarketAreaTypeOK
  DraftsAccounted
  PricesSound
  ChatKept
  CountersMatchRows
  NoPairMissed
  PagesMakeList
  PartiesTold
PROPERTIES
  BoardConsistent
  ReviewsCounted
  RecordFollowed
  PricesInForce
CHECK_DEADLOCK FALSE
