------------------------------ MODULE MCMarket ------------------------------
(* The components around a shipment for TLC.  They share no state, so a    *)
(* behaviour of the run stays in one of them.                              *)
EXTENDS IntakeDrafts, TripBoard, MatchSuggestions, Reviews, MarketStats, ShipmentRecord,
        PriceRules, ChatMessages, Listings, Notices, TLC

CONSTANTS p1, p2, v1, v2, v3, t1, h1, h2, o1

VARIABLE area

ReviewOfCalls == (v1 :> p1) @@ (v2 :> p1) @@ (v3 :> p2)
AllPairs == Shipments \X Trips
PartyOfChatCallers == (h1 :> "sender") @@ (h2 :> "carrier")

\* A rule for everything without a minimum fee, and a cheaper and riskier one for
\* cosmetics that go abroad.
RulesOfAdmins == {
  [active |-> TRUE, from |-> "any", to |-> "any", cargo |-> "any", base |-> 50000,
   perKilo |-> 50000, risk |-> 10, feePercent |-> 10, minFee |-> 0, priority |-> 0],
  [active |-> TRUE, from |-> "home", to |-> "abroad", cargo |-> "COSMETICS", base |-> 20000,
   perKilo |-> 10000, risk |-> 11, feePercent |-> 10, minFee |-> 10000, priority |-> 1]}
\* In binary 200000 * 1.1 is a little more than 220000.
DriftsOfDoubles == {<<200000, 11, 10>>, <<200000, 11, 15>>}

partsVars == <<draftsVars, boardVars, matchVars, reviewsVars, marketVars, recordVars,
                priceVars, chatVars, listingsVars, noticesVars>>

MarketAreaInit ==
  /\ area \in {"drafts", "board", "match", "reviews", "stats", "record", "prices",
               "chat", "lists", "notices"}
  \* A component that is not looked at starts in one way.
  /\ MarketInit /\ (area # "stats" => shipmentRows = 0 /\ tripRows = 0)
  /\ RecordInit /\ (area # "record" => row.weight = 1 /\ row.status = "PENDING")
  \* Rows share a sort key only when one of them comes in or moves.
  /\ ListingsInit /\ IsInjective(place)
  /\ area # "lists" => list = Messages /\ place = <<>> /\ walk.asked = 0
  /\ NoticesInit /\ (area # "notices" => occasion = "match")
  /\ DraftsInit /\ BoardInit /\ MatchInit /\ ReviewsInit /\ PricesInit /\ ChatInit

MarketAreaNext ==
  /\ UNCHANGED area
  /\ \/ /\ area = "drafts" /\ DraftsNext
        /\ UNCHANGED <<boardVars, matchVars, reviewsVars, marketVars,
                       recordVars, priceVars, chatVars, listingsVars, noticesVars>>
     \/ /\ area = "board" /\ BoardNext
        /\ UNCHANGED <<draftsVars, matchVars, reviewsVars, marketVars,
                       recordVars, priceVars, chatVars, listingsVars, noticesVars>>
     \/ /\ area = "match" /\ MatchNext
        /\ UNCHANGED <<draftsVars, boardVars, reviewsVars, marketVars,
                       recordVars, priceVars, chatVars, listingsVars, noticesVars>>
     \/ /\ area = "reviews" /\ ReviewsNext
        /\ UNCHANGED <<draftsVars, boardVars, matchVars, marketVars,
                       recordVars, priceVars, chatVars, listingsVars, noticesVars>>
     \/ /\ area = "stats" /\ MarketNext
        /\ UNCHANGED <<draftsVars, boardVars, matchVars, reviewsVars,
                       recordVars, priceVars, chatVars, listingsVars, noticesVars>>
     \/ /\ area = "record" /\ RecordNext
        /\ UNCHANGED <<draftsVars, boardVars, matchVars, reviewsVars,
                       marketVars, priceVars, chatVars, listingsVars, noticesVars>>
     \/ /\ area = "prices" /\ PricesNext
        /\ UNCHANGED <<draftsVars, boardVars, matchVars, reviewsVars,
                       marketVars, recordVars, chatVars, listingsVars, noticesVars>>
     \/ /\ area = "chat" /\ ChatNext
        /\ UNCHANGED <<draftsVars, boardVars, matchVars, reviewsVars,
                       marketVars, recordVars, priceVars, listingsVars, noticesVars>>
     \/ /\ area = "lists" /\ ListingsNext
        /\ UNCHANGED <<draftsVars, boardVars, matchVars, reviewsVars, marketVars,
                       recordVars, priceVars, chatVars, noticesVars>>
     \/ /\ area = "notices" /\ NoticesNext
        /\ UNCHANGED <<draftsVars, boardVars, matchVars, reviewsVars, marketVars,
                       recordVars, priceVars, chatVars, listingsVars>>

MarketAreaSpec == MarketAreaInit /\ [][MarketAreaNext]_<<area, partsVars>>

\* The type invariant of the component that the behaviour is in.
MarketAreaTypeOK ==
  /\ area = "drafts" => DraftsTypeOK
  /\ area = "board" => BoardTypeOK
  /\ area = "match" => MatchTypeOK
  /\ area = "reviews" => ReviewsTypeOK
  /\ area = "stats" => MarketTypeOK
  /\ area = "record" => RecordTypeOK
  /\ area = "prices" => PricesTypeOK
  /\ area = "chat" => ChatTypeOK
  /\ area = "lists" => ListingsTypeOK
  /\ area = "notices" => NoticesTypeOK

\* The actors of all components are one set.
MarketAreaSymmetry == Permutations(Quoters)
=============================================================================
