----------------------------- MODULE TripBoard -----------------------------
(***************************************************************************)
(* The trips of one carrier, the trip counter on the carrier, and the      *)
(* parcels assigned to the trips.  Publish, cancel and delete read the     *)
(* trip, look for active parcels in a second await and write by id in a    *)
(* third; assign reads parcel and trip and writes by id, and so does every *)
(* request that moves an offered parcel on: its status, not its trip.      *)
(* Capacities are in ShipmentLifecycle.                                    *)
(***************************************************************************)
EXTENDS Integers, FiniteSets

CONSTANTS
  MaxTrips,        \* bound on the rows of trips
  Parcels,
  Requests,        \* requests of the carrier and of the senders
  MaxTripCrashes   \* bound on the requests that stop between two calls

ASSUME BoardAssumption == MaxTrips \in Nat /\ MaxTripCrashes \in Nat

VARIABLES
  trip,        \* trip[t]: status of the row, "none" before and "gone" after it exists
  totalTrips,  \* users.totalTrips of the carrier
  parcel,      \* parcel[p]: the shipment's trip; PENDING stands for CANCELLED too, MATCHED for
               \* every status that hasActiveShipments counts
  request,     \* request[r]: the call in progress
  tripCrashes,
  raced        \* parcels assigned while a delete of their trip was past its check, or whose
               \* status was written after they had been taken off the trip

boardVars == <<trip, totalTrips, parcel, request, tripCrashes, raced>>

TripIds == 1..MaxTrips
NoTrip == 0
\* late: since this request read it, the trip changed or the parcel was taken off.
NoRequest == [pc |-> "idle", trip |-> NoTrip, parcel |-> "none", late |-> FALSE]
Exists(t) == trip[t] \in {"DRAFT", "ACTIVE", "CANCELLED"}
Pending(pc) == {r \in Requests : request[r].pc = pc}

BoardTypeOK ==
  /\ trip \in [TripIds -> {"none", "gone", "DRAFT", "ACTIVE", "CANCELLED"}]
  /\ totalTrips \in Int
  /\ parcel \in [Parcels -> [status: {"PENDING", "MATCHED"}, trip: TripIds \cup {NoTrip}]]
  /\ \A p \in Parcels : parcel[p].trip # NoTrip =>
       Exists(parcel[p].trip) /\ parcel[p].status = "MATCHED"
  /\ request \in [Requests -> [pc: {"idle", "countCreated", "publish", "checkCancel", "cancel",
                                    "checkDelete", "delete", "countDeleted", "assign", "status"},
                               trip: TripIds \cup {NoTrip}, parcel: Parcels \cup {"none"},
                               late: BOOLEAN]]
  /\ tripCrashes \in 0..MaxTripCrashes
  /\ raced \subseteq Parcels

BoardInit ==
  /\ trip = [t \in TripIds |-> "none"]
  /\ totalTrips = 0
  /\ parcel = [p \in Parcels |-> [status |-> "PENDING", trip |-> NoTrip]]
  /\ request = [r \in Requests |-> NoRequest]
  /\ tripCrashes = 0 /\ raced = {}

Begins(r, pc, t) ==
  /\ request[r].pc = "idle"
  /\ request' = [request EXCEPT ![r] = [NoRequest EXCEPT !.pc = pc, !.trip = t]]
Proceed(r, pc) == request' = [request EXCEPT ![r].pc = pc]
Return(r) == request' = [request EXCEPT ![r] = NoRequest]

\* Request r writes trip t and goes on at pc; the others on that trip are late.
WriteTrip(r, t, status, pc) ==
  /\ trip' = [trip EXCEPT ![t] = status]
  /\ request' = [o \in Requests |->
       CASE o = r -> IF pc = "idle" THEN NoRequest ELSE [request[r] EXCEPT !.pc = pc]
         [] o # r -> [request[o] EXCEPT !.late = @ \/ request[o].trip = t]]

----------------------------------------------------------------------------
(* CreateTripUseCase *)

CreateTrip(r) ==
  /\ request[r].pc = "idle"
  /\ \E t \in TripIds :
       /\ trip[t] = "none" /\ \A o \in 1..(t - 1) : trip[o] # "none"
       /\ WriteTrip(r, t, "DRAFT", "countCreated")
  /\ UNCHANGED <<totalTrips, parcel, tripCrashes, raced>>

CountCreated(r) ==
  /\ request[r].pc = "countCreated"
  /\ totalTrips' = totalTrips + 1
  /\ Return(r)
  /\ UNCHANGED <<trip, parcel, tripCrashes, raced>>

----------------------------------------------------------------------------
(* PublishTripUseCase *)

\* Mutant of Publishable.
PublishableUnlessActive(t) == Exists(t) /\ trip[t] # "ACTIVE"
Publishable(t) == trip[t] = "DRAFT"

FindForPublish(r, t) ==
  /\ Publishable(t)
  /\ Begins(r, "publish", t)
  /\ UNCHANGED <<trip, totalTrips, parcel, tripCrashes, raced>>

Publish(r) ==
  /\ request[r].pc = "publish"
  /\ IF Exists(request[r].trip) THEN WriteTrip(r, request[r].trip, "ACTIVE", "idle")
                                ELSE Return(r) /\ UNCHANGED trip
  /\ UNCHANGED <<totalTrips, parcel, tripCrashes, raced>>

----------------------------------------------------------------------------
(* CancelTripUseCase and DeleteTripUseCase *)

Blocking(p, t) == parcel[p].trip = t /\ parcel[p].status # "PENDING"
HasActiveShipments(t) == \E p \in Parcels : Blocking(p, t)

FindForCancel(r, t) ==
  /\ Exists(t)
  /\ Begins(r, "checkCancel", t)
  /\ UNCHANGED <<trip, totalTrips, parcel, tripCrashes, raced>>

FindForDelete(r, t) ==
  /\ Exists(t)
  /\ Begins(r, "checkDelete", t)
  /\ UNCHANGED <<trip, totalTrips, parcel, tripCrashes, raced>>

CheckActiveShipments(r, check, write) ==
  /\ request[r].pc = check
  /\ IF HasActiveShipments(request[r].trip) THEN Return(r) ELSE Proceed(r, write)
  /\ UNCHANGED <<trip, totalTrips, parcel, tripCrashes, raced>>

CancelTrip(r) ==
  /\ request[r].pc = "cancel"
  /\ IF Exists(request[r].trip) THEN WriteTrip(r, request[r].trip, "CANCELLED", "idle")
                                ELSE Return(r) /\ UNCHANGED trip
  /\ UNCHANGED <<totalTrips, parcel, tripCrashes, raced>>

\* The delete of a row that is gone throws, and nothing is counted.
Deletable(t) == Exists(t)

\* The foreign key sets the trip of the parcels to null.
DeleteTrip(r) ==
  /\ request[r].pc = "delete"
  /\ LET t == request[r].trip
     IN IF Deletable(t)
        THEN /\ WriteTrip(r, t, "gone", "countDeleted")
             /\ parcel' = [p \in Parcels |-> IF parcel[p].trip = t
                                             THEN [parcel[p] EXCEPT !.trip = NoTrip] ELSE parcel[p]]
        ELSE Return(r) /\ UNCHANGED <<trip, parcel>>
  /\ UNCHANGED <<totalTrips, tripCrashes, raced>>

CountDeleted(r) ==
  /\ request[r].pc = "countDeleted"
  /\ totalTrips' = totalTrips - 1
  /\ Return(r)
  /\ UNCHANGED <<trip, parcel, tripCrashes, raced>>

----------------------------------------------------------------------------
(* AssignShipmentToTripUseCase; rejectOffer and cancel take the parcel off   *)

\* Whatever the status of the trip is
FindForAssign(r, p, t) ==
  /\ parcel[p].status = "PENDING" /\ Exists(t)
  /\ request[r].pc = "idle"
  /\ request' = [request EXCEPT ![r] =
                   [pc |-> "assign", trip |-> t, parcel |-> p, late |-> FALSE]]
  /\ UNCHANGED <<trip, totalTrips, parcel, tripCrashes, raced>>

ForeignKeyHolds(t) == Exists(t)
PastCheck(t) == \E r \in Pending("delete") : request[r].trip = t

\* By id, over another assignment made meanwhile; refused when the trip is gone.
AssignToTrip(r) ==
  /\ request[r].pc = "assign"
  /\ LET t == request[r].trip
         p == request[r].parcel
     IN IF ForeignKeyHolds(t)
        THEN /\ parcel' = [parcel EXCEPT ![p] = [status |-> "MATCHED", trip |-> t]]
             /\ raced' = IF PastCheck(t) THEN raced \cup {p} ELSE raced \ {p}
        ELSE UNCHANGED <<parcel, raced>>
  /\ Return(r)
  /\ UNCHANGED <<trip, totalTrips, tripCrashes>>

\* reject and cancel, of an offer or of what became of it since their read
RejectOffer(p) ==
  /\ parcel[p].status = "MATCHED"
  /\ parcel' = [parcel EXCEPT ![p] = [status |-> "PENDING", trip |-> NoTrip]]
  /\ raced' = raced \ {p}
  /\ request' = [o \in Requests |->
       [request[o] EXCEPT !.late = @ \/ (request[o].pc = "status" /\ request[o].parcel = p)]]
  /\ UNCHANGED <<trip, totalTrips, tripCrashes>>

----------------------------------------------------------------------------
(* The requests, jobs and pollers that move an offered parcel on: accept,    *)
(* payment, progress, dispute and resolution                                 *)

FindForStatus(r, p) ==
  /\ parcel[p].status = "MATCHED"
  /\ request[r].pc = "idle"
  /\ request' = [request EXCEPT ![r] = [NoRequest EXCEPT !.pc = "status", !.parcel = p]]
  /\ UNCHANGED <<trip, totalTrips, parcel, tripCrashes, raced>>

\* By id, and not the trip: the parcel may have been taken off it meanwhile.
WriteStatus(r) ==
  /\ request[r].pc = "status"
  /\ LET p == request[r].parcel
     IN /\ parcel' = [parcel EXCEPT ![p].status = "MATCHED"]
        /\ raced' = IF request[r].late /\ parcel[p].status = "PENDING" THEN raced \cup {p}
                    ELSE raced
  /\ Return(r)
  /\ UNCHANGED <<trip, totalTrips, tripCrashes>>

----------------------------------------------------------------------------

CrashRequest(r) ==
  /\ tripCrashes < MaxTripCrashes
  /\ request[r].pc # "idle"
  /\ tripCrashes' = tripCrashes + 1
  /\ Return(r)
  /\ UNCHANGED <<trip, totalTrips, parcel, raced>>

BoardNext ==
  \/ \E r \in Requests :
       \/ CreateTrip(r) \/ CountCreated(r)
       \/ Publish(r) \/ CancelTrip(r) \/ DeleteTrip(r) \/ CountDeleted(r)
       \/ CheckActiveShipments(r, "checkCancel", "cancel")
       \/ CheckActiveShipments(r, "checkDelete", "delete")
       \/ AssignToTrip(r) \/ WriteStatus(r) \/ CrashRequest(r)
  \/ \E r \in Requests, t \in TripIds :
       FindForPublish(r, t) \/ FindForCancel(r, t) \/ FindForDelete(r, t)
  \/ \E r \in Requests, t \in TripIds, p \in Parcels : FindForAssign(r, p, t)
  \/ \E r \in Requests, p \in Parcels : FindForStatus(r, p)
  \/ \E p \in Parcels : RejectOffer(p)

BoardSpec == BoardInit /\ [][BoardNext]_boardVars

----------------------------------------------------------------------------
(* Properties *)

Distance(a, b) == IF a > b THEN a - b ELSE b - a

\* The counter on the carrier is written apart from the rows it counts; it still
\* agrees with them, whatever creations and deletions overlap, up to the writes
\* that are still to come and one for each request that stopped halfway.
TripCountBalanced ==
  Distance(totalTrips + Cardinality(Pending("countCreated")) - Cardinality(Pending("countDeleted")),
           Cardinality({t \in TripIds : Exists(t)})) <= tripCrashes

\* A parcel that is matched, or further, keeps its trip.  It loses it only to an
\* assignment that falls between the check for active parcels and the delete, or to a
\* status that was decided before a reject or cancel took the parcel off and is written
\* after it (an accept or a payment that crosses them).
OfferLosesTripOnlyByRace ==
  \A p \in Parcels : parcel[p].status = "MATCHED" /\ parcel[p].trip = NoTrip => p \in raced

\* A cancelled trip comes back only by a publish that read it before the cancel.
RevivedOnlyByLatePublish ==
  [][\A t \in TripIds : trip[t] = "CANCELLED" /\ trip'[t] = "ACTIVE" =>
       \E r \in Pending("publish") : request[r].trip = t /\ request[r].late]_boardVars

\* What is written apart from a trip's row (the carrier's counter, the parcels'
\* trips) agrees with it but for requests that raced or stopped halfway, and a
\* cancelled trip stays cancelled but for a late publish.
BoardConsistent ==
  [](TripCountBalanced /\ OfferLosesTripOnlyByRace) /\ RevivedOnlyByLatePublish
=============================================================================
