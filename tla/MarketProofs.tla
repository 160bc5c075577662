---------------------------- MODULE MarketProofs -----------------------------
(***************************************************************************)
(* Theorems about the trips of the marketplace, the suggestions that match *)
(* shipments with trips, the reviews that follow, the counters of the      *)
(* market and the drafts from which listings are made, for any number of   *)
(* rows, requests, processes, crashes and Redis errors.  The components    *)
(* share no state; each part has the invariant of its component, that it   *)
(* holds initially, that every step keeps it, and the theorems that follow. *)
(***************************************************************************)
EXTENDS TripBoard, MatchSuggestions, Reviews, MarketStats, IntakeDrafts, FiniteSetTheorems, TLAPS

(***************************************************************************)
(* Trips                                                                   *)
(***************************************************************************)

RequestRecords ==
  [pc: {"idle", "countCreated", "publish", "checkCancel", "cancel", "checkDelete", "delete",
        "countDeleted", "assign", "status"},
   trip: TripIds \cup {NoTrip}, parcel: Parcels \cup {"none"}, late: BOOLEAN]

\* What the counter will come to, and what it counts.
Due == totalTrips + Cardinality(Pending("countCreated")) - Cardinality(Pending("countDeleted"))
Rows == {t \in TripIds : Exists(t)}

\* A request under way names its trip and its parcel; a publish and a status write that
\* are not late still find the trip or the parcel as they read it.
RequestSound(r) ==
  /\ request[r].pc \in {"publish", "checkCancel", "cancel", "checkDelete", "delete", "assign"} =>
       request[r].trip \in TripIds
  /\ request[r].pc \in {"assign", "status"} => request[r].parcel \in Parcels
  /\ request[r].pc = "status" /\ parcel[request[r].parcel].status = "PENDING" => request[r].late
  /\ request[r].pc = "publish" /\ trip[request[r].trip] # "DRAFT" => request[r].late

\* A delete that is past its check takes the trip of no parcel but those assigned since.
DeletesRaced ==
  \A p \in Parcels : parcel[p].trip # NoTrip /\ PastCheck(parcel[p].trip) => p \in raced

BoardInv ==
  /\ BoardTypeOK
  /\ \A r \in Requests : RequestSound(r)
  /\ IsFiniteSet(Pending("countCreated")) /\ IsFiniteSet(Pending("countDeleted"))
  /\ TripCountBalanced
  /\ OfferLosesTripOnlyByRace
  /\ DeletesRaced

LEMMA RowsFinite == IsFiniteSet(TripIds)
BY BoardAssumption, FS_Interval DEF TripIds

LEMMA NoRequestTyped ==
  NoRequest \in RequestRecords /\ NoRequest.pc = "idle" /\ NoRequest.trip = NoTrip
<1>1. FALSE \in BOOLEAN
  OBVIOUS
<1>2. QED
  BY <1>1 DEF NoRequest, RequestRecords

LEMMA DistanceMoves ==
  \A a, b \in Int :
    /\ Distance(a, b) \in Nat
    /\ Distance(a + 1, b + 1) = Distance(a, b) /\ Distance(a - 1, b - 1) = Distance(a, b)
    /\ Distance(a + 1, b) <= Distance(a, b) + 1 /\ Distance(a - 1, b) <= Distance(a, b) + 1
BY DEF Distance

LEMMA CountsTyped ==
  BoardInv => /\ Due \in Int /\ Cardinality(Rows) \in Int /\ tripCrashes \in Nat
              /\ totalTrips \in Int
              /\ Cardinality(Pending("countCreated")) \in Nat
              /\ Cardinality(Pending("countDeleted")) \in Nat
<1> SUFFICES ASSUME BoardInv
             PROVE  /\ Due \in Int /\ Cardinality(Rows) \in Int /\ tripCrashes \in Nat
                    /\ totalTrips \in Int
                    /\ Cardinality(Pending("countCreated")) \in Nat
                    /\ Cardinality(Pending("countDeleted")) \in Nat
  OBVIOUS
<1>1. IsFiniteSet(Rows)
  BY RowsFinite, FS_Subset DEF Rows
<1>2. Cardinality(Rows) \in Nat
  BY <1>1, FS_CardinalityType
<1>3. Cardinality(Pending("countCreated")) \in Nat
  BY FS_CardinalityType DEF BoardInv
<1>4. Cardinality(Pending("countDeleted")) \in Nat
  BY FS_CardinalityType DEF BoardInv
<1>5. totalTrips \in Int /\ tripCrashes \in Nat
  BY BoardAssumption DEF BoardInv, BoardTypeOK
<1>6. QED
  BY <1>2, <1>3, <1>4, <1>5 DEF Due

\* The counter and the rows move together, or a request stops halfway.
LEMMA BalanceKept ==
  ASSUME BoardInv,
         \/ Due' = Due /\ Rows' = Rows /\ tripCrashes' = tripCrashes
         \/ /\ Due' = Due + 1 /\ Cardinality(Rows') = Cardinality(Rows) + 1
            /\ tripCrashes' = tripCrashes
         \/ /\ Due' = Due - 1 /\ Cardinality(Rows') = Cardinality(Rows) - 1
            /\ tripCrashes' = tripCrashes
         \/ /\ Due' \in {Due - 1, Due, Due + 1} /\ Rows' = Rows
            /\ tripCrashes' = tripCrashes + 1
  PROVE  TripCountBalanced'
<1>1. Due \in Int /\ Cardinality(Rows) \in Int /\ tripCrashes \in Nat
  BY CountsTyped
<1>2. Distance(Due, Cardinality(Rows)) <= tripCrashes
  BY DEF BoardInv, TripCountBalanced, Due, Rows
<1> DEFINE n == Cardinality(Rows)
<1>3. Distance(Due', n') <= tripCrashes'
  <2>1. CASE Due' = Due /\ n' = n /\ tripCrashes' = tripCrashes
    BY <1>2, <2>1
  <2>2. CASE Due' = Due + 1 /\ n' = n + 1 /\ tripCrashes' = tripCrashes
    BY <1>1, <1>2, <2>2, DistanceMoves
  <2>3. CASE Due' = Due - 1 /\ n' = n - 1 /\ tripCrashes' = tripCrashes
    BY <1>1, <1>2, <2>3, DistanceMoves
  <2>4. CASE Due' \in {Due - 1, Due, Due + 1} /\ n' = n /\ tripCrashes' = tripCrashes + 1
    <3>1. /\ Distance(Due, n) \in Nat
          /\ Distance(Due + 1, n) <= Distance(Due, n) + 1
          /\ Distance(Due - 1, n) <= Distance(Due, n) + 1
      BY <1>1, DistanceMoves
    <3> DEFINE d == Distance(Due, n)
               up == Distance(Due + 1, n)
               down == Distance(Due - 1, n)
    <3>2. d \in Nat /\ up <= d + 1 /\ down <= d + 1 /\ d <= tripCrashes
          /\ up \in Int /\ down \in Int
      BY <1>1, <1>2, <3>1, DistanceMoves
    <3>3. Distance(Due', n') \in {up, d, down}
      BY <2>4
    <3> HIDE DEF d, up, down
    <3>4. d <= tripCrashes + 1 /\ up <= tripCrashes + 1 /\ down <= tripCrashes + 1
      BY <1>1, <3>2
    <3>5. QED
      BY <2>4, <3>3, <3>4
  <2>5. QED
    BY <2>1, <2>2, <2>3, <2>4
<1>4. QED
  BY <1>3 DEF TripCountBalanced, Due, Rows

\* The requests waiting at pc, when only r moves.
LEMMA PendingChanges ==
  ASSUME NEW r \in Requests, NEW pc, IsFiniteSet(Pending(pc)),
         \A o \in Requests \ {r} : request'[o].pc = request[o].pc
  PROVE  /\ IsFiniteSet(Pending(pc)')
         /\ request'[r].pc = pc /\ request[r].pc # pc =>
              Cardinality(Pending(pc)') = Cardinality(Pending(pc)) + 1
         /\ request'[r].pc # pc /\ request[r].pc = pc =>
              Cardinality(Pending(pc)') = Cardinality(Pending(pc)) - 1
         /\ (request'[r].pc = pc <=> request[r].pc = pc) => Pending(pc)' = Pending(pc)
<1>1. CASE request'[r].pc = pc /\ request[r].pc # pc
  <2>1. Pending(pc)' = Pending(pc) \cup {r} /\ r \notin Pending(pc)
    BY <1>1 DEF Pending
  <2>2. QED
    BY <1>1, <2>1, FS_AddElement
<1>2. CASE request'[r].pc # pc /\ request[r].pc = pc
  <2>1. Pending(pc)' = Pending(pc) \ {r} /\ r \in Pending(pc)
    BY <1>2 DEF Pending
  <2>2. QED
    BY <1>2, <2>1, FS_RemoveElement
<1>3. CASE request'[r].pc = pc <=> request[r].pc = pc
  <2>1. Pending(pc)' = Pending(pc)
    BY <1>3 DEF Pending
  <2>2. QED
    BY <1>3, <2>1
<1>4. QED
  BY <1>1, <1>2, <1>3

\* A request that neither creates nor deletes moves on: the trips and the counter stay.
LEMMA NothingCounted ==
  ASSUME BoardInv, NEW r \in Requests, UNCHANGED <<trip, totalTrips, tripCrashes>>,
         \A o \in Requests \ {r} : request'[o].pc = request[o].pc,
         request[r].pc \notin {"countCreated", "countDeleted"},
         request'[r].pc \notin {"countCreated", "countDeleted"}
  PROVE  /\ IsFiniteSet(Pending("countCreated")') /\ IsFiniteSet(Pending("countDeleted")')
         /\ TripCountBalanced'
<1>1. Pending("countCreated")' = Pending("countCreated")
  BY DEF Pending
<1>2. Pending("countDeleted")' = Pending("countDeleted")
  BY DEF Pending
<1>3. Rows' = Rows
  BY DEF Rows, Exists
<1>4. Due' = Due
  BY <1>1, <1>2 DEF Due
<1>5. QED
  BY <1>1, <1>2, <1>3, <1>4, BalanceKept DEF BoardInv

LEMMA BoardStarts == BoardInit => BoardInv
<1> SUFFICES ASSUME BoardInit PROVE BoardInv
  OBVIOUS
<1>1. \A r \in Requests : request[r] = NoRequest
  BY DEF BoardInit
<1>2. BoardTypeOK
  <2>1. request \in [Requests -> RequestRecords]
    BY <1>1, NoRequestTyped DEF BoardInit
  <2>2. totalTrips \in Int /\ tripCrashes \in 0..MaxTripCrashes
    BY BoardAssumption DEF BoardInit
  <2>3. QED
    BY <2>1, <2>2 DEF BoardInit, BoardTypeOK, RequestRecords
<1>3. \A pc \in {"countCreated", "countDeleted", "delete"} : Pending(pc) = {}
  BY <1>1, NoRequestTyped DEF Pending
<1>4. Rows = {}
  BY DEF BoardInit, Rows, Exists
<1>5. TripCountBalanced
  <2>1. Cardinality(Rows) = 0 /\ Due = 0 /\ tripCrashes = 0
    BY <1>3, <1>4, FS_EmptySet DEF BoardInit, Due
  <2>2. QED
    BY <2>1 DEF TripCountBalanced, Due, Rows, Distance
<1>6. DeletesRaced /\ OfferLosesTripOnlyByRace
  BY DEF BoardInit, DeletesRaced, OfferLosesTripOnlyByRace
<1>7. \A r \in Requests : RequestSound(r)
  BY <1>1, NoRequestTyped DEF RequestSound
<1>8. QED
  BY <1>2, <1>3, <1>5, <1>6, <1>7, FS_EmptySet DEF BoardInv

\* A request begins, goes on or ends; nothing else changes.
LEMMA RequestMoves ==
  ASSUME BoardInv, NEW r \in Requests, NEW q \in RequestRecords,
         request' = [request EXCEPT ![r] = q],
         UNCHANGED <<trip, totalTrips, tripCrashes, parcel, raced>>,
         request[r].pc \notin {"countCreated", "countDeleted"},
         q.pc \notin {"countCreated", "countDeleted"},
         q.pc \in {"publish", "checkCancel", "cancel", "checkDelete", "delete", "assign"} =>
           q.trip \in TripIds,
         q.pc \in {"assign", "status"} => q.parcel \in Parcels,
         q.pc = "status" => parcel[q.parcel].status = "MATCHED",
         q.pc = "publish" => trip[q.trip] = "DRAFT",
         q.pc = "delete" => \A p \in Parcels : parcel[p].trip # q.trip
  PROVE  BoardInv'
<1>0. BoardTypeOK /\ request \in [Requests -> RequestRecords]
  BY DEF BoardInv, BoardTypeOK, RequestRecords
<1>1. /\ request' \in [Requests -> RequestRecords] /\ request'[r] = q
      /\ \A o \in Requests \ {r} : request'[o] = request[o]
  BY <1>0
<1>2. BoardTypeOK'
  BY <1>0, <1>1 DEF BoardTypeOK, RequestRecords, Exists
<1>3. \A o \in Requests : RequestSound(o)'
  BY <1>1 DEF BoardInv, RequestSound
<1>4. OfferLosesTripOnlyByRace'
  BY DEF BoardInv, OfferLosesTripOnlyByRace
<1>5. DeletesRaced'
  BY <1>1 DEF BoardInv, DeletesRaced, PastCheck, Pending
<1>6. /\ IsFiniteSet(Pending("countCreated")') /\ IsFiniteSet(Pending("countDeleted")')
      /\ TripCountBalanced'
  BY <1>1, NothingCounted
<1>7. QED
  BY <1>2, <1>3, <1>4, <1>5, <1>6 DEF BoardInv

\* What a write of a trip's row does to the requests.
LEMMA WriteTripMoves ==
  ASSUME BoardInv, NEW r \in Requests, NEW t \in TripIds,
         NEW status \in {"none", "gone", "DRAFT", "ACTIVE", "CANCELLED"},
         NEW pc \in {"idle", "countCreated", "countDeleted"}, WriteTrip(r, t, status, pc),
         \A p \in Parcels : parcel'[p].status = parcel[p].status
  PROVE  /\ trip' = [trip EXCEPT ![t] = status]
         /\ trip' \in [TripIds -> {"none", "gone", "DRAFT", "ACTIVE", "CANCELLED"}]
         /\ request' \in [Requests -> RequestRecords] /\ request'[r].pc = pc
         /\ \A o \in Requests \ {r} :
              /\ request'[o].pc = request[o].pc /\ request'[o].trip = request[o].trip
              /\ request'[o].parcel = request[o].parcel
              /\ request[o].late \/ request[o].trip = t => request'[o].late
         /\ \A o \in Requests : RequestSound(o)'
<1>0. BoardTypeOK /\ request \in [Requests -> RequestRecords]
  BY DEF BoardInv, BoardTypeOK, RequestRecords
<1>1. trip' = [trip EXCEPT ![t] = status]
      /\ trip' \in [TripIds -> {"none", "gone", "DRAFT", "ACTIVE", "CANCELLED"}]
  BY <1>0 DEF WriteTrip, BoardTypeOK
<1>2. request'[r] = (IF pc = "idle" THEN NoRequest ELSE [request[r] EXCEPT !.pc = pc])
  BY DEF WriteTrip
<1>3. request'[r] \in RequestRecords /\ request'[r].pc = pc
  BY <1>0, <1>2, NoRequestTyped DEF RequestRecords
<1>4. ASSUME NEW o \in Requests \ {r}
      PROVE  /\ request'[o] \in RequestRecords
             /\ request'[o].pc = request[o].pc /\ request'[o].trip = request[o].trip
             /\ request'[o].parcel = request[o].parcel
             /\ request'[o].late = (request[o].late \/ request[o].trip = t)
  <2> DEFINE late == request[o].late \/ request[o].trip = t
  <2>1. late \in BOOLEAN
    BY Zenon
  <2>2. request'[o] = [request[o] EXCEPT !.late = late]
    BY DEF WriteTrip
  <2> HIDE DEF late
  <2>3. /\ request'[o] \in RequestRecords
        /\ request'[o].pc = request[o].pc /\ request'[o].trip = request[o].trip
        /\ request'[o].parcel = request[o].parcel /\ request'[o].late = late
    BY <1>0, <2>1, <2>2 DEF RequestRecords
  <2>4. QED
    BY <2>3, Zenon DEF late
<1>5. request' \in [Requests -> RequestRecords]
  <2>1. \A o \in Requests : request'[o] \in RequestRecords
    BY <1>3, <1>4
  <2>2. request' = [o \in Requests |-> request'[o]]
    BY DEF WriteTrip
  <2>3. QED
    BY <2>1, <2>2
<1>6. ASSUME NEW o \in Requests \ {r} PROVE request[o].late \/ request[o].trip = t => request'[o].late
  BY <1>4, Zenon
<1>7. ASSUME NEW o \in Requests PROVE RequestSound(o)'
  <2>1. CASE o = r
    BY <1>3, <2>1 DEF RequestSound
  <2>2. CASE o # r
    <3>1. request'[o].pc = "publish" /\ trip'[request'[o].trip] # "DRAFT" => request'[o].late
      <4>1. CASE request[o].trip = t
        BY <1>6, <2>2, <4>1
      <4>2. CASE request[o].trip # t
        <5>1. request[o].pc = "publish" => trip'[request[o].trip] = trip[request[o].trip]
          BY <1>0, <1>1, <4>2 DEF BoardInv, RequestSound, BoardTypeOK
        <5>2. request[o].pc = "publish" /\ trip[request[o].trip] # "DRAFT" => request[o].late
          BY DEF BoardInv, RequestSound
        <5>3. QED
          BY <1>4, <1>6, <2>2, <5>1, <5>2
      <4>3. QED
        BY <4>1, <4>2
    <3>2. QED
      BY <1>4, <2>2, <3>1 DEF BoardInv, RequestSound
  <2>3. QED
    BY <2>1, <2>2
<1>8. QED
  BY <1>1, <1>3, <1>4, <1>5, <1>6, <1>7

\* A write of an existing trip that leaves it existing, at the end of a request.
LEMMA TripRewritten ==
  ASSUME BoardInv, NEW r \in Requests, NEW t \in TripIds, NEW status \in {"ACTIVE", "CANCELLED"},
         Exists(t), WriteTrip(r, t, status, "idle"),
         request[r].pc \in {"publish", "cancel"},
         UNCHANGED <<totalTrips, parcel, tripCrashes, raced>>
  PROVE  BoardInv'
<1>0. BoardTypeOK
  BY DEF BoardInv
<1>1. /\ trip' = [trip EXCEPT ![t] = status]
      /\ trip' \in [TripIds -> {"none", "gone", "DRAFT", "ACTIVE", "CANCELLED"}]
      /\ request' \in [Requests -> RequestRecords] /\ request'[r].pc = "idle"
      /\ \A o \in Requests \ {r} :
           /\ request'[o].pc = request[o].pc /\ request'[o].trip = request[o].trip
      /\ \A o \in Requests : RequestSound(o)'
  BY WriteTripMoves
<1>2. \A u \in TripIds : Exists(u)' <=> Exists(u)
  BY <1>0, <1>1 DEF Exists, BoardTypeOK
<1>3. BoardTypeOK'
  BY <1>0, <1>1, <1>2 DEF BoardTypeOK, RequestRecords
<1>4. Pending("countCreated")' = Pending("countCreated")
      /\ Pending("countDeleted")' = Pending("countDeleted")
      /\ Pending("delete")' = Pending("delete")
  BY <1>1 DEF Pending
<1>5. TripCountBalanced'
  <2>1. Due' = Due
    BY <1>4 DEF Due
  <2>2. Rows' = Rows
    BY <1>2 DEF Rows
  <2>3. QED
    BY <2>1, <2>2, BalanceKept
<1>6. OfferLosesTripOnlyByRace'
  BY DEF BoardInv, OfferLosesTripOnlyByRace
<1>7. DeletesRaced'
  BY <1>1, <1>4 DEF BoardInv, DeletesRaced, PastCheck, Pending
<1>8. QED
  BY <1>1, <1>3, <1>4, <1>5, <1>6, <1>7 DEF BoardInv

LEMMA TripCreated ==
  ASSUME BoardInv, NEW r \in Requests, CreateTrip(r)
  PROVE  BoardInv'
<1>0. BoardTypeOK
  BY DEF BoardInv
<1>1. PICK t \in TripIds : trip[t] = "none" /\ WriteTrip(r, t, "DRAFT", "countCreated")
  BY DEF CreateTrip
<1>3. request[r].pc = "idle" /\ UNCHANGED <<totalTrips, parcel, tripCrashes, raced>>
  BY DEF CreateTrip
<1>2. /\ trip' = [trip EXCEPT ![t] = "DRAFT"]
      /\ trip' \in [TripIds -> {"none", "gone", "DRAFT", "ACTIVE", "CANCELLED"}]
      /\ request' \in [Requests -> RequestRecords] /\ request'[r].pc = "countCreated"
      /\ \A o \in Requests \ {r} :
           /\ request'[o].pc = request[o].pc /\ request'[o].trip = request[o].trip
      /\ \A o \in Requests : RequestSound(o)'
  BY <1>1, <1>3, WriteTripMoves
<1>4. Rows' = Rows \cup {t} /\ t \notin Rows
  BY <1>0, <1>1, <1>2 DEF Rows, Exists, BoardTypeOK
<1>5. BoardTypeOK'
  BY <1>0, <1>2, <1>3 DEF BoardTypeOK, RequestRecords, Exists
<1>6. Pending("delete")' = Pending("delete") /\ Pending("countDeleted")' = Pending("countDeleted")
  BY <1>2, <1>3 DEF Pending
<1>7. /\ IsFiniteSet(Pending("countCreated")')
      /\ Cardinality(Pending("countCreated")') = Cardinality(Pending("countCreated")) + 1
  BY <1>2, <1>3, PendingChanges DEF BoardInv
<1>8. TripCountBalanced'
  <2>1. Due' = Due + 1
    BY <1>3, <1>6, <1>7, CountsTyped DEF Due
  <2>2. IsFiniteSet(Rows)
    BY RowsFinite, FS_Subset DEF Rows
  <2>3. Cardinality(Rows') = Cardinality(Rows) + 1
    BY <1>4, <2>2, FS_AddElement
  <2>4. QED
    BY <1>3, <2>1, <2>3, BalanceKept
<1>9. OfferLosesTripOnlyByRace' /\ DeletesRaced'
  BY <1>2, <1>3, <1>6 DEF BoardInv, OfferLosesTripOnlyByRace, DeletesRaced, PastCheck, Pending
<1>10. QED
  BY <1>2, <1>5, <1>6, <1>7, <1>8, <1>9 DEF BoardInv

LEMMA TripDeleted ==
  ASSUME BoardInv, NEW r \in Requests, DeleteTrip(r), Exists(request[r].trip)
  PROVE  BoardInv'
<1> DEFINE t == request[r].trip
<1>0. BoardTypeOK
  BY DEF BoardInv
<1>1. /\ request[r].pc = "delete" /\ WriteTrip(r, t, "gone", "countDeleted")
      /\ parcel' = [p \in Parcels |-> IF parcel[p].trip = t
                                      THEN [parcel[p] EXCEPT !.trip = NoTrip] ELSE parcel[p]]
      /\ UNCHANGED <<totalTrips, tripCrashes, raced>>
  BY DEF DeleteTrip, Deletable
<1>2. t \in TripIds
  BY <1>1 DEF BoardInv, RequestSound
<1>3. /\ trip' = [trip EXCEPT ![t] = "gone"]
      /\ trip' \in [TripIds -> {"none", "gone", "DRAFT", "ACTIVE", "CANCELLED"}]
      /\ request' \in [Requests -> RequestRecords] /\ request'[r].pc = "countDeleted"
      /\ \A o \in Requests \ {r} :
           /\ request'[o].pc = request[o].pc /\ request'[o].trip = request[o].trip
      /\ \A o \in Requests : RequestSound(o)'
  BY <1>1, <1>2, WriteTripMoves
<1>4. Exists(t)
  OBVIOUS
<1>5. r \in Pending("delete")
  BY <1>1 DEF Pending
<1> HIDE DEF t
<1>6. Rows' = Rows \ {t} /\ t \in Rows
  BY <1>0, <1>2, <1>3, <1>4 DEF Rows, Exists, BoardTypeOK
<1>7. \A p \in Parcels : parcel'[p].status = parcel[p].status
                         /\ parcel'[p].trip = (IF parcel[p].trip = t THEN NoTrip ELSE parcel[p].trip)
                         /\ parcel'[p] \in [status: {"PENDING", "MATCHED"}, trip: TripIds \cup {NoTrip}]
  BY <1>0, <1>1 DEF BoardTypeOK
<1>8. BoardTypeOK'
  <2>1. parcel' \in [Parcels -> [status: {"PENDING", "MATCHED"}, trip: TripIds \cup {NoTrip}]]
    BY <1>1, <1>7
  <2>2. ASSUME NEW p \in Parcels, parcel'[p].trip # NoTrip
        PROVE  Exists(parcel[p].trip)' /\ parcel'[p].status = "MATCHED"
    <3>1. parcel[p].trip = parcel'[p].trip /\ parcel[p].trip # t
      BY <1>7, <2>2
    <3>2. Exists(parcel[p].trip) /\ parcel[p].status = "MATCHED" /\ parcel[p].trip \in TripIds
      BY <1>0, <2>2, <3>1 DEF BoardTypeOK
    <3>3. trip'[parcel[p].trip] = trip[parcel[p].trip]
      BY <1>0, <1>3, <3>1, <3>2 DEF BoardTypeOK
    <3>4. QED
      BY <1>7, <3>1, <3>2, <3>3 DEF Exists
  <2>3. QED
    BY <1>0, <1>1, <1>3, <2>1, <2>2 DEF BoardTypeOK, RequestRecords
<1>9. Pending("countCreated")' = Pending("countCreated")
  BY <1>1, <1>3 DEF Pending
<1>10. /\ IsFiniteSet(Pending("countDeleted")')
       /\ Cardinality(Pending("countDeleted")') = Cardinality(Pending("countDeleted")) + 1
  BY <1>1, <1>3, PendingChanges DEF BoardInv
<1>11. TripCountBalanced'
  <2>1. Due' = Due - 1
    BY <1>1, <1>9, <1>10, CountsTyped DEF Due
  <2>2. IsFiniteSet(Rows)
    BY RowsFinite, FS_Subset DEF Rows
  <2>3. Cardinality(Rows') = Cardinality(Rows) - 1
    BY <1>6, <2>2, FS_RemoveElement
  <2>4. QED
    BY <1>1, <2>1, <2>3, BalanceKept
<1>12. \A p \in Parcels : parcel[p].trip = t => p \in raced
  <2>1. PastCheck(t)
    BY <1>5 DEF PastCheck, t
  <2>2. t # NoTrip
    BY <1>2, BoardAssumption DEF TripIds, NoTrip
  <2>3. QED
    BY <2>1, <2>2 DEF BoardInv, DeletesRaced
<1>13. OfferLosesTripOnlyByRace'
  BY <1>1, <1>7, <1>12 DEF BoardInv, OfferLosesTripOnlyByRace
<1>14. DeletesRaced'
  <2> SUFFICES ASSUME NEW p \in Parcels, parcel'[p].trip # NoTrip,
                      NEW o \in Requests, request'[o].pc = "delete",
                      request'[o].trip = parcel'[p].trip
               PROVE  p \in raced'
    BY DEF DeletesRaced, PastCheck, Pending
  <2>1. o # r /\ parcel[p].trip = parcel'[p].trip
    BY <1>3, <1>7
  <2>2. o \in Pending("delete") /\ request[o].trip = parcel[p].trip
    BY <1>3, <2>1 DEF Pending
  <2>3. QED
    BY <1>1, <2>1, <2>2 DEF BoardInv, DeletesRaced, PastCheck
<1>15. QED
  BY <1>3, <1>8, <1>9, <1>10, <1>11, <1>13, <1>14 DEF BoardInv

\* A request that counts, or stops halfway.
LEMMA RequestEnds ==
  ASSUME BoardInv, NEW r \in Requests, Return(r), UNCHANGED <<trip, parcel, raced>>,
         \/ /\ request[r].pc = "countCreated" /\ totalTrips' = totalTrips + 1
            /\ tripCrashes' = tripCrashes
         \/ /\ request[r].pc = "countDeleted" /\ totalTrips' = totalTrips - 1
            /\ tripCrashes' = tripCrashes
         \/ /\ totalTrips' = totalTrips /\ tripCrashes' = tripCrashes + 1
            /\ tripCrashes < MaxTripCrashes
  PROVE  BoardInv'
<1>0. BoardTypeOK /\ request \in [Requests -> RequestRecords]
  BY DEF BoardInv, BoardTypeOK, RequestRecords
<1>1. /\ request' \in [Requests -> RequestRecords] /\ request'[r] = NoRequest
      /\ \A o \in Requests \ {r} : request'[o] = request[o]
  BY <1>0, NoRequestTyped DEF Return
<1>2. totalTrips' \in Int /\ tripCrashes' \in 0..MaxTripCrashes
  BY <1>0, BoardAssumption DEF BoardTypeOK
<1>3. BoardTypeOK'
  BY <1>0, <1>1, <1>2 DEF BoardTypeOK, RequestRecords, Exists
<1>4. \A o \in Requests : RequestSound(o)'
  BY <1>1, NoRequestTyped DEF BoardInv, RequestSound
<1>5. OfferLosesTripOnlyByRace' /\ DeletesRaced'
  BY <1>1, NoRequestTyped
     DEF BoardInv, OfferLosesTripOnlyByRace, DeletesRaced, PastCheck, Pending
<1>6. /\ IsFiniteSet(Pending("countCreated")')
      /\ Pending("countCreated")' = Pending("countCreated")
         \/ (/\ request[r].pc = "countCreated"
             /\ Cardinality(Pending("countCreated")') = Cardinality(Pending("countCreated")) - 1)
  BY <1>1, NoRequestTyped, PendingChanges DEF BoardInv
<1>7. /\ IsFiniteSet(Pending("countDeleted")')
      /\ Pending("countDeleted")' = Pending("countDeleted")
         \/ (/\ request[r].pc = "countDeleted"
             /\ Cardinality(Pending("countDeleted")') = Cardinality(Pending("countDeleted")) - 1)
  BY <1>1, NoRequestTyped, PendingChanges DEF BoardInv
<1>8. Rows' = Rows
  BY DEF Rows, Exists
<1>9. TripCountBalanced'
  <2>1. CASE request[r].pc = "countCreated"
    <3>1. /\ Cardinality(Pending("countCreated")') = Cardinality(Pending("countCreated")) - 1
          /\ Pending("countDeleted")' = Pending("countDeleted")
      BY <1>1, <1>7, <2>1, NoRequestTyped, PendingChanges DEF BoardInv
    <3>2. totalTrips' = totalTrips + 1 => Due' = Due
      BY <3>1, CountsTyped DEF Due
    <3>3. totalTrips' = totalTrips => Due' = Due - 1
      BY <3>1, CountsTyped DEF Due
    <3>4. QED
      BY <1>8, <2>1, <3>2, <3>3, BalanceKept
  <2>2. CASE request[r].pc = "countDeleted"
    <3>1. /\ Cardinality(Pending("countDeleted")') = Cardinality(Pending("countDeleted")) - 1
          /\ Pending("countCreated")' = Pending("countCreated")
      BY <1>1, <1>6, <2>2, NoRequestTyped, PendingChanges DEF BoardInv
    <3>2. totalTrips' = totalTrips - 1 => Due' = Due
      BY <3>1, CountsTyped DEF Due
    <3>3. totalTrips' = totalTrips => Due' = Due + 1
      BY <3>1, CountsTyped DEF Due
    <3>4. QED
      BY <1>8, <2>2, <3>2, <3>3, BalanceKept
  <2>3. CASE request[r].pc \notin {"countCreated", "countDeleted"}
    <3>1. Due' = Due
      BY <1>6, <1>7, <2>3 DEF Due
    <3>2. QED
      BY <1>8, <2>3, <3>1, BalanceKept
  <2>4. QED
    BY <2>1, <2>2, <2>3
<1>10. QED
  BY <1>3, <1>4, <1>5, <1>6, <1>7, <1>9 DEF BoardInv

\* An assignment, a rejection or a status write changes one parcel.
LEMMA ParcelMoves ==
  ASSUME BoardInv, NEW p \in Parcels, NEW t \in TripIds \cup {NoTrip},
         NEW status \in {"PENDING", "MATCHED"},
         UNCHANGED <<trip, totalTrips, tripCrashes>>,
         \/ /\ status = "MATCHED"
            /\ \E r \in Requests : Return(r) /\ request[r].pc \in {"assign", "status"}
         \/ request' = [o \in Requests |->
              [request[o] EXCEPT !.late = @ \/ (request[o].pc = "status" /\ request[o].parcel = p)]],
         parcel' = [parcel EXCEPT ![p] = [status |-> status, trip |-> t]],
         t # NoTrip => Exists(t) /\ status = "MATCHED",
         t = NoTrip => status = "PENDING" \/ p \in raced',
         raced' \subseteq Parcels,
         \A o \in Parcels \ {p} : o \in raced' <=> o \in raced,
         PastCheck(t) => t = NoTrip \/ p \in raced'
  PROVE  BoardInv'
<1>0. BoardTypeOK /\ request \in [Requests -> RequestRecords]
  BY DEF BoardInv, BoardTypeOK, RequestRecords
<1>1. /\ request' \in [Requests -> RequestRecords]
      /\ \A o \in Requests :
           \/ request[o].pc \in {"assign", "status"} /\ request'[o] = NoRequest
           \/ /\ request'[o].pc = request[o].pc /\ request'[o].trip = request[o].trip
              /\ request'[o].parcel = request[o].parcel
              /\ request[o].late => request'[o].late
              /\ request[o].pc = "status" /\ request[o].parcel = p =>
                   request'[o].late \/ status = "MATCHED"
  <2>1. CASE /\ status = "MATCHED"
             /\ \E r \in Requests : Return(r) /\ request[r].pc \in {"assign", "status"}
    <3>1. PICK r \in Requests : Return(r) /\ request[r].pc \in {"assign", "status"}
      BY <2>1
    <3>2. QED
      BY <1>0, <2>1, <3>1, NoRequestTyped DEF Return
  <2>2. CASE request' = [o \in Requests |->
              [request[o] EXCEPT !.late = @ \/ (request[o].pc = "status" /\ request[o].parcel = p)]]
    <3>1. ASSUME NEW o \in Requests
          PROVE  /\ request'[o] \in RequestRecords
                 /\ request'[o].pc = request[o].pc /\ request'[o].trip = request[o].trip
                 /\ request'[o].parcel = request[o].parcel
                 /\ request'[o].late = (request[o].late \/ (request[o].pc = "status" /\ request[o].parcel = p))
      <4>1. request[o] \in RequestRecords
        BY <1>0
      <4>2. request'[o] = [request[o] EXCEPT !.late =
              request[o].late \/ (request[o].pc = "status" /\ request[o].parcel = p)]
        BY <2>2
      <4>3. QED
        BY <4>1, <4>2 DEF RequestRecords
    <3>2. request' = [o \in Requests |-> request'[o]]
      BY <2>2
    <3>3. request' \in [Requests -> RequestRecords]
      BY <3>1, <3>2
    <3>4. QED
      BY <3>1, <3>3, Zenon
  <2>3. QED
    BY <2>1, <2>2
<1>2. /\ parcel' \in [Parcels -> [status: {"PENDING", "MATCHED"}, trip: TripIds \cup {NoTrip}]]
      /\ parcel'[p].status = status /\ parcel'[p].trip = t
      /\ \A o \in Parcels \ {p} : parcel'[o] = parcel[o]
  BY <1>0 DEF BoardTypeOK
<1>3. BoardTypeOK'
  BY <1>0, <1>1, <1>2 DEF BoardTypeOK, RequestRecords, Exists
<1>4. \A o \in Requests : RequestSound(o)'
  BY <1>1, <1>2, NoRequestTyped DEF BoardInv, RequestSound
<1>5. \A pc \in {"countCreated", "countDeleted", "delete"} : Pending(pc)' = Pending(pc)
  BY <1>1, NoRequestTyped DEF Pending
<1>6. TripCountBalanced'
  <2>1. Due' = Due
    BY <1>5 DEF Due
  <2>2. Rows' = Rows
    BY DEF Rows, Exists
  <2>3. QED
    BY <2>1, <2>2, BalanceKept
<1>7. OfferLosesTripOnlyByRace'
  BY <1>2 DEF BoardInv, OfferLosesTripOnlyByRace
<1>8. \A u : PastCheck(u)' => PastCheck(u)
  BY <1>1, <1>5, NoRequestTyped DEF PastCheck, Pending
<1>9. DeletesRaced'
  BY <1>2, <1>8 DEF BoardInv, DeletesRaced
<1>10. QED
  BY <1>3, <1>4, <1>5, <1>6, <1>7, <1>9 DEF BoardInv

LEMMA BoardStep == BoardInv /\ [BoardNext]_boardVars => BoardInv'
<1> SUFFICES ASSUME BoardInv, [BoardNext]_boardVars PROVE BoardInv'
  OBVIOUS
<1>0. BoardTypeOK /\ request \in [Requests -> RequestRecords]
  BY DEF BoardInv, BoardTypeOK, RequestRecords
<1>1. ASSUME NEW r \in Requests, CreateTrip(r) PROVE BoardInv'
  BY <1>1, TripCreated
<1>2. ASSUME NEW r \in Requests, CountCreated(r) \/ CountDeleted(r) \/ CrashRequest(r)
      PROVE  BoardInv'
  BY <1>2, RequestEnds DEF CountCreated, CountDeleted, CrashRequest
\* A call that finds the trip gone returns.
<1>3. ASSUME NEW r \in Requests, Return(r), UNCHANGED <<trip, totalTrips, tripCrashes, parcel, raced>>,
             request[r].pc \notin {"countCreated", "countDeleted"}
      PROVE  BoardInv'
  BY <1>3, NoRequestTyped, RequestMoves DEF Return
<1>4. ASSUME NEW r \in Requests, Publish(r) \/ CancelTrip(r) PROVE BoardInv'
  <2>1. request[r].pc \in {"publish", "cancel"} /\ UNCHANGED <<totalTrips, parcel, tripCrashes, raced>>
    BY <1>4 DEF Publish, CancelTrip
  <2>2. CASE Exists(request[r].trip)
    <3>1. request[r].trip \in TripIds
      BY <2>1 DEF BoardInv, RequestSound
    <3>2. WriteTrip(r, request[r].trip, "ACTIVE", "idle")
          \/ WriteTrip(r, request[r].trip, "CANCELLED", "idle")
      BY <1>4, <2>2 DEF Publish, CancelTrip
    <3>3. QED
      BY <2>1, <2>2, <3>1, <3>2, TripRewritten
  <2>3. CASE ~Exists(request[r].trip)
    <3>1. Return(r) /\ UNCHANGED trip
      BY <1>4, <2>3 DEF Publish, CancelTrip
    <3>2. QED
      BY <1>3, <2>1, <3>1
  <2>4. QED
    BY <2>2, <2>3
<1>5. ASSUME NEW r \in Requests, DeleteTrip(r) PROVE BoardInv'
  <2>1. CASE Exists(request[r].trip)
    BY <1>5, <2>1, TripDeleted
  <2>2. CASE ~Exists(request[r].trip)
    BY <1>3, <1>5, <2>2 DEF DeleteTrip, Deletable
  <2>3. QED
    BY <2>1, <2>2
<1>6. ASSUME NEW r \in Requests, NEW check \in {"checkCancel", "checkDelete"},
             NEW write \in {"cancel", "delete"}, CheckActiveShipments(r, check, write)
      PROVE  BoardInv'
  <2>1. /\ request[r].pc = check
        /\ UNCHANGED <<trip, totalTrips, parcel, tripCrashes, raced>>
    BY <1>6 DEF CheckActiveShipments
  <2>2. request[r].trip \in TripIds
    BY <2>1 DEF BoardInv, RequestSound
  <2>3. CASE HasActiveShipments(request[r].trip)
    BY <1>3, <1>6, <2>1, <2>3 DEF CheckActiveShipments
  <2>4. CASE ~HasActiveShipments(request[r].trip)
    <3> DEFINE q == [request[r] EXCEPT !.pc = write]
    <3>1. request' = [request EXCEPT ![r] = q]
      BY <1>6, <2>4 DEF CheckActiveShipments, Proceed
    <3>2. q \in RequestRecords /\ q.pc = write /\ q.trip = request[r].trip
      BY <1>0 DEF RequestRecords
    <3>3. \A p \in Parcels : parcel[p].trip # request[r].trip
      <4>1. request[r].trip # NoTrip
        BY <2>2, BoardAssumption DEF TripIds, NoTrip
      <4>2. QED
        BY <1>0, <2>4, <4>1 DEF HasActiveShipments, Blocking, BoardTypeOK
    <3> HIDE DEF q
    <3>4. QED
      BY <2>1, <2>2, <3>1, <3>2, <3>3, RequestMoves
  <2>5. QED
    BY <2>3, <2>4
<1>7. ASSUME NEW r \in Requests, AssignToTrip(r) PROVE BoardInv'
  <2> DEFINE t == request[r].trip
             p == request[r].parcel
  <2>1. /\ request[r].pc = "assign" /\ Return(r) /\ t \in TripIds /\ p \in Parcels
        /\ UNCHANGED <<trip, totalTrips, tripCrashes>>
    BY <1>7 DEF AssignToTrip, BoardInv, RequestSound
  <2>2. CASE Exists(t)
    <3>1. parcel' = [parcel EXCEPT ![p] = [status |-> "MATCHED", trip |-> t]]
      BY <1>7, <2>2 DEF AssignToTrip, ForeignKeyHolds
    <3>2. t # NoTrip
      BY <2>1, BoardAssumption DEF TripIds, NoTrip
    <3>3. /\ raced' \subseteq Parcels
          /\ PastCheck(t) => p \in raced'
          /\ \A o \in Parcels \ {p} : o \in raced' <=> o \in raced
      <4>1. raced' = IF PastCheck(t) THEN raced \cup {p} ELSE raced \ {p}
        BY <1>7, <2>2 DEF AssignToTrip, ForeignKeyHolds
      <4>2. QED
        BY <1>0, <2>1, <4>1 DEF BoardTypeOK
    <3>4. t \in TripIds \cup {NoTrip}
      BY <2>1
    <3> HIDE DEF t, p
    <3>5. QED
      BY <2>1, <2>2, <3>1, <3>2, <3>3, <3>4, ParcelMoves
  <2>3. CASE ~Exists(t)
    <3>1. UNCHANGED <<parcel, raced>>
      BY <1>7, <2>3 DEF AssignToTrip, ForeignKeyHolds
    <3>2. QED
      BY <1>3, <2>1, <3>1
  <2>4. QED
    BY <2>2, <2>3
<1>8. ASSUME NEW r \in Requests, NEW t \in TripIds,
             FindForPublish(r, t) \/ FindForCancel(r, t) \/ FindForDelete(r, t)
      PROVE  BoardInv'
  <2>1. PICK pc \in {"publish", "checkCancel", "checkDelete"} :
          Begins(r, pc, t) /\ (pc = "publish" => trip[t] = "DRAFT")
    BY <1>8 DEF FindForPublish, FindForCancel, FindForDelete, Publishable
  <2> DEFINE q == [NoRequest EXCEPT !.pc = pc, !.trip = t]
  <2>2. UNCHANGED <<trip, totalTrips, parcel, tripCrashes, raced>>
    BY <1>8 DEF FindForPublish, FindForCancel, FindForDelete
  <2>3. request' = [request EXCEPT ![r] = q] /\ request[r].pc = "idle"
    BY <2>1 DEF Begins
  <2>4. q \in RequestRecords /\ q.pc = pc /\ q.trip = t
    BY NoRequestTyped DEF RequestRecords, NoRequest
  <2> HIDE DEF q
  <2>5. QED
    BY <2>1, <2>2, <2>3, <2>4, RequestMoves
<1>9. ASSUME NEW r \in Requests, NEW t \in TripIds, NEW p \in Parcels, FindForAssign(r, p, t)
      PROVE  BoardInv'
  <2> DEFINE q == [pc |-> "assign", trip |-> t, parcel |-> p, late |-> FALSE]
  <2>1. /\ request[r].pc = "idle" /\ request' = [request EXCEPT ![r] = q]
        /\ UNCHANGED <<trip, totalTrips, parcel, tripCrashes, raced>>
    BY <1>9 DEF FindForAssign
  <2>2. FALSE \in BOOLEAN
    OBVIOUS
  <2>3. q \in RequestRecords /\ q.pc = "assign" /\ q.trip = t /\ q.parcel = p
    BY <2>2 DEF RequestRecords
  <2> HIDE DEF q
  <2>4. QED
    BY <2>1, <2>3, RequestMoves
<1>10. ASSUME NEW p \in Parcels, RejectOffer(p) PROVE BoardInv'
  <2>1. /\ parcel' = [parcel EXCEPT ![p] = [status |-> "PENDING", trip |-> NoTrip]]
        /\ raced' = raced \ {p} /\ raced' \subseteq Parcels
        /\ request' = [o \in Requests |->
             [request[o] EXCEPT !.late = @ \/ (request[o].pc = "status" /\ request[o].parcel = p)]]
        /\ UNCHANGED <<trip, totalTrips, tripCrashes>>
    BY <1>0, <1>10 DEF RejectOffer, BoardTypeOK
  <2>2. QED
    BY <2>1, ParcelMoves
<1>13. ASSUME NEW r \in Requests, NEW p \in Parcels, FindForStatus(r, p) PROVE BoardInv'
  <2> DEFINE q == [NoRequest EXCEPT !.pc = "status", !.parcel = p]
  <2>1. /\ request[r].pc = "idle" /\ request' = [request EXCEPT ![r] = q]
        /\ UNCHANGED <<trip, totalTrips, parcel, tripCrashes, raced>> /\ parcel[p].status = "MATCHED"
    BY <1>13 DEF FindForStatus
  <2>2. q \in RequestRecords /\ q.pc = "status" /\ q.parcel = p
    BY NoRequestTyped DEF RequestRecords, NoRequest
  <2> HIDE DEF q
  <2>3. QED
    BY <2>1, <2>2, RequestMoves
<1>14. ASSUME NEW r \in Requests, WriteStatus(r) PROVE BoardInv'
  <2> DEFINE p == request[r].parcel
             t == parcel[p].trip
  <2>1. /\ request[r].pc = "status" /\ Return(r) /\ p \in Parcels
        /\ UNCHANGED <<trip, totalTrips, tripCrashes>>
        /\ parcel' = [parcel EXCEPT ![p].status = "MATCHED"]
        /\ raced' = IF request[r].late /\ parcel[p].status = "PENDING" THEN raced \cup {p} ELSE raced
    BY <1>14 DEF WriteStatus, BoardInv, RequestSound
  <2>2. /\ t \in TripIds \cup {NoTrip} /\ parcel[p].status \in {"PENDING", "MATCHED"}
        /\ t # NoTrip => Exists(t)
    BY <1>0, <2>1 DEF BoardTypeOK
  <2>6. parcel' = [parcel EXCEPT ![p] = [status |-> "MATCHED", trip |-> t]]
    <3>1. parcel[p] \in [status: {"PENDING", "MATCHED"}, trip: TripIds \cup {NoTrip}]
      BY <1>0, <2>1 DEF BoardTypeOK
    <3>2. [parcel[p] EXCEPT !.status = "MATCHED"] = [status |-> "MATCHED", trip |-> t]
      BY <3>1
    <3>3. parcel' = [parcel EXCEPT ![p] = [parcel[p] EXCEPT !.status = "MATCHED"]]
      BY <2>1
    <3>4. QED
      BY <3>2, <3>3
  <2>7. raced' \subseteq Parcels /\ \A o \in Parcels \ {p} : o \in raced' <=> o \in raced
    BY <1>0, <2>1 DEF BoardTypeOK
  <2>3. t = NoTrip => p \in raced'
    BY <2>1, <2>2 DEF BoardInv, RequestSound, OfferLosesTripOnlyByRace
  <2>4. PastCheck(t) => t = NoTrip \/ p \in raced'
    BY <2>1 DEF BoardInv, DeletesRaced
  <2> HIDE DEF p, t
  <2>5. QED
    BY <2>1, <2>2, <2>3, <2>4, <2>6, <2>7, ParcelMoves
<1>11. CASE UNCHANGED boardVars
  BY <1>11
     DEF boardVars, BoardInv, BoardTypeOK, RequestSound, TripCountBalanced,
         OfferLosesTripOnlyByRace, DeletesRaced, PastCheck, Pending, Exists
<1>12. QED
  BY <1>1, <1>2, <1>4, <1>5, <1>6, <1>7, <1>8, <1>9, <1>10, <1>11, <1>13,
     <1>14 DEF BoardNext

LEMMA BoardInvariant == BoardSpec => []BoardInv
BY BoardStarts, BoardStep, PTL DEF BoardSpec

\* The trips, the carrier's counter and the requests are of the types that the code gives
\* them, and a parcel names only a trip that exists, which it is matched to.
THEOREM BoardTypeCorrect == BoardSpec => []BoardTypeOK
<1>1. BoardInv => BoardTypeOK
  BY DEF BoardInv
<1>2. QED
  BY <1>1, BoardInvariant, PTL

\* For any number of trips, parcels, requests and crashes: the carrier's counter is off by no
\* more than the requests that stopped halfway; a parcel that is matched or further is
\* without a trip only after a delete that raced with its assignment or a status write
\* that was decided before the parcel was taken off; and only a publish that read the trip
\* before the cancel makes a cancelled trip active again.
THEOREM BoardStaysConsistent == BoardSpec => BoardConsistent
<1>1. BoardInv => TripCountBalanced /\ OfferLosesTripOnlyByRace
  BY DEF BoardInv
<1>2. ASSUME BoardInv, [BoardNext]_boardVars, NEW t \in TripIds,
             trip[t] = "CANCELLED", trip'[t] = "ACTIVE"
      PROVE  \E r \in Pending("publish") : request[r].trip = t /\ request[r].late
  <2>0. BoardTypeOK
    BY <1>2 DEF BoardInv
  <2>1. ASSUME NEW r \in Requests, NEW u \in TripIds,
               NEW status \in {"none", "gone", "DRAFT", "ACTIVE", "CANCELLED"}, NEW pc,
               WriteTrip(r, u, status, pc)
        PROVE  u = t /\ status = "ACTIVE"
    BY <1>2, <2>0, <2>1 DEF WriteTrip, BoardTypeOK
  <2>2. ASSUME NEW r \in Requests, Publish(r)
        PROVE  \E o \in Pending("publish") : request[o].trip = t /\ request[o].late
    <3>1. /\ request[r].pc = "publish" /\ request[r].trip \in TripIds
      BY <1>2, <2>2 DEF Publish, BoardInv, RequestSound
    <3>2. WriteTrip(r, request[r].trip, "ACTIVE", "idle")
      BY <1>2, <2>2 DEF Publish
    <3>3. request[r].trip = t
      BY <2>1, <3>1, <3>2
    <3>4. request[r].late
      BY <1>2, <3>1, <3>3 DEF BoardInv, RequestSound
    <3>5. r \in Pending("publish")
      BY <3>1 DEF Pending
    <3>6. QED
      BY <3>3, <3>4, <3>5
  <2>3. ASSUME NEW r \in Requests, CreateTrip(r) PROVE FALSE
    BY <2>1, <2>3 DEF CreateTrip
  <2>4. ASSUME NEW r \in Requests, CancelTrip(r) \/ DeleteTrip(r) PROVE FALSE
    <3>1. request[r].trip \in TripIds
      BY <1>2, <2>4 DEF CancelTrip, DeleteTrip, BoardInv, RequestSound
    <3>2. \/ WriteTrip(r, request[r].trip, "CANCELLED", "idle")
          \/ WriteTrip(r, request[r].trip, "gone", "countDeleted")
      BY <1>2, <2>4 DEF CancelTrip, DeleteTrip
    <3>3. QED
      BY <2>1, <3>1, <3>2
  <2>5. \/ \E r \in Requests : Publish(r) \/ CreateTrip(r) \/ CancelTrip(r) \/ DeleteTrip(r)
        \/ trip' = trip
    BY <1>2
       DEF BoardNext, boardVars, CountCreated, CountDeleted, CheckActiveShipments, AssignToTrip,
           CrashRequest, FindForPublish, FindForCancel, FindForDelete, FindForAssign, RejectOffer,
           FindForStatus, WriteStatus
  <2>6. trip' # trip
    BY <1>2
  <2>7. QED
    BY <2>2, <2>3, <2>4, <2>5, <2>6
<1>3. BoardInv /\ [BoardNext]_boardVars =>
        \A t \in TripIds : trip[t] = "CANCELLED" /\ trip'[t] = "ACTIVE" =>
          \E r \in Pending("publish") : request[r].trip = t /\ request[r].late
  BY <1>2
<1>4. BoardSpec => RevivedOnlyByLatePublish
  BY <1>3, BoardInvariant, PTL DEF BoardSpec, RevivedOnlyByLatePublish
<1>5. QED
  BY <1>1, <1>4, BoardInvariant, PTL DEF BoardConsistent

(***************************************************************************)
(* Suggestions                                                             *)
(***************************************************************************)

Jobs == [state: {"none", "waiting", "read", "running", "completed", "failed"},
         attempt: 0..MaxJobAttempts, doubtful: SUBSET Pairs, hits: SUBSET Pairs]

\* A job exists only for a row that is written.
RowsFirst ==
  /\ \A s \in Shipments : toEnqueue[s] > 0 \/ job[s].state # "none" => shipment[s] # "none"
  /\ \A t \in Trips : toEnqueue[t] > 0 \/ job[t].state # "none" => offer[t] # "DRAFT"

JobSound(x) ==
  /\ job[x].state \in {"read", "completed"} => job[x].hits = {}
  /\ job[x].state = "none" => job[x].attempt = 0
  /\ job[x].state # "read" => job[x].doubtful = {}
  /\ job[x].state = "waiting" => job[x].attempt < MaxJobAttempts

Wanted(s, t) ==
  /\ <<s, t>> \in (TripHits \cap ShipmentHits) \ (apart \cup cameBack \cup leftOut)
  /\ shipment[s] = "PENDING" /\ offer[t] = "ACTIVE"

BothPast(s, t) == Past(s, <<s, t>>) /\ Past(t, <<s, t>>)

\* Once both jobs are past seeing the pair, the later of them has seen both rows match, or
\* the pair came back: it is suggested or among the hits that are still to be stored.  A
\* pair that matches and is in doubt for one job is one that the other still has to see.
PairFound(s, t) ==
  Wanted(s, t) /\ BothPast(s, t) =>
    <<s, t>> \in suggested \cup job[s].hits \cup job[t].hits

MatchInv ==
  /\ MatchTypeOK
  /\ RowsFirst
  /\ \A x \in Subjects : JobSound(x)
  /\ \A s \in Shipments, t \in Trips : PairFound(s, t)

LEMMA MatchStarts == MatchInit => MatchInv
<1> SUFFICES ASSUME MatchInit PROVE MatchInv
  OBVIOUS
<1>1. \A x \in Subjects : job[x] = [state |-> "none", attempt |-> 0, doubtful |-> {}, hits |-> {}]
  BY DEF MatchInit, NoJob
<1>2. MatchTypeOK
  <2>1. [state |-> "none", attempt |-> 0, doubtful |-> {}, hits |-> {}] \in Jobs
    BY MatchingAssumption DEF Jobs
  <2>2. job \in [Subjects -> Jobs]
    BY <2>1 DEF MatchInit, NoJob
  <2>3. QED
    BY <1>1, <2>2, MatchingAssumption DEF MatchInit, MatchTypeOK, Jobs
<1>3. QED
  BY <1>1, <1>2, MatchingAssumption
     DEF MatchInit, MatchInv, RowsFirst, JobSound, PairFound, BothPast, Past, Subjects

\* The jobs do not move, and a row that changes is not one that jobs have found.
LEMMA RowsChange ==
  ASSUME MatchInv, MatchTypeOK', UNCHANGED <<job, suggested>>, RowsFirst',
         \A s \in Shipments, t \in Trips : (Wanted(s, t))' /\ BothPast(s, t) => Wanted(s, t)
  PROVE  MatchInv'
BY DEF MatchInv, JobSound, PairFound, BothPast, Past

\* One job moves on.
LEMMA JobMoves ==
  ASSUME MatchInv, NEW x \in Subjects, NEW j \in Jobs, job' = [job EXCEPT ![x] = j],
         j.state # "none", job[x].state # "none" \/ toEnqueue[x] > 0,
         toEnqueue' \in [Subjects -> Nat],
         \A y \in Subjects : toEnqueue'[y] > 0 => toEnqueue[y] > 0,
         suggested \subseteq suggested', suggested' \subseteq Pairs,
         leftOut \subseteq leftOut', leftOut' \subseteq Pairs, upsets' \in 0..MaxUpsets,
         UNCHANGED <<shipment, offer, apart, publishing, cameBack>>,
         j.state \in {"read", "completed"} => j.hits = {}, j.state # "read" => j.doubtful = {},
         j.state = "waiting" => j.attempt < MaxJobAttempts,
         \A pair \in j.hits : x \in {pair[1], pair[2]},
         \A s \in Shipments, t \in Trips :
           /\ (Wanted(s, t))' /\ x \in {s, t}
           /\ j.state \in {"running", "completed"} \/ <<s, t>> \in j.doubtful
           => \/ <<s, t>> \in suggested' \cup j.hits
              \/ Past(x, <<s, t>>) /\ <<s, t>> \notin job[x].hits
  PROVE  MatchInv'
<1>0. job \in [Subjects -> Jobs] /\ MatchTypeOK
  BY DEF MatchInv, MatchTypeOK, Jobs
<1>1. job' \in [Subjects -> Jobs] /\ job'[x] = j
      /\ \A y \in Subjects \ {x} : job'[y] = job[y]
  BY <1>0
<1>2. MatchTypeOK'
  BY <1>0, <1>1 DEF MatchTypeOK, Jobs
<1>3. RowsFirst'
  BY <1>1 DEF MatchInv, RowsFirst, Subjects
<1>4. \A y \in Subjects : JobSound(y)'
  BY <1>1 DEF MatchInv, JobSound
<1>5. ASSUME NEW s \in Shipments, NEW t \in Trips, (Wanted(s, t))', (BothPast(s, t))'
      PROVE  <<s, t>> \in suggested' \cup job'[s].hits \cup job'[t].hits
  <2>1. Wanted(s, t) /\ s \in Subjects /\ t \in Subjects
    BY <1>5 DEF Wanted, Subjects
  <2>2. CASE x \notin {s, t}
    <3>1. BothPast(s, t)
      BY <1>1, <1>5, <2>1, <2>2 DEF BothPast, Past
    <3>2. QED
      BY <1>1, <2>1, <2>2, <3>1 DEF MatchInv, PairFound
  <2>3. CASE x \in {s, t} /\ <<s, t>> \in suggested' \cup j.hits
    BY <1>1, <2>3
  <2>4. CASE x \in {s, t} /\ Past(x, <<s, t>>) /\ <<s, t>> \notin job[x].hits
    <3>1. BothPast(s, t)
      BY <1>1, <1>5, <2>1, <2>4 DEF BothPast, Past
    <3>2. <<s, t>> \in suggested \cup job[s].hits \cup job[t].hits
      BY <2>1, <3>1 DEF MatchInv, PairFound
    <3>3. QED
      BY <1>1, <2>1, <2>4, <3>2
  <2>5. j.state \in {"running", "completed"} \/ <<s, t>> \in j.doubtful \/ x \notin {s, t}
    BY <1>1, <1>5, <2>1 DEF BothPast, Past
  <2>6. QED
    BY <1>5, <2>1, <2>2, <2>3, <2>4, <2>5
<1>6. QED
  BY <1>2, <1>3, <1>4, <1>5 DEF MatchInv, PairFound

LEMMA MatchStep == MatchInv /\ [MatchNext]_matchVars => MatchInv'
<1> SUFFICES ASSUME MatchInv, [MatchNext]_matchVars PROVE MatchInv'
  OBVIOUS
<1>0. /\ MatchTypeOK /\ job \in [Subjects -> Jobs] /\ RowsFirst
      /\ \A x \in Subjects : JobSound(x)
  BY DEF MatchInv, MatchTypeOK, Jobs
<1>1. ASSUME NEW s \in Shipments, CreateShipment(s) PROVE MatchInv'
  <2>1. /\ shipment[s] = "none" /\ shipment' = [shipment EXCEPT ![s] = "PENDING"]
        /\ toEnqueue' = [toEnqueue EXCEPT ![s] = @ + 1]
        /\ UNCHANGED <<offer, apart, publishing, job, suggested, upsets, cameBack, leftOut>>
    BY <1>1 DEF CreateShipment
  <2>2. MatchTypeOK'
    BY <1>0, <2>1 DEF MatchTypeOK, Subjects
  <2>3. RowsFirst'
    BY <1>0, <2>1, MatchingAssumption DEF RowsFirst, MatchTypeOK
  <2>4. \A t \in Trips : ~Past(s, <<s, t>>)
    BY <1>0, <2>1 DEF RowsFirst, Past, JobSound, Subjects
  <2>5. \A r \in Shipments, t \in Trips :
          (Wanted(r, t))' /\ BothPast(r, t) => Wanted(r, t)
    BY <1>0, <2>1, <2>4 DEF Wanted, MatchTypeOK, BothPast
  <2>6. QED
    BY <2>1, <2>2, <2>3, <2>5, RowsChange
<1>2. ASSUME NEW s \in Shipments, Assign(s) PROVE MatchInv'
  <2>1. /\ shipment' = [shipment EXCEPT ![s] = "MATCHED"]
        /\ UNCHANGED <<offer, apart, publishing, toEnqueue, job, suggested, cameBack, leftOut>>
        /\ upsets' \in 0..MaxUpsets
    BY <1>0, <1>2, MatchingAssumption DEF Assign, Upset, MatchTypeOK
  <2>2. MatchTypeOK' /\ RowsFirst'
    BY <1>0, <2>1 DEF MatchTypeOK, RowsFirst
  <2>3. \A r \in Shipments, t \in Trips :
          (Wanted(r, t))' /\ BothPast(r, t) => Wanted(r, t)
    BY <1>0, <2>1 DEF Wanted, MatchTypeOK
  <2>4. QED
    BY <2>1, <2>2, <2>3, RowsChange
<1>3. ASSUME NEW s \in Shipments, Reject(s) PROVE MatchInv'
  <2>1. /\ shipment' = [shipment EXCEPT ![s] = "PENDING"] /\ ComeBack({s} \X Trips)
        /\ UNCHANGED <<offer, apart, publishing, toEnqueue, job, suggested, upsets, leftOut>>
    BY <1>3 DEF Reject
  <2>2. MatchTypeOK' /\ RowsFirst'
    BY <1>0, <2>1 DEF MatchTypeOK, RowsFirst, ComeBack, Pairs
  <2>3. \A r \in Shipments, t \in Trips :
          (Wanted(r, t))' /\ BothPast(r, t) => Wanted(r, t)
    BY <1>0, <2>1 DEF Wanted, MatchTypeOK, ComeBack, BothPast
  <2>4. QED
    BY <2>1, <2>2, <2>3, RowsChange
<1>4. ASSUME NEW t \in Trips, PublishTrip(t) PROVE MatchInv'
  <2>1. /\ publishing[t] > 0 /\ publishing' = [publishing EXCEPT ![t] = @ - 1]
        /\ offer' = [offer EXCEPT ![t] = "ACTIVE"]
        /\ ComeBack(IF offer[t] = "CANCELLED" THEN Shipments \X {t} ELSE {})
        /\ toEnqueue' = [toEnqueue EXCEPT ![t] = @ + 1]
        /\ UNCHANGED <<shipment, apart, job, suggested, upsets, leftOut>>
    BY <1>4 DEF PublishTrip
  <2>2. MatchTypeOK'
    <3>1. cameBack' \subseteq Pairs
      BY <1>0, <2>1 DEF MatchTypeOK, ComeBack, Pairs
    <3>2. publishing' \in [Trips -> Nat] /\ toEnqueue' \in [Subjects -> Nat]
      BY <1>0, <2>1 DEF MatchTypeOK, Subjects
    <3>3. QED
      BY <1>0, <2>1, <3>1, <3>2 DEF MatchTypeOK
  <2>3. RowsFirst'
    BY <1>0, <2>1, MatchingAssumption DEF RowsFirst, MatchTypeOK
  <2>4. ASSUME NEW s \in Shipments, NEW u \in Trips, (Wanted(s, u))', BothPast(s, u)
        PROVE  Wanted(s, u)
    <3>1. CASE u # t \/ offer[t] = "ACTIVE"
      BY <1>0, <2>1, <2>4, <3>1 DEF Wanted, MatchTypeOK, ComeBack
    <3>2. CASE u = t /\ offer[t] = "DRAFT"
      BY <1>0, <2>4, <3>2 DEF RowsFirst, BothPast, Past, JobSound, Subjects
    <3>3. CASE u = t /\ offer[t] = "CANCELLED"
      <4>1. <<s, t>> \in cameBack'
        BY <2>1, <2>4, <3>3 DEF ComeBack, BothPast
      <4>2. QED
        BY <2>4, <3>3, <4>1 DEF Wanted
    <3>4. QED
      BY <1>0, <3>1, <3>2, <3>3 DEF MatchTypeOK
  <2>5. QED
    BY <2>1, <2>2, <2>3, <2>4, RowsChange
<1>5. ASSUME NEW t \in Trips, CancelOffer(t) PROVE MatchInv'
  <2>1. /\ offer' = [offer EXCEPT ![t] = "CANCELLED"] /\ upsets' \in 0..MaxUpsets
        /\ UNCHANGED <<shipment, apart, publishing, toEnqueue, job, suggested, cameBack, leftOut>>
    BY <1>0, <1>5, MatchingAssumption DEF CancelOffer, Upset, MatchTypeOK
  <2>2. MatchTypeOK' /\ RowsFirst'
    BY <1>0, <2>1 DEF MatchTypeOK, RowsFirst
  <2>3. \A s \in Shipments, u \in Trips :
          (Wanted(s, u))' /\ BothPast(s, u) => Wanted(s, u)
    BY <1>0, <2>1 DEF Wanted, MatchTypeOK
  <2>4. QED
    BY <2>1, <2>2, <2>3, RowsChange
<1>15. ASSUME NEW t \in Trips, SeeDraft(t) PROVE MatchInv'
  <2>1. /\ publishing' = [publishing EXCEPT ![t] = @ + 1]
        /\ UNCHANGED <<shipment, offer, apart, toEnqueue, job, suggested, upsets, cameBack, leftOut>>
    BY <1>15 DEF SeeDraft
  <2>2. MatchTypeOK' /\ RowsFirst'
    BY <1>0, <2>1 DEF MatchTypeOK, RowsFirst
  <2>3. \A s \in Shipments, u \in Trips : (Wanted(s, u))' => Wanted(s, u)
    BY <2>1 DEF Wanted
  <2>4. QED
    BY <2>1, <2>2, <2>3, RowsChange
<1>16. ASSUME NEW s \in Shipments, NEW t \in Trips, BringTogether(s, t) PROVE MatchInv'
  <2>1. /\ apart' = apart \ {<<s, t>>} /\ ComeBack({<<s, t>>})
        /\ UNCHANGED <<shipment, offer, publishing, toEnqueue, job, suggested, upsets, leftOut>>
    BY <1>16 DEF BringTogether
  <2>2. apart' \subseteq Pairs /\ cameBack' \subseteq Pairs
    BY <1>0, <2>1 DEF MatchTypeOK, ComeBack, Pairs
  <2>3. MatchTypeOK' /\ RowsFirst'
    BY <1>0, <2>1, <2>2 DEF MatchTypeOK, RowsFirst
  <2>4. ASSUME NEW r \in Shipments, NEW u \in Trips, (Wanted(r, u))', BothPast(r, u)
        PROVE  Wanted(r, u)
    <3>1. <<r, u>> \in apart => <<r, u>> \in apart' \cup cameBack'
      BY <2>1, <2>4 DEF ComeBack, BothPast
    <3>2. cameBack \subseteq cameBack'
      BY <2>1 DEF ComeBack
    <3>3. QED
      BY <2>1, <2>4, <3>1, <3>2 DEF Wanted
  <2>5. QED
    BY <2>1, <2>3, <2>4, RowsChange
<1>17. ASSUME NEW s \in Shipments, NEW t \in Trips, PutApart(s, t) PROVE MatchInv'
  <2> DEFINE Doubted(x) == IF x \in {s, t} /\ job[x].state = "read"
                           THEN [job[x] EXCEPT !.doubtful = @ \cup {<<s, t>>}] ELSE job[x]
  <2>1. /\ apart' = apart \cup {<<s, t>>} /\ upsets' \in 0..MaxUpsets
        /\ job' = [x \in Subjects |-> Doubted(x)]
        /\ UNCHANGED <<shipment, offer, publishing, toEnqueue, suggested, cameBack, leftOut>>
    BY <1>0, <1>17, MatchingAssumption DEF PutApart, Upset, MatchTypeOK
  <2>2. ASSUME NEW x \in Subjects
        PROVE  /\ job'[x] \in Jobs /\ job'[x].state = job[x].state
               /\ job'[x].attempt = job[x].attempt /\ job'[x].hits = job[x].hits
               /\ job'[x].doubtful \subseteq job[x].doubtful \cup {<<s, t>>}
               /\ job[x].state # "read" => job'[x].doubtful = job[x].doubtful
    <3>1. <<s, t>> \in Pairs /\ job[x] \in Jobs /\ job'[x] = Doubted(x)
      BY <1>0, <2>1 DEF Pairs
    <3>2. QED
      BY <3>1 DEF Jobs
  <2> HIDE DEF Doubted
  <2>3. job' \in [Subjects -> Jobs]
    BY <2>1, <2>2
  <2>4. MatchTypeOK'
    BY <1>0, <2>1, <2>2, <2>3 DEF MatchTypeOK, Jobs, Pairs
  <2>5. RowsFirst'
    BY <1>0, <2>1, <2>2 DEF RowsFirst, Subjects
  <2>6. \A x \in Subjects : JobSound(x)'
    BY <1>0, <2>2 DEF JobSound
  <2>7. ASSUME NEW r \in Shipments, NEW u \in Trips, (Wanted(r, u))', (BothPast(r, u))'
        PROVE  <<r, u>> \in suggested' \cup job'[r].hits \cup job'[u].hits
    <3>1. r \in Subjects /\ u \in Subjects
      BY DEF Subjects
    <3>2. Wanted(r, u) /\ <<r, u>> # <<s, t>>
      BY <2>1, <2>7 DEF Wanted
    <3>3. BothPast(r, u)
      BY <2>2, <2>7, <3>1, <3>2 DEF BothPast, Past
    <3>4. QED
      BY <2>1, <2>2, <3>1, <3>2, <3>3 DEF MatchInv, PairFound
  <2>8. QED
    BY <2>4, <2>5, <2>6, <2>7 DEF MatchInv, PairFound
<1>6. ASSUME NEW x \in Subjects, Enqueue(x) PROVE MatchInv'
  <2>1. /\ toEnqueue[x] > 0 /\ toEnqueue' \in [Subjects -> Nat]
        /\ \A y \in Subjects : toEnqueue'[y] > 0 => toEnqueue[y] > 0
        /\ UNCHANGED <<shipment, offer, apart, publishing, suggested, upsets, cameBack, leftOut>>
    BY <1>0, <1>6 DEF Enqueue, MatchTypeOK
  <2>2. CASE job[x].state = "none"
    <3> DEFINE j == [job[x] EXCEPT !.state = "waiting"]
    <3>1. j \in Jobs /\ job' = [job EXCEPT ![x] = j] /\ j.state = "waiting"
          /\ j.hits = job[x].hits /\ j.doubtful = {} /\ j.attempt = 0
      BY <1>0, <1>6, <2>2 DEF Enqueue, Jobs, JobSound
    <3> HIDE DEF j
    <3>2. 0 < MaxJobAttempts /\ \A pair \in j.hits : x \in {pair[1], pair[2]}
      BY <1>0, <3>1, MatchingAssumption DEF MatchTypeOK
    <3>3. QED
      BY <1>0, <2>1, <3>1, <3>2, JobMoves DEF MatchTypeOK
  <2>3. CASE job[x].state # "none"
    <3>1. job' = job
      BY <1>6, <2>3 DEF Enqueue
    <3>2. MatchTypeOK' /\ RowsFirst'
      BY <1>0, <2>1, <3>1 DEF MatchTypeOK, RowsFirst, Subjects
    <3>3. \A s \in Shipments, t \in Trips : (Wanted(s, t))' => Wanted(s, t)
      BY <2>1 DEF Wanted
    <3>4. QED
      BY <2>1, <3>1, <3>2, <3>3, RowsChange
  <2>4. QED
    BY <2>2, <2>3
<1>7. ASSUME NEW x \in Subjects, EnqueueFails(x) PROVE MatchInv'
  <2>1. /\ toEnqueue' \in [Subjects -> Nat]
        /\ \A y \in Subjects : toEnqueue'[y] > 0 => toEnqueue[y] > 0
        /\ upsets' \in 0..MaxUpsets
        /\ UNCHANGED <<shipment, offer, apart, publishing, job, suggested, cameBack, leftOut>>
    BY <1>0, <1>7, MatchingAssumption DEF EnqueueFails, Upset, MatchTypeOK
  <2>2. MatchTypeOK' /\ RowsFirst'
    BY <1>0, <2>1 DEF MatchTypeOK, RowsFirst, Subjects
  <2>3. \A s \in Shipments, t \in Trips : (Wanted(s, t))' => Wanted(s, t)
    BY <2>1 DEF Wanted
  <2>4. QED
    BY <2>1, <2>2, <2>3, RowsChange
<1>18. ASSUME NEW x \in Subjects, ReadSubject(x) PROVE MatchInv'
  <2> DEFINE j == [state |-> "read", attempt |-> job[x].attempt + 1,
                   doubtful |-> {pair \in apart : x \in {pair[1], pair[2]}}, hits |-> {}]
  <2>1. /\ job[x].state = "waiting" /\ job' = [job EXCEPT ![x] = j]
        /\ UNCHANGED <<shipment, offer, apart, publishing, toEnqueue, suggested, upsets, cameBack,
                       leftOut>>
    BY <1>18 DEF ReadSubject
  <2>2. job[x].attempt + 1 \in 0..MaxJobAttempts
    BY <1>0, <2>1, MatchingAssumption DEF JobSound, Jobs
  <2>3. j \in Jobs /\ j.state = "read" /\ j.hits = {} /\ j.doubtful \subseteq apart
    BY <1>0, <2>2 DEF Jobs, MatchTypeOK
  <2> HIDE DEF j
  <2>4. \A s \in Shipments, t \in Trips : (Wanted(s, t))' => <<s, t>> \notin j.doubtful
    BY <2>1, <2>3 DEF Wanted
  <2>5. /\ suggested' \subseteq Pairs /\ toEnqueue' \in [Subjects -> Nat]
        /\ upsets' \in 0..MaxUpsets /\ leftOut' \subseteq Pairs
    BY <1>0, <2>1 DEF MatchTypeOK
  <2>6. QED
    BY <2>1, <2>3, <2>4, <2>5, JobMoves
<1>8. ASSUME NEW x \in Subjects, RunQuery(x) PROVE MatchInv'
  <2>0. PICK missed \in SUBSET job[x].doubtful : \E found \in Answers(HitsOf(x) \ missed) :
          /\ job' = [job EXCEPT ![x].state = "running", ![x].doubtful = {}, ![x].hits = found]
          /\ leftOut' = leftOut \cup ((HitsOf(x) \ missed) \ found)
    BY <1>8 DEF RunQuery
  <2>1. PICK found \in Answers(HitsOf(x) \ missed) :
          /\ job' = [job EXCEPT ![x].state = "running", ![x].doubtful = {}, ![x].hits = found]
          /\ leftOut' = leftOut \cup ((HitsOf(x) \ missed) \ found)
    BY <2>0
  <2> DEFINE j == [job[x] EXCEPT !.state = "running", !.doubtful = {}, !.hits = found]
  <2>2. /\ found \subseteq HitsOf(x) /\ HitsOf(x) \subseteq Pairs
        /\ \A pair \in HitsOf(x) : x \in {pair[1], pair[2]}
    BY MatchingAssumption DEF Answers, HitsOf, Pairs
  <2>3. /\ job[x].state = "read" /\ job[x].hits = {}
        /\ UNCHANGED <<shipment, offer, apart, publishing, toEnqueue, suggested, upsets, cameBack>>
    BY <1>0, <1>8 DEF RunQuery, JobSound
  <2>4. /\ j \in Jobs /\ j.state = "running" /\ j.hits = found /\ j.doubtful = {}
        /\ job' = [job EXCEPT ![x] = j]
    BY <1>0, <2>1, <2>2 DEF Jobs
  <2> HIDE DEF j
  <2>5. ASSUME NEW s \in Shipments, NEW t \in Trips, (Wanted(s, t))', x \in {s, t}
        PROVE  \/ <<s, t>> \in found
               \/ Past(x, <<s, t>>) /\ <<s, t>> \notin job[x].hits
    <3>1. <<s, t>> \in HitsOf(x)
      BY <2>3, <2>5 DEF HitsOf, Wanted
    <3>2. CASE <<s, t>> \in missed
      BY <2>3, <3>2 DEF Past
    <3>3. CASE <<s, t>> \notin missed
      BY <2>1, <2>5, <3>1, <3>3 DEF Wanted
    <3>4. QED
      BY <3>2, <3>3
  <2>6. \A s \in Shipments, t \in Trips :
          (Wanted(s, t))' /\ x \in {s, t} =>
            \/ <<s, t>> \in suggested' \cup j.hits
            \/ Past(x, <<s, t>>) /\ <<s, t>> \notin job[x].hits
    BY <2>4, <2>5
  <2>7. /\ suggested' \subseteq Pairs /\ leftOut \subseteq leftOut' /\ leftOut' \subseteq Pairs
        /\ \A pair \in j.hits : x \in {pair[1], pair[2]}
        /\ toEnqueue' \in [Subjects -> Nat] /\ upsets' \in 0..MaxUpsets
    BY <1>0, <2>1, <2>2, <2>3, <2>4 DEF MatchTypeOK
  <2>8. QED
    BY <2>3, <2>4, <2>6, <2>7, JobMoves
<1>9. ASSUME NEW x \in Subjects, StoreSuggestion(x) PROVE MatchInv'
  <2>1. PICK pair \in job[x].hits :
          /\ suggested' = suggested \cup {pair}
          /\ job' = [job EXCEPT ![x].hits = @ \ {pair}]
    BY <1>9 DEF StoreSuggestion
  <2> DEFINE j == [job[x] EXCEPT !.hits = @ \ {pair}]
  <2>2. /\ j \in Jobs /\ job' = [job EXCEPT ![x] = j] /\ j.state = "running"
        /\ j.hits = job[x].hits \ {pair} /\ j.doubtful = {} /\ job[x].state = "running"
        /\ UNCHANGED <<shipment, offer, apart, publishing, toEnqueue, upsets, cameBack, leftOut>>
    BY <1>0, <1>9, <2>1 DEF StoreSuggestion, Jobs, JobSound
  <2> HIDE DEF j
  <2>3. /\ suggested' \subseteq Pairs /\ suggested \subseteq suggested'
        /\ toEnqueue' \in [Subjects -> Nat] /\ upsets' \in 0..MaxUpsets /\ leftOut' \subseteq Pairs
    BY <1>0, <2>1, <2>2 DEF MatchTypeOK, Jobs
  <2>4. \A p \in j.hits : x \in {p[1], p[2]}
    BY <1>0, <2>2 DEF MatchTypeOK
  <2>5. ASSUME NEW s \in Shipments, NEW t \in Trips
        PROVE  <<s, t>> \in suggested' \cup j.hits \/ (Past(x, <<s, t>>) /\ <<s, t>> \notin job[x].hits)
    BY <2>1, <2>2 DEF Past
  <2>6. QED
    BY <2>2, <2>3, <2>4, <2>5, JobMoves
<1>10. ASSUME NEW x \in Subjects, CompleteJob(x) PROVE MatchInv'
  <2> DEFINE j == [job[x] EXCEPT !.state = "completed"]
  <2>1. /\ j \in Jobs /\ job' = [job EXCEPT ![x] = j] /\ j.state = "completed"
        /\ j.hits = {} /\ j.doubtful = {} /\ job[x].hits = {} /\ job[x].state = "running"
        /\ UNCHANGED <<shipment, offer, apart, publishing, toEnqueue, suggested, upsets, cameBack,
                       leftOut>>
    BY <1>0, <1>10 DEF CompleteJob, Jobs, JobSound
  <2> HIDE DEF j
  <2>2. /\ \A s \in Shipments, t \in Trips : Past(x, <<s, t>>) /\ <<s, t>> \notin job[x].hits
        /\ suggested' \subseteq Pairs /\ toEnqueue' \in [Subjects -> Nat]
        /\ upsets' \in 0..MaxUpsets /\ leftOut' \subseteq Pairs
    BY <1>0, <2>1 DEF Past, MatchTypeOK
  <2>3. QED
    BY <2>1, <2>2, JobMoves
<1>11. ASSUME NEW x \in Subjects, JobFails(x) PROVE MatchInv'
  <2> DEFINE state == IF Retried(x) THEN "waiting" ELSE "failed"
             j == [job[x] EXCEPT !.state = state, !.doubtful = {}, !.hits = {}]
  <2>1. /\ job[x].state \in {"read", "running"}
        /\ job' = [job EXCEPT ![x].state = state, ![x].doubtful = {}, ![x].hits = {}]
        /\ UNCHANGED <<shipment, offer, apart, publishing, toEnqueue, suggested, cameBack, leftOut>>
        /\ upsets' \in 0..MaxUpsets
    BY <1>0, <1>11, MatchingAssumption DEF JobFails, Upset, MatchTypeOK
  <2>2. state \in {"waiting", "failed"} /\ (state = "waiting" => job[x].attempt < MaxJobAttempts)
    BY DEF Retried
  <2> HIDE DEF state
  <2>3. /\ j \in Jobs /\ job' = [job EXCEPT ![x] = j] /\ j.state = state
        /\ j.hits = {} /\ j.doubtful = {} /\ j.attempt = job[x].attempt
    BY <1>0, <2>1, <2>2 DEF Jobs
  <2> HIDE DEF j
  <2>4. QED
    BY <1>0, <2>1, <2>2, <2>3, JobMoves DEF MatchTypeOK
<1>12. ASSUME NEW s \in Shipments, NEW t \in Trips, AutoMatch(s, t) PROVE MatchInv'
  <2>1. /\ suggested' = suggested \cup {<<s, t>>}
        /\ UNCHANGED <<shipment, offer, apart, publishing, toEnqueue, job, upsets, cameBack, leftOut>>
    BY <1>12 DEF AutoMatch
  <2>2. MatchTypeOK' /\ RowsFirst' /\ \A x \in Subjects : JobSound(x)'
    BY <1>0, <2>1 DEF MatchTypeOK, RowsFirst, JobSound, Pairs
  <2>3. \A r \in Shipments, u \in Trips : PairFound(r, u)'
    BY <2>1 DEF MatchInv, PairFound, Wanted, BothPast, Past
  <2>4. QED
    BY <2>2, <2>3 DEF MatchInv
<1>13. CASE UNCHANGED matchVars
  BY <1>13
     DEF matchVars, MatchInv, MatchTypeOK, RowsFirst, JobSound, PairFound, Wanted, BothPast, Past
<1>14. QED
  BY <1>1, <1>2, <1>3, <1>4, <1>5, <1>6, <1>7, <1>8, <1>9, <1>10, <1>11, <1>12, <1>13,
     <1>15, <1>16, <1>17, <1>18 DEF MatchNext

LEMMA MatchInvariant == MatchSpec => []MatchInv
BY MatchStarts, MatchStep, PTL DEF MatchSpec

\* The rows, the jobs and the suggestions are of the types that the code gives them, and a
\* job is run no more often than its attempts allow.
THEOREM MatchTypeCorrect == MatchSpec => []MatchTypeOK
<1>1. MatchInv => MatchTypeOK
  BY DEF MatchInv
<1>2. QED
  BY <1>1, MatchInvariant, PTL

\* A pending shipment and an active trip that match are suggested to each other once their two
\* jobs have run, unless a query left the pair out for want of room among its candidates, or
\* the two came to match only after they, or one of them, had been queried for: for any number
\* of rows, publishers, jobs, attempts, candidates and refusals by the queue, and in whatever
\* order the rows were written and the jobs ran.
THEOREM PairsAreSuggested == MatchSpec => []NoPairMissed
<1>1. ASSUME MatchInv, NEW s \in Shipments, NEW t \in Trips, Wanted(s, t),
             job[s].state = "completed", job[t].state = "completed"
      PROVE  <<s, t>> \in suggested
  <2>1. job[s].hits = {} /\ job[t].hits = {}
    BY <1>1 DEF MatchInv, JobSound, Subjects
  <2>2. <<s, t>> \in suggested \cup job[s].hits \cup job[t].hits
    BY <1>1 DEF MatchInv, PairFound, BothPast, Past
  <2>3. QED
    BY <2>1, <2>2
<1>2. MatchInv => NoPairMissed
  BY <1>1 DEF NoPairMissed, Wanted
<1>3. QED
  BY <1>2, MatchInvariant, PTL

(***************************************************************************)
(* Reviews                                                                 *)
(***************************************************************************)

Placed == {r \in ReviewCalls : submit[r].at \in {"inserted", "averaged", "written"}}

\* A row that a transaction has inserted keeps its key from every other, committed or not.
KeysDistinct ==
  /\ OneReviewPerShipment
  /\ \A q, r \in Placed : ReviewOf[q] = ReviewOf[r] => q = r
  /\ \A r \in Placed : ~Existing(r)

\* An average counts what was committed when it was taken, and its own row.
AveragesCurrent ==
  \A r \in ReviewCalls : submit[r].at \in {"averaged", "written"} =>
    /\ submit[r].counts \subseteq reviews \cup {r}
    /\ r \notin overtaken => submit[r].counts = reviews \cup {r}

ReviewsInv ==
  /\ ReviewsTypeOK
  /\ KeysDistinct
  /\ AveragesCurrent
  /\ \A r \in ReviewCalls : submit[r].at \in Tx \cup {"checked"} => ReviewOf[r] \in confirmed
  /\ \A r \in ReviewCalls : submit[r].at = "written" <=> r \in ratingLock
  /\ ratingLock = {} \/ \E r \in ReviewCalls : ratingLock = {r}

ReviewStates == [at: {"none", "checked", "done", "refused"} \cup Tx, counts: SUBSET ReviewCalls]

LEMMA LockAlone ==
  ASSUME ratingLock = {} \/ \E r \in ReviewCalls : ratingLock = {r}
  PROVE  Cardinality(ratingLock) <= 1
<1>1. CASE ratingLock = {}
  BY <1>1, FS_EmptySet
<1>2. CASE \E r \in ReviewCalls : ratingLock = {r}
  <2>1. PICK r \in ReviewCalls : ratingLock = {r}
    BY <1>2
  <2>2. Cardinality(ratingLock) = 1
    BY <2>1, FS_Singleton
  <2>3. QED
    BY <2>2
<1>3. QED
  BY <1>1, <1>2

LEMMA ReviewsStarts == ReviewsInit => ReviewsInv
<1> SUFFICES ASSUME ReviewsInit PROVE ReviewsInv
  OBVIOUS
<1>1. \A r \in ReviewCalls : submit[r] = [at |-> "none", counts |-> {}]
  BY DEF ReviewsInit, Idle
<1>2. ReviewsTypeOK
  BY LockAlone DEF ReviewsInit, ReviewsTypeOK, Idle
<1>3. QED
  BY <1>1, <1>2
     DEF ReviewsInit, ReviewsInv, KeysDistinct, OneReviewPerShipment, Placed, AveragesCurrent, Tx

\* The other submissions do not move.
LEMMA OneSubmission ==
  ASSUME ReviewsInv, NEW r \in ReviewCalls, NEW s \in ReviewStates,
         submit' = [submit EXCEPT ![r] = s]
  PROVE  /\ submit' \in [ReviewCalls -> ReviewStates]
         /\ submit'[r] = s
         /\ \A q \in ReviewCalls \ {r} : submit'[q] = submit[q]
BY DEF ReviewsInv, ReviewsTypeOK, ReviewStates

LEMMA ReviewsStep == ReviewsInv /\ [ReviewsNext]_reviewsVars => ReviewsInv'
<1> SUFFICES ASSUME ReviewsInv, [ReviewsNext]_reviewsVars PROVE ReviewsInv'
  OBVIOUS
<1>0. ReviewsTypeOK /\ submit \in [ReviewCalls -> ReviewStates]
  BY DEF ReviewsInv, ReviewsTypeOK, ReviewStates
<1>1. ASSUME NEW s \in Reviewed, ConfirmReceipt(s) PROVE ReviewsInv'
  <2>1. confirmed' = confirmed \cup {s} /\ UNCHANGED <<submit, reviews, rating, ratingLock, overtaken>>
    BY <1>1 DEF ConfirmReceipt
  <2>2. ReviewsTypeOK'
    BY <1>0, <2>1 DEF ReviewsTypeOK, InTx
  <2>3. QED
    BY <2>1, <2>2 DEF ReviewsInv, KeysDistinct, OneReviewPerShipment, Placed, AveragesCurrent, Existing
\* A submission outside its transaction, or at its start, moves on.
<1>2. ASSUME NEW r \in ReviewCalls, NEW at \in {"checked", "refused", "begun"},
             Step(r, at), submit[r].at \in {"none", "checked", "begun"},
             overtaken' \in SUBSET ReviewCalls, overtaken \ {r} \subseteq overtaken',
             UNCHANGED <<confirmed, reviews, rating, ratingLock>>,
             at = "checked" => ReviewOf[r] \in confirmed,
             at = "begun" => submit[r].at = "checked"
      PROVE  ReviewsInv'
  <2> DEFINE s == [submit[r] EXCEPT !.at = at]
  <2>1. s \in ReviewStates /\ submit' = [submit EXCEPT ![r] = s] /\ s.at = at
    BY <1>0, <1>2 DEF Step, ReviewStates, Tx
  <2> HIDE DEF s
  <2>2. /\ submit' \in [ReviewCalls -> ReviewStates] /\ submit'[r].at = at
        /\ \A q \in ReviewCalls \ {r} : submit'[q] = submit[q]
    BY <2>1, OneSubmission
  <2>3. Placed' = Placed
    BY <1>2, <2>2 DEF Placed
  <2>4. r \notin ratingLock
    BY <1>2 DEF ReviewsInv
  <2>5. ReviewsTypeOK'
    BY <1>0, <1>2, <2>2, <2>4 DEF ReviewsTypeOK, InTx, ReviewStates
  <2>6. KeysDistinct'
    BY <1>2, <2>3 DEF ReviewsInv, KeysDistinct, OneReviewPerShipment, Existing
  <2>7. AveragesCurrent'
    BY <1>2, <2>2 DEF ReviewsInv, AveragesCurrent
  <2>8. \A q \in ReviewCalls : submit'[q].at \in Tx \cup {"checked"} => ReviewOf[q] \in confirmed'
    BY <1>2, <2>2 DEF ReviewsInv, Tx
  <2>9. \A q \in ReviewCalls : submit'[q].at = "written" <=> q \in ratingLock'
    BY <1>2, <2>2, <2>4 DEF ReviewsInv
  <2>10. QED
    BY <1>2, <2>5, <2>6, <2>7, <2>8, <2>9 DEF ReviewsInv
<1>3. ASSUME NEW r \in ReviewCalls, CheckSubmission(r) PROVE ReviewsInv'
  <2>1. overtaken' = overtaken /\ UNCHANGED <<confirmed, reviews, rating, ratingLock>>
        /\ submit[r].at = "none"
    BY <1>3 DEF CheckSubmission
  <2>2. CASE Reviewable(r)
    BY <1>0, <1>2, <1>3, <2>1, <2>2 DEF CheckSubmission, Reviewable, ReviewsTypeOK
  <2>3. CASE ~Reviewable(r)
    BY <1>0, <1>2, <1>3, <2>1, <2>3 DEF CheckSubmission, ReviewsTypeOK
  <2>4. QED
    BY <2>2, <2>3
<1>4. ASSUME NEW r \in ReviewCalls, BeginReview(r) PROVE ReviewsInv'
  BY <1>0, <1>2, <1>4 DEF BeginReview, ReviewsTypeOK
<1>5. ASSUME NEW r \in ReviewCalls, InsertReview(r) PROVE ReviewsInv'
  <2>1. /\ submit[r].at = "begun" /\ UNCHANGED <<confirmed, reviews, rating, ratingLock>>
        /\ overtaken' \in SUBSET ReviewCalls /\ overtaken \ {r} \subseteq overtaken'
    BY <1>0, <1>5 DEF InsertReview, ReviewsTypeOK
  <2>2. CASE Step(r, "refused")
    BY <1>2, <2>1, <2>2
  <2>3. CASE UniqueRow(r) /\ Step(r, "inserted")
    <3> DEFINE s == [submit[r] EXCEPT !.at = "inserted"]
    <3>1. s \in ReviewStates /\ submit' = [submit EXCEPT ![r] = s] /\ s.at = "inserted"
      BY <1>0, <2>3 DEF Step, ReviewStates, Tx
    <3> HIDE DEF s
    <3>2. /\ submit' \in [ReviewCalls -> ReviewStates] /\ submit'[r].at = "inserted"
          /\ \A q \in ReviewCalls \ {r} : submit'[q] = submit[q]
      BY <3>1, OneSubmission
    <3>3. Placed' = Placed \cup {r} /\ r \notin Placed
      BY <2>1, <3>2 DEF Placed
    <3>4. ~Existing(r) /\ \A q \in Placed : ReviewOf[q] # ReviewOf[r]
      BY <2>1, <2>3, <3>3 DEF UniqueRow, InTx, Placed, Tx
    <3>5. KeysDistinct'
      BY <2>1, <3>3, <3>4 DEF ReviewsInv, KeysDistinct, OneReviewPerShipment, Existing
    <3>6. r \notin ratingLock
      BY <2>1 DEF ReviewsInv
    <3>7. ReviewsTypeOK'
      BY <1>0, <2>1, <3>2, <3>6 DEF ReviewsTypeOK, InTx, ReviewStates
    <3>8. AveragesCurrent'
      BY <2>1, <3>2 DEF ReviewsInv, AveragesCurrent
    <3>9. \A q \in ReviewCalls : submit'[q].at \in Tx \cup {"checked"} => ReviewOf[q] \in confirmed'
      BY <2>1, <3>2 DEF ReviewsInv, Tx
    <3>10. \A q \in ReviewCalls : submit'[q].at = "written" <=> q \in ratingLock'
      BY <2>1, <3>2, <3>6 DEF ReviewsInv
    <3>11. QED
      BY <2>1, <3>5, <3>7, <3>8, <3>9, <3>10 DEF ReviewsInv
  <2>4. QED
    BY <1>5, <2>2, <2>3 DEF InsertReview
<1>6. ASSUME NEW r \in ReviewCalls, AverageReviews(r) PROVE ReviewsInv'
  <2> DEFINE s == [at |-> "averaged", counts |-> Visible(r)]
  <2>1. /\ s \in ReviewStates /\ submit' = [submit EXCEPT ![r] = s]
        /\ s.at = "averaged" /\ s.counts = reviews \cup {r} /\ submit[r].at = "inserted"
        /\ UNCHANGED <<confirmed, reviews, rating, ratingLock, overtaken>>
    BY <1>0, <1>6 DEF AverageReviews, ReviewStates, Tx, Visible, ReviewsTypeOK
  <2> HIDE DEF s
  <2>2. /\ submit' \in [ReviewCalls -> ReviewStates] /\ submit'[r] = s
        /\ \A q \in ReviewCalls \ {r} : submit'[q] = submit[q]
    BY <2>1, OneSubmission
  <2>3. Placed' = Placed
    BY <2>1, <2>2 DEF Placed
  <2>4. r \notin ratingLock
    BY <2>1 DEF ReviewsInv
  <2>5. ReviewsTypeOK'
    BY <1>0, <2>1, <2>2, <2>4 DEF ReviewsTypeOK, InTx, ReviewStates
  <2>6. KeysDistinct'
    BY <2>1, <2>3 DEF ReviewsInv, KeysDistinct, OneReviewPerShipment, Existing
  <2>7. AveragesCurrent'
    BY <2>1, <2>2 DEF ReviewsInv, AveragesCurrent
  <2>8. \A q \in ReviewCalls : submit'[q].at \in Tx \cup {"checked"} => ReviewOf[q] \in confirmed'
    BY <2>1, <2>2 DEF ReviewsInv, Tx
  <2>9. \A q \in ReviewCalls : submit'[q].at = "written" <=> q \in ratingLock'
    BY <2>1, <2>2, <2>4 DEF ReviewsInv
  <2>10. QED
    BY <2>1, <2>5, <2>6, <2>7, <2>8, <2>9 DEF ReviewsInv
<1>7. ASSUME NEW r \in ReviewCalls, WriteRating(r) PROVE ReviewsInv'
  <2> DEFINE s == [submit[r] EXCEPT !.at = "written"]
  <2>1. /\ s \in ReviewStates /\ submit' = [submit EXCEPT ![r] = s]
        /\ s.at = "written" /\ s.counts = submit[r].counts /\ submit[r].at = "averaged"
        /\ ratingLock = {} /\ ratingLock' = {r}
        /\ UNCHANGED <<confirmed, reviews, rating, overtaken>>
    BY <1>0, <1>7 DEF WriteRating, Step, ReviewStates, Tx
  <2> HIDE DEF s
  <2>2. /\ submit' \in [ReviewCalls -> ReviewStates] /\ submit'[r] = s
        /\ \A q \in ReviewCalls \ {r} : submit'[q] = submit[q]
    BY <2>1, OneSubmission
  <2>3. Placed' = Placed
    BY <2>1, <2>2 DEF Placed
  <2>4. Cardinality(ratingLock') <= 1
    <3>1. Cardinality({r}) = 1
      BY FS_Singleton, Zenon
    <3>2. QED
      BY <2>1, <3>1
  <2>5. ReviewsTypeOK'
    BY <1>0, <2>1, <2>2, <2>4 DEF ReviewsTypeOK, InTx, ReviewStates, Tx
  <2>6. KeysDistinct'
    BY <2>1, <2>3 DEF ReviewsInv, KeysDistinct, OneReviewPerShipment, Existing
  <2>7. AveragesCurrent'
    BY <2>1, <2>2 DEF ReviewsInv, AveragesCurrent
  <2>8. \A q \in ReviewCalls : submit'[q].at \in Tx \cup {"checked"} => ReviewOf[q] \in confirmed'
    BY <2>1, <2>2 DEF ReviewsInv, Tx
  <2>9. \A q \in ReviewCalls : submit'[q].at = "written" <=> q \in ratingLock'
    BY <2>1, <2>2 DEF ReviewsInv
  <2>10. QED
    BY <2>1, <2>5, <2>6, <2>7, <2>8, <2>9 DEF ReviewsInv
<1>8. ASSUME NEW r \in ReviewCalls, CommitReview(r) PROVE ReviewsInv'
  <2> DEFINE s == [at |-> "done", counts |-> {}]
  <2>1. /\ s \in ReviewStates /\ submit' = [submit EXCEPT ![r] = s]
        /\ s.at = "done" /\ submit[r].at = "written"
        /\ reviews' = reviews \cup {r} /\ rating' = submit[r].counts
        /\ ratingLock' = {} /\ overtaken' = overtaken \cup (InTx \ {r})
        /\ UNCHANGED confirmed
    BY <1>8 DEF CommitReview, ReviewStates
  <2> HIDE DEF s
  <2>2. /\ submit' \in [ReviewCalls -> ReviewStates] /\ submit'[r] = s
        /\ \A q \in ReviewCalls \ {r} : submit'[q] = submit[q]
    BY <2>1, OneSubmission
  <2>3. Placed' = Placed \ {r} /\ r \in Placed
    BY <2>1, <2>2 DEF Placed
  <2>4. ratingLock = {r}
    BY <2>1 DEF ReviewsInv
  <2>5. /\ submit[r].counts \subseteq reviews \cup {r}
        /\ ReviewOf[r] \in confirmed
    BY <2>1 DEF ReviewsInv, AveragesCurrent, Tx
  <2>6. Cardinality(ratingLock') <= 1
    BY <2>1, FS_EmptySet
  <2>7. ReviewsTypeOK'
    BY <1>0, <2>1, <2>2, <2>5, <2>6 DEF ReviewsTypeOK, InTx, ReviewStates
  <2>8. KeysDistinct'
    BY <2>1, <2>3 DEF ReviewsInv, KeysDistinct, OneReviewPerShipment, Existing
  <2>9. AveragesCurrent'
    BY <2>1, <2>2 DEF ReviewsInv, AveragesCurrent, InTx, Tx
  <2>10. \A q \in ReviewCalls : submit'[q].at \in Tx \cup {"checked"} => ReviewOf[q] \in confirmed'
    BY <2>1, <2>2 DEF ReviewsInv, Tx
  <2>11. \A q \in ReviewCalls : submit'[q].at = "written" <=> q \in ratingLock'
    BY <2>1, <2>2, <2>4 DEF ReviewsInv
  <2>12. QED
    BY <2>1, <2>7, <2>8, <2>9, <2>10, <2>11 DEF ReviewsInv
<1>9. ASSUME NEW r \in ReviewCalls, RollBack(r) PROVE ReviewsInv'
  <2> DEFINE s == [at |-> "refused", counts |-> {}]
  <2>1. /\ s \in ReviewStates /\ submit' = [submit EXCEPT ![r] = s] /\ s.at = "refused"
        /\ ratingLock' = ratingLock \ {r} /\ overtaken' = overtaken \ {r}
        /\ UNCHANGED <<confirmed, reviews, rating>>
    BY <1>9 DEF RollBack, ReviewStates
  <2> HIDE DEF s
  <2>2. /\ submit' \in [ReviewCalls -> ReviewStates] /\ submit'[r] = s
        /\ \A q \in ReviewCalls \ {r} : submit'[q] = submit[q]
    BY <2>1, OneSubmission
  <2>3. Placed' = Placed \ {r}
    BY <2>1, <2>2 DEF Placed
  <2>4. ratingLock' = {} \/ \E q \in ReviewCalls : ratingLock' = {q}
    BY <2>1 DEF ReviewsInv
  <2>5. Cardinality(ratingLock') <= 1
    BY <2>1, <2>4, FS_EmptySet, FS_Singleton
  <2>6. ReviewsTypeOK'
    BY <1>0, <2>1, <2>2, <2>5 DEF ReviewsTypeOK, InTx, ReviewStates
  <2>7. KeysDistinct'
    BY <2>1, <2>3 DEF ReviewsInv, KeysDistinct, OneReviewPerShipment, Existing
  <2>8. AveragesCurrent'
    BY <2>1, <2>2 DEF ReviewsInv, AveragesCurrent
  <2>9. \A q \in ReviewCalls : submit'[q].at \in Tx \cup {"checked"} => ReviewOf[q] \in confirmed'
    BY <2>1, <2>2 DEF ReviewsInv, Tx
  <2>10. \A q \in ReviewCalls : submit'[q].at = "written" <=> q \in ratingLock'
    BY <2>1, <2>2 DEF ReviewsInv
  <2>11. QED
    BY <2>4, <2>6, <2>7, <2>8, <2>9, <2>10 DEF ReviewsInv
<1>10. CASE UNCHANGED reviewsVars
  BY <1>10
     DEF reviewsVars, ReviewsInv, ReviewsTypeOK, KeysDistinct, OneReviewPerShipment, Placed,
         AveragesCurrent, Existing, InTx
<1>11. QED
  BY <1>1, <1>3, <1>4, <1>5, <1>6, <1>7, <1>8, <1>9, <1>10 DEF ReviewsNext

LEMMA ReviewsInvariant == ReviewsSpec => []ReviewsInv
BY ReviewsStarts, ReviewsStep, PTL DEF ReviewsSpec

\* The reviews, the transactions under way and the lock of the user's row are of the types
\* that the code gives them, and every review is of a shipment that was confirmed.
THEOREM ReviewsTypeCorrect == ReviewsSpec => []ReviewsTypeOK
<1>1. ReviewsInv => ReviewsTypeOK
  BY DEF ReviewsInv
<1>2. QED
  BY <1>1, ReviewsInvariant, PTL

\* A shipment has one review by its author, and a review that no other transaction overtook
\* leaves a rating that averages all of them: for any number of submissions and shipments.
THEOREM ReviewsStayCounted == ReviewsSpec => ReviewsCounted
<1>1. ReviewsInv => OneReviewPerShipment
  BY DEF ReviewsInv, KeysDistinct
<1>2. ASSUME ReviewsInv, [ReviewsNext]_reviewsVars,
             NEW r \in ReviewCalls \ overtaken, r \notin reviews, r \in reviews'
      PROVE  rating' = reviews'
  <2>1. CommitReview(r)
    BY <1>2
       DEF ReviewsNext, reviewsVars, ConfirmReceipt, CheckSubmission, BeginReview, InsertReview,
           AverageReviews, WriteRating, CommitReview, RollBack
  <2>2. QED
    BY <1>2, <2>1 DEF CommitReview, ReviewsInv, AveragesCurrent
<1>3. ReviewsInv /\ [ReviewsNext]_reviewsVars =>
        \A r \in ReviewCalls \ overtaken : r \notin reviews /\ r \in reviews' => rating' = reviews'
  BY <1>2
<1>4. ReviewsSpec => RatingCountsEveryReview
  BY <1>3, ReviewsInvariant, PTL DEF ReviewsSpec, RatingCountsEveryReview
<1>5. QED
  BY <1>1, <1>4, ReviewsInvariant, PTL DEF ReviewsCounted

(***************************************************************************)
(* Market counters                                                         *)
(***************************************************************************)

Boots == [at: {"down", "deleting", "counting", "adding", "up"},
          shipments: 0..MaxRows, trips: 0..MaxRows, active: 0..MaxRows]

\* A process adds what it counted at most once for each time that it starts.
Adds == starts - Cardinality(Rebuilding)

Added == MaxRows * Adds

Counts == [demand: Nat, demandTotal: Nat, supply: Nat, tripTotal: Nat, initialized: BOOLEAN]

\* The types without the bound of the counters, which follows from the next part.
Typed ==
  /\ shipmentRows \in 0..MaxRows /\ tripRows \in 0..MaxRows
  /\ draftRows \in Nat /\ activeRows \in Nat /\ draftRows + activeRows <= tripRows
  /\ demandDue \in 0..shipmentRows /\ supplyDue \in Nat
  /\ counters \in Counts
  /\ boot \in [Processes -> Boots]
  /\ \A p \in Processes : boot[p].at = "adding" => boot[p].active <= boot[p].trips
  /\ starts \in 0..MaxStarts /\ redisErrors \in 0..MaxRedisErrors
  /\ blurred \in BOOLEAN

\* A counter holds the increments made and what rebuilds have added.
CountersBounded ==
  /\ IsFiniteSet(Rebuilding) /\ Cardinality(Rebuilding) <= starts
  /\ supplyDue + draftRows <= tripRows
  /\ counters.demand + demandDue <= shipmentRows + Added
  /\ counters.demandTotal + demandDue <= shipmentRows + Added
  /\ counters.supply + supplyDue + draftRows <= tripRows + Added
  /\ counters.tripTotal + supplyDue + draftRows <= tripRows + Added

PastDelete == {p \in Processes : boot[p].at \in {"counting", "adding"}}

\* A rebuild that nothing overlapped since it deleted the counters finds them at zero
\* and has counted the rows that are there.
Undisturbed(p) ==
  /\ PastDelete = {p}
  /\ demandDue = 0 /\ supplyDue = 0
  /\ counters.demand = 0 /\ counters.demandTotal = 0
  /\ counters.supply = 0 /\ counters.tripTotal = 0
  /\ boot[p].at = "adding" => boot[p].shipments = shipmentRows /\ boot[p].active >= activeRows

\* Between rebuilds the counters lack what is still due.
Followed ==
  /\ PastDelete = {}
  /\ counters.demand + demandDue = shipmentRows
  /\ counters.demandTotal + demandDue = shipmentRows
  /\ counters.supply + supplyDue >= activeRows
  /\ counters.tripTotal + supplyDue >= activeRows

MarketInv ==
  /\ Typed
  /\ CountersBounded
  /\ ~blurred => Followed \/ \E p \in Processes : Undisturbed(p)

LEMMA Bounds == MaxRows \in Nat /\ MaxRows >= 1 /\ MaxStarts \in Nat /\ MaxRedisErrors \in Nat
BY MarketAssumption

LEMMA Products ==
  \A m, k \in Nat : /\ m * k \in Nat /\ m * (k + 1) = m * k + m
                    /\ \A n \in Nat : k <= n => m * k <= m * n
<1>1. ASSUME NEW m \in Nat, NEW k \in Nat PROVE m * k \in Nat /\ m * (k + 1) = m * k + m
  OBVIOUS
<1>2. ASSUME NEW m \in Nat, NEW k \in Nat, NEW n \in Nat, k <= n PROVE m * k <= m * n
  <2>1. \A d \in Nat : m * d \in Nat /\ m * (k + d) = m * k + m * d
    OBVIOUS
  <2>2. n - k \in Nat /\ n = k + (n - k)
    BY <1>2
  <2>3. m * (n - k) \in Nat /\ m * n = m * k + m * (n - k)
    BY <2>1, <2>2
  <2> DEFINE x == m * k
             y == m * (n - k)
  <2>4. x \in Nat /\ y \in Nat /\ m * n = x + y
    BY <1>1, <2>3
  <2> HIDE DEF x, y
  <2>5. x <= x + y
    BY <2>4
  <2>6. QED
    BY <2>4, <2>5 DEF x
<1>3. QED
  BY <1>1, <1>2

LEMMA AddsTyped ==
  MarketInv => /\ Adds \in Nat /\ Adds <= MaxStarts /\ starts \in Nat
               /\ Cardinality(Rebuilding) \in Nat /\ Added \in Nat
<1> SUFFICES ASSUME MarketInv
             PROVE  /\ Adds \in Nat /\ Adds <= MaxStarts /\ starts \in Nat
                    /\ Cardinality(Rebuilding) \in Nat /\ Added \in Nat
  OBVIOUS
<1>1. Cardinality(Rebuilding) \in Nat
  BY FS_CardinalityType DEF MarketInv, CountersBounded
<1>2. Adds \in Nat /\ Adds <= MaxStarts /\ starts \in Nat
  BY <1>1, Bounds DEF MarketInv, CountersBounded, Typed, Adds
<1>3. Added \in Nat
  BY <1>2, Bounds, Products DEF Added
<1>4. QED
  BY <1>1, <1>2, <1>3

LEMMA TypesFollow == MarketInv => MarketTypeOK
<1> SUFFICES ASSUME MarketInv PROVE MarketTypeOK
  OBVIOUS
<1>0. Typed /\ CountersBounded
  BY DEF MarketInv
<1>1. Added <= MaxRows * MaxStarts /\ Bound = MaxRows + MaxRows * MaxStarts
      /\ MaxRows * MaxStarts \in Nat /\ Added \in Nat
  <2>1. MaxRows * Adds <= MaxRows * MaxStarts /\ MaxRows * MaxStarts \in Nat
    BY AddsTyped, Bounds, Products
  <2>2. MaxRows * (MaxStarts + 1) = MaxRows * MaxStarts + MaxRows
    BY Bounds, Products
  <2>3. MaxRows * (1 + MaxStarts) = MaxRows * (MaxStarts + 1)
    BY Bounds
  <2>4. QED
    BY <2>1, <2>2, <2>3, AddsTyped, Bounds DEF Added, Bound
<1> DEFINE m == MaxRows * MaxStarts
<1>2. m \in Nat /\ Added <= m /\ Bound = MaxRows + m /\ Added \in Nat
  BY <1>1
<1> HIDE DEF m
<1>3. /\ counters.demand \in 0..Bound /\ counters.demandTotal \in 0..Bound
      /\ counters.supply \in 0..Bound /\ counters.tripTotal \in 0..Bound
  BY <1>0, <1>2, Bounds DEF Typed, CountersBounded, Counts
<1>4. counters \in [demand: 0..Bound, demandTotal: 0..Bound, supply: 0..Bound,
                    tripTotal: 0..Bound, initialized: BOOLEAN]
  BY <1>0, <1>3 DEF Typed, Counts
<1>5. {shipmentRows, tripRows} \subseteq 0..MaxRows
  BY <1>0, Zenon DEF Typed
<1>6. draftRows \in 0..tripRows /\ activeRows \in 0..tripRows /\ supplyDue \in 0..tripRows
  BY <1>0, Bounds DEF Typed, CountersBounded
<1>7. QED
  BY <1>0, <1>4, <1>5, <1>6 DEF Typed, MarketTypeOK, Boots

LEMMA DownTyped ==
  /\ Down \in Boots /\ Down.at = "down"
  /\ [Down EXCEPT !.at = "up"] \in Boots /\ [Down EXCEPT !.at = "up"].at = "up"
BY Bounds DEF Down, Boots

LEMMA MarketStarts == MarketInit => MarketInv
<1> SUFFICES ASSUME MarketInit PROVE MarketInv
  OBVIOUS
<1>1. Rebuilding = {}
  BY DownTyped DEF MarketInit, Rebuilding
<1>2. IsFiniteSet(Rebuilding) /\ Cardinality(Rebuilding) = 0 /\ Adds = 0
  BY <1>1, FS_EmptySet DEF MarketInit, Adds
<1>3. counters \in Counts /\ counters.demand = 0 /\ counters.demandTotal = 0
      /\ counters.supply = 0 /\ counters.tripTotal = 0
  <2>1. FALSE \in BOOLEAN
    OBVIOUS
  <2>2. QED
    BY <2>1 DEF MarketInit, NoCounts, Counts
<1>4. Added = 0
  BY <1>2, Bounds DEF Added
<1>5. blurred = TRUE
  BY DEF MarketInit
<1>6. blurred \in BOOLEAN
  BY <1>5, Zenon
<1>7. ~blurred => FALSE
  BY <1>5, Zenon
<1>8. boot \in [Processes -> Boots] /\ \A p \in Processes : boot[p].at = "down"
  BY DownTyped DEF MarketInit
<1>9. Typed
  BY <1>3, <1>6, <1>8, Bounds DEF MarketInit, Typed
<1>10. CountersBounded
  BY <1>2, <1>3, <1>4, Bounds DEF MarketInit, CountersBounded
<1>11. QED
  BY <1>7, <1>9, <1>10 DEF MarketInv

\* Nothing starts or ends: the counters may move with what is due.
LEMMA CountsMove ==
  ASSUME MarketInv, UNCHANGED <<boot, starts>>
  PROVE  /\ Rebuilding' = Rebuilding /\ PastDelete' = PastDelete /\ Added' = Added
         /\ IsFiniteSet(Rebuilding') /\ Cardinality(Rebuilding') <= starts'
         /\ (Rebuilding = {} => PastDelete = {})
<1>1. Rebuilding' = Rebuilding /\ PastDelete' = PastDelete
  BY DEF Rebuilding, PastDelete
<1>2. Added' = Added
  BY <1>1 DEF Added, Adds
<1>3. QED
  BY <1>1, <1>2 DEF MarketInv, CountersBounded, Rebuilding, PastDelete

\* A process moves.
LEMMA ProcessMoves ==
  ASSUME MarketInv, NEW p \in Processes, NEW b \in Boots, boot' = [boot EXCEPT ![p] = b],
         \/ starts' = starts /\ boot[p].at # "down"
         \/ starts' = starts + 1 /\ boot[p].at = "down",
         boot[p].at # "down" => b.at # "deleting",
         b.at \in {"counting", "adding"} => p \in Rebuilding
  PROVE  /\ boot' \in [Processes -> Boots] /\ boot'[p] = b
         /\ \A q \in Processes \ {p} : boot'[q] = boot[q]
         /\ IsFiniteSet(Rebuilding') /\ Cardinality(Rebuilding') <= starts'
         /\ Added' \in Nat /\ Added <= Added'
         /\ p \in Rebuilding /\ b.at \in {"up", "down"} => Added' = Added + MaxRows
<1>1. /\ boot' \in [Processes -> Boots] /\ boot'[p] = b
      /\ \A q \in Processes \ {p} : boot'[q] = boot[q]
  BY DEF MarketInv, Typed
<1>2. /\ Adds \in Nat /\ starts \in Nat /\ Cardinality(Rebuilding) \in Nat /\ Added \in Nat
      /\ IsFiniteSet(Rebuilding) /\ Cardinality(Rebuilding) <= starts
  BY AddsTyped DEF MarketInv, CountersBounded
<1>3. Adds' = Adds => Added' = Added
  BY DEF Added
<1>4. Adds' = Adds + 1 => Added' = Added + MaxRows
  BY <1>2, Bounds, Products DEF Added
<1>5. CASE p \notin Rebuilding /\ b.at \in {"up", "down"}
  <2>1. Rebuilding' = Rebuilding
    BY <1>1, <1>5 DEF Rebuilding
  <2>2. starts' = starts => Adds' = Adds
    BY <2>1 DEF Adds
  <2>3. starts' = starts + 1 => Adds' = Adds + 1
    BY <1>2, <2>1 DEF Adds
  <2>4. Cardinality(Rebuilding') <= starts'
    BY <1>2, <2>1
  <2>5. Added' \in Nat /\ Added <= Added'
    BY <1>2, <1>3, <1>4, <2>2, <2>3, Bounds
  <2>6. QED
    BY <1>1, <1>2, <1>5, <2>1, <2>4, <2>5
<1>6. CASE p \notin Rebuilding /\ b.at = "deleting"
  <2>1. Rebuilding' = Rebuilding \cup {p} /\ starts' = starts + 1
    BY <1>1, <1>6 DEF Rebuilding
  <2>2. IsFiniteSet(Rebuilding') /\ Cardinality(Rebuilding') = Cardinality(Rebuilding) + 1
    BY <1>2, <1>6, <2>1, FS_AddElement
  <2>3. Adds' = Adds
    BY <1>2, <2>1, <2>2 DEF Adds
  <2>4. QED
    BY <1>1, <1>2, <1>3, <1>6, <2>1, <2>2, <2>3
<1>7. CASE p \in Rebuilding /\ b.at \in {"counting", "adding"}
  <2>1. Rebuilding' = Rebuilding /\ starts' = starts
    BY <1>1, <1>7 DEF Rebuilding
  <2>2. Adds' = Adds
    BY <2>1 DEF Adds
  <2>3. QED
    BY <1>1, <1>2, <1>3, <1>7, <2>1, <2>2
<1>8. CASE p \in Rebuilding /\ b.at \in {"up", "down"}
  <2>1. Rebuilding' = Rebuilding \ {p} /\ starts' = starts
    BY <1>1, <1>8 DEF Rebuilding
  <2>2. IsFiniteSet(Rebuilding') /\ Cardinality(Rebuilding') = Cardinality(Rebuilding) - 1
    BY <1>2, <1>8, <2>1, FS_RemoveElement
  <2>3. Adds' = Adds + 1
    BY <1>2, <2>1, <2>2 DEF Adds
  <2>4. QED
    BY <1>1, <1>2, <1>4, <1>8, <2>1, <2>2, <2>3, Bounds
<1>9. QED
  <2>1. b.at \in {"down", "deleting", "counting", "adding", "up"}
    BY DEF Boots
  <2>2. p \in Rebuilding => boot[p].at # "down"
    BY DEF Rebuilding
  <2>3. QED
    BY <1>5, <1>6, <1>7, <1>8, <2>1, <2>2

\* What an increment, whole or cut short, leaves in the counters.
LEMMA DemandAdded ==
  ASSUME NEW c \in Counts, NEW d, NEW a \in Nat, NEW b \in Nat,
         d = [c EXCEPT !.demand = @ + a, !.demandTotal = @ + b]
  PROVE  /\ d \in Counts
         /\ d.demand = c.demand + a
         /\ d.demandTotal = c.demandTotal + b
         /\ d.supply = c.supply /\ d.tripTotal = c.tripTotal
<1>1. c.demand + a \in Nat /\ c.demandTotal + b \in Nat
  BY DEF Counts
<1>2. d \in Counts
  BY <1>1 DEF Counts
<1>3. QED
  BY <1>2 DEF Counts

LEMMA SupplyAdded ==
  ASSUME NEW c \in Counts, NEW d, NEW a \in Nat, NEW b \in Nat,
         d = [c EXCEPT !.supply = @ + a, !.tripTotal = @ + b]
  PROVE  /\ d \in Counts
         /\ d.supply = c.supply + a
         /\ d.tripTotal = c.tripTotal + b
         /\ d.demand = c.demand /\ d.demandTotal = c.demandTotal
<1>1. c.supply + a \in Nat /\ c.tripTotal + b \in Nat
  BY DEF Counts
<1>2. d \in Counts
  BY <1>1 DEF Counts
<1>3. QED
  BY <1>2 DEF Counts

LEMMA MarketStep == MarketInv /\ [MarketNext]_marketVars => MarketInv'
<1> SUFFICES ASSUME MarketInv, [MarketNext]_marketVars PROVE MarketInv'
  OBVIOUS
<1> DEFINE Matched == Followed \/ \E p \in Processes : Undisturbed(p)
<1>0. /\ Typed /\ CountersBounded /\ (~blurred => Matched) /\ Added \in Nat
  BY AddsTyped DEF MarketInv
<1>n. /\ counters.demand \in Nat /\ counters.demandTotal \in Nat
      /\ counters.supply \in Nat /\ counters.tripTotal \in Nat /\ counters.initialized \in BOOLEAN
      /\ shipmentRows \in Nat /\ tripRows \in Nat /\ demandDue \in Nat
  BY <1>0, Bounds DEF Typed, Counts
<1>1. CASE InsertShipment
  <2>1. /\ shipmentRows < MaxRows /\ shipmentRows' = shipmentRows + 1
        /\ demandDue' = demandDue + 1 /\ blurred' = (blurred \/ Rebuilding # {})
        /\ UNCHANGED <<tripRows, draftRows, activeRows, supplyDue, counters, boot, starts,
                       redisErrors>>
    BY <1>1 DEF InsertShipment
  <2>2. blurred' \in BOOLEAN
    BY <2>1, Zenon
  <2>3. ~blurred' => ~blurred /\ Rebuilding = {}
    BY <2>1, Zenon
  <2>4. Typed'
    BY <1>0, <2>1, <2>2, Bounds DEF Typed
  <2>5. CountersBounded'
    BY <1>0, <1>n, <2>1, CountsMove DEF CountersBounded
  <2>6. ~blurred' => Followed'
    BY <1>0, <1>n, <2>1, <2>3, CountsMove DEF Followed, Undisturbed
  <2>7. QED
    BY <2>4, <2>5, <2>6 DEF MarketInv
<1>2. CASE InsertTrip
  <2>1. /\ tripRows < MaxRows /\ tripRows' = tripRows + 1 /\ draftRows' = draftRows + 1
        /\ UNCHANGED <<shipmentRows, activeRows, demandDue, supplyDue, counters, boot, starts,
                       redisErrors, blurred>>
    BY <1>2 DEF InsertTrip
  <2>2. Typed'
    BY <1>0, <2>1, Bounds DEF Typed
  <2>3. CountersBounded'
    BY <1>0, <1>n, <2>1, CountsMove DEF CountersBounded, Typed
  <2>4. ~blurred' => Matched'
    BY <1>0, <2>1, CountsMove DEF Followed, Undisturbed
  <2>5. QED
    BY <2>2, <2>3, <2>4 DEF MarketInv
<1>3. CASE ActivateTrip
  <2>1. /\ draftRows > 0 /\ draftRows' = draftRows - 1 /\ activeRows' = activeRows + 1
        /\ supplyDue' = supplyDue + 1 /\ blurred' = (blurred \/ Rebuilding # {})
        /\ UNCHANGED <<shipmentRows, tripRows, demandDue, counters, boot, starts, redisErrors>>
    BY <1>3 DEF ActivateTrip
  <2>2. blurred' \in BOOLEAN
    BY <2>1, Zenon
  <2>3. ~blurred' => ~blurred /\ Rebuilding = {}
    BY <2>1, Zenon
  <2>4. Typed'
    BY <1>0, <2>1, <2>2, Bounds DEF Typed
  <2>5. CountersBounded'
    BY <1>0, <1>n, <2>1, CountsMove DEF CountersBounded, Typed
  <2>6. ASSUME ~blurred' PROVE Followed'
    <3>1. Followed /\ PastDelete' = {}
      BY <1>0, <2>1, <2>3, <2>6, CountsMove DEF Followed, Undisturbed
    <3>2. activeRows \in Nat /\ supplyDue \in Nat
      BY <1>0 DEF Typed
    <3>3. QED
      BY <1>n, <2>1, <3>1, <3>2 DEF Followed
  <2>7. QED
    BY <2>4, <2>5, <2>6 DEF MarketInv
<1>4. CASE CancelActiveTrip
  <2>1. /\ activeRows > 0 /\ activeRows' = activeRows - 1
        /\ UNCHANGED <<shipmentRows, tripRows, draftRows, demandDue, supplyDue, counters, boot,
                       starts, redisErrors, blurred>>
    BY <1>4 DEF CancelActiveTrip
  <2>2. Typed'
    BY <1>0, <2>1, Bounds DEF Typed
  <2>3. CountersBounded'
    BY <1>0, <2>1, CountsMove DEF CountersBounded
  <2>4. ASSUME Followed PROVE Followed'
    BY <1>0, <1>n, <2>1, <2>4, CountsMove DEF Followed, Typed
  <2>5. ASSUME NEW p \in Processes, Undisturbed(p) PROVE Undisturbed(p)'
    <3>1. boot[p].active \in Nat /\ activeRows \in Nat
      BY <1>0, Bounds DEF Typed, Boots
    <3>2. QED
      BY <2>1, <2>5, <3>1, CountsMove DEF Undisturbed
  <2>6. QED
    BY <1>0, <2>1, <2>2, <2>3, <2>4, <2>5 DEF MarketInv
<1>5. CASE RecordShipmentDemand
  <2>1. /\ demandDue > 0 /\ demandDue' = demandDue - 1
        /\ counters' = [counters EXCEPT !.demand = @ + 1, !.demandTotal = @ + 1]
        /\ UNCHANGED <<shipmentRows, tripRows, draftRows, activeRows, supplyDue, boot, starts,
                       redisErrors, blurred>>
    BY <1>5 DEF RecordShipmentDemand, RowsUnchanged
  <2>0. PICK one \in Nat : one = 1
    OBVIOUS
  <2>2. /\ counters' \in Counts
        /\ counters'.demand = counters.demand + 1
        /\ counters'.demandTotal = counters.demandTotal + 1
        /\ counters'.supply = counters.supply /\ counters'.tripTotal = counters.tripTotal
    <3>1. counters \in Counts /\ one \in Nat
      BY <1>0, <2>0 DEF Typed
    <3>2. counters' = [counters EXCEPT !.demand = @ + one, !.demandTotal = @ + one]
      BY <2>0, <2>1
    <3>3. /\ counters' \in Counts
          /\ counters'.demand = counters.demand + one
          /\ counters'.demandTotal = counters.demandTotal + one
          /\ counters'.supply = counters.supply /\ counters'.tripTotal = counters.tripTotal
      BY <3>1, <3>2, DemandAdded, Zenon
    <3>4. QED
      BY <2>0, <3>3
  <2>3. Typed'
    BY <1>0, <1>n, <2>1, <2>2, Bounds DEF Typed
  <2>4. CountersBounded'
    BY <1>0, <1>n, <2>1, <2>2, CountsMove DEF CountersBounded
  <2>5. ~blurred' => Followed'
    BY <1>0, <1>n, <2>1, <2>2, CountsMove DEF Followed, Undisturbed
  <2>6. QED
    BY <2>3, <2>4, <2>5 DEF MarketInv
<1>6. CASE RecordTripSupply
  <2>1. /\ supplyDue > 0 /\ supplyDue' = supplyDue - 1
        /\ counters' = [counters EXCEPT !.supply = @ + 1, !.tripTotal = @ + 1]
        /\ UNCHANGED <<shipmentRows, tripRows, draftRows, activeRows, demandDue, boot, starts,
                       redisErrors, blurred>>
    BY <1>6 DEF RecordTripSupply, RowsUnchanged
  <2>0. PICK one \in Nat : one = 1
    OBVIOUS
  <2>2. /\ counters' \in Counts
        /\ counters'.supply = counters.supply + 1
        /\ counters'.tripTotal = counters.tripTotal + 1
        /\ counters'.demand = counters.demand /\ counters'.demandTotal = counters.demandTotal
    <3>1. counters \in Counts /\ one \in Nat
      BY <1>0, <2>0 DEF Typed
    <3>2. counters' = [counters EXCEPT !.supply = @ + one, !.tripTotal = @ + one]
      BY <2>0, <2>1
    <3>3. /\ counters' \in Counts
          /\ counters'.supply = counters.supply + one
          /\ counters'.tripTotal = counters.tripTotal + one
          /\ counters'.demand = counters.demand /\ counters'.demandTotal = counters.demandTotal
      BY <3>1, <3>2, SupplyAdded, Zenon
    <3>4. QED
      BY <2>0, <3>3
  <2>3. Typed'
    BY <1>0, <1>n, <2>1, <2>2, Bounds DEF Typed
  <2>4. CountersBounded'
    BY <1>0, <1>n, <2>1, <2>2, CountsMove DEF CountersBounded, Typed
  <2>5. ~blurred' => Followed'
    BY <1>0, <1>n, <2>1, <2>2, CountsMove DEF Followed, Undisturbed, Typed
  <2>6. QED
    BY <2>3, <2>4, <2>5 DEF MarketInv
<1>7. CASE RecordFails
  <2>1. /\ redisErrors < MaxRedisErrors /\ redisErrors' = redisErrors + 1 /\ blurred' = TRUE
        /\ UNCHANGED <<shipmentRows, tripRows, draftRows, activeRows, boot, starts>>
    BY <1>7 DEF RecordFails, RowsUnchanged
  <2>2. blurred' \in BOOLEAN
    BY <2>1, Zenon
  <2>3. ~blurred' => FALSE
    BY <2>1, Zenon
  <2>4. CASE demandDue > 0 /\ demandDue' = demandDue - 1 /\ UNCHANGED supplyDue
             /\ \E a, b \in {0, 1} :
                  counters' = [counters EXCEPT !.demand = @ + a, !.demandTotal = @ + b]
    <3>1. PICK a, b \in {0, 1} :
            counters' = [counters EXCEPT !.demand = @ + a, !.demandTotal = @ + b]
      BY <2>4
    <3>0. counters \in Counts /\ a \in Nat /\ b \in Nat
      BY <1>0 DEF Typed
    <3>2. /\ counters' \in Counts
          /\ counters'.demand = counters.demand + a
          /\ counters'.demandTotal = counters.demandTotal + b
          /\ counters'.supply = counters.supply /\ counters'.tripTotal = counters.tripTotal
      BY <3>0, <3>1, DemandAdded, ZenonT(40)
    <3>3. Typed'
      BY <1>0, <1>n, <2>1, <2>2, <2>4, <3>2, Bounds DEF Typed
    <3>4. CountersBounded'
      BY <1>0, <1>n, <2>1, <2>4, <3>2, CountsMove DEF CountersBounded
    <3>5. QED
      BY <2>3, <3>3, <3>4 DEF MarketInv
  <2>5. CASE supplyDue > 0 /\ supplyDue' = supplyDue - 1 /\ UNCHANGED demandDue
             /\ \E a, b \in {0, 1} :
                  counters' = [counters EXCEPT !.supply = @ + a, !.tripTotal = @ + b]
    <3>1. PICK a, b \in {0, 1} :
            counters' = [counters EXCEPT !.supply = @ + a, !.tripTotal = @ + b]
      BY <2>5
    <3>0. counters \in Counts /\ a \in Nat /\ b \in Nat
      BY <1>0 DEF Typed
    <3>2. /\ counters' \in Counts
          /\ counters'.supply = counters.supply + a
          /\ counters'.tripTotal = counters.tripTotal + b
          /\ counters'.demand = counters.demand /\ counters'.demandTotal = counters.demandTotal
      BY <3>0, <3>1, SupplyAdded, ZenonT(40)
    <3>3. Typed'
      BY <1>0, <1>n, <2>1, <2>2, <2>5, <3>2, Bounds DEF Typed
    <3>4. CountersBounded'
      BY <1>0, <1>n, <2>1, <2>5, <3>2, CountsMove DEF CountersBounded, Typed
    <3>5. QED
      BY <2>3, <3>3, <3>4 DEF MarketInv
  <2>6. QED
    BY <1>7, <2>4, <2>5 DEF RecordFails
<1>8. ASSUME NEW p \in Processes, StartProcess(p) PROVE MarketInv'
  <2> DEFINE b == [boot[p] EXCEPT !.at = IF counters.initialized THEN "up" ELSE "deleting"]
  <2>1. /\ boot[p].at = "down" /\ starts < MaxStarts /\ starts' = starts + 1
        /\ boot' = [boot EXCEPT ![p] = b]
        /\ UNCHANGED <<shipmentRows, tripRows, draftRows, activeRows, demandDue, supplyDue,
                       counters, redisErrors, blurred>>
    BY <1>8 DEF StartProcess, RowsUnchanged
  <2>2. b \in Boots /\ b.at \in {"up", "deleting"}
    BY <1>0 DEF Typed, Boots
  <2> HIDE DEF b
  <2>3. /\ boot' \in [Processes -> Boots] /\ boot'[p] = b
        /\ \A q \in Processes \ {p} : boot'[q] = boot[q]
        /\ IsFiniteSet(Rebuilding') /\ Cardinality(Rebuilding') <= starts'
        /\ Added' \in Nat /\ Added <= Added'
    BY <2>1, <2>2, ProcessMoves
  <2>4. PastDelete' = PastDelete
    BY <2>1, <2>2, <2>3 DEF PastDelete
  <2>5. Typed'
    BY <1>0, <2>1, <2>2, <2>3, Bounds DEF Typed
  <2>6. CountersBounded'
    BY <1>0, <1>n, <2>1, <2>3 DEF CountersBounded, Typed
  <2>7. \A q \in Processes : Undisturbed(q) => Undisturbed(q)'
    BY <2>1, <2>2, <2>3, <2>4 DEF Undisturbed, PastDelete
  <2>8. Followed => Followed'
    BY <2>1, <2>4 DEF Followed
  <2>9. QED
    BY <1>0, <2>1, <2>5, <2>6, <2>7, <2>8 DEF MarketInv
<1>9. ASSUME NEW p \in Processes, DeleteCounters(p) PROVE MarketInv'
  <2> DEFINE b == [boot[p] EXCEPT !.at = "counting"]
  <2>1. /\ boot[p].at = "deleting" /\ boot' = [boot EXCEPT ![p] = b] /\ counters' = Deleted
        /\ blurred' = (Rebuilding # {p} \/ demandDue + supplyDue > 0)
        /\ UNCHANGED <<shipmentRows, tripRows, draftRows, activeRows, demandDue, supplyDue,
                       starts, redisErrors>>
    BY <1>9 DEF DeleteCounters, RowsUnchanged
  <2>2. b \in Boots /\ b.at = "counting" /\ p \in Rebuilding
    BY <1>0, <2>1 DEF Typed, Boots, Rebuilding
  <2> HIDE DEF b
  <2>3. /\ boot' \in [Processes -> Boots] /\ boot'[p] = b
        /\ \A q \in Processes \ {p} : boot'[q] = boot[q]
        /\ IsFiniteSet(Rebuilding') /\ Cardinality(Rebuilding') <= starts'
        /\ Added' \in Nat /\ Added <= Added'
    BY <2>1, <2>2, ProcessMoves
  <2>4. /\ counters' \in Counts
        /\ counters'.demand = 0 /\ counters'.demandTotal = 0
        /\ counters'.supply = 0 /\ counters'.tripTotal = 0
    BY <1>n, <2>1 DEF Deleted, NoCounts, Counts
  <2>5. blurred' \in BOOLEAN
    BY <2>1, Zenon
  <2>6. ~blurred' => Rebuilding = {p} /\ ~(demandDue + supplyDue > 0)
    BY <2>1, Zenon
  <2>7. Typed'
    BY <1>0, <2>1, <2>2, <2>3, <2>4, <2>5, Bounds DEF Typed
  <2>8. CountersBounded'
    <3>1. PICK added \in Nat : Added' = added
      BY <2>3
    <3>2. /\ 0 + demandDue <= shipmentRows + added
          /\ 0 + supplyDue + draftRows <= tripRows + added
      BY <1>0, <1>n DEF CountersBounded, Typed
    <3>3. QED
      BY <1>0, <2>1, <2>3, <2>4, <3>1, <3>2 DEF CountersBounded
  <2>9. ASSUME ~blurred' PROVE Undisturbed(p)'
    <3>1. demandDue = 0 /\ supplyDue = 0
      BY <1>0, <1>n, <2>6, <2>9 DEF Typed
    <3>2. PastDelete' = {p}
      BY <2>2, <2>3, <2>6, <2>9 DEF PastDelete, Rebuilding
    <3>3. QED
      BY <2>1, <2>2, <2>3, <2>4, <3>1, <3>2 DEF Undisturbed
  <2>10. QED
    BY <2>7, <2>8, <2>9 DEF MarketInv
<1>10. ASSUME NEW p \in Processes, CountRows(p) PROVE MarketInv'
  <2> DEFINE b == Counted
  <2>1. /\ boot[p].at = "counting" /\ boot' = [boot EXCEPT ![p] = b]
        /\ UNCHANGED <<shipmentRows, tripRows, draftRows, activeRows, demandDue, supplyDue,
                       counters, starts, redisErrors, blurred>>
    BY <1>10 DEF CountRows, RowsUnchanged
  <2>2. /\ b \in Boots /\ b.at = "adding" /\ p \in Rebuilding
        /\ b.shipments = shipmentRows /\ b.active = activeRows /\ b.trips = tripRows
        /\ b.active <= b.trips
    BY <1>0, <2>1, Bounds DEF Typed, Boots, Rebuilding, Counted
  <2> HIDE DEF b
  <2>3. /\ boot' \in [Processes -> Boots] /\ boot'[p] = b
        /\ \A q \in Processes \ {p} : boot'[q] = boot[q]
        /\ IsFiniteSet(Rebuilding') /\ Cardinality(Rebuilding') <= starts'
        /\ Added' \in Nat /\ Added <= Added'
    BY <2>1, <2>2, ProcessMoves
  <2>4. PastDelete' = PastDelete /\ p \in PastDelete
    BY <2>1, <2>2, <2>3 DEF PastDelete
  <2>5. Typed'
    BY <1>0, <2>1, <2>2, <2>3, Bounds DEF Typed
  <2>6. CountersBounded'
    BY <1>0, <1>n, <2>1, <2>3 DEF CountersBounded, Typed
  <2>7. ASSUME ~blurred' PROVE Undisturbed(p)'
    <3>1. Undisturbed(p)
      BY <1>0, <2>1, <2>4, <2>7 DEF Followed, Undisturbed
    <3>2. activeRows \in Nat
      BY <1>0 DEF Typed
    <3>3. QED
      BY <2>1, <2>2, <2>3, <2>4, <3>1, <3>2 DEF Undisturbed
  <2>8. QED
    BY <2>5, <2>6, <2>7 DEF MarketInv
<1>11. ASSUME NEW p \in Processes, AddCounts(p) PROVE MarketInv'
  <2> DEFINE b == [Down EXCEPT !.at = "up"]
  <2>1. /\ boot[p].at = "adding" /\ boot' = [boot EXCEPT ![p] = b]
        /\ counters' = [demand |-> counters.demand + boot[p].shipments,
                        demandTotal |-> boot[p].shipments,
                        supply |-> counters.supply + boot[p].active,
                        tripTotal |-> boot[p].trips, initialized |-> TRUE]
        /\ UNCHANGED <<shipmentRows, tripRows, draftRows, activeRows, demandDue, supplyDue,
                       starts, redisErrors, blurred>>
    BY <1>11 DEF AddCounts, RowsUnchanged
  <2>2. b \in Boots /\ b.at = "up" /\ p \in Rebuilding
    BY <2>1, DownTyped DEF Rebuilding
  <2> HIDE DEF b
  <2>3. /\ boot' \in [Processes -> Boots] /\ boot'[p] = b
        /\ \A q \in Processes \ {p} : boot'[q] = boot[q]
        /\ IsFiniteSet(Rebuilding') /\ Cardinality(Rebuilding') <= starts'
        /\ Added' = Added + MaxRows
    BY <2>1, <2>2, ProcessMoves
  <2>4. /\ boot[p].shipments \in 0..MaxRows /\ boot[p].active \in 0..MaxRows
        /\ boot[p].trips \in 0..MaxRows /\ boot[p].active <= boot[p].trips
    BY <1>0, <2>1 DEF Typed, Boots
  <2>5. counters' \in Counts
    <3>1. TRUE \in BOOLEAN
      OBVIOUS
    <3>2. QED
      BY <1>n, <2>1, <2>4, <3>1, Bounds DEF Counts
  <2>6. /\ counters'.demand = counters.demand + boot[p].shipments
        /\ counters'.demandTotal = boot[p].shipments
        /\ counters'.supply = counters.supply + boot[p].active
        /\ counters'.tripTotal = boot[p].trips
    BY <2>1
  <2>7. Typed'
    BY <1>0, <2>1, <2>2, <2>3, <2>5, Bounds DEF Typed
  <2>8. CountersBounded'
    BY <1>0, <1>n, <2>1, <2>3, <2>4, <2>6, Bounds DEF CountersBounded, Typed
  <2>9. ASSUME ~blurred' PROVE Followed'
    <3>1. p \in PastDelete
      BY <2>1 DEF PastDelete
    <3>2. Undisturbed(p)
      BY <1>0, <2>1, <2>9, <3>1 DEF Followed, Undisturbed
    <3>3. PastDelete' = {}
      BY <2>2, <2>3, <3>2 DEF PastDelete, Undisturbed
    <3>4. QED
      BY <1>0, <2>1, <2>4, <2>6, <3>2, <3>3, Bounds DEF Undisturbed, Followed, Typed
  <2>10. QED
    BY <2>7, <2>8, <2>9 DEF MarketInv
<1>12. ASSUME NEW p \in Processes, RebuildFails(p) PROVE MarketInv'
  <2> DEFINE b == [Down EXCEPT !.at = "up"]
  <2>1. /\ p \in Rebuilding /\ boot' = [boot EXCEPT ![p] = b] /\ blurred' = TRUE
        /\ redisErrors < MaxRedisErrors /\ redisErrors' = redisErrors + 1
        /\ UNCHANGED <<shipmentRows, tripRows, draftRows, activeRows, demandDue, supplyDue,
                       counters, starts>>
    BY <1>12 DEF RebuildFails, RowsUnchanged
  <2>2. b \in Boots /\ b.at = "up" /\ boot[p].at # "down"
    BY <2>1, DownTyped DEF Rebuilding
  <2> HIDE DEF b
  <2>3. /\ boot' \in [Processes -> Boots] /\ boot'[p] = b
        /\ \A q \in Processes \ {p} : boot'[q] = boot[q]
        /\ IsFiniteSet(Rebuilding') /\ Cardinality(Rebuilding') <= starts'
        /\ Added' \in Nat /\ Added <= Added'
    BY <2>1, <2>2, ProcessMoves
  <2>4. blurred' \in BOOLEAN
    BY <2>1, Zenon
  <2>5. ~blurred' => FALSE
    BY <2>1, Zenon
  <2>6. Typed'
    BY <1>0, <2>1, <2>2, <2>3, <2>4, Bounds DEF Typed
  <2>7. CountersBounded'
    BY <1>0, <1>n, <2>1, <2>3 DEF CountersBounded, Typed
  <2>8. QED
    BY <2>5, <2>6, <2>7 DEF MarketInv
<1>13. ASSUME NEW p \in Processes, StopProcess(p) PROVE MarketInv'
  <2>1. PICK d \in 0..demandDue, s \in 0..supplyDue :
          /\ demandDue' = demandDue - d /\ supplyDue' = supplyDue - s
          /\ blurred' = (blurred \/ d + s > 0 \/ p \in Rebuilding)
    BY <1>13 DEF StopProcess
  <2>2. /\ boot[p].at # "down" /\ boot' = [boot EXCEPT ![p] = Down]
        /\ UNCHANGED <<shipmentRows, tripRows, draftRows, activeRows, counters, starts,
                       redisErrors>>
    BY <1>13 DEF StopProcess, RowsUnchanged
  <2>3. /\ boot' \in [Processes -> Boots] /\ boot'[p] = Down
        /\ \A q \in Processes \ {p} : boot'[q] = boot[q]
        /\ IsFiniteSet(Rebuilding') /\ Cardinality(Rebuilding') <= starts'
        /\ Added' \in Nat /\ Added <= Added'
    BY <2>2, DownTyped, ProcessMoves
  <2>4. blurred' \in BOOLEAN
    BY <2>1, Zenon
  <2>5. ~blurred' => ~blurred /\ ~(d + s > 0) /\ p \notin Rebuilding
    BY <2>1, Zenon
  <2>6. d \in Nat /\ s \in Nat /\ d <= demandDue /\ s <= supplyDue /\ supplyDue \in Nat
    BY <1>0, <1>n DEF Typed
  <2>7. Typed'
    BY <1>0, <1>n, <2>1, <2>2, <2>3, <2>4, <2>6, DownTyped, Bounds DEF Typed
  <2>8. CountersBounded'
    BY <1>0, <1>n, <2>1, <2>2, <2>3, <2>6 DEF CountersBounded, Typed
  <2>9. ASSUME ~blurred' PROVE Matched'
    <3>1. demandDue' = demandDue /\ supplyDue' = supplyDue
      <4>1. d = 0 /\ s = 0
        BY <2>5, <2>6, <2>9
      <4>2. QED
        BY <1>n, <2>1, <2>6, <4>1
    <3>2. PastDelete' = PastDelete /\ p \notin PastDelete
      BY <2>3, <2>5, <2>9, DownTyped DEF PastDelete, Rebuilding
    <3>3. Followed => Followed'
      BY <2>2, <3>1, <3>2 DEF Followed
    <3>4. \A q \in Processes : Undisturbed(q) => Undisturbed(q)'
      BY <2>2, <2>3, <3>1, <3>2 DEF Undisturbed
    <3>5. QED
      BY <1>0, <2>5, <2>9, <3>3, <3>4
  <2>10. QED
    BY <2>7, <2>8, <2>9 DEF MarketInv
<1>14. CASE UNCHANGED marketVars
  BY <1>0, <1>14
     DEF marketVars, MarketInv, Typed, CountersBounded, Followed, Undisturbed, PastDelete,
         Rebuilding, Added, Adds
<1>15. QED
  BY <1>1, <1>2, <1>3, <1>4, <1>5, <1>6, <1>7, <1>8, <1>9, <1>10, <1>11, <1>12, <1>13, <1>14
     DEF MarketNext

LEMMA MarketInvariant == MarketSpec => []MarketInv
BY MarketStarts, MarketStep, PTL DEF MarketSpec

\* The counters, the rows and the rebuilds are of the types that the code gives them, and no
\* counter outgrows the increments and one rebuild for each start of a process.
THEOREM MarketTypeCorrect == MarketSpec => []MarketTypeOK
BY MarketInvariant, TypesFollow, PTL

\* Counters that nothing blurred since they were last deleted hold one for each shipment and
\* no less than one for each active trip once all increments are made: for any number of
\* processes, rows, starts and failures of Redis.
THEOREM CountersFollowRows == MarketSpec => []CountersMatchRows
<1>1. MarketInv => CountersMatchRows
  <2> SUFFICES ASSUME MarketInv, ~blurred, Rebuilding = {}, demandDue + supplyDue = 0
               PROVE  /\ counters.demand = shipmentRows /\ counters.demandTotal = shipmentRows
                      /\ counters.supply >= activeRows /\ counters.tripTotal >= activeRows
    BY DEF CountersMatchRows
  <2>1. Followed
    BY DEF MarketInv, Undisturbed, PastDelete, Rebuilding
  <2>2. demandDue = 0 /\ supplyDue = 0
    BY Bounds DEF MarketInv, Typed
  <2>3. QED
    BY <2>1, <2>2 DEF Followed, MarketInv, Typed, Counts
<1>2. QED
  BY <1>1, MarketInvariant, PTL

(***************************************************************************)
(* Drafts                                                                  *)
(***************************************************************************)

Claims == [pc: {"idle", "expire", "reserve", "create", "count", "link", "release"},
           listing: Listings \cup {0}]

\* A claim that has reserved the draft: the draft stays its own until the claim
\* ends, and the listing it created is its user's.
ClaimSound(u) ==
  /\ claim[u].pc \in {"create", "count", "link", "release"} =>
       draft.claimedBy = u /\ draft.status \in {"PROCESSING", "EXPIRED", "CLAIMED"}
  /\ claim[u].pc \in {"count", "link"} =>
       claim[u].listing \in Made /\ listing[claim[u].listing] = u

\* Before the draft's own listing is created every listing is due to a failed call.
ListingsOwed ==
  /\ draft.status \in {"none", "NEW"} => Cardinality(Made) <= callFailures
  /\ \A u \in Claimers : claim[u].pc \in {"create", "release"} => Cardinality(Made) <= callFailures

DraftsInv ==
  /\ DraftsTypeOK
  /\ IsFiniteSet(Made)
  /\ draft.status = "PROCESSING" => draft.claimedBy \in Claimers
  /\ \A u \in Claimers : ClaimSound(u)
  /\ ListingsOwed
  /\ DraftsAccounted

USE DEF In, AdvanceClaim, End, Listings

LEMMA DraftsStarts == DraftsInit => DraftsInv
<1> SUFFICES ASSUME DraftsInit PROVE DraftsInv
  OBVIOUS
<1>1. Made = {} /\ IsFiniteSet(Made) /\ Cardinality(Made) = 0
  BY FS_EmptySet DEF DraftsInit, Made
<1>2. DraftsTypeOK
  <2>1. due \in BOOLEAN
    BY DEF DraftsInit
  <2>2. QED
    BY <2>1, DraftsAssumption DEF DraftsInit, DraftsTypeOK, NoDraft, NoClaim
<1>3. QED
  BY <1>1, <1>2, DraftsAssumption
     DEF DraftsInit, DraftsInv, ClaimSound, ListingsOwed, DraftsAccounted, OneListingPerDraft,
         ClaimedByOwner, ReservationHeld, NoDraft, NoClaim, DraftsTypeOK

LEMMA PositiveSum == \A x, y \in Nat : x + y > 0 <=> x # 0 \/ y # 0
OBVIOUS

LEMMA ClaimsTyped ==
  DraftsInv => /\ claim \in [Claimers -> Claims] /\ NoClaim \in Claims
               /\ Cardinality(Made) \in Nat
BY FS_CardinalityType DEF DraftsInv, DraftsTypeOK, Claims, NoClaim

\* A new listing is one more.
LEMMA OneMoreListing ==
  ASSUME DraftsInv, NEW u \in Claimers, NEW n \in Listings \ Made,
         listing' = [listing EXCEPT ![n] = u]
  PROVE  /\ Made' = Made \cup {n} /\ IsFiniteSet(Made')
         /\ Cardinality(Made') = Cardinality(Made) + 1
         /\ listing' \in [Listings -> Claimers \cup {NoUserYet}] /\ listing'[n] = u
         /\ \A m \in Made : listing'[m] = listing[m]
<1>1. listing \in [Listings -> Claimers \cup {NoUserYet}]
  BY DEF DraftsInv, DraftsTypeOK
<1>2. Made' = Made \cup {n}
  BY <1>1, DraftsAssumption DEF Made
<1>3. IsFiniteSet(Made') /\ Cardinality(Made') = Cardinality(Made) + 1
  BY <1>2, FS_AddElement DEF DraftsInv
<1>4. QED
  BY <1>1, <1>2, <1>3

\* A claim moves on; the draft and the listings stay.
LEMMA ClaimMovesOn ==
  ASSUME DraftsInv, NEW u \in Claimers, NEW c \in Claims, claim' = [claim EXCEPT ![u] = c],
         UNCHANGED <<draft, due, listing>>,
         callFailures' \in 0..MaxCallFailures, claimCrashes' \in 0..MaxClaimCrashes,
         callFailures' \in {callFailures, callFailures + 1},
         claimCrashes' \in {claimCrashes, claimCrashes + 1},
         \/ c.pc \in {"expire", "reserve"} /\ claim[u].pc = "idle"
         \/ c.pc = "idle" /\ (callFailures' # 0 \/ claimCrashes' # 0)
         \/ c.pc = "idle" /\ ~(draft.status = "PROCESSING" /\ draft.claimedBy = u)
         \/ c.pc = "release" /\ claim[u].pc = "create"
         \/ /\ c.pc = "release" /\ claim[u].pc \in {"create", "count", "link"}
            /\ callFailures' = callFailures + 1
         \/ c.pc = "link" /\ claim[u].pc = "count" /\ c.listing = claim[u].listing
  PROVE  DraftsInv'
<1>0. claim \in [Claimers -> Claims] /\ Cardinality(Made) \in Nat
      /\ callFailures \in Nat /\ claimCrashes \in Nat
      /\ callFailures' \in Nat /\ claimCrashes' \in Nat
  BY ClaimsTyped, DraftsAssumption DEF DraftsInv, DraftsTypeOK
<1>1. Made' = Made
  BY DEF Made
<1>2. DraftsTypeOK'
  BY <1>0 DEF DraftsInv, DraftsTypeOK, Claims
<1>3. \A v \in Claimers : ClaimSound(v)'
  BY <1>0, <1>1 DEF DraftsInv, ClaimSound
<1>4. ListingsOwed'
  <2>1. Cardinality(Made) <= 1 + callFailures /\ Cardinality(Made') = Cardinality(Made)
    BY <1>1 DEF DraftsInv, DraftsAccounted, OneListingPerDraft
  <2>2. draft'.status \in {"none", "NEW"} => Cardinality(Made') <= callFailures'
    BY <1>0, <2>1 DEF DraftsInv, ListingsOwed
  <2>3. ASSUME NEW v \in Claimers, claim'[v].pc \in {"create", "release"}
        PROVE  Cardinality(Made') <= callFailures'
    <3>1. CASE claim[v].pc \in {"create", "release"}
      BY <1>0, <2>1, <3>1 DEF DraftsInv, ListingsOwed
    <3>2. CASE claim[v].pc \notin {"create", "release"}
      <4>1. callFailures' = callFailures + 1
        BY <1>0, <2>3, <3>2
      <4>2. QED
        BY <1>0, <2>1, <4>1
    <3>3. QED
      BY <3>1, <3>2
  <2>4. QED
    BY <2>2, <2>3 DEF ListingsOwed
<1>5. OneListingPerDraft' /\ ClaimedByOwner'
  BY <1>0, <1>1 DEF DraftsInv, DraftsAccounted, OneListingPerDraft, ClaimedByOwner
<1>6. ReservationHeld'
  <2> SUFFICES ASSUME draft'.status = "PROCESSING", ~(claimCrashes' + callFailures' > 0)
               PROVE  claim'[draft'.claimedBy].pc \in {"create", "count", "link", "release"}
    BY DEF ReservationHeld
  <2>1. claimCrashes' = 0 /\ callFailures' = 0
    BY <1>0, PositiveSum, Zenon
  <2>2. draft.claimedBy \in Claimers
        /\ claim[draft.claimedBy].pc \in {"create", "count", "link", "release"}
    <3>1. claimCrashes = 0 /\ callFailures = 0
      BY <1>0, <2>1
    <3>2. QED
      BY <3>1 DEF DraftsInv, DraftsAccounted, ReservationHeld
  <2>3. QED
    BY <1>0, <2>1, <2>2
<1>7. QED
  BY <1>1, <1>2, <1>3, <1>4, <1>5, <1>6 DEF DraftsInv, DraftsAccounted

\* The claim of u changes the draft, which u has reserved or which is expired by it.
LEMMA DraftChanges ==
  ASSUME DraftsInv, NEW u \in Claimers, NEW c \in Claims, claim' = [claim EXCEPT ![u] = c],
         UNCHANGED <<due, listing, claimCrashes>>,
         callFailures' \in 0..MaxCallFailures,
         callFailures' \in {callFailures, callFailures + 1},
         draft' \in [status: {"none", "NEW", "PROCESSING", "CLAIMED", "EXPIRED"},
                     claimedBy: Claimers \cup {NoUserYet}, link: Listings \cup {0}],
         c.pc \in {"idle", "create", "release"},
         draft'.claimedBy # draft.claimedBy =>
           \A v \in Claimers \ {u} :
             claim[v].pc \notin {"create", "count", "link", "release"},
         draft'.status \in {"none", "NEW"} =>
           /\ draft'.claimedBy = NoUserYet
           /\ \A v \in Claimers \ {u} :
                claim[v].pc \notin {"create", "count", "link", "release"}
           /\ c.pc = "idle" /\ Cardinality(Made) <= callFailures',
         c.pc \in {"create", "release"} =>
           draft'.claimedBy = u /\ Cardinality(Made) <= callFailures',
         draft'.status = "CLAIMED" =>
           draft'.link \in Made /\ listing[draft'.link] = draft'.claimedBy,
         draft'.status = "PROCESSING" =>
           /\ draft'.claimedBy = u
           /\ c.pc = "create" \/ callFailures' # 0
  PROVE  DraftsInv'
<1>0. claim \in [Claimers -> Claims] /\ Cardinality(Made) \in Nat
      /\ callFailures \in Nat /\ claimCrashes \in Nat /\ callFailures' \in Nat
  BY ClaimsTyped, DraftsAssumption DEF DraftsInv, DraftsTypeOK
<1>1. Made' = Made
  BY DEF Made
<1>2. DraftsTypeOK'
  BY <1>0 DEF DraftsInv, DraftsTypeOK, Claims
<1>3. ASSUME NEW v \in Claimers PROVE ClaimSound(v)'
  <2>1. CASE v = u
    BY <1>0, <2>1 DEF ClaimSound
  <2>2. CASE v # u
    BY <1>0, <1>1, <2>2 DEF DraftsInv, ClaimSound
  <2>3. QED
    BY <2>1, <2>2
<1>4. ListingsOwed'
  <2>1. Cardinality(Made') = Cardinality(Made)
    BY <1>1
  <2>2. ASSUME NEW v \in Claimers, claim'[v].pc \in {"create", "release"}
        PROVE  Cardinality(Made') <= callFailures'
    <3>1. CASE v = u
      BY <1>0, <2>1, <2>2, <3>1
    <3>2. CASE v # u
      BY <1>0, <2>1, <2>2, <3>2 DEF DraftsInv, ListingsOwed
    <3>3. QED
      BY <3>1, <3>2
  <2>3. QED
    BY <2>1, <2>2 DEF ListingsOwed
<1>5. OneListingPerDraft' /\ ClaimedByOwner'
  BY <1>0, <1>1 DEF DraftsInv, DraftsAccounted, OneListingPerDraft, ClaimedByOwner
<1>6. ReservationHeld'
  <2> SUFFICES ASSUME draft'.status = "PROCESSING", ~(claimCrashes' + callFailures' > 0)
               PROVE  claim'[draft'.claimedBy].pc \in {"create", "count", "link", "release"}
    BY DEF ReservationHeld
  <2>1. claimCrashes' = 0 /\ callFailures' = 0
    BY <1>0, PositiveSum, Zenon
  <2>2. QED
    BY <1>0, <2>1
<1>7. QED
  BY <1>1, <1>2, <1>3, <1>4, <1>5, <1>6 DEF DraftsInv, DraftsAccounted

\* The claim of u creates a listing: its own, or one that a failed call leaves behind.
LEMMA ListingAdded ==
  ASSUME DraftsInv, NEW u \in Claimers, NEW n \in Listings \ Made, NEW c \in Claims,
         claim[u].pc = "create", claim' = [claim EXCEPT ![u] = c],
         listing' = [listing EXCEPT ![n] = u],
         UNCHANGED <<draft, due, claimCrashes>>, callFailures' \in 0..MaxCallFailures,
         \/ c = [pc |-> "count", listing |-> n] /\ callFailures' = callFailures
         \/ c.pc = "release" /\ callFailures' = callFailures + 1
  PROVE  DraftsInv'
<1>0. claim \in [Claimers -> Claims] /\ Cardinality(Made) \in Nat
      /\ callFailures \in Nat /\ claimCrashes \in Nat /\ callFailures' \in Nat
      /\ draft.claimedBy = u /\ Cardinality(Made) <= callFailures
  BY ClaimsTyped, DraftsAssumption DEF DraftsInv, DraftsTypeOK, ClaimSound, ListingsOwed
<1>1. /\ Made' = Made \cup {n} /\ IsFiniteSet(Made')
      /\ Cardinality(Made') = Cardinality(Made) + 1
      /\ listing' \in [Listings -> Claimers \cup {NoUserYet}] /\ listing'[n] = u
      /\ \A m \in Made : listing'[m] = listing[m]
  BY OneMoreListing
<1>2. DraftsTypeOK'
  BY <1>0, <1>1 DEF DraftsInv, DraftsTypeOK, Claims
<1>3. \A v \in Claimers : ClaimSound(v)'
  BY <1>0, <1>1 DEF DraftsInv, ClaimSound
<1>4. ListingsOwed'
  <2>1. draft'.status \notin {"none", "NEW"}
    BY DEF DraftsInv, ClaimSound
  <2>2. ASSUME NEW v \in Claimers, claim'[v].pc \in {"create", "release"}
        PROVE  Cardinality(Made') <= callFailures'
    <3>1. v = u
      BY <1>0, <2>2 DEF DraftsInv, ClaimSound
    <3>2. QED
      BY <1>0, <1>1, <2>2, <3>1
  <2>3. QED
    BY <2>1, <2>2 DEF ListingsOwed
<1>5. OneListingPerDraft'
  BY <1>0, <1>1 DEF OneListingPerDraft
<1>6. ClaimedByOwner'
  BY <1>1 DEF DraftsInv, DraftsAccounted, ClaimedByOwner
<1>7. ReservationHeld'
  <2>1. draft'.claimedBy = u /\ claim'[u].pc \in {"create", "count", "link", "release"}
    BY <1>0
  <2>2. QED
    BY <2>1 DEF ReservationHeld
<1>8. QED
  BY <1>0, <1>1, <1>2, <1>3, <1>4, <1>5, <1>6, <1>7 DEF DraftsInv, DraftsAccounted

LEMMA DraftsStep == DraftsInv /\ [DraftsNext]_draftsVars => DraftsInv'
<1> SUFFICES ASSUME DraftsInv, [DraftsNext]_draftsVars PROVE DraftsInv'
  OBVIOUS
<1>0. /\ DraftsTypeOK /\ claim \in [Claimers -> Claims] /\ NoClaim \in Claims
      /\ Cardinality(Made) \in Nat /\ NoUserYet \notin Claimers
      /\ callFailures \in Nat /\ claimCrashes \in Nat
  BY ClaimsTyped, DraftsAssumption DEF DraftsInv, DraftsTypeOK
<1>1. CASE CreateDraft
  BY <1>0, <1>1
     DEF CreateDraft, DraftsInv, DraftsTypeOK, ClaimSound, ListingsOwed, DraftsAccounted,
         OneListingPerDraft, ClaimedByOwner, ReservationHeld, NoDraft, Made
<1>2. CASE TimePasses
  BY <1>0, <1>2
     DEF TimePasses, DraftsInv, DraftsTypeOK, ClaimSound, ListingsOwed, DraftsAccounted,
         OneListingPerDraft, ClaimedByOwner, ReservationHeld, Made
<1>3. ASSUME NEW u \in Claimers, FindDraft(u) PROVE DraftsInv'
  <2> DEFINE c == [claim[u] EXCEPT !.pc = IF due THEN "expire" ELSE "reserve"]
  <2>1. c \in Claims /\ claim' = [claim EXCEPT ![u] = c]
        /\ c.pc \in {"expire", "reserve"} /\ claim[u].pc = "idle"
        /\ UNCHANGED <<draft, due, listing, callFailures, claimCrashes>>
    BY <1>0, <1>3 DEF FindDraft, Claims
  <2> HIDE DEF c
  <2>2. QED
    BY <1>0, <2>1, ClaimMovesOn DEF DraftsTypeOK
<1>4. ASSUME NEW u \in Claimers, ExpireDraft(u) PROVE DraftsInv'
  <2>1. /\ claim' = [claim EXCEPT ![u] = NoClaim]
        /\ draft' = [draft EXCEPT !.status = "EXPIRED"]
        /\ UNCHANGED <<due, listing, callFailures, claimCrashes>>
    BY <1>4 DEF ExpireDraft
  <2>2. QED
    BY <1>0, <2>1, DraftChanges DEF DraftsTypeOK, NoClaim
<1>5. ASSUME NEW u \in Claimers, Reserve(u) PROVE DraftsInv'
  <2>1. CASE Reservable
    <3> DEFINE c == [claim[u] EXCEPT !.pc = "create"]
    <3>1. /\ c \in Claims /\ claim' = [claim EXCEPT ![u] = c] /\ c.pc = "create"
          /\ draft' = Reserved(u) /\ UNCHANGED <<due, listing, callFailures, claimCrashes>>
          /\ draft.status = "NEW"
      BY <1>0, <1>5, <2>1 DEF Reserve, Claims, Reservable
    <3> HIDE DEF c
    <3>2. /\ \A v \in Claimers : claim[v].pc \notin {"create", "count", "link", "release"}
          /\ Cardinality(Made) <= callFailures
      BY <3>1 DEF DraftsInv, ClaimSound, ListingsOwed
    <3>3. draft' \in [status: {"none", "NEW", "PROCESSING", "CLAIMED", "EXPIRED"},
                      claimedBy: Claimers \cup {NoUserYet}, link: Listings \cup {0}]
          /\ draft'.status = "PROCESSING" /\ draft'.claimedBy = u
      BY <1>0, <3>1 DEF DraftsTypeOK, Reserved
    <3>4. QED
      BY <1>0, <3>1, <3>2, <3>3, DraftChanges DEF DraftsTypeOK
  <2>2. CASE ~Reservable
    <3>1. /\ claim' = [claim EXCEPT ![u] = NoClaim]
          /\ UNCHANGED <<draft, due, listing, callFailures, claimCrashes>>
          /\ claim[u].pc = "reserve"
      BY <1>5, <2>2 DEF Reserve
    <3>2. NoClaim.pc = "idle"
      BY DEF NoClaim
    <3>3. draft.status = "PROCESSING" /\ draft.claimedBy = u =>
            claimCrashes + callFailures > 0
      BY <3>1 DEF DraftsInv, DraftsAccounted, ReservationHeld
    <3>4. draft.status = "PROCESSING" /\ draft.claimedBy = u =>
            callFailures' # 0 \/ claimCrashes' # 0
      BY <1>0, <3>1, <3>3, PositiveSum
    <3>5. QED
      BY <1>0, <3>1, <3>2, <3>4, ClaimMovesOn DEF DraftsTypeOK
  <2>3. QED
    BY <2>1, <2>2
<1>6. ASSUME NEW u \in Claimers, CreateListing(u) PROVE DraftsInv'
  <2>1. PICK n \in Listings \ Made :
          /\ listing' = [listing EXCEPT ![n] = u]
          /\ claim' = [claim EXCEPT ![u] = [pc |-> "count", listing |-> n]]
    BY <1>6 DEF CreateListing
  <2>2. [pc |-> "count", listing |-> n] \in Claims
    BY DEF Claims
  <2>3. claim[u].pc = "create" /\ UNCHANGED <<draft, due, callFailures, claimCrashes>>
    BY <1>6 DEF CreateListing
  <2>4. QED
    BY <1>0, <2>1, <2>2, <2>3, ListingAdded DEF DraftsTypeOK
<1>7. ASSUME NEW u \in Claimers, CreateRefused(u) PROVE DraftsInv'
  <2> DEFINE c == [claim[u] EXCEPT !.pc = "release"]
  <2>1. /\ c \in Claims /\ claim' = [claim EXCEPT ![u] = c] /\ c.pc = "release"
        /\ claim[u].pc = "create"
        /\ UNCHANGED <<draft, due, listing, callFailures, claimCrashes>>
    BY <1>0, <1>7 DEF CreateRefused, Claims
  <2> HIDE DEF c
  <2>2. QED
    BY <1>0, <2>1, ClaimMovesOn DEF DraftsTypeOK
<1>8. ASSUME NEW u \in Claimers, CountListing(u) PROVE DraftsInv'
  <2> DEFINE c == [claim[u] EXCEPT !.pc = "link"]
  <2>1. /\ c \in Claims /\ claim' = [claim EXCEPT ![u] = c] /\ c.pc = "link"
        /\ c.listing = claim[u].listing /\ claim[u].pc = "count"
        /\ UNCHANGED <<draft, due, listing, callFailures, claimCrashes>>
    BY <1>0, <1>8 DEF CountListing, Claims
  <2> HIDE DEF c
  <2>2. QED
    BY <1>0, <2>1, ClaimMovesOn DEF DraftsTypeOK
<1>9. ASSUME NEW u \in Claimers, LinkListing(u) PROVE DraftsInv'
  <2>1. /\ claim' = [claim EXCEPT ![u] = NoClaim] /\ draft' = Linked(u)
        /\ UNCHANGED <<due, listing, callFailures, claimCrashes>>
        /\ claim[u].listing \in Made /\ listing[claim[u].listing] = u /\ draft.claimedBy = u
    BY <1>9 DEF LinkListing, DraftsInv, ClaimSound
  <2>2. /\ draft'.status = "CLAIMED" /\ draft'.claimedBy = u /\ draft'.link = claim[u].listing
        /\ draft' \in [status: {"none", "NEW", "PROCESSING", "CLAIMED", "EXPIRED"},
                       claimedBy: Claimers \cup {NoUserYet}, link: Listings \cup {0}]
    BY <1>0, <2>1 DEF Linked, DraftsTypeOK, Claims
  <2>3. NoClaim.pc = "idle"
    BY DEF NoClaim
  <2>4. QED
    BY <1>0, <2>1, <2>2, <2>3, DraftChanges DEF DraftsTypeOK
<1>10. ASSUME NEW u \in Claimers, Release(u) PROVE DraftsInv'
  <2>1. /\ claim' = [claim EXCEPT ![u] = NoClaim] /\ claim[u].pc = "release"
        /\ UNCHANGED <<due, listing, callFailures, claimCrashes>>
        /\ draft' = IF draft.status = "PROCESSING" THEN Released ELSE draft
    BY <1>10 DEF Release
  <2>2. NoClaim.pc = "idle"
    BY DEF NoClaim
  <2>3. draft.claimedBy = u /\ Cardinality(Made) <= callFailures
        /\ \A v \in Claimers \ {u} : claim[v].pc \notin {"create", "count", "link", "release"}
    BY <2>1 DEF DraftsInv, ClaimSound, ListingsOwed
  <2>4. CASE draft.status = "PROCESSING"
    <3>1. /\ draft'.status = "NEW" /\ draft'.claimedBy = NoUserYet
          /\ draft' \in [status: {"none", "NEW", "PROCESSING", "CLAIMED", "EXPIRED"},
                         claimedBy: Claimers \cup {NoUserYet}, link: Listings \cup {0}]
      BY <1>0, <2>1, <2>4 DEF Released, DraftsTypeOK
    <3>2. QED
      BY <1>0, <2>1, <2>2, <2>3, <3>1, DraftChanges DEF DraftsTypeOK
  <2>5. CASE draft.status # "PROCESSING"
    BY <1>0, <2>1, <2>2, <2>5, ClaimMovesOn DEF DraftsTypeOK
  <2>6. QED
    BY <2>4, <2>5
<1>11. ASSUME NEW u \in Claimers, CallFails(u) PROVE DraftsInv'
  <2>1. /\ callFailures' = callFailures + 1 /\ callFailures' \in 0..MaxCallFailures
        /\ callFailures' # 0 /\ UNCHANGED <<due, claimCrashes>>
    BY <1>0, <1>11, DraftsAssumption DEF CallFails
  <2>2. PICK c \in Claims :
          /\ claim' = [claim EXCEPT ![u] = c]
          /\ \/ claim[u].pc \in {"create", "count", "link"} /\ c.pc = "release"
             \/ claim[u].pc \in {"expire", "reserve", "release"} /\ c = NoClaim
    <3>1. CASE claim[u].pc \in {"create", "count", "link"}
      <4> DEFINE c == [claim[u] EXCEPT !.pc = "release"]
      <4>1. c \in Claims /\ c.pc = "release" /\ claim' = [claim EXCEPT ![u] = c]
        BY <1>0, <1>11, <3>1 DEF CallFails, Claims
      <4> HIDE DEF c
      <4>2. QED
        BY <3>1, <4>1
    <3>2. CASE claim[u].pc \notin {"create", "count", "link"}
      BY <1>0, <1>11, <3>2 DEF CallFails
    <3>3. QED
      BY <3>1, <3>2
  <2>3. NoClaim.pc = "idle"
    BY DEF NoClaim
  <2>4. CASE UNCHANGED <<draft, listing>>
    BY <1>0, <2>1, <2>2, <2>3, <2>4, ClaimMovesOn DEF DraftsTypeOK
  <2>5. CASE In(u, "reserve") /\ Reservable /\ draft' = Reserved(u) /\ UNCHANGED listing
    <3>1. /\ \A v \in Claimers : claim[v].pc \notin {"create", "count", "link", "release"}
          /\ draft' \in [status: {"none", "NEW", "PROCESSING", "CLAIMED", "EXPIRED"},
                         claimedBy: Claimers \cup {NoUserYet}, link: Listings \cup {0}]
          /\ draft'.status = "PROCESSING" /\ draft'.claimedBy = u
      BY <1>0, <2>5 DEF DraftsInv, ClaimSound, DraftsTypeOK, Reserved, Reservable
    <3>2. c = NoClaim
      BY <2>2, <2>5
    <3>3. QED
      BY <1>0, <2>1, <2>2, <2>3, <2>5, <3>1, <3>2, DraftChanges DEF DraftsTypeOK
  <2>6. CASE In(u, "link") /\ draft' = Linked(u) /\ UNCHANGED listing
    <3>1. claim[u].listing \in Made /\ listing[claim[u].listing] = u /\ draft.claimedBy = u
      BY <2>6 DEF DraftsInv, ClaimSound
    <3>2. /\ draft'.status = "CLAIMED" /\ draft'.claimedBy = u
          /\ draft'.link = claim[u].listing
          /\ draft' \in [status: {"none", "NEW", "PROCESSING", "CLAIMED", "EXPIRED"},
                         claimedBy: Claimers \cup {NoUserYet}, link: Listings \cup {0}]
      BY <1>0, <2>6, <3>1 DEF Linked, DraftsTypeOK, Claims
    <3>3. c.pc = "release"
      BY <2>2, <2>6
    <3>4. Cardinality(Made) <= callFailures'
      BY <1>0, <2>1 DEF DraftsInv, DraftsAccounted, OneListingPerDraft
    <3>5. QED
      BY <1>0, <2>1, <2>2, <2>6, <3>1, <3>2, <3>3, <3>4, DraftChanges DEF DraftsTypeOK
  <2>7. CASE In(u, "create") /\ UNCHANGED draft
             /\ \E n \in Listings \ Made : listing' = [listing EXCEPT ![n] = u]
    <3>1. PICK n \in Listings \ Made : listing' = [listing EXCEPT ![n] = u]
      BY <2>7
    <3>2. c.pc = "release"
      BY <2>2, <2>7
    <3>3. QED
      BY <1>0, <2>1, <2>2, <2>7, <3>1, <3>2, ListingAdded
  <2>8. QED
    BY <1>11, <2>4, <2>5, <2>6, <2>7 DEF CallFails
<1>12. ASSUME NEW u \in Claimers, CrashClaim(u) PROVE DraftsInv'
  <2>1. /\ claim' = [claim EXCEPT ![u] = NoClaim] /\ NoClaim.pc = "idle"
        /\ claimCrashes' = claimCrashes + 1 /\ claimCrashes' \in 0..MaxClaimCrashes
        /\ claimCrashes' # 0
        /\ UNCHANGED <<draft, due, listing, callFailures>>
    BY <1>0, <1>12, DraftsAssumption DEF CrashClaim, NoClaim
  <2>2. QED
    BY <1>0, <2>1, ClaimMovesOn DEF DraftsTypeOK
<1>13. CASE UNCHANGED draftsVars
  BY <1>0, <1>13
     DEF draftsVars, DraftsInv, DraftsTypeOK, ClaimSound, ListingsOwed, DraftsAccounted,
         OneListingPerDraft, ClaimedByOwner, ReservationHeld, Made
<1>14. QED
  BY <1>1, <1>2, <1>3, <1>4, <1>5, <1>6, <1>7, <1>8, <1>9, <1>10, <1>11, <1>12, <1>13
     DEF DraftsNext

LEMMA DraftsInvariant == DraftsSpec => []DraftsInv
BY DraftsStarts, DraftsStep, PTL DEF DraftsSpec

\* The rows of a draft and its listings, and the claims under way, are of the types that
\* the code gives them; a draft that nobody reserved names nobody.
THEOREM DraftsTypeCorrect == DraftsSpec => []DraftsTypeOK
<1>1. DraftsInv => DraftsTypeOK
  BY DEF DraftsInv
<1>2. QED
  BY <1>1, DraftsInvariant, PTL

\* A draft becomes one listing and at most one more for each database call that failed; a
\* claimed draft names the owner of its listing; and a reservation belongs to a claim that is
\* still under way unless a claim stopped halfway or a call failed: for any number of users
\* who claim, listings, failures and crashes.
THEOREM DraftsStayAccounted == DraftsSpec => []DraftsAccounted
<1>1. DraftsInv => DraftsAccounted
  BY DEF DraftsInv
<1>2. QED
  BY <1>1, DraftsInvariant, PTL
=============================================================================
