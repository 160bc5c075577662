-------------------------- MODULE MatchSuggestions --------------------------
(***************************************************************************)
(* Suggestions of trips for shipments.  Creating a shipment and publishing *)
(* a trip each write the row and then add a job; a job queries the other   *)
(* side and stores a suggestion for each hit.  A pair comes about in       *)
(* either order, and the two jobs run apart, are retried and can be lost   *)
(* when the queue refuses them.  Only creating and publishing add a job: a *)
(* pair that comes to match later on waits for nobody.                     *)
(***************************************************************************)
EXTENDS Naturals, FiniteSets

CONSTANTS
  Shipments, Trips,
  TripHits,         \* pairs that the query of the shipment's job finds
  ShipmentHits,     \* pairs that the query of the trip's job finds
  Take,             \* most rows that a query returns (20 in the code)
  MaxJobAttempts,   \* attempts of a job (5 in the code)
  MaxPublishers,    \* bound on the requests that publish one trip at a time
  MaxUpsets         \* bound on failed calls and on changes that take a pair away

ASSUME MatchingAssumption ==
  /\ Shipments \cap Trips = {}
  /\ TripHits \subseteq Shipments \X Trips /\ ShipmentHits \subseteq Shipments \X Trips
  /\ Take \in Nat /\ MaxJobAttempts \in Nat \ {0}
  /\ MaxPublishers \in Nat /\ MaxUpsets \in Nat

VARIABLES
  shipment,       \* shipment[s]: status of the row, MATCHED for any after PENDING
  offer,          \* offer[t]: status of the trip
  apart,          \* pairs that the present room, cities or cargo of the rows keep apart
  publishing,     \* publishing[t]: requests that saw a draft and have not yet written
  toEnqueue,      \* toEnqueue[x]: requests that wrote the row and have not yet added the job
  job,            \* job[x]: the job whose id names shipment or trip x
  suggested,      \* the rows of match_suggestions
  upsets,         \* calls that failed, and changes that took a pair away
  cameBack,       \* pairs that came to match when both jobs were past seeing it
  leftOut         \* pairs that matched and were not among the rows that a query took

matchVars == <<shipment, offer, apart, publishing, toEnqueue, job, suggested, upsets,
               cameBack, leftOut>>

Subjects == Shipments \cup Trips
Pairs == Shipments \X Trips
\* doubtful: pairs that were apart at some time since the job read the row of its subject
NoJob == [state |-> "none", attempt |-> 0, doubtful |-> {}, hits |-> {}]

MatchTypeOK ==
  /\ shipment \in [Shipments -> {"none", "PENDING", "MATCHED"}]
  /\ offer \in [Trips -> {"DRAFT", "ACTIVE", "CANCELLED"}]
  /\ publishing \in [Trips -> Nat] /\ toEnqueue \in [Subjects -> Nat]
  /\ job \in [Subjects -> [state: {"none", "waiting", "read", "running", "completed", "failed"},
                           attempt: 0..MaxJobAttempts, doubtful: SUBSET Pairs,
                           hits: SUBSET Pairs]]
  /\ \A x \in Subjects : \A pair \in job[x].hits : x \in {pair[1], pair[2]}
  /\ {apart, suggested, cameBack, leftOut} \subseteq SUBSET Pairs
  /\ upsets \in 0..MaxUpsets

MatchInit ==
  /\ shipment = [s \in Shipments |-> "none"]
  /\ offer = [t \in Trips |-> "DRAFT"]
  /\ publishing = [t \in Trips |-> 0]
  /\ toEnqueue = [x \in Subjects |-> 0]
  /\ job = [x \in Subjects |-> NoJob]
  /\ apart = {} /\ suggested = {} /\ cameBack = {} /\ leftOut = {}
  /\ upsets = 0

Upset == upsets < MaxUpsets /\ upsets' = upsets + 1

\* The job of x has queried, or will do so with a copy of x that may not match, for the
\* last time unless it fails and is run again.
Past(x, pair) == job[x].state \in {"running", "completed"} \/ pair \in job[x].doubtful
ComeBack(pairs) ==
  cameBack' = cameBack \cup {pair \in pairs : Past(pair[1], pair) /\ Past(pair[2], pair)}

----------------------------------------------------------------------------
(* The requests of senders, carriers and administrators                     *)

\* Mutant of CreateShipment.
CreateShipmentQueuedFirst(s) ==
  \/ /\ shipment[s] = "none" /\ job[s].state = "none"
     /\ job' = [job EXCEPT ![s] = [NoJob EXCEPT !.state = "waiting"]]
     /\ UNCHANGED <<shipment, offer, apart, publishing, toEnqueue, suggested, upsets, cameBack,
                    leftOut>>
  \/ /\ shipment[s] = "none" /\ job[s].state # "none"
     /\ shipment' = [shipment EXCEPT ![s] = "PENDING"]
     /\ UNCHANGED <<offer, apart, publishing, toEnqueue, job, suggested, upsets, cameBack,
                    leftOut>>
CreateShipment(s) ==
  /\ shipment[s] = "none"
  /\ shipment' = [shipment EXCEPT ![s] = "PENDING"]
  /\ toEnqueue' = [toEnqueue EXCEPT ![s] = @ + 1]
  /\ UNCHANGED <<offer, apart, publishing, job, suggested, upsets, cameBack, leftOut>>

SeeDraft(t) ==
  /\ offer[t] = "DRAFT" /\ publishing[t] < MaxPublishers
  /\ publishing' = [publishing EXCEPT ![t] = @ + 1]
  /\ UNCHANGED <<shipment, offer, apart, toEnqueue, job, suggested, upsets, cameBack, leftOut>>

\* By id, over a cancel or another publish that came meanwhile.
PublishTrip(t) ==
  /\ publishing[t] > 0
  /\ publishing' = [publishing EXCEPT ![t] = @ - 1]
  /\ offer' = [offer EXCEPT ![t] = "ACTIVE"]
  /\ ComeBack(IF offer[t] = "CANCELLED" THEN Shipments \X {t} ELSE {})
  /\ toEnqueue' = [toEnqueue EXCEPT ![t] = @ + 1]
  /\ UNCHANGED <<shipment, apart, job, suggested, upsets, leftOut>>

CancelOffer(t) ==
  /\ offer' = [offer EXCEPT ![t] = "CANCELLED"]
  /\ Upset
  /\ UNCHANGED <<shipment, apart, publishing, toEnqueue, job, suggested, cameBack, leftOut>>

Assign(s) ==
  /\ shipment[s] = "PENDING"
  /\ shipment' = [shipment EXCEPT ![s] = "MATCHED"]
  /\ Upset
  /\ UNCHANGED <<offer, apart, publishing, toEnqueue, job, suggested, cameBack, leftOut>>

\* Nothing is enqueued for a shipment that comes back.
Reject(s) ==
  /\ shipment[s] = "MATCHED"
  /\ shipment' = [shipment EXCEPT ![s] = "PENDING"]
  /\ ComeBack({s} \X Trips)
  /\ UNCHANGED <<offer, apart, publishing, toEnqueue, job, suggested, upsets, leftOut>>

\* The trip's room is taken by another shipment, or an edit of either row changes what
\* the queries compare.
PutApart(s, t) ==
  /\ apart' = apart \cup {<<s, t>>}
  /\ job' = [x \in Subjects |-> IF x \in {s, t} /\ job[x].state = "read"
                                THEN [job[x] EXCEPT !.doubtful = @ \cup {<<s, t>>}] ELSE job[x]]
  /\ Upset
  /\ UNCHANGED <<shipment, offer, publishing, toEnqueue, suggested, cameBack, leftOut>>

\* Room is given back, or an edit makes the rows match: no job is added.
BringTogether(s, t) ==
  /\ <<s, t>> \in apart
  /\ apart' = apart \ {<<s, t>>}
  /\ ComeBack({<<s, t>>})
  /\ UNCHANGED <<shipment, offer, publishing, toEnqueue, job, suggested, upsets, leftOut>>

\* The job id names the subject: while a job of that id is kept, add does nothing.
Enqueue(x) ==
  /\ toEnqueue[x] > 0
  /\ toEnqueue' = [toEnqueue EXCEPT ![x] = @ - 1]
  /\ job' = IF job[x].state = "none" THEN [job EXCEPT ![x].state = "waiting"] ELSE job
  /\ UNCHANGED <<shipment, offer, apart, publishing, suggested, upsets, cameBack, leftOut>>

\* The error is logged; the request succeeds.
EnqueueFails(x) ==
  /\ toEnqueue[x] > 0
  /\ toEnqueue' = [toEnqueue EXCEPT ![x] = @ - 1]
  /\ Upset
  /\ UNCHANGED <<shipment, offer, apart, publishing, job, suggested, cameBack, leftOut>>

----------------------------------------------------------------------------
(* MarketplaceMatchingProcessor and MatchingService                         *)

\* findById, of the shipment or trip that the job is for
ReadSubject(x) ==
  /\ job[x].state = "waiting"
  /\ job' = [job EXCEPT ![x] =
       [state |-> "read", attempt |-> @.attempt + 1,
        doubtful |-> {pair \in apart : x \in {pair[1], pair[2]}}, hits |-> {}]]
  /\ UNCHANGED <<shipment, offer, apart, publishing, toEnqueue, suggested, upsets, cameBack,
                 leftOut>>

\* findMatchingTrips does not look at the status of the shipment,
\* findMatchingShipments not at the status of the trip.
HitsOf(x) ==
  {pair \in TripHits : pair[1] = x /\ shipment[x] # "none" /\ offer[pair[2]] = "ACTIVE"}
    \cup {pair \in ShipmentHits : pair[2] = x /\ shipment[pair[1]] = "PENDING"}

\* What a query may return: all rows that match, or Take of them (the trips that leave
\* first, the shipments created last).
Answers(hits) ==
  IF Cardinality(hits) <= Take THEN {hits}
  ELSE {found \in SUBSET hits : Cardinality(found) = Take}

\* The rows of the other side are compared as they are now, that of x as it was read: what
\* was apart in between may match the copy or not.
RunQuery(x) ==
  /\ job[x].state = "read"
  /\ \E missed \in SUBSET job[x].doubtful : \E found \in Answers(HitsOf(x) \ missed) :
       /\ job' = [job EXCEPT ![x].state = "running", ![x].doubtful = {}, ![x].hits = found]
       /\ leftOut' = leftOut \cup ((HitsOf(x) \ missed) \ found)
  /\ UNCHANGED <<shipment, offer, apart, publishing, toEnqueue, suggested, upsets, cameBack>>

\* An upsert by (shipment, trip)
StoreSuggestion(x) ==
  /\ job[x].state = "running"
  /\ \E pair \in job[x].hits :
       /\ suggested' = suggested \cup {pair}
       /\ job' = [job EXCEPT ![x].hits = @ \ {pair}]
  /\ UNCHANGED <<shipment, offer, apart, publishing, toEnqueue, upsets, cameBack, leftOut>>

CompleteJob(x) ==
  /\ job[x].state = "running" /\ job[x].hits = {}
  /\ job' = [job EXCEPT ![x].state = "completed"]
  /\ UNCHANGED <<shipment, offer, apart, publishing, toEnqueue, suggested, upsets, cameBack,
                 leftOut>>

Retried(x) == job[x].attempt < MaxJobAttempts

\* A call of the job throws, or its worker stops: it is run again from the start.
JobFails(x) ==
  /\ job[x].state \in {"read", "running"}
  /\ job' = [job EXCEPT ![x].state = IF Retried(x) THEN "waiting" ELSE "failed",
                        ![x].doubtful = {}, ![x].hits = {}]
  /\ Upset
  /\ UNCHANGED <<shipment, offer, apart, publishing, toEnqueue, suggested, cameBack, leftOut>>

\* autoMatch, on request of an administrator: the best of the trips found for each
\* pending shipment, if there is still room
AutoMatch(s, t) ==
  /\ shipment[s] = "PENDING" /\ offer[t] = "ACTIVE" /\ <<s, t>> \in TripHits \ apart
  /\ suggested' = suggested \cup {<<s, t>>}
  /\ UNCHANGED <<shipment, offer, apart, publishing, toEnqueue, job, upsets, cameBack, leftOut>>

MatchNext ==
  \/ \E s \in Shipments : CreateShipment(s) \/ Assign(s) \/ Reject(s)
  \/ \E t \in Trips : SeeDraft(t) \/ PublishTrip(t) \/ CancelOffer(t)
  \/ \E x \in Subjects : \/ Enqueue(x) \/ EnqueueFails(x) \/ ReadSubject(x) \/ RunQuery(x)
                         \/ StoreSuggestion(x) \/ CompleteJob(x) \/ JobFails(x)
  \/ \E s \in Shipments, t \in Trips : PutApart(s, t) \/ BringTogether(s, t) \/ AutoMatch(s, t)

MatchSpec == MatchInit /\ [][MatchNext]_matchVars

----------------------------------------------------------------------------
(* Properties *)

\* A pending shipment and an active trip that both queries match are suggested once both
\* jobs ran, whichever row was written first and however the jobs interleave with each
\* other and with requests that change the rows.  A pair is missed only when a query found
\* more than it takes, or when the pair came to match after both jobs had queried, or had
\* read the row that they query for as it was before: a rejected shipment, a cancelled trip
\* that a late publish revives, room that is given back or an edit, for which nothing is
\* enqueued.
NoPairMissed ==
  \A s \in Shipments, t \in Trips :
    /\ <<s, t>> \in (TripHits \cap ShipmentHits) \ (apart \cup cameBack \cup leftOut)
    /\ shipment[s] = "PENDING" /\ offer[t] = "ACTIVE"
    /\ job[s].state = "completed" /\ job[t].state = "completed"
    => <<s, t>> \in suggested
=============================================================================
