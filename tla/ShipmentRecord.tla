--------------------------- MODULE ShipmentRecord ---------------------------
(***************************************************************************)
(* One shipment row under concurrent requests.  Every operation reads the  *)
(* row, decides, and writes it later without looking again: its status,    *)
(* the tracking history (pushed to, except by updateStatus, which writes   *)
(* back the history it read with one more entry), the weight and the two   *)
(* prices.  A trip's free capacity is adjusted by a write of its own.  The *)
(* resolution of a dispute that finance did not answer is written by the   *)
(* outbox, which reads no status and may write it again.                   *)
(***************************************************************************)
EXTENDS Integers, SequencesExt

CONSTANTS
  Writers,          \* the requests
  Weights,          \* weights in use; the price floor of a weight is the weight
  MaxNewEntries,    \* bound on the entries that the tracking history gains
  MaxHalfDone       \* bound on halfDone

ASSUME RecordAssumption ==
  Weights \subseteq Nat \ {0} /\ MaxNewEntries \in Nat /\ MaxHalfDone \in Nat

VARIABLES
  row,              \* the row of the shipment
  first,            \* length of the history at the start
  held,             \* weight that trips have set aside for it, in sum
  req,              \* req[q]: the request that q serves, and what it read
  outrun,           \* requests during which another one wrote the row
  crossed,          \* an outrun request has written
  reweighed,        \* the weight was changed while a trip held it
  queuedStatus,     \* statuses that the rows of the outbox write, each as often as it runs
  overrode,         \* one was written to a row that did not wait for it, or no more
  halfDone          \* how many requests failed between the trip's weight and the row

recordVars == <<row, first, held, req, outrun, crossed, reweighed, queuedStatus, overrode,
                halfDone>>

None == 0
Path(s) ==  \* what may follow s in the history
  CASE s = "PENDING" -> {"MATCHED", "CANCELLED"}
    [] s = "MATCHED" -> {"PENDING", "ACCEPTED", "CANCELLED"}
    [] s = "ACCEPTED" -> {"PAID", "CANCELLED"}
    [] s = "PAID" -> {"PICKED_UP", "DISPUTED"}
    [] s = "PICKED_UP" -> {"IN_TRANSIT", "DISPUTED"}
    [] s = "IN_TRANSIT" -> {"DELIVERED", "DISPUTED"}
    [] s = "DELIVERED" -> {"CONFIRMED", "DISPUTED"}
    [] s = "DISPUTED" -> {"CONFIRMED", "REFUNDED", "PARTIALLY_REFUNDED"}
    [] s = "PARTIALLY_REFUNDED" -> {"CONFIRMED"}
    [] OTHER -> {}
Status == {"PENDING", "MATCHED", "ACCEPTED", "PAID", "PICKED_UP", "IN_TRANSIT", "DELIVERED",
           "CONFIRMED", "DISPUTED", "PARTIALLY_REFUNDED", "CANCELLED", "REFUNDED"}
Resolutions == {"CONFIRMED", "REFUNDED", "PARTIALLY_REFUNDED"}
Kinds == {"update", "assign", "accept", "reject", "cancel", "pay", "progress", "dispute",
          "resolve", "autoRelease"}
Prices == Weights \cup {None}
NoWrite == [at |-> "idle", kind |-> "none", to |-> "none", value |-> None, weight |-> None,
         price |-> None, history |-> <<>>]

RecordTypeOK ==
  /\ row.status \in Status /\ row.weight \in Weights /\ row.systemPrice \in Weights
  /\ row.agreedPrice \in Prices
  /\ row.history \in Seq(Status) /\ Len(row.history) \in 1..(first + MaxNewEntries)
  /\ Last(row.history) = row.status
  /\ held \in Int
  /\ \A q \in Writers :
       /\ req[q].at \in {"idle", "checked", "read", "written"}
       /\ req[q].kind \in Kinds \cup {"none"} /\ req[q].to \in Status \cup {"none"}
       /\ {req[q].value, req[q].weight, req[q].price} \subseteq Prices
  /\ outrun \subseteq Writers /\ queuedStatus \subseteq Resolutions
  /\ {crossed, reweighed, overrode} \subseteq BOOLEAN /\ halfDone \in 0..MaxHalfDone

\* A new shipment, one that is paid, and one under way
Starts == {<<"PENDING">>, <<"PENDING", "MATCHED", "ACCEPTED", "PAID">>,
           <<"PENDING", "MATCHED", "ACCEPTED", "PAID", "PICKED_UP", "IN_TRANSIT">>}

RecordInit ==
  /\ \E w \in Weights, h \in Starts :
       /\ row = [status |-> Last(h), history |-> h, weight |-> w, systemPrice |-> w,
                 agreedPrice |-> IF Len(h) > 1 THEN w ELSE None]
       /\ first = Len(h)
       /\ held = IF Len(h) > 1 THEN w ELSE 0
  /\ req = [q \in Writers |-> NoWrite]
  /\ outrun = {} /\ queuedStatus = {}
  /\ crossed = FALSE /\ reweighed = FALSE /\ overrode = FALSE /\ halfDone = 0

----------------------------------------------------------------------------
(* What each operation asks of the row that it reads                        *)

Updatable == row.status \in {"PENDING", "MATCHED"}

Cancellable == row.status \in {"PENDING", "MATCHED", "ACCEPTED"}

Disputable == row.status \in {"PAID", "PICKED_UP", "IN_TRANSIT", "DELIVERED"}
Progress == {<<"PAID", "PICKED_UP">>, <<"PICKED_UP", "IN_TRANSIT">>,
             <<"IN_TRANSIT", "DELIVERED">>, <<"DELIVERED", "CONFIRMED">>}
\* What an administrator may make of a dispute: a release also after a partial refund
Resolvable(s) ==
  row.status = "DISPUTED" \/ (row.status = "PARTIALLY_REFUNDED" /\ s = "CONFIRMED")

\* An accepted price is the system price, or one that is not below the floor.
AcceptedPrices == {row.systemPrice} \cup {w \in Weights : w >= row.systemPrice /\ w >= row.weight}

\* <<kind, status written, value>> of the requests that the row admits now
Admitted ==
  {<<"update", "none", w>> : w \in IF Updatable THEN Prices ELSE {}}
    \cup {<<"assign", "MATCHED", None>> : x \in {row.status} \cap {"PENDING"}}
    \cup {<<"accept", "ACCEPTED", p>> : p \in IF row.status = "MATCHED" THEN AcceptedPrices ELSE {}}
    \cup {<<"reject", "PENDING", row.weight>> : x \in {row.status} \cap {"MATCHED"}}
    \cup {<<"cancel", "CANCELLED", IF row.status = "PENDING" THEN None ELSE row.weight>> :
            x \in {TRUE} \cap {Cancellable}}
    \cup {<<"pay", "PAID", None>> : x \in {row.status} \cap {"ACCEPTED"}}
    \cup {<<"progress", p[2], None>> : p \in {p \in Progress : p[1] = row.status}}
    \cup {<<"dispute", "DISPUTED", None>> : x \in {TRUE} \cap {Disputable}}
    \cup {<<"resolve", s, None>> : s \in {s \in Resolutions : Resolvable(s)}}
    \cup {<<"autoRelease", "CONFIRMED", None>> : x \in {row.status} \cap {"DELIVERED"}}

EndRequest(q) == req' = [req EXCEPT ![q] = NoWrite] /\ outrun' = outrun \ {q}

Check(q) ==
  /\ req[q].at = "idle" /\ Len(row.history) < first + MaxNewEntries
  /\ \E a \in Admitted :
       req' = [req EXCEPT ![q] = [NoWrite EXCEPT !.at = "checked", !.kind = a[1], !.to = a[2],
                 !.value = a[3], !.weight = row.weight, !.price = row.systemPrice]]
  /\ UNCHANGED <<row, first, held, outrun, crossed, reweighed, queuedStatus, overrode, halfDone>>

\* reject and cancel give the weight that they read back to the trip first, if there
\* is one; updateStatus reads the row again for its history.
Prepare(q) ==
  /\ req[q].at = "checked" /\ req[q].kind \in {"reject", "cancel", "progress"}
  /\ held' = held - req[q].value
  /\ req' = [req EXCEPT ![q].at = "read",
                        ![q].history = IF req[q].kind = "progress" THEN row.history ELSE <<>>]
  /\ UNCHANGED <<row, first, outrun, crossed, reweighed, queuedStatus, overrode, halfDone>>

----------------------------------------------------------------------------
(* The writes                                                               *)

\* Mutant of HistoryAfter.
HistoryAfterRestarted(q) ==
  CASE req[q].kind = "progress" -> Append(req[q].history, req[q].to)
    [] req[q].kind = "assign" -> <<"PENDING", "MATCHED">>
    [] OTHER -> Append(row.history, req[q].to)
HistoryAfter(q) ==
  IF req[q].kind = "progress" THEN Append(req[q].history, req[q].to)
  ELSE Append(row.history, req[q].to)

\* The price is written back as it was read when the weight is not updated.
PricedRow(q) ==
  IF req[q].value = None THEN [row EXCEPT !.systemPrice = req[q].price]
  ELSE [row EXCEPT !.weight = req[q].value, !.systemPrice = req[q].value]

RowAfter(q) ==
  IF req[q].kind = "update" THEN PricedRow(q)
  ELSE [row EXCEPT !.status = req[q].to, !.history = HistoryAfter(q),
                   !.agreedPrice = IF req[q].kind = "accept" THEN req[q].value ELSE @]

Write(q) ==
  /\ \/ req[q].at = "read"
     \/ req[q].at = "checked" /\ req[q].kind \notin {"reject", "cancel", "progress"}
  /\ Len(row.history) < first + MaxNewEntries
  /\ row' = RowAfter(q)
  /\ req' = [req EXCEPT ![q] = IF @.kind = "assign" THEN [@ EXCEPT !.at = "written"] ELSE NoWrite]
  /\ crossed' = (crossed \/ q \in outrun)
  /\ outrun' = (outrun \ {q}) \cup {r \in Writers \ {q} : req[r].at # "idle"}
  /\ reweighed' = (reweighed \/ (req[q].kind = "update" /\ row'.weight # row.weight
                                   /\ row.status # "PENDING"))
  /\ UNCHANGED <<first, held, queuedStatus, overrode, halfDone>>

TakenFor(q) == req[q].weight

\* assign takes the weight that it read from the trip.
TakeWeight(q) ==
  /\ req[q].at = "written"
  /\ held' = held + TakenFor(q)
  /\ EndRequest(q)
  /\ UNCHANGED <<row, first, crossed, reweighed, queuedStatus, overrode, halfDone>>

\* Half of what q does is done: reject and cancel have given the weight back to the trip,
\* assign has written the row and not taken the weight yet.
Halfway(q) == req[q].at = "written" \/ (req[q].at = "read" /\ req[q].value # None)

\* A call throws or the process stops: what was written before stays.
FailRequest(q) ==
  /\ req[q].at # "idle"
  /\ IF Halfway(q) THEN halfDone < MaxHalfDone /\ halfDone' = halfDone + 1 ELSE UNCHANGED halfDone
  /\ EndRequest(q)
  /\ UNCHANGED <<row, first, held, crossed, reweighed, queuedStatus, overrode>>

----------------------------------------------------------------------------
(* A resolution by way of the outbox                                        *)

\* Finance does not answer: the request leaves the resolution to a row of the outbox.
QueueResolution(q) ==
  /\ req[q].at = "checked" /\ req[q].kind = "resolve"
  /\ queuedStatus' = queuedStatus \cup {req[q].to}
  /\ EndRequest(q)
  /\ UNCHANGED <<row, first, held, crossed, reweighed, overrode, halfDone>>

\* Whatever the status is by now, and again on a retry or a replay
BridgeResolution(s) ==
  /\ s \in queuedStatus /\ Len(row.history) < first + MaxNewEntries
  /\ row' = [row EXCEPT !.status = s, !.history = Append(@, s)]
  /\ overrode' = (overrode \/ ~Resolvable(s))
  /\ outrun' = {q \in Writers : req[q].at # "idle"}
  /\ UNCHANGED <<first, held, req, crossed, reweighed, queuedStatus, halfDone>>

RecordNext ==
  \/ \E q \in Writers : \/ Check(q) \/ Prepare(q) \/ Write(q) \/ TakeWeight(q)
                        \/ FailRequest(q) \/ QueueResolution(q)
  \/ \E s \in Resolutions : BridgeResolution(s)

RecordSpec == RecordInit /\ [][RecordNext]_recordVars

----------------------------------------------------------------------------
(* Properties *)

\* The history shown to the public is a path of the state machine.  It takes two
\* requests of which one wrote between the other's read and write to break it, or the
\* outbox, which writes a resolution to a row that was resolved otherwise or before.
HistoryIsPath ==
  ~crossed /\ ~overrode =>
    \A i \in 1..(Len(row.history) - 1) : row.history[i + 1] \in Path(row.history[i])

\* An entry is dropped from the history only by updateStatus, and only when
\* something was written after its read.
EntryLostOnlyByStatusUpdate ==
  [][\/ IsPrefix(row.history, row'.history)
     \/ \E q \in outrun : req[q].kind = "progress" /\ row' = RowAfter(q)]_recordVars

\* The system price belongs to the weight and the agreed price is not below it,
\* unless requests crossed: an update that comes between the check and the write of
\* an acceptance raises the floor unseen.
AgreedPriceCoversWeight ==
  ~crossed => /\ row.systemPrice = row.weight
              /\ row.status \notin {"PENDING", "MATCHED", "CANCELLED"}
                   => row.agreedPrice >= row.systemPrice

\* The trips set aside exactly the weight of a shipment that they carry and none for
\* one that they do not, unless requests crossed, the weight was updated while a trip
\* held it (nothing adjusts the trip then), or a request failed between the two writes.
HeldWeightMatches ==
  ~crossed /\ ~reweighed /\ halfDone = 0 /\ (\A q \in Writers : req[q].at = "idle")
    => held = IF row.status \in {"PENDING", "CANCELLED"} THEN 0 ELSE row.weight

\* What hangs on status and weight follows them in the row that stale writes share:
\* the history, from which only one kind of stale write drops an entry, the prices and
\* the room on the trips.
RecordFollowed ==
  /\ [](HistoryIsPath /\ AgreedPriceCoversWeight /\ HeldWeightMatches)
  /\ EntryLostOnlyByStatusUpdate
=============================================================================
