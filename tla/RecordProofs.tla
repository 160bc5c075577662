---------------------------- MODULE RecordProofs -----------------------------
(***************************************************************************)
(* Theorems about the row of a shipment: its history and the weight that   *)
(* it takes from a trip, the price that it is stored with, the chat of its *)
(* parties and the notices they get, for any number of requests, edits of  *)
(* rules, messages and tellers.                                            *)
(* The components share no state; each part has the invariant of its       *)
(* component, that it holds initially, that every step keeps it, and the   *)
(* theorems that follow.                                                   *)
(***************************************************************************)
EXTENDS ShipmentRecord, PriceRules, ChatMessages, Notices, Sums, SequenceTheorems,
        FiniteSetTheorems, TLAPS

(***************************************************************************)
(* The row of a shipment                                                   *)
(***************************************************************************)

Rows == [status: Status, weight: Weights, systemPrice: Weights, agreedPrice: Prices,
         history: Seq(Status)]

Reqs == [at: {"idle", "checked", "read", "written"}, kind: Kinds \cup {"none"},
         to: Status \cup {"none"}, value: Prices, weight: Prices, price: Prices,
         history: Seq(Status)]

Longest == first + MaxNewEntries

\* What a request holds when it is under way.  A history of full length was read from a
\* row of full length, which is not written any more.
ReqSound(q) ==
  req[q].at # "idle" =>
    /\ req[q].kind \in Kinds /\ req[q].weight \in Weights /\ req[q].price \in Weights
    /\ req[q].kind # "update" => req[q].to \in Status
    /\ req[q].kind = "resolve" => req[q].to \in Resolutions
    /\ req[q].at = "read" => req[q].kind \in {"reject", "cancel", "progress"}
    /\ req[q].at = "written" => req[q].kind = "assign"
    /\ Len(req[q].history) <= Longest
    /\ Len(req[q].history) = Longest => Len(row.history) = Longest

\* The triples of Admitted, one by one.
MayAsk(kind, to, value) ==
  \/ kind = "update" /\ to = "none" /\ value \in Prices /\ row.status \in {"PENDING", "MATCHED"}
  \/ kind = "assign" /\ to = "MATCHED" /\ value = None /\ row.status = "PENDING"
  \/ /\ kind = "accept" /\ to = "ACCEPTED" /\ row.status = "MATCHED"
     /\ value \in Weights /\ value >= row.systemPrice
  \/ kind = "reject" /\ to = "PENDING" /\ value = row.weight /\ row.status = "MATCHED"
  \/ kind = "cancel" /\ to = "CANCELLED" /\ value = None /\ row.status = "PENDING"
  \/ /\ kind = "cancel" /\ to = "CANCELLED" /\ value = row.weight
     /\ row.status \in {"MATCHED", "ACCEPTED"}
  \/ kind = "pay" /\ to = "PAID" /\ value = None /\ row.status = "ACCEPTED"
  \/ kind = "progress" /\ value = None /\ row.status = "PAID" /\ to = "PICKED_UP"
  \/ kind = "progress" /\ value = None /\ row.status = "PICKED_UP" /\ to = "IN_TRANSIT"
  \/ kind = "progress" /\ value = None /\ row.status = "IN_TRANSIT" /\ to = "DELIVERED"
  \/ kind = "progress" /\ value = None /\ row.status = "DELIVERED" /\ to = "CONFIRMED"
  \/ /\ kind = "dispute" /\ to = "DISPUTED" /\ value = None
     /\ row.status \in {"PAID", "PICKED_UP", "IN_TRANSIT", "DELIVERED"}
  \/ kind = "resolve" /\ to \in Resolutions /\ value = None /\ row.status = "DISPUTED"
  \/ kind = "resolve" /\ to = "CONFIRMED" /\ value = None /\ row.status = "PARTIALLY_REFUNDED"
  \/ kind = "autoRelease" /\ to = "CONFIRMED" /\ value = None /\ row.status = "DELIVERED"

Open == {q \in Writers : req[q].at \in {"checked", "read"}}

\* Nobody wrote the row since the request read it: it may still ask what it asks.
Fresh(q) ==
  q \in Open \ outrun =>
    /\ MayAsk(req[q].kind, req[q].to, req[q].value)
    /\ req[q].weight = row.weight /\ req[q].price = row.systemPrice
    /\ req[q].at = "read" /\ req[q].kind = "progress" => req[q].history = row.history

\* What q still has to take from a trip, or has given back for a row not written yet.
Owed(q) == IF req[q].at = "read" THEN req[q].value
           ELSE IF req[q].at = "written" THEN req[q].weight ELSE 0
Unsettled == {q \in Writers : req[q].at \in {"read", "written"}}
Owes == [q \in Writers |-> Owed(q)]

Carried == IF row.status \in {"PENDING", "CANCELLED"} THEN 0 ELSE row.weight

\* The trips hold what is carried, less what the requests under way owe.
Excused == crossed \/ reweighed \/ halfDone # 0
HeldSound == Excused \/ \E t \in Int : IsSum(Owes, Unsettled, t) /\ held = Carried - t

\* A dispute that someone resolves, or that the outbox may resolve, was opened.
Settling == row.status \in {"DISPUTED"} \cup Resolutions
DisputeSound ==
  ~crossed => /\ queuedStatus # {} => Settling
              /\ \A q \in Writers : req[q].at # "idle" /\ req[q].kind = "resolve" => Settling

RecordTyped ==
  /\ row \in Rows /\ Len(row.history) \in 1..Longest /\ Last(row.history) = row.status
  /\ first \in Nat /\ held \in Int
  /\ req \in [Writers -> Reqs]
  /\ outrun \subseteq Writers /\ crossed \in BOOLEAN /\ reweighed \in BOOLEAN
  /\ queuedStatus \subseteq Resolutions /\ overrode \in BOOLEAN /\ halfDone \in 0..MaxHalfDone

RecordInv ==
  /\ RecordTyped
  /\ \A q \in outrun : req[q].at # "idle"
  /\ \A q \in Writers : ReqSound(q) /\ Fresh(q)
  /\ HistoryIsPath /\ AgreedPriceCoversWeight
  /\ HeldSound /\ DisputeSound

LEMMA Admission ==
  ASSUME NEW a \in Admitted, row.systemPrice \in Weights PROVE MayAsk(a[1], a[2], a[3])
<1>1. CASE a \in {<<"update", "none", w>> : w \in IF Updatable THEN Prices ELSE {}}
  BY <1>1 DEF MayAsk, Updatable
<1>2. CASE a \in {<<"assign", "MATCHED", None>> : x \in {row.status} \cap {"PENDING"}}
  BY <1>2 DEF MayAsk
<1>3. CASE a \in {<<"accept", "ACCEPTED", p>> :
                    p \in IF row.status = "MATCHED" THEN AcceptedPrices ELSE {}}
  <2>1. \A p \in AcceptedPrices : p \in Weights /\ p >= row.systemPrice
    <3>1. \A n \in Weights : n \in Nat /\ n >= n
      BY RecordAssumption
    <3>2. QED
      BY <3>1 DEF AcceptedPrices
  <2>2. QED
    BY <1>3, <2>1 DEF MayAsk
<1>4. CASE a \in {<<"reject", "PENDING", row.weight>> : x \in {row.status} \cap {"MATCHED"}}
  BY <1>4 DEF MayAsk
<1>5. CASE a \in {<<"cancel", "CANCELLED", IF row.status = "PENDING" THEN None ELSE row.weight>> :
                    x \in {TRUE} \cap {Cancellable}}
  <2>1. Cancellable
    BY <1>5
  <2>2. QED
    BY <1>5, <2>1 DEF MayAsk, Cancellable
<1>6. CASE a \in {<<"pay", "PAID", None>> : x \in {row.status} \cap {"ACCEPTED"}}
  BY <1>6 DEF MayAsk
<1>7. CASE a \in {<<"progress", p[2], None>> : p \in {p \in Progress : p[1] = row.status}}
  <2>1. PICK p \in Progress : p[1] = row.status /\ a = <<"progress", p[2], None>>
    BY <1>7
  <2>2. QED
    BY <2>1 DEF MayAsk, Progress
<1>8. CASE a \in {<<"dispute", "DISPUTED", None>> : x \in {TRUE} \cap {Disputable}}
  <2>1. Disputable
    BY <1>8
  <2>2. QED
    BY <1>8, <2>1 DEF MayAsk, Disputable
<1>9. CASE a \in {<<"resolve", s, None>> : s \in {s \in Resolutions : Resolvable(s)}}
  <2>1. PICK s \in Resolutions : Resolvable(s) /\ a = <<"resolve", s, None>>
    BY <1>9
  <2>2. QED
    BY <2>1 DEF MayAsk, Resolvable
<1>10. CASE a \in {<<"autoRelease", "CONFIRMED", None>> : x \in {row.status} \cap {"DELIVERED"}}
  BY <1>10 DEF MayAsk
<1>11. QED
  BY <1>1, <1>2, <1>3, <1>4, <1>5, <1>6, <1>7, <1>8, <1>9, <1>10 DEF Admitted

\* What a request that nobody outran may do is a step of the state machine.
LEMMA AskFollows ==
  ASSUME NEW kind, NEW to, NEW value, row.weight \in Weights, MayAsk(kind, to, value)
  PROVE  /\ kind \in Kinds /\ value \in Prices
         /\ kind = "resolve" => to \in Resolutions
         /\ kind # "update" => to \in Status /\ to \in Path(row.status)
         /\ kind = "update" => to = "none"
BY DEF MayAsk, Kinds, Prices, Status, Path, Resolutions

LEMMA NoWriteTyped ==
  /\ NoWrite \in Reqs /\ NoWrite.at = "idle" /\ NoWrite.weight = 0 /\ NoWrite.value = 0
  /\ NoWrite.history = <<>>
BY DEF NoWrite, Reqs, Prices, None

LEMMA HistoryGrows ==
  ASSUME NEW h \in Seq(Status), NEW x \in Status
  PROVE  /\ Append(h, x) \in Seq(Status) /\ Len(Append(h, x)) = Len(h) + 1
         /\ Last(Append(h, x)) = x /\ IsPrefix(h, Append(h, x)) /\ IsPrefix(h, h)
         /\ \A i \in 1..Len(h) : Append(h, x)[i] = h[i]
<1>1. /\ Append(h, x) \in Seq(Status) /\ Len(Append(h, x)) = Len(h) + 1 /\ Len(h) \in Nat
      /\ \A i \in 1..Len(h) : Append(h, x)[i] = h[i]
      /\ Append(h, x)[Len(h) + 1] = x
  OBVIOUS
<1>2. SubSeq(h, 1, Len(h)) = SubSeq(Append(h, x), 1, Len(h))
  BY <1>1
<1>3. QED
  BY <1>1, <1>2 DEF Last, IsPrefix

LEMMA RecordStarts == RecordInit => RecordInv
<1> SUFFICES ASSUME RecordInit PROVE RecordInv
  OBVIOUS
<1>1. PICK w \in Weights, h \in Starts :
        /\ row = [status |-> Last(h), history |-> h, weight |-> w, systemPrice |-> w,
                  agreedPrice |-> IF Len(h) > 1 THEN w ELSE None]
        /\ first = Len(h)
        /\ held = IF Len(h) > 1 THEN w ELSE 0
  BY DEF RecordInit
<1>2. /\ h \in Seq(Status) /\ Len(h) \in Nat \ {0} /\ Last(h) \in Status
      /\ Len(h) > 1 => Last(h) \in {"PAID", "IN_TRANSIT"}
      /\ ~(Len(h) > 1) => Last(h) = "PENDING"
      /\ \A i \in 1..(Len(h) - 1) : h[i + 1] \in Path(h[i])
  <2>1. CASE h = <<"PENDING">>
    BY <2>1 DEF Status, Last
  <2>2. CASE h = <<"PENDING", "MATCHED", "ACCEPTED", "PAID">>
    <3>1. h \in Seq(Status) /\ Len(h) = 4 /\ Last(h) = "PAID"
      BY <2>2 DEF Status, Last
    <3>2. h[2] \in Path(h[1]) /\ h[3] \in Path(h[2]) /\ h[4] \in Path(h[3])
      BY <2>2 DEF Path
    <3>3. \A i \in 1..3 : i = 1 \/ i = 2 \/ i = 3
      OBVIOUS
    <3>4. QED
      BY <3>1, <3>2, <3>3 DEF Status
  <2>3. CASE h = <<"PENDING", "MATCHED", "ACCEPTED", "PAID", "PICKED_UP", "IN_TRANSIT">>
    <3>1. h \in Seq(Status) /\ Len(h) = 6 /\ Last(h) = "IN_TRANSIT"
      BY <2>3 DEF Status, Last
    <3>2. /\ h[2] \in Path(h[1]) /\ h[3] \in Path(h[2]) /\ h[4] \in Path(h[3])
          /\ h[5] \in Path(h[4]) /\ h[6] \in Path(h[5])
      BY <2>3 DEF Path
    <3>3. \A i \in 1..5 : i = 1 \/ i = 2 \/ i = 3 \/ i = 4 \/ i = 5
      OBVIOUS
    <3>4. QED
      BY <3>1, <3>2, <3>3 DEF Status
  <2>4. QED
    BY <2>1, <2>2, <2>3 DEF Starts
<1>3. /\ row \in Rows /\ row.status = Last(row.history) /\ row.history = h
      /\ row.weight = w /\ row.systemPrice = w
      /\ row.agreedPrice = IF Len(h) > 1 THEN w ELSE None
  BY <1>1, <1>2 DEF Rows, Prices
<1>4. /\ crossed = FALSE /\ reweighed = FALSE /\ overrode = FALSE /\ halfDone = 0
      /\ outrun = {} /\ queuedStatus = {} /\ req = [q \in Writers |-> NoWrite]
  BY DEF RecordInit
<1>5. crossed \in BOOLEAN /\ reweighed \in BOOLEAN /\ overrode \in BOOLEAN
  BY <1>4, Zenon
<1>6. w \in Nat \ {0} /\ MaxNewEntries \in Nat /\ MaxHalfDone \in Nat
  BY RecordAssumption
<1>7. RecordTyped
  BY <1>1, <1>2, <1>3, <1>4, <1>5, <1>6, NoWriteTyped DEF RecordTyped, Longest
<1>8. \A q \in Writers : req[q].at = "idle"
  BY <1>4, NoWriteTyped
<1>9. \A q \in Writers : ReqSound(q) /\ Fresh(q)
  BY <1>8 DEF ReqSound, Fresh, Open
<1>10. HistoryIsPath
  BY <1>2, <1>3 DEF HistoryIsPath
<1>11. AgreedPriceCoversWeight
  BY <1>2, <1>3, <1>6 DEF AgreedPriceCoversWeight
<1>12. HeldSound
  <2>1. Unsettled = {}
    BY <1>8 DEF Unsettled
  <2>2. IsSum(Owes, Unsettled, 0)
    BY <2>1, SumOfNothing
  <2>3. held = Carried - 0
    BY <1>1, <1>2, <1>3, <1>6 DEF Carried
  <2>4. QED
    BY <2>2, <2>3 DEF HeldSound
<1>13. DisputeSound
  BY <1>4, <1>8 DEF DisputeSound
<1>14. QED
  BY <1>4, <1>7, <1>9, <1>10, <1>11, <1>12, <1>13 DEF RecordInv

LEMMA PricesAreNumbers ==
  /\ \A w \in Prices : w \in Nat /\ w \in Int
  /\ \A w \in Weights : w \in Prices /\ w \in Nat /\ w \in Int /\ w # None
BY RecordAssumption DEF Prices, None

LEMMA ReqTyped ==
  ASSUME RecordTyped
  PROVE  /\ \A q \in Writers : req[q].value \in Int /\ req[q].weight \in Int
         /\ Carried \in Int /\ row.weight \in Int /\ held \in Int
<1>1. \A q \in Writers : req[q].value \in Prices /\ req[q].weight \in Prices
  BY DEF RecordTyped, Reqs
<1>2. row.weight \in Weights /\ held \in Int
  BY DEF RecordTyped, Rows
<1>3. QED
  BY <1>1, <1>2, PricesAreNumbers DEF Carried

\* A request moves.
LEMMA ReqMoves ==
  ASSUME RecordTyped, NEW q \in Writers, NEW k \in Reqs, req' = [req EXCEPT ![q] = k]
  PROVE  /\ req' \in [Writers -> Reqs] /\ req'[q] = k
         /\ \A r \in Writers \ {q} : req'[r] = req[r]
         /\ Open' = IF k.at \in {"checked", "read"} THEN Open \cup {q} ELSE Open \ {q}
<1>1. /\ req' \in [Writers -> Reqs] /\ req'[q] = k
      /\ \A r \in Writers \ {q} : req'[r] = req[r]
  BY DEF RecordTyped
<1>2. Open' = IF k.at \in {"checked", "read"} THEN Open \cup {q} ELSE Open \ {q}
  BY <1>1 DEF Open
<1>3. QED
  BY <1>1, <1>2

\* A request that does not move, while the row does not change.
LEMMA OthersKept ==
  ASSUME NEW r \in Writers, req'[r] = req[r], UNCHANGED <<row, first>>,
         r \in outrun => r \in outrun', ReqSound(r), Fresh(r)
  PROVE  ReqSound(r)' /\ Fresh(r)'
<1>1. ReqSound(r)'
  BY DEF ReqSound, Longest
<1>2. Fresh(r)'
  BY DEF Fresh, Open, MayAsk
<1>3. QED
  BY <1>1, <1>2

LEMMA RowKept ==
  ASSUME UNCHANGED <<row, crossed, overrode>>, HistoryIsPath, AgreedPriceCoversWeight
  PROVE  HistoryIsPath' /\ AgreedPriceCoversWeight'
BY DEF HistoryIsPath, AgreedPriceCoversWeight

\* When a request moves, what is owed changes by what it owes.
LEMMA OwedMoves ==
  ASSUME RecordTyped, NEW q \in Writers, NEW k \in Reqs, req' = [req EXCEPT ![q] = k],
         NEW t \in Int, IsSum(Owes, Unsettled, t)
  PROVE  /\ Owed(q) \in Int /\ Owed(q)' \in Int
         /\ IsSum(Owes', Unsettled', t - Owed(q) + Owed(q)')
<1>1. /\ req' \in [Writers -> Reqs] /\ req'[q] = k
      /\ \A r \in Writers \ {q} : req'[r] = req[r]
  BY ReqMoves
<1>2. \A r \in Writers : Owed(r) \in Int /\ Owes[r] = Owed(r) /\ Owes'[r] = Owed(r)'
  BY ReqTyped DEF Owed, Owes
<1>3. Owed(q)' \in Int
  <2>1. k.value \in Int /\ k.weight \in Int
    BY PricesAreNumbers DEF Reqs
  <2>2. QED
    BY <1>1, <2>1 DEF Owed
<1> DEFINE T == Unsettled \ {q}
           u == t - Owed(q)
<1>4. u \in Int
  BY <1>2
<1>5. IsSum(Owes, T, u)
  <2>1. CASE q \in Unsettled
    <3>1. \A r \in Unsettled : Owes[r] \in Int
      BY <1>2 DEF Unsettled
    <3>2. IsSum(Owes, Unsettled \ {q}, t - Owes[q])
      BY <2>1, <3>1, SumWithout
    <3>3. QED
      BY <1>2, <3>2
  <2>2. CASE q \notin Unsettled
    <3>1. Owed(q) = 0 /\ T = Unsettled
      BY <2>2 DEF Unsettled, Owed
    <3>2. QED
      BY <3>1
  <2>3. QED
    BY <2>1, <2>2
<1>6. \A r \in T : Owes[r] = Owes'[r]
  BY <1>1, <1>2 DEF Unsettled, Owed
<1>7. IsSum(Owes', T, u)
  BY <1>5, <1>6, SameSum
<1>8. IsSum(Owes', Unsettled', u + Owed(q)')
  <2>1. CASE k.at \in {"read", "written"}
    <3>1. Unsettled' = T \cup {q} /\ q \notin T
      BY <1>1, <2>1 DEF Unsettled
    <3>2. Owes'[q] \in Int
      BY <1>2, <1>3
    <3> HIDE DEF T, u
    <3>3. IsSum(Owes', T \cup {q}, u + Owes'[q])
      BY <1>4, <1>7, <3>1, <3>2, SumWith
    <3>4. QED
      BY <1>2, <3>1, <3>3
  <2>2. CASE k.at \notin {"read", "written"}
    <3>1. Unsettled' = T /\ Owed(q)' = 0
      BY <1>1, <2>2 DEF Unsettled, Owed
    <3> HIDE DEF T
    <3>2. QED
      BY <1>4, <1>7, <3>1
  <2>3. QED
    BY <2>1, <2>2
<1>9. QED
  BY <1>2, <1>3, <1>8

\* The balance holds on when what the trips hold, what is carried and what is owed move
\* together.
LEMMA HeldMoves ==
  ASSUME RecordTyped, HeldSound, NEW q \in Writers, NEW k \in Reqs, req' = [req EXCEPT ![q] = k],
         Excused => Excused', Carried' \in Int,
         ~Excused' => held' = held + Owed(q) - Owed(q)' + (Carried' - Carried)
  PROVE  HeldSound'
<1>1. CASE Excused'
  BY <1>1 DEF HeldSound
<1>2. CASE ~Excused'
  <2>1. PICK t \in Int : IsSum(Owes, Unsettled, t) /\ held = Carried - t
    BY <1>2 DEF HeldSound
  <2> DEFINE u == t - Owed(q) + Owed(q)'
  <2>2. Owed(q) \in Int /\ Owed(q)' \in Int /\ IsSum(Owes', Unsettled', u) /\ Carried \in Int
    BY <2>1, OwedMoves, ReqTyped
  <2>3. u \in Int
    BY <2>2
  <2>4. held' = Carried' - u
    BY <1>2, <2>1, <2>2
  <2> HIDE DEF u
  <2>5. QED
    BY <2>2, <2>3, <2>4 DEF HeldSound
<1>3. QED
  BY <1>1, <1>2

LEMMA CheckStep == ASSUME RecordInv, NEW q \in Writers, Check(q) PROVE RecordInv'
<1>0. /\ RecordTyped /\ row \in Rows /\ HeldSound /\ MaxNewEntries \in Nat
      /\ Weights \subseteq Nat \ {0}
  BY RecordAssumption DEF RecordInv, RecordTyped
<1>1. PICK a \in Admitted :
        req' = [req EXCEPT ![q] = [NoWrite EXCEPT !.at = "checked", !.kind = a[1], !.to = a[2],
                 !.value = a[3], !.weight = row.weight, !.price = row.systemPrice]]
  BY DEF Check
<1>2. /\ req[q].at = "idle" /\ UNCHANGED <<row, first, held, outrun, crossed, reweighed>>
      /\ UNCHANGED <<queuedStatus, overrode, halfDone>>
  BY DEF Check
<1> DEFINE k == [NoWrite EXCEPT !.at = "checked", !.kind = a[1], !.to = a[2],
                   !.value = a[3], !.weight = row.weight, !.price = row.systemPrice]
<1>3. MayAsk(a[1], a[2], a[3]) /\ row.weight \in Weights /\ row.systemPrice \in Weights
  BY <1>0, Admission DEF Rows
<1>4. /\ a[1] \in Kinds /\ a[3] \in Prices
      /\ a[1] # "update" => a[2] \in Status
      /\ a[1] = "resolve" => a[2] \in Resolutions
      /\ a[1] = "update" => a[2] = "none"
  BY <1>3, AskFollows
<1>5. /\ k.at = "checked" /\ k.kind = a[1] /\ k.to = a[2] /\ k.value = a[3]
      /\ k.weight = row.weight /\ k.price = row.systemPrice /\ k.history = <<>>
  BY DEF NoWrite
<1>6. k \in Reqs
  <2>1. a[1] \in Kinds \cup {"none"} /\ a[2] \in Status \cup {"none"} /\ <<>> \in Seq(Status)
    BY <1>4
  <2>2. row.weight \in Prices /\ row.systemPrice \in Prices
    BY <1>3, PricesAreNumbers
  <2>3. QED
    BY <1>4, <2>1, <2>2 DEF NoWrite, Reqs
<1>7. req' = [req EXCEPT ![q] = k]
  BY <1>1
<1> HIDE DEF k
<1>8. /\ req' \in [Writers -> Reqs] /\ req'[q] = k
      /\ \A r \in Writers \ {q} : req'[r] = req[r]
      /\ Open' = Open \cup {q}
  BY <1>0, <1>5, <1>6, <1>7, ReqMoves
<1>9. q \notin Open /\ q \notin outrun
  BY <1>2 DEF Open, RecordInv
<1>10. RecordTyped'
  BY <1>0, <1>2, <1>8 DEF RecordTyped, Longest
<1>11. \A r \in outrun' : req'[r].at # "idle"
  BY <1>0, <1>2, <1>8, <1>9 DEF RecordInv, RecordTyped
<1>12. ReqSound(q)'
  BY <1>0, <1>2, <1>3, <1>4, <1>5, <1>8 DEF ReqSound, Longest, RecordTyped
<1>13. Fresh(q)'
  <2>1. MayAsk(req[q].kind, req[q].to, req[q].value)'
    BY <1>2, <1>3, <1>5, <1>8 DEF MayAsk
  <2>2. req'[q].weight = row'.weight /\ req'[q].price = row'.systemPrice /\ req'[q].at = "checked"
    BY <1>2, <1>5, <1>8
  <2>3. QED
    BY <2>1, <2>2 DEF Fresh
<1>14. \A r \in Writers : ReqSound(r)' /\ Fresh(r)'
  BY <1>2, <1>8, <1>12, <1>13, OthersKept DEF RecordInv
<1>15. HistoryIsPath' /\ AgreedPriceCoversWeight'
  BY <1>2, RowKept DEF RecordInv
<1>16. HeldSound'
  <2>1. Owed(q) = 0 /\ Owed(q)' = 0 /\ Carried' = Carried /\ Carried \in Int /\ held \in Int
    BY <1>0, <1>2, <1>5, <1>8, ReqTyped DEF Owed, Carried
  <2>2. Excused' <=> Excused
    BY <1>2 DEF Excused
  <2>3. held' = held + Owed(q) - Owed(q)' + (Carried' - Carried)
    BY <1>2, <2>1
  <2>4. QED
    BY <1>0, <1>6, <1>7, <2>1, <2>2, <2>3, HeldMoves
<1>17. DisputeSound'
  <2>1. a[1] = "resolve" => Settling
    BY <1>3 DEF MayAsk, Settling, Resolutions
  <2>2. QED
    BY <1>2, <1>5, <1>8, <2>1 DEF RecordInv, DisputeSound, Settling
<1>18. QED
  BY <1>10, <1>11, <1>14, <1>15, <1>16, <1>17 DEF RecordInv

LEMMA PrepareStep == ASSUME RecordInv, NEW q \in Writers, Prepare(q) PROVE RecordInv'
<1>0. RecordTyped /\ row \in Rows /\ HeldSound /\ MaxNewEntries \in Nat /\ Weights \subseteq Nat \ {0}
      /\ ReqSound(q) /\ Fresh(q)
  BY RecordAssumption DEF RecordInv, RecordTyped
<1> DEFINE k == [req[q] EXCEPT !.at = "read",
                   !.history = IF req[q].kind = "progress" THEN row.history ELSE <<>>]
<1>1. /\ req[q].at = "checked" /\ req[q].kind \in {"reject", "cancel", "progress"}
      /\ held' = held - req[q].value /\ UNCHANGED <<row, first, outrun, crossed, reweighed>>
      /\ UNCHANGED <<queuedStatus, overrode, halfDone>>
  BY DEF Prepare
<1>2. req' = [req EXCEPT ![q] = k]
  BY <1>0 DEF Prepare, RecordTyped
<1>3. /\ k.at = "read" /\ k.kind = req[q].kind /\ k.to = req[q].to /\ k.value = req[q].value
      /\ k.weight = req[q].weight /\ k.price = req[q].price
      /\ k.history = IF req[q].kind = "progress" THEN row.history ELSE <<>>
      /\ k \in Reqs
  <2>1. row.history \in Seq(Status) /\ <<>> \in Seq(Status) /\ req[q] \in Reqs
    BY <1>0 DEF RecordTyped, Rows
  <2>2. QED
    BY <2>1 DEF Reqs
<1> HIDE DEF k
<1>4. /\ req' \in [Writers -> Reqs] /\ req'[q] = k
      /\ \A r \in Writers \ {q} : req'[r] = req[r]
      /\ Open' = Open \cup {q}
  BY <1>0, <1>2, <1>3, ReqMoves
<1>5. q \in Open /\ Open' = Open /\ req[q].value \in Int
  BY <1>0, <1>1, <1>4, ReqTyped DEF Open
<1>6. RecordTyped'
  BY <1>0, <1>1, <1>4, <1>5 DEF RecordTyped, Longest
<1>7. \A r \in outrun' : req'[r].at # "idle"
  BY <1>0, <1>1, <1>3, <1>4 DEF RecordInv, RecordTyped
<1>8. ReqSound(q)'
  BY <1>0, <1>1, <1>3, <1>4 DEF ReqSound, Longest, RecordTyped
<1>9. Fresh(q)'
  BY <1>0, <1>1, <1>3, <1>4, <1>5 DEF Fresh, MayAsk
<1>10. \A r \in Writers : ReqSound(r)' /\ Fresh(r)'
  BY <1>1, <1>4, <1>8, <1>9, OthersKept DEF RecordInv
<1>11. HistoryIsPath' /\ AgreedPriceCoversWeight'
  BY <1>1, RowKept DEF RecordInv
<1>12. HeldSound'
  <2>1. /\ Owed(q) = 0 /\ Owed(q)' = req[q].value /\ Carried' = Carried
        /\ Carried \in Int /\ held \in Int
    BY <1>0, <1>1, <1>3, <1>4, ReqTyped DEF Owed, Carried
  <2>2. Excused' <=> Excused
    BY <1>1 DEF Excused
  <2>3. held' = held + Owed(q) - Owed(q)' + (Carried' - Carried)
    BY <1>1, <1>5, <2>1
  <2>4. QED
    BY <1>0, <1>2, <1>3, <2>1, <2>2, <2>3, HeldMoves
<1>13. DisputeSound'
  BY <1>1, <1>3, <1>4 DEF RecordInv, DisputeSound, Settling
<1>14. QED
  BY <1>6, <1>7, <1>10, <1>11, <1>12, <1>13 DEF RecordInv

\* A request ends, and the row stays as it is.
LEMMA EndKeeps ==
  ASSUME RecordInv, NEW q \in Writers, EndRequest(q), UNCHANGED <<row, first, crossed, reweighed, overrode>>,
         held' \in Int, halfDone' \in 0..MaxHalfDone, halfDone' = 0 => halfDone = 0,
         queuedStatus' \subseteq Resolutions,
         queuedStatus' = queuedStatus \/ (req[q].at # "idle" /\ req[q].kind = "resolve"),
         ~Excused' => held' = held + Owed(q)
  PROVE  RecordInv'
<1>0. RecordTyped /\ HeldSound
  BY DEF RecordInv
<1>1. req' = [req EXCEPT ![q] = NoWrite] /\ outrun' = outrun \ {q}
  BY DEF EndRequest
<1>2. /\ req' \in [Writers -> Reqs] /\ req'[q] = NoWrite
      /\ \A r \in Writers \ {q} : req'[r] = req[r]
      /\ Open' = Open \ {q}
  BY <1>0, <1>1, NoWriteTyped, ReqMoves
<1>3. RecordTyped'
  BY <1>0, <1>1, <1>2 DEF RecordTyped, Longest
<1>4. \A r \in outrun' : req'[r].at # "idle"
  BY <1>0, <1>1, <1>2 DEF RecordInv, RecordTyped
<1>5. ReqSound(q)' /\ Fresh(q)'
  BY <1>2, NoWriteTyped DEF ReqSound, Fresh
<1>6. \A r \in Writers : ReqSound(r)' /\ Fresh(r)'
  BY <1>1, <1>2, <1>5, OthersKept DEF RecordInv
<1>7. HistoryIsPath' /\ AgreedPriceCoversWeight'
  BY RowKept DEF RecordInv
<1>8. HeldSound'
  <2>1. /\ Owed(q)' = 0 /\ Owed(q) \in Int /\ Carried' = Carried
        /\ Carried \in Int /\ held \in Int
    BY <1>0, <1>2, NoWriteTyped, ReqTyped DEF Owed, Carried
  <2>2. Excused => Excused'
    BY DEF Excused
  <2>3. ~Excused' => held' = held + Owed(q) - Owed(q)' + (Carried' - Carried)
    BY <2>1
  <2>4. QED
    BY <1>0, <1>1, <2>1, <2>2, <2>3, NoWriteTyped, HeldMoves
<1>9. DisputeSound'
  <2>1. NoWrite.kind = "none"
    BY DEF NoWrite
  <2>2. QED
    BY <1>2, <2>1 DEF RecordInv, DisputeSound, Settling
<1>10. QED
  BY <1>3, <1>4, <1>6, <1>7, <1>8, <1>9 DEF RecordInv

LEMMA TakeWeightStep == ASSUME RecordInv, NEW q \in Writers, TakeWeight(q) PROVE RecordInv'
<1>1. /\ req[q].at = "written" /\ held' = held + req[q].weight /\ EndRequest(q)
      /\ UNCHANGED <<row, first, crossed, reweighed, queuedStatus, overrode, halfDone>>
  BY DEF TakeWeight, TakenFor
<1>2. /\ Owed(q) = req[q].weight /\ held \in Int /\ req[q].weight \in Int
      /\ halfDone \in 0..MaxHalfDone /\ queuedStatus \subseteq Resolutions
  BY <1>1, ReqTyped DEF Owed, RecordInv, RecordTyped
<1>3. QED
  BY <1>1, <1>2, EndKeeps

LEMMA FailStep == ASSUME RecordInv, NEW q \in Writers, FailRequest(q) PROVE RecordInv'
<1>1. EndRequest(q) /\ UNCHANGED <<row, first, held, crossed, reweighed, queuedStatus, overrode>>
  BY DEF FailRequest
<1>2. halfDone \in 0..MaxHalfDone /\ queuedStatus \subseteq Resolutions /\ held \in Int
      /\ MaxHalfDone \in Nat
  BY RecordAssumption DEF RecordInv, RecordTyped
<1>3. CASE Halfway(q)
  <2>1. halfDone' = halfDone + 1 /\ halfDone < MaxHalfDone
    BY <1>3 DEF FailRequest
  <2>2. halfDone' \in 0..MaxHalfDone /\ halfDone' # 0
    BY <1>2, <2>1
  <2>3. Excused'
    BY <2>2 DEF Excused
  <2>4. QED
    BY <1>1, <1>2, <2>2, <2>3, EndKeeps
<1>4. CASE ~Halfway(q)
  <2>1. halfDone' = halfDone
    BY <1>4 DEF FailRequest
  <2>2. Owed(q) = 0
    BY <1>4 DEF Halfway, Owed, None
  <2>3. QED
    BY <1>1, <1>2, <2>1, <2>2, EndKeeps
<1>5. QED
  BY <1>3, <1>4

LEMMA QueueStep == ASSUME RecordInv, NEW q \in Writers, QueueResolution(q) PROVE RecordInv'
<1>1. /\ req[q].at = "checked" /\ req[q].kind = "resolve" /\ EndRequest(q)
      /\ queuedStatus' = queuedStatus \cup {req[q].to}
      /\ UNCHANGED <<row, first, held, crossed, reweighed, overrode, halfDone>>
  BY DEF QueueResolution
<1>2. /\ halfDone \in 0..MaxHalfDone /\ queuedStatus \subseteq Resolutions /\ held \in Int
      /\ ReqSound(q)
  BY DEF RecordInv, RecordTyped
<1>3. req[q].to \in Resolutions
  BY <1>1, <1>2 DEF ReqSound
<1>4. Owed(q) = 0
  BY <1>1 DEF Owed
<1>5. QED
  BY <1>1, <1>2, <1>3, <1>4, EndKeeps

\* One more entry that the state machine admits.
LEMMA PathGrows ==
  ASSUME NEW h \in Seq(Status), Len(h) \in Nat \ {0}, NEW x \in Status, x \in Path(Last(h)),
         \A i \in 1..(Len(h) - 1) : h[i + 1] \in Path(h[i])
  PROVE  \A i \in 1..(Len(Append(h, x)) - 1) : Append(h, x)[i + 1] \in Path(Append(h, x)[i])
<1> DEFINE g == Append(h, x)
<1>1. /\ Len(g) = Len(h) + 1 /\ g[Len(h) + 1] = x /\ h[Len(h)] = Last(h)
      /\ \A i \in 1..Len(h) : g[i] = h[i]
  BY DEF Last
<1> HIDE DEF g
<1>2. ASSUME NEW i \in 1..(Len(g) - 1) PROVE g[i + 1] \in Path(g[i])
  <2>1. CASE i = Len(h)
    BY <1>1, <2>1
  <2>2. CASE i # Len(h)
    <3>1. i \in 1..(Len(h) - 1) /\ i \in 1..Len(h) /\ i + 1 \in 1..Len(h)
      BY <1>1, <2>2
    <3>2. QED
      BY <1>1, <3>1
  <2>3. QED
    BY <2>1, <2>2
<1>3. QED
  BY <1>2 DEF g

LEMMA BridgeStep == ASSUME RecordInv, NEW s \in Resolutions, BridgeResolution(s) PROVE RecordInv'
<1>0. /\ RecordTyped /\ HeldSound /\ HistoryIsPath /\ AgreedPriceCoversWeight /\ DisputeSound
      /\ row \in Rows /\ row.history \in Seq(Status) /\ Len(row.history) \in Nat \ {0}
      /\ Last(row.history) = row.status /\ Longest \in Nat
  BY RecordAssumption DEF RecordInv, RecordTyped, Rows, Longest
<1>1. /\ s \in queuedStatus /\ Len(row.history) < Longest
      /\ overrode' = (overrode \/ ~Resolvable(s))
      /\ outrun' = {q \in Writers : req[q].at # "idle"}
      /\ UNCHANGED <<first, held, req, crossed, reweighed, queuedStatus, halfDone>>
  BY DEF BridgeResolution, Longest
<1> DEFINE h == Append(row.history, s)
<1>2. row' = [row EXCEPT !.status = s, !.history = h]
  BY <1>0 DEF BridgeResolution, Rows
<1>3. s \in Status
  BY DEF Resolutions, Status
<1>4. h \in Seq(Status) /\ Len(h) = Len(row.history) + 1 /\ Last(h) = s
  BY <1>0, <1>3, HistoryGrows
<1>5. /\ row' \in Rows /\ row'.status = s /\ row'.history = h /\ row'.weight = row.weight
      /\ row'.systemPrice = row.systemPrice /\ row'.agreedPrice = row.agreedPrice
  BY <1>0, <1>2, <1>3, <1>4 DEF Rows
<1>6. overrode' \in BOOLEAN /\ (~overrode' => ~overrode /\ Resolvable(s))
  BY <1>1, Zenon
<1>7. RecordTyped'
  <2>1. Len(h) \in 1..Longest
    BY <1>0, <1>1, <1>4
  <2> HIDE DEF h
  <2>2. Longest' = Longest
    BY <1>1 DEF Longest
  <2>3. QED
    BY <1>0, <1>1, <1>4, <1>5, <1>6, <2>1, <2>2 DEF RecordTyped
<1>8. \A r \in Writers : ReqSound(r)' /\ Fresh(r)'
  <2>1. ASSUME NEW r \in Writers PROVE ReqSound(r)'
    <3>1. ReqSound(r) /\ Longest' = Longest
      BY <1>1 DEF RecordInv, Longest
    <3>2. QED
      BY <1>0, <1>1, <3>1 DEF ReqSound
  <2>2. ASSUME NEW r \in Writers PROVE Fresh(r)'
    BY <1>1 DEF Fresh, Open
  <2>3. QED
    BY <2>1, <2>2
<1>9. ~crossed' => ~crossed /\ Settling
  BY <1>0, <1>1 DEF DisputeSound
<1>10. HistoryIsPath'
  <2> SUFFICES ASSUME ~crossed', ~overrode'
               PROVE  \A i \in 1..(Len(h) - 1) : h[i + 1] \in Path(h[i])
    BY <1>5 DEF HistoryIsPath
  <2>1. \A i \in 1..(Len(row.history) - 1) : row.history[i + 1] \in Path(row.history[i])
    BY <1>0, <1>6, <1>9 DEF HistoryIsPath
  <2>2. s \in Path(Last(row.history))
    BY <1>0, <1>6 DEF Resolvable, Resolutions, Path
  <2>3. QED
    BY <1>0, <1>3, <2>1, <2>2, PathGrows
<1>11. AgreedPriceCoversWeight'
  BY <1>0, <1>5, <1>9 DEF AgreedPriceCoversWeight, Settling, Resolutions
<1>12. HeldSound'
  <2>1. CASE Excused'
    BY <2>1 DEF HeldSound
  <2>2. CASE ~Excused'
    <3>1. ~Excused /\ ~crossed'
      BY <1>1, <2>2 DEF Excused
    <3>2. PICK t \in Int : IsSum(Owes, Unsettled, t) /\ held = Carried - t
      BY <1>0, <3>1 DEF HeldSound
    <3>3. Owes' = Owes /\ Unsettled' = Unsettled
      BY <1>1 DEF Owes, Unsettled, Owed
    <3>4. Carried' = Carried
      BY <1>5, <1>9, <3>1 DEF Carried, Settling, Resolutions
    <3>5. QED
      BY <1>1, <3>2, <3>3, <3>4 DEF HeldSound
  <2>3. QED
    BY <2>1, <2>2
<1>13. DisputeSound'
  BY <1>5 DEF DisputeSound, Settling
<1>14. QED
  BY <1>1, <1>7, <1>8, <1>10, <1>11, <1>12, <1>13 DEF RecordInv

\* The row that a request writes.
LEMMA WrittenRow ==
  ASSUME RecordInv, NEW q \in Writers, Write(q)
  PROVE  /\ q \in Open /\ row' \in Rows /\ Len(row'.history) \in 1..Longest
         /\ Last(row'.history) = row'.status
         /\ req[q].kind = "update" =>
              /\ row'.status = row.status /\ row'.history = row.history
              /\ row'.agreedPrice = row.agreedPrice
              /\ req[q].value = None => row'.weight = row.weight /\ row'.systemPrice = req[q].price
              /\ req[q].value # None =>
                   row'.weight = req[q].value /\ row'.systemPrice = req[q].value
         /\ req[q].kind # "update" =>
              /\ row'.status = req[q].to /\ row'.history = HistoryAfter(q)
              /\ row'.weight = row.weight /\ row'.systemPrice = row.systemPrice
              /\ row'.agreedPrice = IF req[q].kind = "accept" THEN req[q].value ELSE row.agreedPrice
<1>0. /\ RecordTyped /\ row \in Rows /\ ReqSound(q) /\ req[q] \in Reqs
      /\ Len(row.history) \in 1..Longest /\ Last(row.history) = row.status
      /\ Longest \in Nat /\ row.history \in Seq(Status) /\ Len(row.history) \in Nat
  BY RecordAssumption DEF RecordInv, RecordTyped, Rows, Longest
<1>1. /\ q \in Open /\ req[q].at # "idle" /\ Len(row.history) < Longest /\ row' = RowAfter(q)
  BY DEF Write, Open, Longest
<1>2. CASE req[q].kind = "update"
  <2>1. row' = PricedRow(q)
    BY <1>1, <1>2 DEF RowAfter
  <2>2. CASE req[q].value = None
    <3>1. row' = [row EXCEPT !.systemPrice = req[q].price]
      BY <2>1, <2>2 DEF PricedRow
    <3>2. req[q].price \in Weights
      BY <1>0, <1>1 DEF ReqSound
    <3>3. /\ row' \in Rows /\ row'.status = row.status /\ row'.history = row.history
          /\ row'.agreedPrice = row.agreedPrice /\ row'.weight = row.weight
          /\ row'.systemPrice = req[q].price
      BY <1>0, <3>1, <3>2 DEF Rows
    <3>4. QED
      BY <1>0, <1>1, <1>2, <2>2, <3>3
  <2>3. CASE req[q].value # None
    <3>1. row' = [row EXCEPT !.weight = req[q].value, !.systemPrice = req[q].value]
      BY <2>1, <2>3 DEF PricedRow
    <3>2. req[q].value \in Weights
      BY <1>0, <2>3 DEF Reqs, Prices
    <3>3. /\ row' \in Rows /\ row'.status = row.status /\ row'.history = row.history
          /\ row'.agreedPrice = row.agreedPrice /\ row'.weight = req[q].value
          /\ row'.systemPrice = req[q].value
      BY <1>0, <3>1, <3>2 DEF Rows
    <3>4. QED
      BY <1>0, <1>1, <1>2, <2>3, <3>3
  <2>4. QED
    BY <2>2, <2>3
<1>3. CASE req[q].kind # "update"
  <2> DEFINE h == HistoryAfter(q)
             p == IF req[q].kind = "accept" THEN req[q].value ELSE row.agreedPrice
  <2>1. row' = [row EXCEPT !.status = req[q].to, !.history = h, !.agreedPrice = p]
    BY <1>0, <1>1, <1>3 DEF RowAfter, Rows
  <2>2. req[q].to \in Status /\ p \in Prices
    BY <1>0, <1>1, <1>3 DEF ReqSound, Reqs, Rows
  <2>3. h \in Seq(Status) /\ Len(h) \in 1..Longest /\ Last(h) = req[q].to
    <3>1. CASE req[q].kind = "progress"
      <4>1. req[q].history \in Seq(Status) /\ Len(req[q].history) < Longest
        BY <1>0, <1>1 DEF Reqs, ReqSound
      <4>2. h = Append(req[q].history, req[q].to)
        BY <3>1 DEF HistoryAfter
      <4>3. QED
        BY <1>0, <2>2, <4>1, <4>2, HistoryGrows
    <3>2. CASE req[q].kind # "progress"
      <4>1. h = Append(row.history, req[q].to)
        BY <3>2 DEF HistoryAfter
      <4>2. QED
        BY <1>0, <1>1, <2>2, <4>1, HistoryGrows
    <3>3. QED
      BY <3>1, <3>2
  <2> HIDE DEF h, p
  <2>4. /\ row' \in Rows /\ row'.status = req[q].to /\ row'.history = h
        /\ row'.weight = row.weight /\ row'.systemPrice = row.systemPrice /\ row'.agreedPrice = p
    BY <1>0, <2>1, <2>2, <2>3 DEF Rows
  <2>5. QED
    BY <1>1, <1>3, <2>3, <2>4 DEF h, p
<1>4. QED
  BY <1>2, <1>3

\* What a request writes that nobody outran.
LEMMA FreshWrite ==
  ASSUME RecordInv, NEW q \in Writers, Write(q), q \notin outrun
  PROVE  /\ MayAsk(req[q].kind, req[q].to, req[q].value)
         /\ req[q].weight = row.weight /\ req[q].price = row.systemPrice
         /\ \/ row'.history = row.history /\ row'.status = row.status
            \/ row'.history = Append(row.history, row'.status) /\ row'.status \in Path(row.status)
<1>1. /\ RecordTyped /\ ReqSound(q) /\ Fresh(q) /\ q \in Open
      /\ row.weight \in Weights
  BY WrittenRow DEF RecordInv, RecordTyped, Rows
<1>2. /\ MayAsk(req[q].kind, req[q].to, req[q].value)
      /\ req[q].weight = row.weight /\ req[q].price = row.systemPrice
      /\ req[q].at = "read" /\ req[q].kind = "progress" => req[q].history = row.history
  BY <1>1 DEF Fresh
<1>3. req[q].kind = "progress" => req[q].at = "read"
  BY DEF Write
<1>4. req[q].kind # "update" => HistoryAfter(q) = Append(row.history, req[q].to)
  BY <1>2, <1>3 DEF HistoryAfter
<1>5. req[q].kind # "update" => req[q].to \in Path(row.status)
  BY <1>1, <1>2, AskFollows
<1>6. CASE req[q].kind = "update"
  <2>1. row'.history = row.history /\ row'.status = row.status
    BY <1>6, WrittenRow
  <2>2. QED
    BY <1>2, <2>1
<1>7. CASE req[q].kind # "update"
  <2>1. row'.history = HistoryAfter(q) /\ row'.status = req[q].to
    BY <1>7, WrittenRow
  <2>2. QED
    BY <1>2, <1>4, <1>5, <1>7, <2>1
<1>8. QED
  BY <1>6, <1>7

LEMMA WriteStep == ASSUME RecordInv, NEW q \in Writers, Write(q) PROVE RecordInv'
<1>0. /\ RecordTyped /\ HeldSound /\ ReqSound(q) /\ req[q] \in Reqs /\ row \in Rows
      /\ HistoryIsPath /\ AgreedPriceCoversWeight
      /\ row.history \in Seq(Status) /\ Len(row.history) \in Nat \ {0}
      /\ Last(row.history) = row.status
  BY DEF RecordInv, RecordTyped, Rows
<1> DEFINE k == IF req[q].kind = "assign" THEN [req[q] EXCEPT !.at = "written"] ELSE NoWrite
<1>1. /\ Len(row.history) < Longest /\ req' = [req EXCEPT ![q] = k]
      /\ crossed' = (crossed \/ q \in outrun)
      /\ outrun' = (outrun \ {q}) \cup {r \in Writers \ {q} : req[r].at # "idle"}
      /\ reweighed' = (reweighed \/ (req[q].kind = "update" /\ row'.weight # row.weight
                                       /\ row.status # "PENDING"))
      /\ UNCHANGED <<first, held, queuedStatus, overrode, halfDone>>
  BY <1>0 DEF Write, Longest, RecordTyped
<1>2. /\ k \in Reqs /\ k.at \in {"written", "idle"}
      /\ k.at = "written" <=> req[q].kind = "assign"
      /\ k.at = "written" => /\ k.kind = "assign" /\ k.to = req[q].to /\ k.weight = req[q].weight
                             /\ k.price = req[q].price /\ k.history = req[q].history
  BY <1>0, NoWriteTyped DEF Reqs
<1> HIDE DEF k
<1>3. /\ req' \in [Writers -> Reqs] /\ req'[q] = k
      /\ \A r \in Writers \ {q} : req'[r] = req[r]
      /\ Open' = Open \ {q}
  BY <1>0, <1>1, <1>2, ReqMoves
<1>4. /\ q \in Open /\ row' \in Rows /\ Len(row'.history) \in 1..Longest
      /\ Last(row'.history) = row'.status
  BY WrittenRow
<1>5. req[q].at \in {"checked", "read"} /\ Open \subseteq Writers
  BY <1>4 DEF Open
<1>6. crossed' \in BOOLEAN /\ reweighed' \in BOOLEAN
  BY <1>1, Zenon
<1>7. ~crossed' => ~crossed /\ q \notin outrun
  BY <1>1, Zenon
<1>8. ~reweighed' => /\ ~reweighed
                     /\ req[q].kind = "update" => row'.weight = row.weight \/ row.status = "PENDING"
  BY <1>1, Zenon
<1>9. Longest' = Longest
  BY <1>1 DEF Longest
<1>10. RecordTyped'
  BY <1>0, <1>1, <1>3, <1>4, <1>6, <1>9 DEF RecordTyped
<1>11. \A r \in outrun' : req'[r].at # "idle"
  BY <1>0, <1>1, <1>3 DEF RecordInv, RecordTyped
<1>12. \A r \in Writers : ReqSound(r)' /\ Fresh(r)'
  <2>1. ReqSound(q)'
    BY <1>0, <1>1, <1>2, <1>3, <1>5, <1>9 DEF ReqSound
  <2>2. Fresh(q)'
    BY <1>3 DEF Fresh
  <2>3. ASSUME NEW r \in Writers \ {q} PROVE ReqSound(r)' /\ Fresh(r)'
    <3>1. req'[r] = req[r] /\ ReqSound(r)
      BY <1>3, <2>3 DEF RecordInv
    <3>2. ReqSound(r)'
      BY <1>1, <1>9, <3>1 DEF ReqSound
    <3>3. r \in Open' => r \in outrun'
      BY <1>1, <1>3 DEF Open
    <3>4. QED
      BY <3>2, <3>3 DEF Fresh
  <2>4. QED
    BY <2>1, <2>2, <2>3
<1>13. HistoryIsPath'
  <2> SUFFICES ASSUME ~crossed', ~overrode'
               PROVE  \A i \in 1..(Len(row'.history) - 1) :
                        row'.history[i + 1] \in Path(row'.history[i])
    BY DEF HistoryIsPath
  <2>1. ~crossed /\ q \notin outrun
    BY <1>7
  <2>2. \A j \in 1..(Len(row.history) - 1) : row.history[j + 1] \in Path(row.history[j])
    BY <1>0, <1>1, <2>1 DEF HistoryIsPath
  <2>3. CASE row'.history = row.history
    BY <2>2, <2>3
  <2>4. CASE row'.history = Append(row.history, row'.status) /\ row'.status \in Path(row.status)
    <3>1. row'.status \in Status
      BY <1>4 DEF Rows
    <3>2. QED
      BY <1>0, <2>2, <2>4, <3>1, PathGrows
  <2>5. QED
    BY <2>1, <2>3, <2>4, FreshWrite
<1>14. AgreedPriceCoversWeight'
  <2> SUFFICES ASSUME ~crossed'
               PROVE  /\ row'.systemPrice = row'.weight
                      /\ row'.status \notin {"PENDING", "MATCHED", "CANCELLED"}
                           => row'.agreedPrice >= row'.systemPrice
    BY DEF AgreedPriceCoversWeight
  <2>1. ~crossed /\ q \notin outrun
    BY <1>7
  <2>2. /\ row.systemPrice = row.weight
        /\ row.status \notin {"PENDING", "MATCHED", "CANCELLED"}
             => row.agreedPrice >= row.systemPrice
    BY <1>0, <2>1 DEF AgreedPriceCoversWeight
  <2>3. MayAsk(req[q].kind, req[q].to, req[q].value) /\ req[q].price = row.systemPrice
    BY <2>1, FreshWrite
  <2>4. CASE req[q].kind = "update"
    <3>1. row.status \in {"PENDING", "MATCHED"}
      BY <2>3, <2>4 DEF MayAsk
    <3>2. QED
      BY <2>2, <2>3, <2>4, <3>1, WrittenRow
  <2>5. CASE req[q].kind = "accept"
    <3>1. req[q].value >= row.systemPrice
      BY <2>3, <2>5 DEF MayAsk
    <3>2. QED
      BY <2>2, <2>5, <3>1, WrittenRow
  <2>6. CASE req[q].kind \notin {"update", "accept"}
    <3>1. \/ req[q].to \in {"PENDING", "MATCHED", "CANCELLED"}
          \/ row.status \notin {"PENDING", "MATCHED", "CANCELLED"}
      BY <2>3, <2>6 DEF MayAsk
    <3>2. QED
      BY <2>2, <2>6, <3>1, WrittenRow
  <2>7. QED
    BY <2>4, <2>5, <2>6
<1>15. HeldSound'
  <2>1. CASE Excused'
    BY <2>1 DEF HeldSound
  <2>2. CASE ~Excused'
    <3>1. ~crossed' /\ ~crossed /\ q \notin outrun /\ ~reweighed' /\ ~reweighed /\ halfDone = 0
      BY <1>1, <1>7, <1>8, <2>2 DEF Excused
    <3>2. MayAsk(req[q].kind, req[q].to, req[q].value) /\ req[q].weight = row.weight
      BY <3>1, FreshWrite
    <3>3. /\ Carried \in Int /\ row.weight \in Int /\ held \in Int /\ req[q].value \in Int
          /\ row'.weight \in Int /\ held' = held
      BY <1>0, <1>1, <1>4, ReqTyped, PricesAreNumbers DEF Rows
    <3>4. Carried' \in Int
      BY <3>3 DEF Carried
    <3>5. Carried' - Carried = Owed(q)' - Owed(q)
      <4>1. CASE req[q].kind = "assign"
        <5>1. /\ row.status = "PENDING" /\ req[q].to = "MATCHED" /\ req[q].at # "read"
          BY <1>0, <1>5, <3>2, <4>1 DEF MayAsk, ReqSound
        <5>2. row'.status = "MATCHED" /\ row'.weight = row.weight
          BY <4>1, <5>1, WrittenRow
        <5>3. Owed(q) = 0 /\ Owed(q)' = row.weight
          BY <1>2, <1>3, <1>5, <3>2, <4>1, <5>1 DEF Owed
        <5>4. QED
          BY <3>3, <5>1, <5>2, <5>3 DEF Carried
      <4>2. CASE req[q].kind # "assign"
        <5>0. Owed(q)' = 0 /\ Owed(q) = (IF req[q].at = "read" THEN req[q].value ELSE 0)
          BY <1>2, <1>3, <1>5, <4>2, NoWriteTyped DEF Owed
        <5>1. CASE req[q].kind = "update"
          <6>1. Owed(q) = 0
            BY <1>0, <1>5, <5>0, <5>1 DEF ReqSound
          <6>2. row'.status = row.status /\ (row.status # "PENDING" => row'.weight = row.weight)
            BY <1>8, <3>1, <5>1, WrittenRow
          <6>3. QED
            BY <3>3, <5>0, <6>1, <6>2 DEF Carried
        <5>2. CASE req[q].kind \in {"reject", "cancel"}
          <6>1. /\ req[q].at = "read" /\ req[q].to \in {"PENDING", "CANCELLED"}
                /\ req[q].value = Carried
            BY <3>2, <5>2 DEF MayAsk, Write, Carried, None
          <6>2. row'.status \in {"PENDING", "CANCELLED"}
            BY <5>2, <6>1, WrittenRow
          <6>3. QED
            BY <3>3, <5>0, <6>1, <6>2 DEF Carried
        <5>3. CASE req[q].kind \notin {"update", "assign", "reject", "cancel"}
          <6>1. /\ row.status \notin {"PENDING", "CANCELLED"}
                /\ req[q].to \notin {"PENDING", "CANCELLED"}
                /\ req[q].value = None \/ req[q].at # "read"
            BY <1>0, <1>5, <3>2, <5>3 DEF MayAsk, Resolutions, ReqSound
          <6>2. row'.status \notin {"PENDING", "CANCELLED"} /\ row'.weight = row.weight
            BY <5>3, <6>1, WrittenRow
          <6>3. Owed(q) = 0
            BY <5>0, <6>1 DEF None
          <6>4. QED
            BY <3>3, <5>0, <6>1, <6>2, <6>3 DEF Carried
        <5>4. QED
          BY <4>2, <5>1, <5>2, <5>3
      <4>3. QED
        BY <4>1, <4>2
    <3>6. PICK t \in Int : IsSum(Owes, Unsettled, t) /\ held = Carried - t
      BY <1>0, <3>1 DEF HeldSound, Excused
    <3>7. Owed(q) \in Int /\ Owed(q)' \in Int
      BY <1>0, <1>1, <1>2, <3>6, OwedMoves
    <3>8. held' = held + Owed(q) - Owed(q)' + (Carried' - Carried)
      BY <3>3, <3>4, <3>5, <3>7
    <3>9. Excused => Excused'
      BY <3>1 DEF Excused
    <3>10. QED
      BY <1>0, <1>1, <1>2, <3>4, <3>8, <3>9, HeldMoves
  <2>3. QED
    BY <2>1, <2>2
<1>16. DisputeSound'
  <2> SUFFICES ASSUME ~crossed' PROVE DisputeSound'
    BY DEF DisputeSound
  <2>1. ~crossed /\ q \notin outrun /\ DisputeSound
    BY <1>7 DEF RecordInv
  <2>2. MayAsk(req[q].kind, req[q].to, req[q].value)
    BY <2>1, FreshWrite
  <2>3. Settling => Settling'
    <3>1. Settling => req[q].kind = "resolve" /\ req[q].to \in Resolutions
      BY <2>2 DEF MayAsk, Settling, Resolutions
    <3>2. req[q].kind = "resolve" => row'.status = req[q].to
      BY WrittenRow
    <3>3. QED
      BY <3>1, <3>2 DEF Settling
  <2>4. ASSUME NEW r \in Writers, req'[r].at # "idle", req'[r].kind = "resolve" PROVE Settling
    <3>1. r # q
      BY <1>2, <1>3, <2>4
    <3>2. req[r].at # "idle" /\ req[r].kind = "resolve"
      BY <1>3, <2>4, <3>1
    <3>3. QED
      BY <2>1, <3>2 DEF DisputeSound
  <2>5. QED
    BY <1>1, <2>1, <2>3, <2>4 DEF DisputeSound
<1>17. QED
  BY <1>10, <1>11, <1>12, <1>13, <1>14, <1>15, <1>16 DEF RecordInv

LEMMA RecordStep == RecordInv /\ [RecordNext]_recordVars => RecordInv'
<1> SUFFICES ASSUME RecordInv, [RecordNext]_recordVars PROVE RecordInv'
  OBVIOUS
<1>1. CASE UNCHANGED recordVars
  <2>1. /\ UNCHANGED <<row, first, held, req, outrun, crossed, reweighed>>
        /\ UNCHANGED <<queuedStatus, overrode, halfDone>>
    BY <1>1 DEF recordVars
  <2>2. RecordTyped' /\ \A q \in outrun' : req'[q].at # "idle"
    BY <2>1 DEF RecordInv, RecordTyped, Longest
  <2>3. \A q \in Writers : ReqSound(q)' /\ Fresh(q)'
    BY <2>1, OthersKept DEF RecordInv
  <2>4. HistoryIsPath' /\ AgreedPriceCoversWeight'
    BY <2>1, RowKept DEF RecordInv
  <2>5. Owes' = Owes /\ Unsettled' = Unsettled /\ Carried' = Carried /\ (Excused' <=> Excused)
    BY <2>1 DEF Owes, Unsettled, Owed, Carried, Excused
  <2>6. HeldSound' /\ DisputeSound'
    BY <2>1, <2>5 DEF RecordInv, HeldSound, DisputeSound, Settling
  <2>7. QED
    BY <2>2, <2>3, <2>4, <2>6 DEF RecordInv
<1>2. QED
  BY <1>1, CheckStep, PrepareStep, WriteStep, TakeWeightStep, FailStep, QueueStep, BridgeStep
     DEF RecordNext

LEMMA RecordInvariant == RecordSpec => []RecordInv
BY RecordStarts, RecordStep, PTL DEF RecordSpec

\* The row, its history and the requests are of the types that the code gives them, and the
\* history ends in the status.
THEOREM RecordTypeCorrect == RecordSpec => []RecordTypeOK
<1>1. RecordInv => RecordTypeOK
  <2> SUFFICES ASSUME RecordInv PROVE RecordTypeOK
    OBVIOUS
  <2>1. RecordTyped
    BY DEF RecordInv
  <2>2. \A q \in Writers : {req[q].value, req[q].weight, req[q].price} \subseteq Prices
    <3>1. \A q \in Writers : req[q].value \in Prices /\ req[q].weight \in Prices
                             /\ req[q].price \in Prices
      BY <2>1 DEF RecordTyped, Reqs
    <3>2. QED
      BY <3>1, Zenon
  <2>3. QED
    BY <2>1, <2>2 DEF RecordTyped, RecordTypeOK, Rows, Reqs, Longest
<1>2. QED
  BY <1>1, RecordInvariant, PTL

\* The history is a path of the status machine while no stale request wrote the row and the
\* outbox wrote no resolution onto a row that does not wait for one; the weight held is that
\* of the row while, besides, no request failed between its two writes; and only an update of
\* the status drops an entry of the history: for any number of requests, of any kind, for any
\* weights, and however often the outbox repeats its write.
THEOREM RecordStaysFollowed == RecordSpec => RecordFollowed
<1>1. RecordInv => HistoryIsPath /\ AgreedPriceCoversWeight /\ HeldWeightMatches
  <2> SUFFICES ASSUME RecordInv PROVE HeldWeightMatches
    BY DEF RecordInv
  <2> SUFFICES ASSUME ~crossed, ~reweighed, halfDone = 0, \A q \in Writers : req[q].at = "idle"
               PROVE  held = Carried
    BY DEF HeldWeightMatches, Carried
  <2>1. Unsettled = {}
    BY DEF Unsettled
  <2>2. PICK t \in Int : IsSum(Owes, Unsettled, t) /\ held = Carried - t
    BY DEF RecordInv, HeldSound, Excused
  <2>3. t = 0
    BY <2>1, <2>2, SumOfEmpty
  <2>4. QED
    BY <2>2, <2>3, ReqTyped DEF RecordInv
<1>2. ASSUME RecordInv, [RecordNext]_recordVars
      PROVE  [\/ IsPrefix(row.history, row'.history)
              \/ \E q \in outrun : req[q].kind = "progress" /\ row' = RowAfter(q)]_recordVars
  <2>1. row.history \in Seq(Status) /\ "PAID" \in Status
    BY <1>2 DEF RecordInv, RecordTyped, Rows, Status
  <2>2. IsPrefix(row.history, row.history)
    BY <2>1, HistoryGrows
  <2>3. ASSUME NEW q \in Writers, Write(q)
        PROVE  \/ IsPrefix(row.history, row'.history)
               \/ \E r \in outrun : req[r].kind = "progress" /\ row' = RowAfter(r)
    <3>1. row' \in Rows /\ row'.status \in Status /\ row' = RowAfter(q) /\ q \in Open
      BY <1>2, <2>3, WrittenRow DEF Rows, Write
    <3>2. CASE q \notin outrun
      <4>1. row'.history = row.history \/ row'.history = Append(row.history, row'.status)
        BY <1>2, <2>3, <3>2, FreshWrite
      <4>2. QED
        BY <2>1, <2>2, <3>1, <4>1, HistoryGrows
    <3>3. CASE q \in outrun /\ req[q].kind = "progress"
      BY <3>1, <3>3
    <3>4. CASE req[q].kind = "update"
      BY <1>2, <2>2, <2>3, <3>4, WrittenRow
    <3>5. CASE req[q].kind \notin {"progress", "update"}
      <4>1. /\ row'.history = HistoryAfter(q) /\ row'.status = req[q].to
        BY <1>2, <2>3, <3>5, WrittenRow
      <4>2. row'.history = Append(row.history, req[q].to)
        BY <3>5, <4>1 DEF HistoryAfter
      <4>3. QED
        BY <2>1, <3>1, <4>1, <4>2, HistoryGrows
    <3>6. QED
      BY <3>2, <3>3, <3>4, <3>5
  <2>4. ASSUME UNCHANGED row PROVE IsPrefix(row.history, row'.history)
    BY <2>2, <2>4
  <2>5. ASSUME NEW s \in Resolutions, BridgeResolution(s) PROVE IsPrefix(row.history, row'.history)
    <3>1. row \in Rows /\ s \in Status
      BY <1>2 DEF RecordInv, RecordTyped, Resolutions, Status
    <3>2. row'.history = Append(row.history, s)
      BY <2>5, <3>1 DEF BridgeResolution, Rows
    <3>3. QED
      BY <2>1, <3>1, <3>2, HistoryGrows
  <2>6. QED
    BY <1>2, <2>3, <2>4, <2>5
       DEF RecordNext, Check, Prepare, TakeWeight, FailRequest, QueueResolution, recordVars
<1>3. QED
  BY <1>1, <1>2, RecordInvariant, PTL DEF RecordSpec, RecordFollowed, EntryLostOnlyByStatusUpdate

(***************************************************************************)
(* Prices                                                                  *)
(***************************************************************************)

Fields == {"to", "cargo", "kilos"}

ParcelRows == [status: {"PENDING", "MATCHED", "ACCEPTED"}, to: Countries, cargo: Cargos, kilos: Kilos,
            systemPrice: Int, agreedPrice: Int]

Quotes == [at: {"idle", "price", "create", "floor", "update", "accept"},
           then: {"none", "create", "update", "accept"}, goods: Goods \cup {NoParcel},
           given: SUBSET Fields, price: Int, floor: Int]

PricesTyped ==
  /\ rules \in [RuleIds -> RuleInputs \cup {NoRule}]
  /\ consignment \in ParcelRows \cup {NoParcel}
  /\ Created => pricedFor \in Goods
  /\ quoter \in [Quoters -> Quotes]
  /\ edits \in 0..MaxEdits /\ quoted \in 0..MaxQuoted
  /\ ruleMoved \subseteq Quoters /\ rowMoved \subseteq Quoters
  /\ rowCrossed \in BOOLEAN /\ relocated \in BOOLEAN

\* What each request is about: the creation runs alone, before the row exists.
TasksSound ==
  \A c \in Quoters : quoter[c].at # "idle" =>
    /\ quoter[c].goods \in Goods
    /\ quoter[c].then \in {"create", "update", "accept"}
    /\ quoter[c].at = "price" => quoter[c].then # "accept"
    /\ quoter[c].at = "floor" => quoter[c].then = "accept"
    /\ quoter[c].at \notin {"price", "floor"} => quoter[c].at = quoter[c].then
    /\ quoter[c].then = "create" =>
         ~Created /\ \A d \in Quoters \ {c} : quoter[d].at = "idle"
    /\ quoter[c].then # "create" => Created

\* What a request has read of the row is what the row holds, unless another wrote it.
ReadsSound ==
  \A c \in Quoters \ rowMoved : quoter[c].at # "idle" =>
    /\ quoter[c].then = "update" =>
         \A f \in Fields \ quoter[c].given : quoter[c].goods[f] = consignment[f]
    /\ quoter[c].then = "accept" => quoter[c].floor = consignment.systemPrice

\* A price about to be stored came from the rules in force, unless one was edited.
QuotesSound ==
  \A c \in Quoters :
    /\ Repriced(c) /\ c \notin ruleMoved => quoter[c].price \in PricesOf(quoter[c].goods)
    /\ quoter[c].at = "accept" => quoter[c].price >= quoter[c].floor
    /\ quoter[c].at = "accept" /\ c \notin ruleMoved /\ quoter[c].price # quoter[c].floor
         => \E p \in PricesOf(quoter[c].goods) : quoter[c].price >= p

PricesInv ==
  PricesTyped /\ TasksSound /\ ReadsSound /\ QuotesSound /\ PriceFollowsGoods

LEMMA FieldsOfRules ==
  ASSUME NEW r \in RuleInputs
  PROVE  r.base \in Int /\ r.perKilo \in Int /\ r.risk \in Int /\ r.feePercent \in Int
         /\ r.minFee \in Int /\ r.perKilo >= 10000
<1> DEFINE F == {r.base, r.perKilo, r.risk, r.feePercent, r.minFee, r.priority}
<1>1. F \subseteq Int /\ r.perKilo >= 10000
  BY PricesAssumption
<1>2. r.base \in F /\ r.perKilo \in F /\ r.risk \in F /\ r.feePercent \in F /\ r.minFee \in F
  OBVIOUS
<1> HIDE DEF F
<1>3. F \subseteq Int
  BY <1>1
<1>4. \A n \in F : n \in Int
  BY <1>3, Zenon
<1>5. r.base \in Int /\ r.perKilo \in Int /\ r.risk \in Int /\ r.feePercent \in Int /\ r.minFee \in Int
  BY <1>2, <1>4, Zenon
<1>6. r.perKilo >= 10000
  BY <1>1
<1>7. QED
  BY <1>5, <1>6

LEMMA KilosAreNumbers == \A k \in Kilos : k \in Int
BY PricesAssumption

\* Every applicable rule has whole numbers, those in the table and the default, and
\* its multiplier is positive when those of the table are.
LEMMA RulesApplicable ==
  ASSUME PricesTyped, NEW g \in Goods, NEW r \in Applicable(g)
  PROVE  /\ r.base \in Int /\ r.perKilo \in Int /\ r.risk \in Int /\ r.feePercent \in Int
         /\ r.minFee \in Int /\ r.perKilo >= 10000
         /\ (\A s \in RuleInputs : s.risk > 0) => r.risk > 0
<1>1. CASE BestRules(g) = {}
  <2>1. r = DefaultRule(g)
    BY <1>1 DEF Applicable
  <2>2. g.cargo \in CargoTypes
    BY PricesAssumption DEF Goods
  <2>3. Risk(g.cargo) \in Int /\ Risk(g.cargo) > 0
    BY <2>2 DEF Risk, CargoTypes
  <2>4. QED
    BY <2>1, <2>3 DEF DefaultRule
<1>2. CASE BestRules(g) # {}
  <2>1. r \in BestRules(g)
    BY <1>2 DEF Applicable
  <2>2. PICK i \in RuleIds : r = rules[i] /\ Matches(rules[i], g)
    BY <2>1, Zenon DEF BestRules
  <2>3. r.active
    BY <2>2, Zenon DEF Matches
  <2>4. ~NoRule.active
    BY Zenon DEF NoRule
  <2>5. r # NoRule
    BY <2>3, <2>4, Zenon
  <2>6. r \in RuleInputs
    BY <2>2, <2>5 DEF PricesTyped
  <2>7. QED
    BY <2>6, FieldsOfRules
<1>3. QED
  BY <1>1, <1>2

\* Prices are whole amounts, and there always is one.
LEMMA PricesAreInts ==
  ASSUME PricesTyped, NEW g \in Goods, NEW p \in PricesOf(g)
  PROVE  p \in Int
<1>1. PICK r \in Applicable(g) : p = BasePrice(r, g)
  BY Zenon DEF PricesOf
<1>2. r.base \in Int /\ r.perKilo \in Int /\ r.risk \in Int
  BY RulesApplicable
<1>3. g.kilos \in Int
  BY KilosAreNumbers DEF Goods
<1>4. Amount(r, g) \in Int
  BY <1>2, <1>3 DEF Amount
<1>5. Route(g) \in Int
  BY DEF Route
<1>6. Amount(r, g) * r.risk \in Int
  BY <1>2, <1>4
<1>7. Amount(r, g) * r.risk * Route(g) \in Int
  BY <1>5, <1>6
<1>8. Exact(r, g) \in Int
  BY <1>7 DEF Exact
<1>9. \A n \in Int : CeilTo(1000, n) \in Int
  BY DEF CeilTo
<1>10. BasePrice(r, g) \in Int
  BY <1>8, <1>9 DEF BasePrice
<1>11. QED
  BY <1>1, <1>10

LEMMA NoQuoteTyped ==
  /\ NoQuote \in Quotes /\ NoQuote.at = "idle" /\ NoQuote.then = "none"
BY DEF NoQuote, Quotes, Nothing

LEMMA RowFields ==
  ASSUME PricesTyped, Created
  PROVE  /\ consignment \in ParcelRows
         /\ GoodsOf(consignment) \in Goods
         /\ \A f \in Fields : GoodsOf(consignment)[f] = consignment[f]
BY DEF PricesTyped, Created, NoParcel, ParcelRows, GoodsOf, Goods, Fields

\* The invariant holds at the start.
LEMMA PricesStart == PricesInit => PricesInv
<1> SUFFICES ASSUME PricesInit PROVE PricesInv
  OBVIOUS
<1>1. quoter \in [Quoters -> Quotes] /\ \A c \in Quoters : quoter[c] = NoQuote
  BY NoQuoteTyped DEF PricesInit
<1>2. ~Created
  BY DEF PricesInit, Created, NoParcel
<1>3. rowCrossed \in BOOLEAN /\ relocated \in BOOLEAN
  BY Zenon DEF PricesInit
<1>4. PricesTyped
  BY <1>1, <1>2, <1>3, PricesAssumption DEF PricesInit, PricesTyped
<1>5. TasksSound /\ ReadsSound /\ QuotesSound
  BY <1>1, NoQuoteTyped DEF TasksSound, ReadsSound, QuotesSound, Repriced
<1>6. PriceFollowsGoods
  BY <1>2 DEF PriceFollowsGoods
<1>7. QED
  BY <1>4, <1>5, <1>6 DEF PricesInv

\* One request moves.
LEMMA QuoterMoves ==
  ASSUME PricesTyped, NEW c \in Quoters, NEW k \in Quotes, QuoterGoes(c, k)
  PROVE  /\ quoter' \in [Quoters -> Quotes] /\ quoter'[c] = k
         /\ \A d \in Quoters \ {c} : quoter'[d] = quoter[d]
BY DEF PricesTyped, QuoterGoes

\* A rule is edited while others read it.
LEMMA SaveRuleKeeps ==
  ASSUME PricesInv, NEW i \in RuleIds, NEW r \in RuleInputs, SaveRule(i, r)
  PROVE  PricesInv'
<1>1. PricesTyped'
  <2>1. rules' \in [RuleIds -> RuleInputs \cup {NoRule}] /\ edits' \in 0..MaxEdits
    BY PricesAssumption DEF PricesInv, PricesTyped, SaveRule
  <2>2. ruleMoved' \subseteq Quoters
    BY DEF SaveRule
  <2>3. QED
    BY <2>1, <2>2 DEF PricesInv, PricesTyped, SaveRule, Created
<1>2. TasksSound' /\ ReadsSound'
  BY DEF PricesInv, TasksSound, ReadsSound, SaveRule, Created
<1>3. QuotesSound'
  <2> SUFFICES ASSUME NEW c \in Quoters
               PROVE  /\ (Repriced(c) /\ c \notin ruleMoved => quoter[c].price \in PricesOf(quoter[c].goods))'
                      /\ (quoter[c].at = "accept" => quoter[c].price >= quoter[c].floor)'
                      /\ (quoter[c].at = "accept" /\ c \notin ruleMoved /\ quoter[c].price # quoter[c].floor
                            => \E p \in PricesOf(quoter[c].goods) : quoter[c].price >= p)'
    BY DEF QuotesSound
  <2>1. quoter' = quoter /\ (c \notin ruleMoved' => quoter[c].at = "idle")
    BY DEF SaveRule
  <2>2. QED
    BY <2>1 DEF PricesInv, QuotesSound, Repriced
<1>4. PriceFollowsGoods'
  BY DEF PricesInv, PriceFollowsGoods, SaveRule, Created, GoodsOf
<1>5. QED
  BY <1>1, <1>2, <1>3, <1>4 DEF PricesInv

\* The prices that the rules in force give do not depend on the rest of the state.
LEMMA QuotesKept ==
  ASSUME rules' = rules,
         \A d \in Quoters :
           /\ (quoter'[d].at = "create" \/ (quoter'[d].at = "update" /\ NeedsPrice(quoter'[d].given)))
              /\ d \notin ruleMoved'
                => quoter'[d].price \in PricesOf(quoter'[d].goods)
           /\ quoter'[d].at = "accept" => quoter'[d].price >= quoter'[d].floor
           /\ quoter'[d].at = "accept" /\ d \notin ruleMoved' /\ quoter'[d].price # quoter'[d].floor
                => \E p \in PricesOf(quoter'[d].goods) : quoter'[d].price >= p
  PROVE  QuotesSound'
<1>1. ASSUME NEW g
      PROVE  PricesOf(g)' = PricesOf(g)
  <2>1. BestRules(g)' = BestRules(g)
    BY DEF BestRules, Matches
  <2>2. Applicable(g)' = Applicable(g)
    BY <2>1, Zenon DEF Applicable
  <2>3. QED
    BY <2>2, Zenon DEF PricesOf
<1>2. \A g : PricesOf(g)' = PricesOf(g)
  BY <1>1
<1>3. ASSUME NEW c \in Quoters
      PROVE  (PricesOf(quoter[c].goods))' = PricesOf(quoter'[c].goods)
  BY <1>2
<1>4. QED
  BY <1>3 DEF QuotesSound, Repriced

\* The rest of the state is as it was but for one request, which begins.
LEMMA BeginKeeps ==
  ASSUME PricesInv, NEW c \in Quoters, NEW k \in Quotes, QuoterStarts(c, k),
         k.at # "idle",
         k.goods \in Goods,
         k.then \in {"create", "update", "accept"},
         k.at = "price" => k.then # "accept",
         k.at = "floor" => k.then = "accept",
         k.at \notin {"price", "floor"} => k.at = k.then,
         k.then = "create" => ~Created /\ \A d \in Quoters : quoter[d].at = "idle",
         k.then # "create" => Created,
         k.then = "update" => \A f \in Fields \ k.given : k.goods[f] = consignment[f],
         k.then = "accept" => k.floor = consignment.systemPrice,
         k.at # "create" /\ ~(k.at = "update" /\ NeedsPrice(k.given)),
         k.at = "accept" => k.price = k.floor
  PROVE  PricesInv'
<1>1. /\ quoter' \in [Quoters -> Quotes] /\ quoter'[c] = k
      /\ \A d \in Quoters \ {c} : quoter'[d] = quoter[d]
  BY QuoterMoves DEF PricesInv, QuoterStarts
<1>2. /\ rules' = rules /\ consignment' = consignment /\ edits' = edits /\ pricedFor' = pricedFor
      /\ rowCrossed' = rowCrossed /\ relocated' = relocated
      /\ quoted' = quoted + 1 /\ quoted < MaxQuoted
      /\ ruleMoved' = ruleMoved \ {c} /\ rowMoved' = rowMoved \ {c}
  BY DEF QuoterStarts
<1>3. PricesTyped'
  <2>1. quoted' \in 0..MaxQuoted
    BY <1>2, PricesAssumption DEF PricesInv, PricesTyped
  <2>2. QED
    BY <1>1, <1>2, <2>1 DEF PricesInv, PricesTyped, Created
<1>4. TasksSound'
  BY <1>1, <1>2 DEF PricesInv, TasksSound, Created
<1>5. ReadsSound'
  BY <1>1, <1>2 DEF PricesInv, ReadsSound
<1>6. QuotesSound'
  <2>1. k.price \in Int /\ k.floor \in Int
    BY DEF Quotes
  <2>2. rules' = rules
    BY <1>2
  <2>3. QED
    BY <1>1, <1>2, <2>1, <2>2, QuotesKept DEF PricesInv, QuotesSound, Repriced
<1>7. PriceFollowsGoods'
  BY <1>2 DEF PricesInv, PriceFollowsGoods, Created, GoodsOf
<1>8. QED
  BY <1>3, <1>4, <1>5, <1>6, <1>7 DEF PricesInv

LEMMA BeginCreateKeeps ==
  ASSUME PricesInv, NEW c \in Quoters, NEW g \in Goods, BeginCreate(c, g)
  PROVE  PricesInv'
<1> DEFINE k == [NoQuote EXCEPT !.at = "price", !.then = "create", !.goods = g]
<1>1. /\ k \in Quotes /\ k.at = "price" /\ k.then = "create" /\ k.goods = g
  <2>1. NoQuote \in Quotes
    BY NoQuoteTyped
  <2>2. QED
    BY <2>1 DEF Quotes
<1>2. QuoterStarts(c, k) /\ ~Created /\ \A d \in Quoters : quoter[d].at = "idle"
  BY DEF BeginCreate
<1> HIDE DEF k
<1>3. QED
  BY <1>1, <1>2, BeginKeeps

LEMMA BeginUpdateKeeps ==
  ASSUME PricesInv, NEW c \in Quoters, NEW g \in Goods, NEW given \in Given,
         BeginUpdate(c, given, g)
  PROVE  PricesInv'
<1> DEFINE k == [at |-> IF NeedsPrice(given) THEN "price" ELSE "update", then |-> "update",
                 goods |-> Merged(given, g), given |-> given,
                 price |-> consignment.systemPrice, floor |-> Nothing]
<1>1. QuoterStarts(c, k) /\ Created
  BY DEF BeginUpdate
<1>2. given \in SUBSET Fields
  BY PricesAssumption DEF Fields
<1>3. consignment \in ParcelRows
  BY <1>1, RowFields DEF PricesInv
<1>4. /\ Merged(given, g) \in Goods
      /\ \A f \in Fields \ given : Merged(given, g)[f] = consignment[f]
  <2>1. DOMAIN g = Fields
    BY DEF Goods, Fields
  <2>2. \A f \in Fields : Merged(given, g)[f] = IF f \in given THEN g[f] ELSE consignment[f]
    BY <2>1 DEF Merged
  <2>3. Merged(given, g) = [to |-> Merged(given, g).to, cargo |-> Merged(given, g).cargo,
                            kilos |-> Merged(given, g).kilos]
    BY <2>1 DEF Merged, Fields
  <2>4. /\ Merged(given, g).to \in Countries /\ Merged(given, g).cargo \in Cargos
        /\ Merged(given, g).kilos \in Kilos
    BY <1>3, <2>2 DEF Goods, ParcelRows, Fields
  <2>5. \A a \in Countries, b \in Cargos, n \in Kilos : [to |-> a, cargo |-> b, kilos |-> n] \in Goods
    BY DEF Goods
  <2>6. Merged(given, g) \in Goods
    BY <2>3, <2>4, <2>5
  <2>7. QED
    BY <2>2, <2>6
<1>5. k.at \in {"price", "update"} /\ (k.at = "update" => ~NeedsPrice(k.given))
  BY Zenon
<1>6. /\ k.then = "update" /\ k.goods = Merged(given, g) /\ k.given = given
  OBVIOUS
<1>7. k \in Quotes
  <2>1. consignment.systemPrice \in Int /\ Nothing \in Int
    BY <1>3 DEF ParcelRows, Nothing
  <2>2. k.at \in {"idle", "price", "create", "floor", "update", "accept"}
    BY <1>5
  <2>3. QED
    BY <1>2, <1>4, <2>1, <2>2 DEF Quotes
<1> HIDE DEF k
<1>8. QED
  BY <1>1, <1>4, <1>5, <1>6, <1>7, BeginKeeps

LEMMA BeginAcceptKeeps ==
  ASSUME PricesInv, NEW c \in Quoters, NEW offer \in Offers \cup {Nothing},
         BeginAcceptOffer(c, offer)
  PROVE  PricesInv'
<1> DEFINE k == [at |-> IF offer = Nothing THEN "accept" ELSE "floor", then |-> "accept",
                 goods |-> GoodsOf(consignment), given |-> {},
                 price |-> IF offer = Nothing THEN consignment.systemPrice ELSE offer,
                 floor |-> consignment.systemPrice]
<1>1. QuoterStarts(c, k) /\ Created
  BY DEF BeginAcceptOffer
<1>2. consignment \in ParcelRows /\ GoodsOf(consignment) \in Goods
  BY <1>1, RowFields DEF PricesInv
<1>3. /\ k.at \in {"accept", "floor"} /\ (k.at = "accept" => k.price = k.floor)
      /\ k.then = "accept" /\ k.goods = GoodsOf(consignment) /\ k.floor = consignment.systemPrice
  OBVIOUS
<1>4. k \in Quotes
  <2>1. consignment.systemPrice \in Int
    BY <1>2 DEF ParcelRows
  <2>2. k.price \in Int
    BY <2>1, PricesAssumption DEF Nothing
  <2>3. QED
    BY <1>2, <2>1, <2>2 DEF Quotes
<1> HIDE DEF k
<1>5. QED
  BY <1>1, <1>2, <1>3, <1>4, BeginKeeps

\* calculatePrice answers: the request carries a price of the rules in force.
LEMMA CalculatePriceKeeps ==
  ASSUME PricesInv, NEW c \in Quoters, CalculatePrice(c)
  PROVE  PricesInv'
<1>1. /\ rules' = rules /\ consignment' = consignment /\ edits' = edits /\ pricedFor' = pricedFor
      /\ rowCrossed' = rowCrossed /\ relocated' = relocated /\ quoted' = quoted
      /\ ruleMoved' = ruleMoved /\ rowMoved' = rowMoved /\ quoter[c].at = "price"
  BY DEF CalculatePrice
<1>2. PICK p \in PricesOf(quoter[c].goods) :
        QuoterGoes(c, [quoter[c] EXCEPT !.at = quoter[c].then, !.price = p])
  BY DEF CalculatePrice
<1>3. /\ quoter[c] \in Quotes /\ quoter[c].goods \in Goods
      /\ quoter[c].then \in {"create", "update"}
  BY <1>1 DEF PricesInv, PricesTyped, TasksSound
<1> DEFINE k == [quoter[c] EXCEPT !.at = quoter[c].then, !.price = p]
<1>4. p \in Int
  BY <1>3, PricesAreInts DEF PricesInv
<1>5. /\ k \in Quotes /\ k.at = quoter[c].then /\ k.price = p /\ k.then = quoter[c].then
      /\ k.goods = quoter[c].goods /\ k.given = quoter[c].given /\ k.floor = quoter[c].floor
  BY <1>3, <1>4 DEF Quotes
<1>6. QuoterGoes(c, k)
  BY <1>2
<1> HIDE DEF k
<1>7. /\ quoter' \in [Quoters -> Quotes] /\ quoter'[c] = k
      /\ \A d \in Quoters \ {c} : quoter'[d] = quoter[d]
  BY <1>5, <1>6, QuoterMoves DEF PricesInv
<1>8. PricesTyped'
  BY <1>1, <1>7 DEF PricesInv, PricesTyped, Created
<1>9. TasksSound'
  BY <1>1, <1>3, <1>5, <1>7 DEF PricesInv, TasksSound, Created
<1>10. ReadsSound'
  BY <1>1, <1>5, <1>7 DEF PricesInv, ReadsSound
<1>11. QuotesSound'
  BY <1>1, <1>2, <1>3, <1>5, <1>7, QuotesKept DEF PricesInv, QuotesSound, Repriced
<1>12. PriceFollowsGoods'
  BY <1>1 DEF PricesInv, PriceFollowsGoods, Created, GoodsOf
<1>13. QED
  BY <1>8, <1>9, <1>10, <1>11, <1>12 DEF PricesInv

\* A request stops; the rules and the row are as they were.
LEMMA StopKeeps ==
  ASSUME PricesInv, NEW c \in Quoters, QuoterStops(c), quoter[c].at # "idle",
         UNCHANGED <<rules, consignment, edits, quoted, pricedFor, ruleMoved, rowMoved, rowCrossed,
                     relocated>>
  PROVE  PricesInv'
<1>1. /\ rules' = rules /\ consignment' = consignment /\ edits' = edits /\ pricedFor' = pricedFor
      /\ rowCrossed' = rowCrossed /\ relocated' = relocated /\ quoted' = quoted
      /\ ruleMoved' = ruleMoved /\ rowMoved' = rowMoved
  OBVIOUS
<1>2. /\ quoter' \in [Quoters -> Quotes] /\ quoter'[c] = NoQuote
      /\ \A d \in Quoters \ {c} : quoter'[d] = quoter[d]
  BY NoQuoteTyped, QuoterMoves DEF PricesInv, QuoterStops
<1>3. PricesTyped'
  BY <1>1, <1>2 DEF PricesInv, PricesTyped, Created
<1>4. TasksSound' /\ ReadsSound'
  BY <1>1, <1>2, NoQuoteTyped DEF PricesInv, TasksSound, ReadsSound, Created
<1>5. QuotesSound'
  BY <1>1, <1>2, NoQuoteTyped, QuotesKept DEF PricesInv, QuotesSound, Repriced
<1>6. PriceFollowsGoods'
  BY <1>1 DEF PricesInv, PriceFollowsGoods, Created, GoodsOf
<1>7. QED
  BY <1>3, <1>4, <1>5, <1>6 DEF PricesInv

\* The offer is compared with a price of the rules in force and the system price read.
LEMMA CheckFloorKeeps ==
  ASSUME PricesInv, NEW c \in Quoters, CheckFloor(c)
  PROVE  PricesInv'
<1>1. /\ rules' = rules /\ consignment' = consignment /\ edits' = edits /\ pricedFor' = pricedFor
      /\ rowCrossed' = rowCrossed /\ relocated' = relocated /\ quoted' = quoted
      /\ ruleMoved' = ruleMoved /\ rowMoved' = rowMoved /\ quoter[c].at = "floor"
  BY DEF CheckFloor
<1>2. PICK p \in PricesOf(quoter[c].goods) :
        IF quoter[c].price < Floor(c, p) THEN QuoterStops(c)
        ELSE QuoterGoes(c, [quoter[c] EXCEPT !.at = "accept"])
  BY DEF CheckFloor
<1>3. CASE quoter[c].price < Floor(c, p)
  BY <1>1, <1>2, <1>3, StopKeeps
<1>4. CASE ~(quoter[c].price < Floor(c, p))
  <2>1. quoter[c] \in Quotes /\ quoter[c].goods \in Goods /\ quoter[c].then = "accept"
    BY <1>1 DEF PricesInv, PricesTyped, TasksSound
  <2>2. p \in Int /\ quoter[c].price \in Int /\ quoter[c].floor \in Int
    BY <2>1, PricesAreInts DEF PricesInv, Quotes
  <2>3. quoter[c].price >= p /\ quoter[c].price >= quoter[c].floor
    BY <1>4, <2>2 DEF Floor
  <2> DEFINE k == [quoter[c] EXCEPT !.at = "accept"]
  <2>4. /\ k \in Quotes /\ k.at = "accept" /\ k.price = quoter[c].price /\ k.then = "accept"
        /\ k.goods = quoter[c].goods /\ k.given = quoter[c].given /\ k.floor = quoter[c].floor
    BY <2>1 DEF Quotes
  <2>5. QuoterGoes(c, k)
    BY <1>2, <1>4
  <2> HIDE DEF k
  <2>6. /\ quoter' \in [Quoters -> Quotes] /\ quoter'[c] = k
        /\ \A d \in Quoters \ {c} : quoter'[d] = quoter[d]
    BY <2>4, <2>5, QuoterMoves DEF PricesInv
  <2>7. PricesTyped'
    BY <1>1, <2>6 DEF PricesInv, PricesTyped, Created
  <2>8. TasksSound' /\ ReadsSound'
    BY <1>1, <2>1, <2>4, <2>6 DEF PricesInv, TasksSound, ReadsSound, Created
  <2>9. QuotesSound'
    BY <1>1, <1>2, <2>3, <2>4, <2>6, QuotesKept DEF PricesInv, QuotesSound, Repriced
  <2>10. PriceFollowsGoods'
    BY <1>1 DEF PricesInv, PriceFollowsGoods, Created, GoodsOf
  <2>11. QED
    BY <2>7, <2>8, <2>9, <2>10 DEF PricesInv
<1>5. QED
  BY <1>3, <1>4

\* A request writes the row and stops: every other one under way has read another row.
LEMMA WriteKeeps ==
  ASSUME PricesInv, NEW c \in Quoters, quoter[c].at \notin {"idle", "price", "floor"},
         QuoterStops(c), RowWritten(c),
         rules' = rules, edits' = edits, quoted' = quoted, ruleMoved' = ruleMoved,
         consignment' \in ParcelRows, pricedFor' \in Goods, relocated' \in BOOLEAN,
         ~rowCrossed' /\ ~relocated' => pricedFor' = GoodsOf(consignment')
  PROVE  PricesInv'
<1>1. /\ quoter' \in [Quoters -> Quotes] /\ quoter'[c] = NoQuote
      /\ \A d \in Quoters \ {c} : quoter'[d] = quoter[d]
  BY NoQuoteTyped, QuoterMoves DEF PricesInv, QuoterStops
<1>2. rowMoved' = {d \in Quoters \ {c} : quoter[d].at # "idle"}
  BY DEF RowWritten
<1>3. rowCrossed' \in BOOLEAN
  BY Zenon DEF RowWritten
<1>4. Created'
  BY DEF Created, ParcelRows
<1>5. PricesTyped'
  BY <1>1, <1>2, <1>3 DEF PricesInv, PricesTyped
<1>6. TasksSound'
  <2>1. quoter[c].then = "create" => \A d \in Quoters \ {c} : quoter[d].at = "idle"
    BY DEF PricesInv, TasksSound
  <2>2. ASSUME NEW d \in Quoters \ {c}, quoter[d].at # "idle" PROVE quoter[d].then # "create"
    BY <2>2 DEF PricesInv, TasksSound
  <2>3. QED
    BY <1>1, <1>4, <2>2, NoQuoteTyped DEF PricesInv, TasksSound
<1>7. ReadsSound'
  BY <1>1, <1>2, NoQuoteTyped DEF ReadsSound
<1>8. QuotesSound'
  BY <1>1, NoQuoteTyped, QuotesKept DEF PricesInv, QuotesSound, Repriced
<1>9. PriceFollowsGoods'
  BY DEF PriceFollowsGoods, GoodsOf
<1>10. QED
  BY <1>5, <1>6, <1>7, <1>8, <1>9 DEF PricesInv

LEMMA CreateParcelKeeps ==
  ASSUME PricesInv, NEW c \in Quoters, CreateParcel(c)
  PROVE  PricesInv'
<1>1. /\ quoter[c] \in Quotes /\ quoter[c].goods \in Goods /\ quoter[c].at = "create"
  BY DEF PricesInv, PricesTyped, TasksSound, CreateParcel
<1>2. consignment' = [status |-> "PENDING", to |-> quoter[c].goods.to, cargo |-> quoter[c].goods.cargo,
                kilos |-> quoter[c].goods.kilos, systemPrice |-> quoter[c].price,
                agreedPrice |-> Nothing]
  BY DEF CreateParcel
<1>3. consignment' \in ParcelRows
  BY <1>1, <1>2 DEF ParcelRows, Quotes, Goods, Nothing
<1>4. GoodsOf(consignment') = quoter[c].goods /\ pricedFor' = quoter[c].goods
  BY <1>1, <1>2 DEF CreateParcel, GoodsOf, Goods
<1>5. /\ QuoterStops(c) /\ RowWritten(c) /\ rules' = rules /\ edits' = edits /\ quoted' = quoted
      /\ ruleMoved' = ruleMoved
  BY DEF CreateParcel
<1>6. relocated' \in BOOLEAN
  BY Zenon DEF CreateParcel, PricesInv, PricesTyped
<1>7. QED
  BY <1>1, <1>3, <1>4, <1>5, <1>6, WriteKeeps

\* A price written without the goods it was computed for takes a crossing or a relocation.
LEMMA WriteUpdateKeeps ==
  ASSUME PricesInv, NEW c \in Quoters, WriteUpdate(c)
  PROVE  PricesInv'
<1>1. /\ quoter[c] \in Quotes /\ quoter[c].goods \in Goods /\ quoter[c].at = "update"
      /\ quoter[c].then = "update" /\ Created
  BY DEF PricesInv, PricesTyped, TasksSound, WriteUpdate
<1>2. consignment \in ParcelRows /\ pricedFor \in Goods
  BY <1>1, RowFields DEF PricesInv, PricesTyped
<1>3. quoter[c].given \subseteq Fields
  BY <1>1 DEF Quotes
<1> DEFINE new == [f \in DOMAIN consignment |->
                     IF f \in quoter[c].given THEN quoter[c].goods[f]
                     ELSE IF f = "systemPrice" THEN quoter[c].price ELSE consignment[f]]
<1>4. consignment' = new
  BY DEF WriteUpdate
<1>5. DOMAIN consignment = {"status", "to", "cargo", "kilos", "systemPrice", "agreedPrice"}
  BY <1>2 DEF ParcelRows
<1>6. /\ new.status = consignment.status /\ new.agreedPrice = consignment.agreedPrice
      /\ new.systemPrice = quoter[c].price
      /\ \A f \in Fields : new[f] = IF f \in quoter[c].given THEN quoter[c].goods[f] ELSE consignment[f]
  BY <1>3, <1>5 DEF Fields
<1>7. new = [status |-> new.status, to |-> new.to, cargo |-> new.cargo, kilos |-> new.kilos,
             systemPrice |-> new.systemPrice, agreedPrice |-> new.agreedPrice]
  BY <1>5
<1> HIDE DEF new
<1>8. new.to \in Countries /\ new.cargo \in Cargos /\ new.kilos \in Kilos
  BY <1>1, <1>2, <1>6 DEF ParcelRows, Goods, Fields
<1>9. new.status \in {"PENDING", "MATCHED", "ACCEPTED"} /\ new.systemPrice \in Int /\ new.agreedPrice \in Int
  BY <1>1, <1>2, <1>6 DEF ParcelRows, Quotes
<1>10. \A st \in {"PENDING", "MATCHED", "ACCEPTED"}, a \in Countries, b \in Cargos, n \in Kilos,
          x \in Int, y \in Int :
          [status |-> st, to |-> a, cargo |-> b, kilos |-> n, systemPrice |-> x, agreedPrice |-> y]
            \in ParcelRows
  BY DEF ParcelRows
<1>11. consignment' \in ParcelRows
  BY <1>4, <1>7, <1>8, <1>9, <1>10
<1>12. pricedFor' \in Goods
  BY <1>1, <1>2 DEF WriteUpdate
<1>13. relocated' \in BOOLEAN
  BY Zenon DEF WriteUpdate
<1>14. ASSUME ~rowCrossed', ~relocated' PROVE pricedFor' = GoodsOf(consignment')
  <2>1. c \notin rowMoved /\ ~rowCrossed
    BY <1>14, Zenon DEF WriteUpdate, RowWritten
  <2>2. \A f \in Fields \ quoter[c].given : quoter[c].goods[f] = consignment[f]
    BY <1>1, <2>1 DEF PricesInv, ReadsSound
  <2>3. CASE NeedsPrice(quoter[c].given)
    <3>1. \A f \in Fields : new[f] = quoter[c].goods[f]
      BY <1>6, <2>2
    <3>2. GoodsOf(new) = quoter[c].goods
      BY <1>1, <3>1 DEF GoodsOf, Goods, Fields
    <3>3. pricedFor' = quoter[c].goods
      BY <2>3 DEF WriteUpdate
    <3>4. QED
      BY <1>4, <3>2, <3>3
  <2>4. CASE ~NeedsPrice(quoter[c].given)
    <3>1. ~relocated /\ quoter[c].given # {"to"}
      BY <1>14, <2>4, Zenon DEF WriteUpdate
    <3>2. quoter[c].given = {}
      BY <1>3, <2>4, <3>1 DEF NeedsPrice, Fields
    <3>3. \A f \in Fields : new[f] = consignment[f]
      BY <1>6, <3>2
    <3>4. pricedFor' = pricedFor
      BY <2>4 DEF WriteUpdate
    <3>5. pricedFor = GoodsOf(consignment)
      BY <1>1, <2>1, <3>1 DEF PricesInv, PriceFollowsGoods
    <3>6. GoodsOf(new) = GoodsOf(consignment)
      BY <3>3 DEF GoodsOf, Fields
    <3>7. QED
      BY <1>4, <3>4, <3>5, <3>6
  <2>5. QED
    BY <2>3, <2>4
<1>15. /\ QuoterStops(c) /\ RowWritten(c) /\ rules' = rules /\ edits' = edits /\ quoted' = quoted
       /\ ruleMoved' = ruleMoved
  BY DEF WriteUpdate
<1>16. QED
  BY <1>1, <1>11, <1>12, <1>13, <1>14, <1>15, WriteKeeps

LEMMA AcceptPriceKeeps ==
  ASSUME PricesInv, NEW c \in Quoters, AcceptPrice(c)
  PROVE  PricesInv'
<1>1. /\ quoter[c] \in Quotes /\ quoter[c].at = "accept" /\ Created
  BY DEF PricesInv, PricesTyped, TasksSound, AcceptPrice
<1>2. consignment \in ParcelRows /\ pricedFor \in Goods
  BY <1>1, RowFields DEF PricesInv, PricesTyped
<1>3. consignment' = [consignment EXCEPT !.status = "ACCEPTED", !.agreedPrice = quoter[c].price]
  BY DEF AcceptPrice
<1>4. consignment' \in ParcelRows /\ GoodsOf(consignment') = GoodsOf(consignment)
  BY <1>1, <1>2, <1>3 DEF ParcelRows, Quotes, GoodsOf
<1>5. /\ QuoterStops(c) /\ RowWritten(c) /\ rules' = rules /\ edits' = edits /\ quoted' = quoted
      /\ ruleMoved' = ruleMoved /\ pricedFor' = pricedFor
  BY DEF AcceptPrice
<1>6. relocated' \in BOOLEAN /\ (~relocated' => ~relocated)
  BY Zenon DEF AcceptPrice, PricesInv, PricesTyped
<1>7. ~rowCrossed' => ~rowCrossed
  BY Zenon DEF AcceptPrice, RowWritten
<1>8. ~rowCrossed' /\ ~relocated' => pricedFor' = GoodsOf(consignment')
  BY <1>1, <1>4, <1>5, <1>6, <1>7 DEF PricesInv, PriceFollowsGoods
<1>9. QED
  BY <1>1, <1>2, <1>4, <1>5, <1>6, <1>8, WriteKeeps

LEMMA MatchParcelKeeps ==
  ASSUME PricesInv, MatchParcel
  PROVE  PricesInv'
<1>1. consignment \in ParcelRows /\ pricedFor \in Goods /\ Created
  BY RowFields DEF PricesInv, PricesTyped, MatchParcel
<1>2. consignment' = [consignment EXCEPT !.status = IF @ = "PENDING" THEN "MATCHED" ELSE "PENDING"]
  BY DEF MatchParcel
<1>3. /\ consignment' \in ParcelRows /\ consignment'.systemPrice = consignment.systemPrice
      /\ \A f \in Fields : consignment'[f] = consignment[f]
  BY <1>1, <1>2 DEF ParcelRows, Fields
<1>4. GoodsOf(consignment') = GoodsOf(consignment) /\ Created'
  BY <1>3 DEF GoodsOf, Fields, Created, ParcelRows
<1>5. /\ rules' = rules /\ quoter' = quoter /\ edits' = edits /\ quoted' = quoted
      /\ pricedFor' = pricedFor /\ ruleMoved' = ruleMoved /\ rowMoved' = rowMoved
      /\ rowCrossed' = rowCrossed /\ relocated' = relocated
  BY DEF MatchParcel
<1>6. PricesTyped'
  BY <1>1, <1>3, <1>5 DEF PricesInv, PricesTyped
<1>7. TasksSound'
  BY <1>1, <1>4, <1>5 DEF PricesInv, TasksSound
<1>8. ReadsSound'
  BY <1>3, <1>5 DEF PricesInv, ReadsSound
<1>9. QuotesSound'
  BY <1>5, QuotesKept DEF PricesInv, QuotesSound, Repriced
<1>10. PriceFollowsGoods'
  BY <1>1, <1>4, <1>5 DEF PricesInv, PriceFollowsGoods, GoodsOf
<1>11. QED
  BY <1>6, <1>7, <1>8, <1>9, <1>10 DEF PricesInv

LEMMA PricesStutter ==
  ASSUME PricesInv, UNCHANGED priceVars
  PROVE  PricesInv'
<1>1. /\ rules' = rules /\ quoter' = quoter /\ edits' = edits /\ quoted' = quoted
      /\ pricedFor' = pricedFor /\ ruleMoved' = ruleMoved /\ rowMoved' = rowMoved
      /\ rowCrossed' = rowCrossed /\ relocated' = relocated /\ consignment' = consignment
  BY DEF priceVars
<1>2. PricesTyped' /\ TasksSound' /\ ReadsSound'
  BY <1>1 DEF PricesInv, PricesTyped, TasksSound, ReadsSound, Created
<1>3. QuotesSound'
  BY <1>1, QuotesKept DEF PricesInv, QuotesSound, Repriced
<1>4. PriceFollowsGoods'
  BY <1>1 DEF PricesInv, PriceFollowsGoods, GoodsOf, Created
<1>5. QED
  BY <1>2, <1>3, <1>4 DEF PricesInv

LEMMA PricesStep == PricesInv /\ [PricesNext]_priceVars => PricesInv'
<1> SUFFICES ASSUME PricesInv, [PricesNext]_priceVars PROVE PricesInv'
  OBVIOUS
<1>1. CASE \E i \in RuleIds, r \in RuleInputs : SaveRule(i, r)
  BY <1>1, SaveRuleKeeps, Zenon
<1>2. CASE \E c \in Quoters, g \in Goods :
             \/ BeginCreate(c, g)
             \/ \E given \in Given : BeginUpdate(c, given, g)
  BY <1>2, BeginCreateKeeps, BeginUpdateKeeps, Zenon
<1>3. CASE \E c \in Quoters, offer \in Offers \cup {Nothing} : BeginAcceptOffer(c, offer)
  BY <1>3, BeginAcceptKeeps, Zenon
<1>4. CASE \E c \in Quoters : \/ CalculatePrice(c) \/ CreateParcel(c) \/ WriteUpdate(c)
                             \/ CheckFloor(c) \/ AcceptPrice(c)
  BY <1>4, CalculatePriceKeeps, CreateParcelKeeps, WriteUpdateKeeps, CheckFloorKeeps,
     AcceptPriceKeeps, Zenon
<1>5. CASE MatchParcel
  BY <1>5, MatchParcelKeeps, Zenon
<1>6. CASE UNCHANGED priceVars
  BY <1>6, PricesStutter, Zenon
<1>7. QED
  BY <1>1, <1>2, <1>3, <1>4, <1>5, <1>6, Zenon DEF PricesNext

\* The invariant of prices: rows, requests, what they read and the prices they carry.
THEOREM PricesInvariant == PricesSpec => []PricesInv
BY PricesStart, PricesStep, PTL DEF PricesSpec

\* Rules, the row and the requests keep their types, whatever administrators submit.
THEOREM PricesTypeCorrect == PricesSpec => []PricesTypeOK
<1>1. PricesInv => PricesTypeOK
  <2> SUFFICES ASSUME PricesInv PROVE PricesTypeOK
    OBVIOUS
  <2>1. Created => /\ GoodsOf(consignment) \in Goods /\ pricedFor \in Goods
                   /\ consignment \in ParcelRows
    BY RowFields DEF PricesInv, PricesTyped
  <2>2. \A c \in Quoters : quoter[c] \in Quotes
    BY DEF PricesInv, PricesTyped
  <2>3. QED
    BY <2>1, <2>2 DEF PricesInv, PricesTyped, PricesTypeOK, ParcelRows, Quotes
<1>2. QED
  BY <1>1, PricesInvariant, PTL

\* The system price in the row was computed for the goods in the row, unless two
\* requests crossed or the destination alone was changed.
THEOREM PricesFollowGoods == PricesSpec => []PriceFollowsGoods
<1>1. PricesInv => PriceFollowsGoods
  BY DEF PricesInv
<1>2. QED
  BY <1>1, PricesInvariant, PTL

\* Rounding up to whole thousands.
LEMMA Ceiling ==
  ASSUME NEW n \in Int
  PROVE  CeilTo(1000, n) \in Int /\ CeilTo(1000, n) % 1000 = 0 /\ CeilTo(1000, n) - n \in 0..999
<1>1. (n + 1000 - 1) \div 1000 \in Int
  OBVIOUS
<1>2. PICK q \in Int : q = (n + 1000 - 1) \div 1000
  BY <1>1
<1>3. q * 1000 - n \in 0..999
  BY <1>2
<1>4. (q * 1000) % 1000 = 0
  OBVIOUS
<1>5. QED
  BY <1>2, <1>3, <1>4 DEF CeilTo

\* A larger amount has a price that is not lower.
LEMMA CeilingGrows ==
  ASSUME NEW m \in Int, NEW n \in Int, m <= n
  PROVE  CeilTo(1000, m) <= CeilTo(1000, n)
<1>1. (m + 1000 - 1) \div 1000 <= (n + 1000 - 1) \div 1000
  OBVIOUS
<1>2. QED
  BY <1>1 DEF CeilTo

LEMMA AmountsAreInts ==
  ASSUME PricesTyped, NEW g \in Goods, NEW r \in Applicable(g)
  PROVE  /\ Amount(r, g) \in Int /\ Amount(r, g) * r.risk \in Int
         /\ Route(g) \in {10, 15} /\ Amount(r, g) * r.risk * Route(g) \in Int
         /\ Exact(r, g) \in Int
<1>1. g.kilos \in Int
  BY KilosAreNumbers DEF Goods
<1>2. Amount(r, g) \in Int
  BY <1>1, RulesApplicable DEF Amount
<1>3. Amount(r, g) * r.risk \in Int
  BY <1>2, RulesApplicable
<1>4. Route(g) \in {10, 15}
  BY DEF Route
<1>5. Amount(r, g) * r.risk * Route(g) \in Int
  BY <1>3, <1>4
<1>6. Exact(r, g) \in Int
  BY <1>5 DEF Exact
<1>7. QED
  BY <1>2, <1>3, <1>4, <1>5, <1>6

\* A kilo more is a rial more, before the rounding.
LEMMA HeavierCostsMore ==
  ASSUME PricesTyped, \A s \in RuleInputs : s.risk > 0,
         NEW g \in Goods, NEW r \in Applicable(g), NEW h \in Goods,
         h = [g EXCEPT !.kilos = h.kilos], h.kilos > g.kilos
  PROVE  Exact(r, h) \in Int /\ Exact(r, h) >= Exact(r, g) + 1
<1>1. /\ r.base \in Int /\ r.perKilo \in Int /\ r.risk \in Int
      /\ r.perKilo >= 10000 /\ r.risk >= 1
  BY RulesApplicable
<1>2. /\ Amount(r, g) \in Int /\ Amount(r, g) * r.risk \in Int /\ Route(g) \in {10, 15}
      /\ Amount(r, g) * r.risk * Route(g) \in Int /\ Exact(r, g) \in Int
  BY AmountsAreInts
<1>3. g.kilos \in Int /\ h.kilos \in Int
  BY KilosAreNumbers DEF Goods
<1>4. Route(h) = Route(g)
  BY DEF Route, Goods
<1>5. PICK d \in Nat : h.kilos = g.kilos + d /\ d >= 1
  <2>1. h.kilos - g.kilos \in Nat /\ h.kilos - g.kilos >= 1
    BY <1>3
  <2>2. h.kilos = g.kilos + (h.kilos - g.kilos)
    BY <1>3
  <2>3. QED
    BY <2>1, <2>2
<1>6. PICK e \in Int : e = r.perKilo * d /\ e >= 10000
  <2>1. \A a \in Int, b \in Int : a >= 10000 /\ b >= 1 => a * b \in Int /\ a * b >= 10000
    OBVIOUS
  <2>2. d \in Int
    BY <1>5
  <2>3. r.perKilo * d \in Int /\ r.perKilo * d >= 10000
    BY <1>1, <1>5, <2>1, <2>2
  <2>4. QED
    BY <2>3
<1>7. Amount(r, h) = Amount(r, g) + e
  <2>1. \A a \in Int, b \in Int, k \in Int : a * (b + k) = a * b + a * k
    OBVIOUS
  <2>2. r.perKilo * h.kilos = r.perKilo * g.kilos + e
    BY <1>1, <1>3, <1>5, <1>6, <2>1
  <2>3. r.perKilo * g.kilos \in Int
    BY <1>1, <1>3
  <2>4. QED
    BY <1>1, <1>6, <2>2, <2>3 DEF Amount
<1>8. Amount(r, h) * r.risk >= Amount(r, g) * r.risk + 10000 /\ Amount(r, h) * r.risk \in Int
  <2>1. \A a \in Int, b \in Int, k \in Int : (a + b) * k = a * k + b * k
    OBVIOUS
  <2>2. \A a \in Int, b \in Int : a >= 10000 /\ b >= 1 => a * b \in Int /\ a * b >= 10000
    OBVIOUS
  <2>3. Amount(r, h) * r.risk = Amount(r, g) * r.risk + e * r.risk
    BY <1>1, <1>2, <1>6, <1>7, <2>1
  <2>4. e * r.risk \in Int /\ e * r.risk >= 10000
    BY <1>1, <1>6, <2>2
  <2>5. QED
    BY <1>2, <2>3, <2>4
<1>9. \A a \in Int, b \in Int, k \in {10, 15} :
         b >= a + 10000 => (b * k + 99) \div 100 >= (a * k + 99) \div 100 + 1
  OBVIOUS
<1>10. (Amount(r, h) * r.risk * Route(h) + 99) \div 100
         >= (Amount(r, g) * r.risk * Route(g) + 99) \div 100 + 1
  BY <1>2, <1>4, <1>8, <1>9
<1>11. (Amount(r, h) * r.risk * Route(h) + 99) \div 100 \in Int
  BY <1>2, <1>4, <1>8
<1>12. QED
  BY <1>10, <1>11 DEF Exact

\* Each conjunct of PricesRoundUp, for one rule.
LEMMA OneRuleRoundsUp ==
  ASSUME PricesTyped, NEW g \in Goods, NEW r \in Applicable(g)
  PROVE  /\ BasePrice(r, g) \in Int /\ BasePrice(r, g) % 1000 = 0
         /\ BasePrice(r, g) - Exact(r, g) \in 0..1000
         /\ PlatformFee(r, BasePrice(r, g)) >= r.minFee
<1>1. PICK n \in {Exact(r, g), Exact(r, g) + 1} : BasePrice(r, g) = CeilTo(1000, n)
  <2>1. CASE <<Amount(r, g), r.risk, Route(g)>> \in Drifts
    BY <2>1 DEF BasePrice
  <2>2. CASE <<Amount(r, g), r.risk, Route(g)>> \notin Drifts
    <3>1. Exact(r, g) + 0 = Exact(r, g)
      BY AmountsAreInts
    <3>2. BasePrice(r, g) = CeilTo(1000, Exact(r, g))
      BY <2>2, <3>1 DEF BasePrice
    <3>3. QED
      BY <3>2
  <2>3. QED
    BY <2>1, <2>2
<1>2. Exact(r, g) \in Int /\ n \in Int
  BY <1>1, AmountsAreInts
<1>3. CeilTo(1000, n) \in Int /\ CeilTo(1000, n) % 1000 = 0 /\ CeilTo(1000, n) - n \in 0..999
  BY <1>2, Ceiling
<1>4. BasePrice(r, g) - Exact(r, g) \in 0..1000
  <2> DEFINE e == Exact(r, g)
             c == CeilTo(1000, n)
  <2>1. e \in Int /\ n \in Int /\ c \in Int /\ c - n \in 0..999
    BY <1>2, <1>3
  <2>2. n = e \/ n = e + 1
    BY <1>1
  <2> HIDE DEF e, c
  <2>3. c - e \in 0..1000
    BY <2>1, <2>2
  <2>4. QED
    BY <1>1, <2>3 DEF e, c
<1>5. PlatformFee(r, BasePrice(r, g)) >= r.minFee
  <2>1. r.feePercent \in Int /\ r.minFee \in Int /\ BasePrice(r, g) \in Int
    BY <1>1, <1>3, RulesApplicable
  <2>2. BasePrice(r, g) * r.feePercent \in Int
    BY <2>1
  <2>3. (BasePrice(r, g) * r.feePercent + 50) \div 100 \in Int
    BY <2>2
  <2>4. QED
    BY <2>1, <2>3 DEF PlatformFee
<1>6. QED
  BY <1>1, <1>3, <1>4, <1>5

LEMMA HeavierIsNotCheaper ==
  ASSUME PricesTyped, \A s \in RuleInputs : s.risk > 0,
         NEW g \in Goods, NEW r \in Applicable(g), NEW h \in Goods,
         h = [g EXCEPT !.kilos = h.kilos], h.kilos > g.kilos
  PROVE  BasePrice(r, h) >= BasePrice(r, g)
<1> DEFINE m == Exact(r, g) + (IF <<Amount(r, g), r.risk, Route(g)>> \in Drifts THEN 1 ELSE 0)
           n == Exact(r, h) + (IF <<Amount(r, h), r.risk, Route(h)>> \in Drifts THEN 1 ELSE 0)
<1>1. Exact(r, g) \in Int /\ Exact(r, h) \in Int /\ Exact(r, h) >= Exact(r, g) + 1
  BY AmountsAreInts, HeavierCostsMore
<1>2. m \in Int /\ n \in Int /\ m <= Exact(r, g) + 1 /\ n >= Exact(r, h)
  BY <1>1
<1>3. BasePrice(r, g) = CeilTo(1000, m) /\ BasePrice(r, h) = CeilTo(1000, n)
  BY DEF BasePrice
<1> HIDE DEF m, n
<1>4. m <= n
  BY <1>1, <1>2
<1>5. CeilTo(1000, m) <= CeilTo(1000, n) /\ CeilTo(1000, m) \in Int /\ CeilTo(1000, n) \in Int
  BY <1>2, <1>4, CeilingGrows, Ceiling
<1>6. QED
  BY <1>3, <1>5

\* With positive risk multipliers, prices are the exact product rounded up to a
\* thousand, heavier parcels are not cheaper and the fee has its minimum.  The code
\* puts no minimum on the multiplier that an administrator submits.
THEOREM PricesStaySound ==
  ASSUME \A s \in RuleInputs : s.risk > 0
  PROVE  PricesSpec => []PricesSound
<1>1. PricesInv => PricesSound
  <2>1. ASSUME PricesInv PROVE PricesRoundUp
    <3> SUFFICES ASSUME NEW g \in Goods, NEW r \in Applicable(g)
                 PROVE  /\ BasePrice(r, g) % 1000 = 0
                        /\ BasePrice(r, g) - Exact(r, g) \in 0..1000
                        /\ \A h \in Goods : h = [g EXCEPT !.kilos = h.kilos] /\ h.kilos > g.kilos
                                              => BasePrice(r, h) >= BasePrice(r, g)
                        /\ PlatformFee(r, BasePrice(r, g)) >= r.minFee
      BY DEF PricesRoundUp
    <3>1. PricesTyped
      BY <2>1 DEF PricesInv
    <3>2. QED
      BY <3>1, OneRuleRoundsUp, HeavierIsNotCheaper
  <2>2. QED
    BY <2>1 DEF PricesInv, PricesSound
<1>2. QED
  BY <1>1, PricesInvariant, PTL

LEMMA InForceStep ==
  ASSUME PricesInv, [PricesNext]_priceVars, NEW c \in Quoters
  PROVE  /\ Repriced(c) /\ quoter'[c].at = "idle" /\ c \notin ruleMoved
              => consignment'.systemPrice \in PricesOf(quoter[c].goods)
         /\ Accepts(c) /\ c \notin rowMoved => consignment'.agreedPrice >= consignment.systemPrice
         /\ Accepts(c) /\ c \notin ruleMoved /\ consignment'.agreedPrice # quoter[c].floor
              => \E p \in PricesOf(quoter[c].goods) : consignment'.agreedPrice >= p
<1> SUFFICES ASSUME quoter[c].at \in {"create", "update", "accept"}, quoter'[c].at = "idle"
             PROVE  /\ Repriced(c) /\ c \notin ruleMoved
                         => consignment'.systemPrice \in PricesOf(quoter[c].goods)
                    /\ quoter[c].at = "accept" /\ c \notin rowMoved
                         => consignment'.agreedPrice >= consignment.systemPrice
                    /\ quoter[c].at = "accept" /\ c \notin ruleMoved
                       /\ consignment'.agreedPrice # quoter[c].floor
                         => \E p \in PricesOf(quoter[c].goods) : consignment'.agreedPrice >= p
  BY DEF Repriced, Accepts
<1>1. quoter \in [Quoters -> Quotes]
  BY DEF PricesInv, PricesTyped
<1>2. \A d \in Quoters : \A k : QuoterGoes(d, k) => \A e \in Quoters \ {d} : quoter'[e] = quoter[e]
  BY <1>1 DEF QuoterGoes
<1>3. CreateParcel(c) \/ WriteUpdate(c) \/ AcceptPrice(c)
  <2>1. CASE \E i \in RuleIds, r \in RuleInputs : SaveRule(i, r)
    BY <2>1 DEF SaveRule
  <2>2. CASE \E d \in Quoters : \E k : QuoterStarts(d, k)
    BY <1>2, <2>2 DEF QuoterStarts
  <2>3. CASE \E d \in Quoters, g \in Goods :
               \/ BeginCreate(d, g)
               \/ \E given \in Given : BeginUpdate(d, given, g)
    BY <2>2, <2>3, Zenon DEF BeginCreate, BeginUpdate
  <2>4. CASE \E d \in Quoters, offer \in Offers \cup {Nothing} : BeginAcceptOffer(d, offer)
    BY <2>2, <2>4, Zenon DEF BeginAcceptOffer
  <2>5. CASE \E d \in Quoters : CalculatePrice(d) \/ CheckFloor(d)
    <3>1. PICK d \in Quoters : CalculatePrice(d) \/ CheckFloor(d)
      BY <2>5
    <3>2. d # c
      BY <3>1 DEF CalculatePrice, CheckFloor
    <3>3. \E k : QuoterGoes(d, k)
      BY <3>1, Zenon DEF CalculatePrice, CheckFloor, QuoterStops
    <3>4. QED
      BY <1>2, <3>2, <3>3
  <2>6. CASE \E d \in Quoters : CreateParcel(d) \/ WriteUpdate(d) \/ AcceptPrice(d)
    <3>1. PICK d \in Quoters : CreateParcel(d) \/ WriteUpdate(d) \/ AcceptPrice(d)
      BY <2>6
    <3>2. \E k : QuoterGoes(d, k)
      BY <3>1, Zenon DEF CreateParcel, WriteUpdate, AcceptPrice, QuoterStops
    <3>3. d = c
      BY <1>2, <3>2
    <3>4. QED
      BY <3>1, <3>3
  <2>7. CASE MatchParcel
    BY <2>7 DEF MatchParcel
  <2>8. CASE UNCHANGED priceVars
    BY <2>8 DEF priceVars
  <2>9. QED
    BY <2>1, <2>3, <2>4, <2>5, <2>6, <2>7, <2>8, Zenon DEF PricesNext
<1>4. /\ Repriced(c) /\ c \notin ruleMoved => quoter[c].price \in PricesOf(quoter[c].goods)
      /\ quoter[c].at = "accept" => quoter[c].price >= quoter[c].floor
      /\ quoter[c].at = "accept" /\ c \notin ruleMoved /\ quoter[c].price # quoter[c].floor
           => \E p \in PricesOf(quoter[c].goods) : quoter[c].price >= p
  BY DEF PricesInv, QuotesSound
<1>5. CASE CreateParcel(c)
  <2>1. consignment'.systemPrice = quoter[c].price /\ quoter[c].at = "create"
    BY <1>5 DEF CreateParcel
  <2>2. QED
    BY <1>4, <2>1
<1>6. CASE WriteUpdate(c)
  <2>1. quoter[c].at = "update" /\ quoter[c] \in Quotes /\ Created
    BY <1>1, <1>6 DEF WriteUpdate, PricesInv, TasksSound
  <2>2. consignment \in ParcelRows /\ "systemPrice" \notin quoter[c].given
    BY <2>1, RowFields DEF PricesInv, Quotes, Fields
  <2>3. consignment'.systemPrice = quoter[c].price
    BY <1>6, <2>2 DEF WriteUpdate, ParcelRows
  <2>4. QED
    BY <1>4, <2>1, <2>3
<1>7. CASE AcceptPrice(c)
  <2>1. quoter[c].at = "accept" /\ quoter[c] \in Quotes /\ Created /\ quoter[c].then = "accept"
    BY <1>1, <1>7 DEF AcceptPrice, PricesInv, TasksSound
  <2>2. consignment \in ParcelRows
    BY <2>1, RowFields DEF PricesInv
  <2>3. consignment'.agreedPrice = quoter[c].price
    BY <1>7, <2>2 DEF AcceptPrice, ParcelRows
  <2>4. c \notin rowMoved => quoter[c].floor = consignment.systemPrice
    BY <2>1 DEF PricesInv, ReadsSound
  <2>5. QED
    BY <1>4, <2>1, <2>3, <2>4 DEF Repriced
<1>8. QED
  BY <1>3, <1>5, <1>6, <1>7

\* A stored price is one that the rules gave while the request was under way, and an
\* accepted one is not below the floor that was checked (PricesInForce).
THEOREM PricesStayInForce == PricesSpec => PricesInForce
<1>1. PricesInv /\ [PricesNext]_priceVars
        => [\A c \in Quoters :
             /\ Repriced(c) /\ quoter'[c].at = "idle" /\ c \notin ruleMoved
                  => consignment'.systemPrice \in PricesOf(quoter[c].goods)
             /\ Accepts(c) /\ c \notin rowMoved => consignment'.agreedPrice >= consignment.systemPrice
             /\ Accepts(c) /\ c \notin ruleMoved /\ consignment'.agreedPrice # quoter[c].floor
                  => \E p \in PricesOf(quoter[c].goods) : consignment'.agreedPrice >= p]_priceVars
  BY InForceStep, Zenon
<1>2. QED
  BY <1>1, PricesInvariant, PTL DEF PricesSpec, PricesInForce

(***************************************************************************)
(* Chat                                                                    *)
(***************************************************************************)

Messages == [from: Parties, read: BOOLEAN, excused: BOOLEAN]

ChatCalls == [pc: {"idle", "event", "insert", "page", "mark", "contact"},
              action: {"ALLOW", "MASK", "BLOCK"}, page: SUBSET Nat]

\* Messages on their way whose details are blacked out; their event is recorded.
Masked == {c \in ChatCallers : chatCall[c].pc = "insert" /\ chatCall[c].action = "MASK"}

\* What a reader who is about to mark was not given is excused.
PagesSound ==
  \A c \in ChatCallers : At(c, "mark") =>
    \A i \in Indexes : \/ messages[i].from = PartyOf[c] \/ i \in chatCall[c].page
                       \/ messages[i].excused

\* The copy of the shipment that a request acts on came from a state it was in.
CopiesSound ==
  /\ onShipment.status \in Secured => onShipment.status \in onShipment.was
  /\ \A c \in ChatCallers :
       /\ chatCall[c].action = "MASK" => onShipment.was # {}
       /\ At(c, "contact") => "PAID" \in onShipment.was
       /\ chatCall[c].page \subseteq Indexes

EventsRecorded ==
  /\ IsFiniteSet(Masked)
  /\ refused + blackedOut + Cardinality(Masked) <= trustEvents

ClosedSound ==
  /\ IsFiniteSet(Sends)
  /\ chatOpen => late = 0
  /\ ~chatOpen => late + Cardinality(Sends) <= underWay

ChatTyped ==
  /\ chatOpen \in BOOLEAN /\ revealed \in BOOLEAN
  /\ onShipment \in
       [status: {"PENDING", "MATCHED", "DISPUTED", "CANCELLED"} \cup Secured,
        carrier: BOOLEAN, was: SUBSET Secured, closing: {"none", "cancel", "reject"}]
  /\ messages \in Seq(Messages) /\ Len(messages) <= MaxMessages
  /\ chatCall \in [ChatCallers -> ChatCalls]
  /\ blackedOut \in Nat /\ late \in Nat /\ trustEvents \in Nat
  /\ refused \in Nat /\ underWay \in Nat

ChatInv ==
  /\ ChatTyped
  /\ ReadMeansShown /\ PagesSound
  /\ CopiesSound
  /\ blackedOut > 0 => onShipment.was # {}
  /\ revealed => "PAID" \in onShipment.was
  /\ EventsRecorded
  /\ ClosedSound

LEMMA NoCallTyped ==
  /\ NoChatCall \in ChatCalls /\ NoChatCall.pc = "idle" /\ NoChatCall.action = "ALLOW"
  /\ NoChatCall.page = {}
BY DEF NoChatCall, ChatCalls

LEMMA ChatStarts == ChatInit => ChatInv
<1> SUFFICES ASSUME ChatInit PROVE ChatInv
  OBVIOUS
<1>1. chatCall \in [ChatCallers -> ChatCalls] /\ \A c \in ChatCallers : chatCall[c] = NoChatCall
  BY NoCallTyped DEF ChatInit
<1>2. Masked = {} /\ Sends = {}
  BY <1>1, NoCallTyped DEF Masked, Sends
<1>3. /\ IsFiniteSet(Masked) /\ Cardinality(Masked) = 0
      /\ IsFiniteSet(Sends) /\ Cardinality(Sends) = 0
  BY <1>2, FS_EmptySet
<1>4. messages \in Seq(Messages) /\ Len(messages) = 0 /\ Indexes = {}
  BY DEF ChatInit, Indexes
<1>5. chatOpen = TRUE /\ revealed = FALSE
  BY DEF ChatInit
<1>6. chatOpen \in BOOLEAN /\ revealed \in BOOLEAN /\ (chatOpen <=> TRUE) /\ (revealed <=> FALSE)
  BY <1>5, Zenon
<1>7. ChatTyped
  BY <1>1, <1>4, <1>6, ChatAssumption DEF ChatInit, ChatTyped, Secured
<1>8. ReadMeansShown /\ PagesSound
  BY <1>4 DEF ReadMeansShown, PagesSound
<1>9. CopiesSound
  BY <1>1, NoCallTyped DEF CopiesSound, ChatInit, Secured, At
<1>10. EventsRecorded /\ ClosedSound
  BY <1>3, <1>6 DEF EventsRecorded, ClosedSound, ChatInit
<1>11. QED
  BY <1>6, <1>7, <1>8, <1>9, <1>10 DEF ChatInv, ChatInit

LEMMA SetsCounted ==
  ASSUME ChatInv
  PROVE  /\ IsFiniteSet(Masked) /\ Cardinality(Masked) \in Nat
         /\ IsFiniteSet(Sends) /\ Cardinality(Sends) \in Nat
BY FS_CardinalityType DEF ChatInv, EventsRecorded, ClosedSound

\* A call moves.
LEMMA CallMoves ==
  ASSUME ChatInv, NEW c \in ChatCallers, NEW k \in ChatCalls,
         chatCall' = [chatCall EXCEPT ![c] = k]
  PROVE  /\ chatCall' \in [ChatCallers -> ChatCalls] /\ chatCall'[c] = k
         /\ \A d \in ChatCallers \ {c} : chatCall'[d] = chatCall[d]
         /\ IsFiniteSet(Masked') /\ Cardinality(Masked') \in Nat
         /\ IsFiniteSet(Sends') /\ Cardinality(Sends') \in Nat
         /\ Cardinality(Masked') <= Cardinality(Masked) + 1
         /\ ~(k.pc = "insert" /\ k.action = "MASK") => Cardinality(Masked') <= Cardinality(Masked)
         /\ k.pc # "insert" /\ c \in Masked => Cardinality(Masked') = Cardinality(Masked) - 1
         /\ k.pc \notin {"event", "insert"} \/ c \in Sends => Cardinality(Sends') <= Cardinality(Sends)
         /\ k.pc \notin {"event", "insert"} /\ c \in Sends
              => Cardinality(Sends') = Cardinality(Sends) - 1
<1>1. /\ chatCall' \in [ChatCallers -> ChatCalls] /\ chatCall'[c] = k
      /\ \A d \in ChatCallers \ {c} : chatCall'[d] = chatCall[d]
  BY DEF ChatInv, ChatTyped
<1>2. Masked' = IF k.pc = "insert" /\ k.action = "MASK" THEN Masked \cup {c} ELSE Masked \ {c}
  BY <1>1 DEF Masked
<1>3. Sends' = IF k.pc \in {"event", "insert"} THEN Sends \cup {c} ELSE Sends \ {c}
  BY <1>1 DEF Sends
<1>4. /\ IsFiniteSet(Masked \cup {c})
      /\ Cardinality(Masked \cup {c}) =
           IF c \in Masked THEN Cardinality(Masked) ELSE Cardinality(Masked) + 1
      /\ IsFiniteSet(Masked \ {c})
      /\ Cardinality(Masked \ {c}) =
           IF c \in Masked THEN Cardinality(Masked) - 1 ELSE Cardinality(Masked)
  BY SetsCounted, FS_AddElement, FS_RemoveElement, Zenon
<1>5. /\ IsFiniteSet(Sends \cup {c})
      /\ Cardinality(Sends \cup {c}) =
           IF c \in Sends THEN Cardinality(Sends) ELSE Cardinality(Sends) + 1
      /\ IsFiniteSet(Sends \ {c})
      /\ Cardinality(Sends \ {c}) =
           IF c \in Sends THEN Cardinality(Sends) - 1 ELSE Cardinality(Sends)
  BY SetsCounted, FS_AddElement, FS_RemoveElement, Zenon
<1>6. IsFiniteSet(Masked') /\ IsFiniteSet(Sends')
  BY <1>2, <1>3, <1>4, <1>5
<1>7. Cardinality(Masked') \in Nat /\ Cardinality(Sends') \in Nat
  BY <1>6, FS_CardinalityType
<1>8. /\ Cardinality(Masked') <= Cardinality(Masked) + 1
      /\ ~(k.pc = "insert" /\ k.action = "MASK") => Cardinality(Masked') <= Cardinality(Masked)
      /\ k.pc # "insert" /\ c \in Masked => Cardinality(Masked') = Cardinality(Masked) - 1
  BY <1>2, <1>4, SetsCounted
<1>9. /\ k.pc \notin {"event", "insert"} \/ c \in Sends => Cardinality(Sends') <= Cardinality(Sends)
      /\ k.pc \notin {"event", "insert"} /\ c \in Sends
           => Cardinality(Sends') = Cardinality(Sends) - 1
  BY <1>3, <1>5, SetsCounted
<1>10. QED
  BY <1>1, <1>6, <1>7, <1>8, <1>9

\* The messages keep their number and what has excused them.
LEMMA MessagesKept ==
  ASSUME ChatInv, NEW f \in [Indexes -> Messages], messages' = f
  PROVE  /\ messages' \in Seq(Messages) /\ Len(messages') = Len(messages) /\ Indexes' = Indexes
         /\ \A i \in Indexes : messages'[i] = f[i]
<1>1. Len(messages) \in Nat /\ Indexes = 1..Len(messages)
  BY DEF ChatInv, ChatTyped, Indexes
<1>2. f \in Seq(Messages) /\ Len(f) = Len(messages)
  BY <1>1
<1>3. QED
  BY <1>1, <1>2 DEF Indexes

LEMMA ChatStep == ChatInv /\ [ChatNext]_chatVars => ChatInv'
<1> SUFFICES ASSUME ChatInv, [ChatNext]_chatVars PROVE ChatInv'
  OBVIOUS
<1>0. /\ ChatTyped /\ ReadMeansShown /\ PagesSound /\ CopiesSound
      /\ (blackedOut > 0 => onShipment.was # {}) /\ (revealed => "PAID" \in onShipment.was)
      /\ EventsRecorded /\ ClosedSound
      /\ Cardinality(Masked) \in Nat /\ Cardinality(Sends) \in Nat
  BY SetsCounted DEF ChatInv
<1>1. ASSUME NEW c \in ChatCallers, NEW text \in {"plain", "contact"}, BeginSend(c, text)
      PROVE  ChatInv'
  <2> DEFINE action == Evaluate(text, onShipment.status)
             k == [NoChatCall EXCEPT !.pc = IF action = "ALLOW" THEN "insert" ELSE "event",
                                     !.action = action]
  <2>1. /\ At(c, "idle") /\ chatOpen /\ chatCall' = [chatCall EXCEPT ![c] = k]
        /\ UNCHANGED <<chatOpen, onShipment, messages, blackedOut, late, trustEvents, refused,
                       revealed, underWay>>
    BY <1>1 DEF BeginSend, counted
  <2>2. action \in {"ALLOW", "MASK", "BLOCK"} /\ (action = "MASK" => onShipment.was # {})
    BY <1>0 DEF Evaluate, CopiesSound
  <2> HIDE DEF action
  <2>3. /\ k \in ChatCalls /\ k.action = action /\ k.page = {} /\ k.pc \in {"event", "insert"}
        /\ ~(k.pc = "insert" /\ k.action = "MASK")
    BY <2>2 DEF NoChatCall, ChatCalls
  <2> HIDE DEF k
  <2>4. /\ chatCall' \in [ChatCallers -> ChatCalls] /\ chatCall'[c] = k
        /\ \A d \in ChatCallers \ {c} : chatCall'[d] = chatCall[d]
        /\ IsFiniteSet(Masked') /\ Cardinality(Masked') \in Nat
        /\ IsFiniteSet(Sends') /\ Cardinality(Sends') \in Nat
        /\ Cardinality(Masked') <= Cardinality(Masked)
    BY <2>1, <2>3, CallMoves
  <2>5. ChatTyped'
    BY <1>0, <2>1, <2>4 DEF ChatTyped
  <2>6. ReadMeansShown' /\ PagesSound'
    BY <1>0, <2>1, <2>3, <2>4 DEF ReadMeansShown, PagesSound, At, Indexes
  <2>7. CopiesSound'
    BY <1>0, <2>1, <2>2, <2>3, <2>4 DEF CopiesSound, At, Indexes
  <2>8. EventsRecorded'
    BY <1>0, <2>1, <2>4 DEF EventsRecorded, ChatTyped
  <2>9. ClosedSound'
    BY <1>0, <2>1, <2>4 DEF ClosedSound
  <2>10. QED
    BY <1>0, <2>1, <2>5, <2>6, <2>7, <2>8, <2>9 DEF ChatInv
<1>2. ASSUME NEW c \in ChatCallers, RecordTrustEvent(c) PROVE ChatInv'
  <2>1. /\ At(c, "event") /\ trustEvents' = trustEvents + 1
        /\ UNCHANGED <<chatOpen, onShipment, messages, blackedOut, late, revealed, underWay>>
    BY <1>2 DEF RecordTrustEvent
  <2>2. c \in Sends /\ c \notin Masked
    BY <2>1 DEF Sends, Masked, At
  <2>3. CASE chatCall[c].action = "BLOCK"
    <3>1. chatCall' = [chatCall EXCEPT ![c] = NoChatCall] /\ refused' = refused + 1
      BY <1>2, <2>3 DEF RecordTrustEvent, ChatStops
    <3>2. /\ chatCall' \in [ChatCallers -> ChatCalls] /\ chatCall'[c] = NoChatCall
          /\ \A d \in ChatCallers \ {c} : chatCall'[d] = chatCall[d]
          /\ IsFiniteSet(Masked') /\ Cardinality(Masked') \in Nat
          /\ IsFiniteSet(Sends') /\ Cardinality(Sends') \in Nat
          /\ Cardinality(Masked') <= Cardinality(Masked)
          /\ Cardinality(Sends') <= Cardinality(Sends)
      BY <2>2, <3>1, NoCallTyped, CallMoves
    <3>3. ChatTyped'
      BY <1>0, <2>1, <3>1, <3>2 DEF ChatTyped
    <3>4. ReadMeansShown' /\ PagesSound'
      BY <1>0, <2>1, <3>2, NoCallTyped DEF ReadMeansShown, PagesSound, At, Indexes
    <3>5. CopiesSound'
      BY <1>0, <2>1, <3>2, NoCallTyped DEF CopiesSound, At, Indexes
    <3>6. EventsRecorded'
      BY <1>0, <2>1, <3>1, <3>2 DEF EventsRecorded, ChatTyped
    <3>7. ClosedSound'
      BY <1>0, <2>1, <3>2 DEF ClosedSound, ChatTyped
    <3>8. QED
      BY <1>0, <2>1, <3>3, <3>4, <3>5, <3>6, <3>7 DEF ChatInv
  <2>4. CASE chatCall[c].action # "BLOCK"
    <3> DEFINE k == [chatCall[c] EXCEPT !.pc = "insert"]
    <3>1. chatCall' = [chatCall EXCEPT ![c] = k] /\ refused' = refused
      BY <1>0, <1>2, <2>4 DEF RecordTrustEvent, ChatGoes, ChatTyped
    <3>2. k \in ChatCalls /\ k.pc = "insert" /\ k.action = chatCall[c].action
          /\ k.page = chatCall[c].page
      BY <1>0 DEF ChatTyped, ChatCalls
    <3> HIDE DEF k
    <3>3. /\ chatCall' \in [ChatCallers -> ChatCalls] /\ chatCall'[c] = k
          /\ \A d \in ChatCallers \ {c} : chatCall'[d] = chatCall[d]
          /\ IsFiniteSet(Masked') /\ Cardinality(Masked') \in Nat
          /\ IsFiniteSet(Sends') /\ Cardinality(Sends') \in Nat
          /\ Cardinality(Masked') <= Cardinality(Masked) + 1
          /\ Cardinality(Sends') <= Cardinality(Sends)
      BY <2>2, <3>1, <3>2, CallMoves
    <3>4. ChatTyped'
      BY <1>0, <2>1, <3>1, <3>3 DEF ChatTyped
    <3>5. ReadMeansShown' /\ PagesSound'
      BY <1>0, <2>1, <3>2, <3>3 DEF ReadMeansShown, PagesSound, At, Indexes
    <3>6. CopiesSound'
      BY <1>0, <2>1, <3>2, <3>3 DEF CopiesSound, At, Indexes
    <3>7. EventsRecorded'
      BY <1>0, <2>1, <3>1, <3>3 DEF EventsRecorded, ChatTyped
    <3>8. ClosedSound'
      BY <1>0, <2>1, <3>3 DEF ClosedSound, ChatTyped
    <3>9. QED
      BY <1>0, <2>1, <3>4, <3>5, <3>6, <3>7, <3>8 DEF ChatInv
  <2>5. QED
    BY <2>3, <2>4
<1>3. ASSUME NEW c \in ChatCallers, SendMessage(c) PROVE ChatInv'
  <2> DEFINE m == [from |-> PartyOf[c], read |-> FALSE,
                   excused |-> \E d \in ChatCallers : At(d, "mark") /\ PartyOf[d] # PartyOf[c]]
  <2>1. /\ At(c, "insert") /\ Len(messages) < MaxMessages /\ messages' = Append(messages, m)
        /\ blackedOut' = (IF chatCall[c].action = "MASK" THEN blackedOut + 1 ELSE blackedOut)
        /\ late' = (IF chatOpen THEN late ELSE late + 1)
        /\ chatCall' = [chatCall EXCEPT ![c] = NoChatCall]
        /\ UNCHANGED <<chatOpen, onShipment, trustEvents, refused, revealed, underWay>>
    BY <1>3 DEF SendMessage, ChatStops
  <2>2. m.from \in Parties /\ m.read = FALSE /\ m \in Messages
    BY ChatAssumption DEF Messages, Parties
  <2>3. \A d \in ChatCallers : At(d, "mark") /\ PartyOf[d] # m.from => m.excused
    OBVIOUS
  <2> HIDE DEF m
  <2>4. /\ chatCall' \in [ChatCallers -> ChatCalls] /\ chatCall'[c] = NoChatCall
        /\ \A d \in ChatCallers \ {c} : chatCall'[d] = chatCall[d]
        /\ IsFiniteSet(Masked') /\ Cardinality(Masked') \in Nat
        /\ IsFiniteSet(Sends') /\ Cardinality(Sends') \in Nat
        /\ Cardinality(Masked') <= Cardinality(Masked)
        /\ c \in Masked => Cardinality(Masked') = Cardinality(Masked) - 1
        /\ c \in Sends => Cardinality(Sends') = Cardinality(Sends) - 1
    BY <2>1, NoCallTyped, CallMoves
  <2>5. c \in Sends /\ (chatCall[c].action = "MASK" => c \in Masked)
    BY <2>1 DEF Sends, Masked, At
  <2>6. /\ messages' \in Seq(Messages) /\ Len(messages') = Len(messages) + 1
        /\ Indexes' = Indexes \cup {Len(messages) + 1}
        /\ \A i \in Indexes : messages'[i] = messages[i]
        /\ messages'[Len(messages) + 1] = m
    BY <1>0, <2>1, <2>2 DEF ChatTyped, Indexes
  <2>7. ChatTyped'
    BY <1>0, <2>1, <2>4, <2>6, ChatAssumption DEF ChatTyped
  <2>8. ReadMeansShown'
    BY <1>0, <2>2, <2>6 DEF ReadMeansShown
  <2>9. PagesSound'
    <3>1. ASSUME NEW d \in ChatCallers, At(d, "mark")', NEW i \in Indexes'
          PROVE  \/ messages'[i].from = PartyOf[d] \/ i \in chatCall'[d].page
                 \/ messages'[i].excused
      <4>1. At(d, "mark") /\ chatCall'[d] = chatCall[d]
        BY <2>4, <3>1, NoCallTyped DEF At
      <4>2. CASE i \in Indexes
        BY <1>0, <2>6, <4>1, <4>2 DEF PagesSound
      <4>3. CASE i = Len(messages) + 1
        <5>1. messages'[i] = m
          BY <2>6, <4>3
        <5>2. m.from = PartyOf[d] \/ m.excused
          BY <2>3, <4>1
        <5>3. QED
          BY <5>1, <5>2
      <4>4. QED
        BY <2>6, <4>2, <4>3
    <3>2. QED
      BY <3>1 DEF PagesSound
  <2>10. CopiesSound'
    BY <1>0, <2>1, <2>4, <2>6, NoCallTyped DEF CopiesSound, At
  <2>11. EventsRecorded'
    BY <1>0, <2>1, <2>4, <2>5 DEF EventsRecorded, ChatTyped
  <2>12. ClosedSound'
    BY <1>0, <2>1, <2>4, <2>5 DEF ClosedSound, ChatTyped
  <2>13. blackedOut' > 0 => onShipment'.was # {}
    BY <1>0, <2>1 DEF CopiesSound
  <2>14. QED
    BY <1>0, <2>1, <2>7, <2>8, <2>9, <2>10, <2>11, <2>12, <2>13 DEF ChatInv
<1>4. ASSUME NEW c \in ChatCallers, NEW k \in ChatCalls,
             chatCall' = [chatCall EXCEPT ![c] = k], k.page = {}, k.action # "MASK",
             k.pc \in {"idle", "page", "contact"}, k.pc = "contact" => "PAID" \in onShipment.was,
             UNCHANGED <<chatOpen, onShipment, messages, blackedOut, late, trustEvents,
                         refused, underWay>>,
             revealed' \in BOOLEAN, revealed' => "PAID" \in onShipment.was
      PROVE  ChatInv'
  <2>1. /\ chatCall' \in [ChatCallers -> ChatCalls] /\ chatCall'[c] = k
        /\ \A d \in ChatCallers \ {c} : chatCall'[d] = chatCall[d]
        /\ IsFiniteSet(Masked') /\ Cardinality(Masked') \in Nat
        /\ IsFiniteSet(Sends') /\ Cardinality(Sends') \in Nat
        /\ Cardinality(Masked') <= Cardinality(Masked)
        /\ Cardinality(Sends') <= Cardinality(Sends)
    BY <1>4, CallMoves
  <2>2. ChatTyped'
    BY <1>0, <1>4, <2>1 DEF ChatTyped
  <2>3. ReadMeansShown' /\ PagesSound'
    BY <1>0, <1>4, <2>1 DEF ReadMeansShown, PagesSound, At, Indexes
  <2>4. CopiesSound'
    BY <1>0, <1>4, <2>1 DEF CopiesSound, At, Indexes
  <2>5. EventsRecorded'
    BY <1>0, <1>4, <2>1 DEF EventsRecorded, ChatTyped
  <2>6. ClosedSound'
    BY <1>0, <1>4, <2>1 DEF ClosedSound, ChatTyped
  <2>7. QED
    BY <1>0, <1>4, <2>2, <2>3, <2>4, <2>5, <2>6 DEF ChatInv
<1>5. ASSUME NEW c \in ChatCallers, BeginListing(c) PROVE ChatInv'
  <2> DEFINE k == [NoChatCall EXCEPT !.pc = "page"]
  <2>1. k \in ChatCalls /\ k.page = {} /\ k.action # "MASK" /\ k.pc = "page"
    BY DEF NoChatCall, ChatCalls
  <2>2. /\ chatCall' = [chatCall EXCEPT ![c] = k]
        /\ UNCHANGED <<chatOpen, onShipment, messages, blackedOut, late, trustEvents, refused,
                       revealed, underWay>>
    BY <1>5 DEF BeginListing, counted
  <2> HIDE DEF k
  <2>3. revealed' \in BOOLEAN /\ (revealed' => "PAID" \in onShipment.was)
    BY <1>0, <2>2 DEF ChatTyped
  <2>4. QED
    BY <1>4, <2>1, <2>2, <2>3
<1>6. ASSUME NEW c \in ChatCallers, BeginReveal(c) PROVE ChatInv'
  <2> DEFINE k == [NoChatCall EXCEPT !.pc = "contact"]
  <2>1. k \in ChatCalls /\ k.page = {} /\ k.action # "MASK" /\ k.pc = "contact"
    BY DEF NoChatCall, ChatCalls
  <2>2. /\ onShipment.status = "PAID" /\ chatCall' = [chatCall EXCEPT ![c] = k]
        /\ UNCHANGED <<chatOpen, onShipment, messages, blackedOut, late, trustEvents, refused,
                       revealed, underWay>>
    BY <1>6 DEF BeginReveal, counted
  <2> HIDE DEF k
  <2>3. "PAID" \in onShipment.was
    BY <1>0, <2>2 DEF CopiesSound, Secured
  <2>4. revealed' \in BOOLEAN /\ (revealed' => "PAID" \in onShipment.was)
    BY <1>0, <2>2 DEF ChatTyped
  <2>5. QED
    BY <1>4, <2>1, <2>2, <2>3, <2>4
<1>7. ASSUME NEW c \in ChatCallers, FindParticipantContact(c) PROVE ChatInv'
  <2>1. /\ At(c, "contact") /\ revealed' = TRUE /\ chatCall' = [chatCall EXCEPT ![c] = NoChatCall]
        /\ UNCHANGED <<chatOpen, onShipment, messages, blackedOut, late, trustEvents, refused,
                       underWay>>
    BY <1>7 DEF FindParticipantContact, ChatStops
  <2>2. "PAID" \in onShipment.was
    BY <1>0, <2>1 DEF CopiesSound
  <2>3. revealed' \in BOOLEAN
    BY <2>1, Zenon
  <2>4. QED
    BY <1>4, <2>1, <2>2, <2>3, NoCallTyped
<1>8. ASSUME NEW c \in ChatCallers, FailChatCall(c) PROVE ChatInv'
  <2>1. /\ chatCall' = [chatCall EXCEPT ![c] = NoChatCall]
        /\ UNCHANGED <<chatOpen, onShipment, messages, blackedOut, late, trustEvents, refused,
                       revealed, underWay>>
    BY <1>8 DEF FailChatCall, ChatStops, counted
  <2>2. revealed' \in BOOLEAN /\ (revealed' => "PAID" \in onShipment.was)
    BY <1>0, <2>1 DEF ChatTyped
  <2>3. QED
    BY <1>4, <2>1, <2>2, NoCallTyped
<1>9. ASSUME NEW c \in ChatCallers, ListMessages(c) PROVE ChatInv'
  <2> DEFINE page == {i \in Indexes : i > Len(messages) - PageSize}
             k == [chatCall[c] EXCEPT !.pc = "mark", !.page = page]
             f == [i \in Indexes |->
                     [messages[i] EXCEPT !.excused = @ \/ (i \notin page /\ messages[i].from # PartyOf[c])]]
  <2>1. /\ At(c, "page") /\ chatCall' = [chatCall EXCEPT ![c] = k] /\ messages' = f
        /\ UNCHANGED <<chatOpen, onShipment, blackedOut, late, trustEvents, refused, revealed,
                       underWay>>
    BY <1>0, <1>9 DEF ListMessages, counted, ChatTyped
  <2>2. k \in ChatCalls /\ k.pc = "mark" /\ k.action = chatCall[c].action /\ k.page = page
        /\ page \subseteq Indexes
    <3>1. page \subseteq Indexes /\ Indexes \subseteq Nat
      BY <1>0 DEF ChatTyped, Indexes
    <3>2. page \in SUBSET Nat
      BY <3>1
    <3> HIDE DEF page
    <3>3. k \in ChatCalls /\ k.pc = "mark" /\ k.action = chatCall[c].action /\ k.page = page
      BY <1>0, <3>2 DEF ChatTyped, ChatCalls
    <3>4. QED
      BY <3>1, <3>3
  <2>3. \A i \in Indexes : messages[i] \in Messages
    BY <1>0 DEF ChatTyped, Indexes
  <2>4. f \in [Indexes -> Messages]
    BY <2>3 DEF Messages
  <2>5. \A i \in Indexes : /\ f[i].from = messages[i].from /\ f[i].read = messages[i].read
                           /\ messages[i].excused => f[i].excused
                           /\ i \notin page /\ messages[i].from # PartyOf[c] => f[i].excused
    BY <2>3 DEF Messages
  <2> HIDE DEF page, k, f
  <2>6. /\ messages' \in Seq(Messages) /\ Len(messages') = Len(messages) /\ Indexes' = Indexes
        /\ \A i \in Indexes : messages'[i] = f[i]
    BY <2>1, <2>4, MessagesKept
  <2>7. /\ chatCall' \in [ChatCallers -> ChatCalls] /\ chatCall'[c] = k
        /\ \A d \in ChatCallers \ {c} : chatCall'[d] = chatCall[d]
        /\ IsFiniteSet(Masked') /\ Cardinality(Masked') \in Nat
        /\ IsFiniteSet(Sends') /\ Cardinality(Sends') \in Nat
        /\ Cardinality(Masked') <= Cardinality(Masked)
        /\ Cardinality(Sends') <= Cardinality(Sends)
    BY <2>1, <2>2, CallMoves
  <2>8. ChatTyped'
    BY <1>0, <2>1, <2>6, <2>7 DEF ChatTyped
  <2>9. ReadMeansShown'
    BY <1>0, <2>5, <2>6 DEF ReadMeansShown
  <2>10. PagesSound'
    BY <1>0, <2>2, <2>5, <2>6, <2>7 DEF PagesSound, At
  <2>11. CopiesSound'
    BY <1>0, <2>1, <2>2, <2>6, <2>7 DEF CopiesSound, At
  <2>12. EventsRecorded'
    BY <1>0, <2>1, <2>7 DEF EventsRecorded, ChatTyped
  <2>13. ClosedSound'
    BY <1>0, <2>1, <2>7 DEF ClosedSound, ChatTyped
  <2>14. QED
    BY <1>0, <2>1, <2>8, <2>9, <2>10, <2>11, <2>12, <2>13 DEF ChatInv
<1>10. ASSUME NEW c \in ChatCallers, MarkMessagesRead(c) PROVE ChatInv'
  <2> DEFINE f == [i \in Indexes |->
                     [messages[i] EXCEPT !.read = @ \/ i \in Unread(c),
                        !.excused = @ \/ (i \in chatCall[c].page /\ messages[i].from # PartyOf[c])]]
  <2>1. /\ At(c, "mark") /\ chatCall' = [chatCall EXCEPT ![c] = NoChatCall] /\ messages' = f
        /\ UNCHANGED <<chatOpen, onShipment, blackedOut, late, trustEvents, refused, revealed,
                       underWay>>
    BY <1>10 DEF MarkMessagesRead, ChatStops, counted
  <2>2. \A i \in Indexes : messages[i] \in Messages
    BY <1>0 DEF ChatTyped, Indexes
  <2>3. f \in [Indexes -> Messages]
    BY <2>2 DEF Messages
  <2>4. \A i \in Indexes :
          /\ f[i].from = messages[i].from
          /\ messages[i].excused => f[i].excused
          /\ i \in chatCall[c].page /\ messages[i].from # PartyOf[c] => f[i].excused
          /\ f[i].read => messages[i].read \/ messages[i].from # PartyOf[c]
    BY <2>2 DEF Messages, Unread
  <2> HIDE DEF f
  <2>5. /\ messages' \in Seq(Messages) /\ Len(messages') = Len(messages) /\ Indexes' = Indexes
        /\ \A i \in Indexes : messages'[i] = f[i]
    BY <2>1, <2>3, MessagesKept
  <2>6. /\ chatCall' \in [ChatCallers -> ChatCalls] /\ chatCall'[c] = NoChatCall
        /\ \A d \in ChatCallers \ {c} : chatCall'[d] = chatCall[d]
        /\ IsFiniteSet(Masked') /\ Cardinality(Masked') \in Nat
        /\ IsFiniteSet(Sends') /\ Cardinality(Sends') \in Nat
        /\ Cardinality(Masked') <= Cardinality(Masked)
        /\ Cardinality(Sends') <= Cardinality(Sends)
    BY <2>1, NoCallTyped, CallMoves
  <2>7. ChatTyped'
    BY <1>0, <2>1, <2>5, <2>6 DEF ChatTyped
  <2>8. ReadMeansShown'
    BY <1>0, <2>1, <2>4, <2>5 DEF ReadMeansShown, PagesSound
  <2>9. PagesSound'
    BY <1>0, <2>4, <2>5, <2>6, NoCallTyped DEF PagesSound, At
  <2>10. CopiesSound'
    BY <1>0, <2>1, <2>5, <2>6, NoCallTyped DEF CopiesSound, At
  <2>11. EventsRecorded'
    BY <1>0, <2>1, <2>6 DEF EventsRecorded, ChatTyped
  <2>12. ClosedSound'
    BY <1>0, <2>1, <2>6 DEF ClosedSound, ChatTyped
  <2>13. QED
    BY <1>0, <2>1, <2>7, <2>8, <2>9, <2>10, <2>11, <2>12 DEF ChatInv
<1>11. ASSUME UNCHANGED chatCall
       PROVE  Masked' = Masked /\ Sends' = Sends
  BY <1>11 DEF Masked, Sends
<1>12. ASSUME NEW status \in Secured \cup {"DISPUTED"}, MoveOn(status) PROVE ChatInv'
  <2>1. /\ onShipment' = [onShipment EXCEPT !.status = status, !.was = @ \cup ({status} \cap Secured)]
        /\ UNCHANGED <<chatOpen, messages, chatCall, blackedOut, late, trustEvents, refused,
                       revealed, underWay>>
    BY <1>12 DEF MoveOn, counted
  <2>2. /\ onShipment'.status = status /\ onShipment'.was = onShipment.was \cup ({status} \cap Secured)
        /\ onShipment'.carrier = onShipment.carrier /\ onShipment'.closing = onShipment.closing
    BY <1>0, <2>1 DEF ChatTyped
  <2>3. ChatTyped'
    BY <1>0, <2>1 DEF ChatTyped, Secured
  <2>4. ReadMeansShown' /\ PagesSound'
    BY <1>0, <2>1 DEF ReadMeansShown, PagesSound, At, Indexes
  <2>5. CopiesSound'
    BY <1>0, <2>1, <2>2 DEF CopiesSound, At, Indexes
  <2>6. EventsRecorded' /\ ClosedSound'
    BY <1>0, <1>11, <2>1 DEF EventsRecorded, ClosedSound
  <2>7. QED
    BY <1>0, <2>1, <2>2, <2>3, <2>4, <2>5, <2>6 DEF ChatInv
<1>13. ASSUME NEW why \in {"cancel", "reject"}, CloseChat(why) PROVE ChatInv'
  <2>1. /\ chatOpen' = FALSE /\ underWay' = (IF chatOpen THEN Cardinality(Sends) ELSE underWay)
        /\ onShipment' = [onShipment EXCEPT !.closing = why]
        /\ UNCHANGED <<messages, chatCall, blackedOut, late, trustEvents, refused, revealed>>
    BY <1>13 DEF CloseChat
  <2>2. /\ onShipment'.status = onShipment.status /\ onShipment'.was = onShipment.was
        /\ onShipment'.carrier = onShipment.carrier /\ onShipment'.closing = why
    BY <1>0, <2>1 DEF ChatTyped
  <2>3. chatOpen' \in BOOLEAN /\ (chatOpen' <=> FALSE)
    BY <2>1, Zenon
  <2>4. ChatTyped'
    BY <1>0, <2>1, <2>3 DEF ChatTyped
  <2>5. ReadMeansShown' /\ PagesSound'
    BY <1>0, <2>1 DEF ReadMeansShown, PagesSound, At, Indexes
  <2>6. CopiesSound'
    BY <1>0, <2>1, <2>2 DEF CopiesSound, At, Indexes
  <2>7. EventsRecorded'
    BY <1>0, <1>11, <2>1 DEF EventsRecorded
  <2>8. ClosedSound'
    BY <1>0, <1>11, <2>1, <2>3 DEF ClosedSound
  <2>9. QED
    BY <1>0, <2>1, <2>2, <2>4, <2>5, <2>6, <2>7, <2>8 DEF ChatInv
<1>14. CASE WriteClosed
  <2>1. /\ onShipment' =
             [onShipment EXCEPT
                !.status = IF onShipment.closing = "cancel" THEN "CANCELLED" ELSE "PENDING",
                !.carrier = FALSE, !.closing = "none"]
        /\ UNCHANGED <<chatOpen, messages, chatCall, blackedOut, late, trustEvents, refused,
                       revealed, underWay>>
    BY <1>14 DEF WriteClosed, counted
  <2>2. onShipment'.status \in {"CANCELLED", "PENDING"} /\ onShipment'.was = onShipment.was
    BY <1>0, <2>1 DEF ChatTyped
  <2>3. ChatTyped'
    BY <1>0, <2>1 DEF ChatTyped
  <2>4. ReadMeansShown' /\ PagesSound'
    BY <1>0, <2>1 DEF ReadMeansShown, PagesSound, At, Indexes
  <2>5. CopiesSound'
    BY <1>0, <2>1, <2>2 DEF CopiesSound, At, Indexes, Secured
  <2>6. EventsRecorded' /\ ClosedSound'
    BY <1>0, <1>11, <2>1 DEF EventsRecorded, ClosedSound
  <2>7. QED
    BY <1>0, <2>1, <2>2, <2>3, <2>4, <2>5, <2>6 DEF ChatInv
<1>15. CASE UNCHANGED chatVars
  <2>1. UNCHANGED <<chatOpen, onShipment, messages, chatCall, blackedOut, late, trustEvents,
                    refused, revealed, underWay>>
    BY <1>15 DEF chatVars
  <2>2. ChatTyped'
    BY <1>0, <2>1 DEF ChatTyped
  <2>3. ReadMeansShown' /\ PagesSound' /\ CopiesSound'
    BY <1>0, <2>1 DEF ReadMeansShown, PagesSound, CopiesSound, At, Indexes
  <2>4. EventsRecorded' /\ ClosedSound'
    BY <1>0, <1>11, <2>1 DEF EventsRecorded, ClosedSound
  <2>5. QED
    BY <1>0, <2>1, <2>2, <2>3, <2>4 DEF ChatInv
<1>16. QED
  BY <1>1, <1>2, <1>3, <1>5, <1>6, <1>7, <1>8, <1>9, <1>10, <1>12, <1>13, <1>14, <1>15
     DEF ChatNext

LEMMA ChatInvariant == ChatSpec => []ChatInv
BY ChatStarts, ChatStep, PTL DEF ChatSpec

\* The chat, its messages and the requests are of the types that the code gives them, and
\* a page holds messages of the chat.
THEOREM ChatTypeCorrect == ChatSpec => []ChatTypeOK
<1>1. ChatInv => ChatTypeOK
  <2> SUFFICES ASSUME ChatInv PROVE ChatTypeOK
    OBVIOUS
  <2>1. ChatTyped /\ CopiesSound
    BY DEF ChatInv
  <2>2. \A i \in Indexes : messages[i] \in Messages
    BY <2>1 DEF ChatTyped, Indexes
  <2>3. \A c \in ChatCallers : chatCall[c].page \in SUBSET Indexes
    BY <2>1 DEF CopiesSound
  <2>4. \A c \in ChatCallers : chatCall[c] \in
          [pc: {"idle", "event", "insert", "page", "mark", "contact"},
           action: {"ALLOW", "MASK", "BLOCK"}, page: SUBSET Indexes]
    BY <2>1, <2>3 DEF ChatTyped, ChatCalls
  <2>5. {blackedOut, late, trustEvents, refused, underWay} \subseteq Nat
    BY <2>1, Zenon DEF ChatTyped
  <2>6. QED
    BY <2>1, <2>2, <2>4, <2>5 DEF ChatTyped, ChatTypeOK, Messages
<1>2. QED
  BY <1>1, ChatInvariant, PTL

\* A message that counts as read was given to its reader or has its excuse, contact details
\* pass only once an offer was accepted, and a closed chat gets no more messages than were on
\* their way: for any number of callers, messages, pages and failures, and at any pace of the
\* shipment.
THEOREM ChatStaysKept == ChatSpec => []ChatKept
<1>1. ChatInv => ChatKept
  <2> SUFFICES ASSUME ChatInv PROVE ChatKept
    OBVIOUS
  <2>1. ReadMeansShown
    BY DEF ChatInv
  <2>2. ContactsHeldBack
    <3>1. refused + blackedOut <= trustEvents
      BY SetsCounted DEF ChatInv, ChatTyped, EventsRecorded
    <3>2. QED
      BY <3>1 DEF ChatInv, ContactsHeldBack
  <2>3. ClosedGoesQuiet
    BY SetsCounted DEF ChatInv, ChatTyped, ClosedSound, ClosedGoesQuiet
  <2>4. QED
    BY <2>1, <2>2, <2>3 DEF ChatKept
<1>2. QED
  BY <1>1, ChatInvariant, PTL

(***************************************************************************)
(* Notices                                                                 *)
(***************************************************************************)

Everyone == Tellers \cup {OfRow}

\* How often p is among the next three to be told.
Left(to, p) ==
  (IF Len(to) >= 1 /\ to[1] = p THEN 1 ELSE 0) + (IF Len(to) >= 2 /\ to[2] = p THEN 1 ELSE 0)
    + (IF Len(to) >= 3 /\ to[3] = p THEN 1 ELSE 0)

Lines == {to \in Seq(Addressable) : Len(to) <= 3 /\ \A p \in Addressable : Left(to, p) <= 2}

TellerStates == [at: {"idle", "calling", "writing", "answering", "telling"}, to: Lines]

RowStates == [state: {"none", "pending", "running", "done", "failed"}, tries: 0..MaxRowTries]

\* How often a teller in state r will still tell p, and all of them together.
Pending(r, p) == IF r.at = "telling" THEN Left(r.to, p) ELSE 0
AtLeast(n, tellers, p) == {c \in Everyone : Pending(tellers[c], p) >= n}
Owing(tellers, p) ==
  Cardinality(AtLeast(1, tellers, p)) + Cardinality(AtLeast(2, tellers, p))

\* The sender of a refund is told twice.
Often(p) == IF occasion = "refunded" /\ p = "sender" THEN 2 ELSE 1

NoticesTyped ==
  /\ occasion \in Occasions /\ open \in BOOLEAN /\ carried \in BOOLEAN
  /\ teller \in [Everyone -> TellerStates]
  /\ outboxRow \in RowStates
  /\ told \in [Addressable -> Nat] /\ news \in Nat /\ owed \subseteq Addressable
  /\ cutShort \in 0..MaxCutShort /\ cutAfterNews \in BOOLEAN /\ replays \in 0..MaxReplays

\* Only a reject or cancel takes the carrier away, and it closes the occasion.
CarriedSound ==
  (open => carried) /\ (occasion \notin {"accepted", "paid"} => carried)

\* What a teller is about, before and after its write.
TellersSound ==
  \A c \in Everyone :
    /\ teller[c].at \in {"calling", "writing", "answering"} => teller[c].to = Told(occasion, c, TRUE)
    /\ teller[c].at = "calling" => occasion \in Settlements
    /\ teller[c].at = "answering" => occasion = "released"
    /\ teller[c].at = "telling" /\ occasion = "accepted" /\ Left(teller[c].to, "carrier") >= 1
         => "carrier" \in owed

\* The outbox works on a row that runs, for settlements only.
RowSound ==
  /\ outboxRow.state # "none" => occasion \in Settlements
  /\ outboxRow.state \in {"pending", "running"} => outboxRow.tries < MaxRowTries
  /\ teller[OfRow].at \in {"idle", "writing", "telling"}
  /\ outboxRow.state = "running" <=> teller[OfRow].at # "idle"
  /\ teller[OfRow].at = "telling" =>
       \A p \in Addressable : told[p] > 0 \/ Left(teller[OfRow].to, p) >= 1

\* Who is owed a notice has it, will have it, or met a failure.
OwedSound ==
  \A p \in owed :
    \/ told[p] > 0
    \/ \E c \in Everyone : Pending(teller[c], p) >= 1
    \/ cutAfterNews
    \/ outboxRow.state \notin {"none", "done"}

\* The notices stored and to be stored are no more than the news.
Counted ==
  \A p \in Addressable :
    /\ IsFiniteSet(AtLeast(1, teller, p)) /\ IsFiniteSet(AtLeast(2, teller, p))
    /\ told[p] + Owing(teller, p) <= news * Often(p)

NoticesInv ==
  /\ NoticesTyped /\ CarriedSound /\ TellersSound /\ RowSound /\ OwedSound /\ Counted
  /\ AcceptedCarrierIsOne /\ DoneRowTold

LEMMA LeftIsNumber ==
  ASSUME NEW to, NEW p
  PROVE  Left(to, p) \in 0..3
BY DEF Left

LEMMA ShortLines ==
  /\ <<>> \in Lines /\ <<"sender">> \in Lines /\ <<"carrier">> \in Lines
  /\ <<"sender", "carrier">> \in Lines /\ <<"carrier", "sender">> \in Lines
  /\ <<"sender", "carrier", "sender">> \in Lines /\ <<"sender", "sender">> \in Lines
BY DEF Lines, Left, Addressable

\* After the first of the line the others are left.
LEMMA NextInLine ==
  ASSUME NEW to \in Lines, to # <<>>
  PROVE  /\ Head(to) \in Addressable /\ Tail(to) \in Lines
         /\ \A p \in Addressable : Left(Tail(to), p) = Left(to, p) - (IF Head(to) = p THEN 1 ELSE 0)
<1>1. to \in Seq(Addressable) /\ Len(to) <= 3
  BY DEF Lines
<1>2. /\ Head(to) \in Addressable /\ Tail(to) \in Seq(Addressable)
      /\ Len(Tail(to)) = Len(to) - 1
      /\ \A i \in 1..Len(Tail(to)) : Tail(to)[i] = to[i + 1]
  BY <1>1, HeadTailProperties
<1>3. Head(to) = to[1] /\ Len(to) \in 1..3
  <2>1. Len(to) \in Nat /\ Len(to) # 0
    <3>1. Len(to) \in Nat \ {0}
      BY <1>1, EmptySeq
    <3>2. QED
      BY <3>1
  <2>2. Head(to) = to[1]
    <3>1. 1 \in 1..Len(to) /\ Len(to) \in 1..Len(to)
      BY <2>1
    <3>2. SubSeq(to, 1, Len(to)) = to
      BY <1>1, SubSeqFull
    <3>3. Head(SubSeq(to, 1, Len(to))) = to[1]
      BY <1>1, <3>1, HeadTailOfSubSeq
    <3>4. QED
      BY <3>2, <3>3
  <2>3. Len(to) \in 1..3
    <3>1. \A n \in Nat : n # 0 /\ n <= 3 => n \in 1..3
      OBVIOUS
    <3>2. Len(to) <= 3
      BY <1>1
    <3>3. QED
      BY <2>1, <3>1, <3>2, Zenon
  <2>4. QED
    BY <2>2, <2>3
<1> DEFINE n == Len(to)
           rest == Tail(to)
           head == Head(to)
<1>4. /\ n \in 1..3 /\ head = to[1] /\ Len(rest) = n - 1
      /\ n >= 2 => rest[1] = to[2]
      /\ n >= 3 => rest[2] = to[3]
  BY <1>2, <1>3
<1>5. ASSUME NEW p \in Addressable
      PROVE  Left(rest, p) = Left(to, p) - (IF head = p THEN 1 ELSE 0)
  <2>1. Left(rest, p) = (IF n >= 2 /\ to[2] = p THEN 1 ELSE 0) + (IF n >= 3 /\ to[3] = p THEN 1 ELSE 0)
    BY <1>4 DEF Left
  <2>2. Left(to, p) = (IF to[1] = p THEN 1 ELSE 0) + (IF n >= 2 /\ to[2] = p THEN 1 ELSE 0)
                        + (IF n >= 3 /\ to[3] = p THEN 1 ELSE 0)
    BY <1>4 DEF Left
  <2>3. QED
    BY <1>4, <2>1, <2>2
<1>6. \A p \in Addressable : Left(rest, p) <= 2
  <2>1. \A p \in Addressable : Left(to, p) <= 2 /\ Left(to, p) \in 0..3
    BY LeftIsNumber DEF Lines
  <2>2. QED
    BY <1>5, <2>1
<1>7. Len(rest) <= 3
  BY <1>4
<1>8. QED
  BY <1>2, <1>5, <1>6, <1>7 DEF Lines

\* Who is told of what, with a carrier and without one.
LEMMA ToldWithCarrier ==
  ASSUME NEW o \in Occasions, NEW c
  PROVE  Told(o, c, TRUE) =
           CASE o = "match" -> <<"sender">>
             [] o \in {"accepted", "disputed"} -> <<"carrier">>
             [] o = "released" -> <<"carrier", "sender">>
             [] o = "refunded" /\ c # OfRow -> <<"sender", "carrier", "sender">>
             [] OTHER -> <<"sender", "carrier">>
<1>1. Present(o, TRUE) = Recipients(o)
  BY DEF Present
<1>2. Told(o, c, TRUE) = Recipients(o) \o IF o = "refunded" /\ c # OfRow THEN <<"sender">> ELSE <<>>
  BY <1>1 DEF Told
<1>3. /\ <<"sender">> \in Seq(Addressable) /\ <<"carrier">> \in Seq(Addressable)
      /\ <<"sender", "carrier">> \in Seq(Addressable) /\ <<"carrier", "sender">> \in Seq(Addressable)
      /\ <<"sender", "carrier", "sender">> \in Seq(Addressable)
  BY ShortLines DEF Lines
<1>4. CASE o = "refunded" /\ c # OfRow
  <2>1. Told(o, c, TRUE) = <<"sender", "carrier">> \o <<"sender">>
    BY <1>2, <1>4 DEF Recipients
  <2>2. <<"sender", "carrier">> \o <<"sender">> = <<"sender", "carrier", "sender">>
    <3> DEFINE a == <<"sender", "carrier">>
               b == <<"sender">>
               d == <<"sender", "carrier", "sender">>
    <3>1. /\ Len(a) = 2 /\ Len(b) = 1 /\ Len(d) = 3
          /\ a[1] = "sender" /\ a[2] = "carrier" /\ b[1] = "sender"
          /\ d[1] = "sender" /\ d[2] = "carrier" /\ d[3] = "sender"
      OBVIOUS
    <3>2. a \in Seq(Addressable) /\ b \in Seq(Addressable) /\ d \in Seq(Addressable)
      BY <1>3
    <3> HIDE DEF a, b, d
    <3>3. /\ a \o b \in Seq(Addressable) /\ Len(a \o b) = 3
          /\ \A i \in 1..3 : (a \o b)[i] = IF i <= 2 THEN a[i] ELSE b[i - 2]
      <4>1. /\ a \o b \in Seq(Addressable) /\ Len(a \o b) = Len(a) + Len(b)
            /\ \A i \in 1..Len(a) + Len(b) : (a \o b)[i] = IF i <= Len(a) THEN a[i] ELSE b[i - Len(a)]
        BY <3>2, ConcatProperties
      <4>2. QED
        BY <3>1, <4>1
    <3>4. \A i \in 1..3 : (a \o b)[i] = d[i]
      BY <3>1, <3>3
    <3>5. a \o b = d
      BY <3>1, <3>2, <3>3, <3>4, SeqEqual
    <3>6. QED
      BY <3>5 DEF a, b, d
  <2>3. QED
    BY <1>4, <2>1, <2>2
<1>5. CASE ~(o = "refunded" /\ c # OfRow)
  <2>1. Told(o, c, TRUE) = Recipients(o) \o <<>>
    BY <1>2, <1>5
  <2>2. Recipients(o) \in {<<"sender">>, <<"carrier">>, <<"sender", "carrier">>, <<"carrier", "sender">>}
    BY Zenon DEF Recipients
  <2>3. Recipients(o) \in Seq(Addressable)
    BY <1>3, <2>2, Zenon
  <2>4. Told(o, c, TRUE) = Recipients(o)
    BY <2>1, <2>3, ConcatEmptySeq
  <2>5. QED
    BY <1>5, <2>4 DEF Recipients, Occasions, Settlements
<1>6. QED
  BY <1>4, <1>5

LEMMA ToldWithoutCarrier ==
  ASSUME NEW o \in {"accepted", "paid"}, NEW c
  PROVE  Told(o, c, FALSE) = IF o = "paid" THEN <<"sender">> ELSE <<>>
<1>1. Told(o, c, FALSE) = Present(o, FALSE) \o <<>>
  BY DEF Told
<1>2. CASE o = "paid"
  <2>1. Recipients(o) = <<"sender", "carrier">>
    BY <1>2 DEF Recipients
  <2>2. "sender" \in Members(Recipients(o))
    <3>1. 1 \in DOMAIN <<"sender", "carrier">> /\ <<"sender", "carrier">>[1] = "sender"
      OBVIOUS
    <3>2. QED
      BY <2>1, <3>1 DEF Members
  <2>3. Present(o, FALSE) = <<"sender">>
    BY <2>2, Zenon DEF Present
  <2>4. <<"sender">> \in Seq(Addressable)
    BY ShortLines DEF Lines
  <2>5. <<"sender">> \o <<>> = <<"sender">>
    BY <2>4, ConcatEmptySeq
  <2>6. QED
    BY <1>1, <1>2, <2>3, <2>5
<1>3. CASE o = "accepted"
  <2>1. Recipients(o) = <<"carrier">>
    BY <1>3 DEF Recipients
  <2>2. "sender" \notin Members(Recipients(o))
    BY <2>1 DEF Members
  <2>3. Present(o, FALSE) = <<>>
    BY <2>2, Zenon DEF Present
  <2>4. <<>> \in Seq(Addressable)
    BY ShortLines DEF Lines
  <2>5. <<>> \o <<>> = <<>>
    BY <2>4, ConcatEmptySeq
  <2>6. QED
    BY <1>1, <1>3, <2>3, <2>5
<1>4. QED
  BY <1>2, <1>3

LEMMA Counts ==
  /\ Left(<<>>, "sender") = 0 /\ Left(<<>>, "carrier") = 0
  /\ Left(<<"sender">>, "sender") = 1 /\ Left(<<"sender">>, "carrier") = 0
  /\ Left(<<"carrier">>, "sender") = 0 /\ Left(<<"carrier">>, "carrier") = 1
  /\ Left(<<"sender", "carrier">>, "sender") = 1 /\ Left(<<"sender", "carrier">>, "carrier") = 1
  /\ Left(<<"carrier", "sender">>, "sender") = 1 /\ Left(<<"carrier", "sender">>, "carrier") = 1
  /\ Left(<<"sender", "carrier", "sender">>, "sender") = 2
  /\ Left(<<"sender", "carrier", "sender">>, "carrier") = 1
BY DEF Left

\* Who is told is in the line, and a line without the carrier has nobody else.
LEMMA LineOfTold ==
  ASSUME NoticesTyped, NEW c
  PROVE  /\ Told(occasion, c, TRUE) \in Lines
         /\ \A p \in Addressable : Left(Told(occasion, c, TRUE), p) <= Often(p)
         /\ occasion \in Settlements
              => \A p \in Addressable : Left(Told(occasion, c, TRUE), p) >= 1
<1>1. occasion \in Occasions
  BY DEF NoticesTyped
<1>2. Told(occasion, c, TRUE) =
           CASE occasion = "match" -> <<"sender">>
             [] occasion \in {"accepted", "disputed"} -> <<"carrier">>
             [] occasion = "released" -> <<"carrier", "sender">>
             [] occasion = "refunded" /\ c # OfRow -> <<"sender", "carrier", "sender">>
             [] OTHER -> <<"sender", "carrier">>
  BY <1>1, ToldWithCarrier
<1> DEFINE line == Told(occasion, c, TRUE)
<1> HIDE DEF line
<1> SUFFICES /\ line \in Lines
             /\ \A p \in Addressable : Left(line, p) <= Often(p)
             /\ occasion \in Settlements => \A p \in Addressable : Left(line, p) >= 1
  BY DEF line
<1>3. CASE occasion = "match"
  <2>1. line = <<"sender">>
    BY <1>2, <1>3 DEF line
  <2>2. line \in Lines /\ Left(line, "sender") = 1 /\ Left(line, "carrier") = 0
    BY <2>1, ShortLines, Counts, Zenon
  <2>3. QED
    BY <1>3, <2>2 DEF Addressable, Often, Settlements
<1>4. CASE occasion \in {"accepted", "disputed"}
  <2>1. line = <<"carrier">>
    BY <1>2, <1>4 DEF line
  <2>2. line \in Lines /\ Left(line, "sender") = 0 /\ Left(line, "carrier") = 1
    BY <2>1, ShortLines, Counts, Zenon
  <2>3. QED
    BY <1>4, <2>2 DEF Addressable, Often, Settlements
<1>5. CASE occasion = "released"
  <2>1. line = <<"carrier", "sender">>
    BY <1>2, <1>5 DEF line
  <2>2. line \in Lines /\ Left(line, "sender") = 1 /\ Left(line, "carrier") = 1
    BY <2>1, ShortLines, Counts, Zenon
  <2>3. QED
    BY <1>5, <2>2 DEF Addressable, Often, Settlements
<1>6. CASE occasion = "refunded" /\ c # OfRow
  <2>1. line = <<"sender", "carrier", "sender">>
    BY <1>2, <1>6 DEF line
  <2>2. line \in Lines /\ Left(line, "sender") = 2 /\ Left(line, "carrier") = 1
    BY <2>1, ShortLines, Counts, Zenon
  <2>3. QED
    BY <1>6, <2>2 DEF Addressable, Often, Settlements
<1>7. CASE occasion \in {"paid", "resolved"} \/ (occasion = "refunded" /\ c = OfRow)
  <2>1. line = <<"sender", "carrier">>
    BY <1>2, <1>7 DEF line
  <2>2. line \in Lines /\ Left(line, "sender") = 1 /\ Left(line, "carrier") = 1
    BY <2>1, ShortLines, Counts, Zenon
  <2>3. QED
    BY <1>7, <2>2 DEF Addressable, Often, Settlements
<1>8. QED
  BY <1>1, <1>3, <1>4, <1>5, <1>6, <1>7 DEF Occasions, Settlements

\* The parties that are owed a notice are those in the line.
LEMMA OwedAreInLine ==
  ASSUME NoticesTyped, CarriedSound, NEW c, NEW p \in Members(Told(occasion, c, carried))
  PROVE  /\ p \in Addressable /\ Left(Told(occasion, c, TRUE), p) >= 1
         /\ Left(Told(occasion, c, carried), p) >= 1
<1>1. \A to \in Lines : \A q \in Members(to) : q \in Addressable /\ Left(to, q) >= 1
  <2> SUFFICES ASSUME NEW to \in Lines, NEW i \in DOMAIN to
               PROVE  to[i] \in Addressable /\ Left(to, to[i]) >= 1
    BY DEF Members
  <2>1. to \in Seq(Addressable) /\ Len(to) <= 3
    BY DEF Lines
  <2>2. Len(to) \in Nat /\ i \in 1..Len(to) /\ to[i] \in Addressable
    BY <2>1, LenProperties, ElementOfSeq
  <2>3. i \in 1..3 /\ i <= Len(to)
    BY <2>1, <2>2
  <2>4. i = 1 \/ i = 2 \/ i = 3
    BY <2>3
  <2>5. QED
    BY <2>2, <2>3, <2>4 DEF Left
<1>2. Told(occasion, c, TRUE) \in Lines
  BY LineOfTold
<1>3. CASE carried
  <2>1. carried = TRUE
    BY <1>3, Zenon DEF NoticesTyped
  <2>2. p \in Members(Told(occasion, c, TRUE))
    BY <2>1
  <2>3. QED
    BY <1>1, <1>2, <2>1, <2>2
<1>4. CASE ~carried
  <2>1. carried = FALSE /\ occasion \in {"accepted", "paid"}
    BY <1>4, Zenon DEF NoticesTyped, CarriedSound
  <2>2. Told(occasion, c, carried) = IF occasion = "paid" THEN <<"sender">> ELSE <<>>
    BY <2>1, ToldWithoutCarrier
  <2>3. Members(<<>>) = {}
    BY DEF Members
  <2>4. Told(occasion, c, carried) = <<"sender">> /\ occasion = "paid"
    BY <2>1, <2>2, <2>3
  <2>5. p \in Members(<<"sender">>)
    BY <2>4
  <2>6. p = "sender"
    BY <2>5 DEF Members
  <2>7. Told(occasion, c, TRUE) = <<"sender", "carrier">>
    BY <2>4, ToldWithCarrier DEF Occasions
  <2>8. /\ Left(Told(occasion, c, TRUE), "sender") = 1
        /\ Left(Told(occasion, c, carried), "sender") = 1
    BY <2>4, <2>7, Counts, Zenon
  <2>9. Left(Told(occasion, c, TRUE), p) = 1 /\ Left(Told(occasion, c, carried), p) = 1
    BY <2>6, <2>8, Zenon
  <2>10. p \in Addressable
    BY <2>6 DEF Addressable
  <2>11. \A n : n = 1 => n >= 1
    OBVIOUS
  <2>12. QED
    BY <2>9, <2>10, <2>11, Zenon
<1>5. QED
  BY <1>3, <1>4

\* One teller moves, and what all still have to tell changes by what he has.
LEMMA TellerMoves ==
  ASSUME NoticesTyped, Counted, NEW c \in Everyone, NEW k \in TellerStates,
         teller' = [teller EXCEPT ![c] = k]
  PROVE  /\ teller' \in [Everyone -> TellerStates] /\ teller'[c] = k
         /\ \A d \in Everyone \ {c} : teller'[d] = teller[d]
         /\ \A p \in Addressable :
              /\ IsFiniteSet(AtLeast(1, teller', p)) /\ IsFiniteSet(AtLeast(2, teller', p))
              /\ Owing(teller, p) \in Nat /\ Owing(teller', p) \in Nat
              /\ Owing(teller', p) = Owing(teller, p) - Pending(teller[c], p) + Pending(k, p)
<1>1. /\ teller' \in [Everyone -> TellerStates] /\ teller'[c] = k
      /\ \A d \in Everyone \ {c} : teller'[d] = teller[d]
  BY DEF NoticesTyped
<1>2. ASSUME NEW p \in Addressable
      PROVE  /\ IsFiniteSet(AtLeast(1, teller', p)) /\ IsFiniteSet(AtLeast(2, teller', p))
             /\ Owing(teller, p) \in Nat /\ Owing(teller', p) \in Nat
             /\ Owing(teller', p) = Owing(teller, p) - Pending(teller[c], p) + Pending(k, p)
  <2>1. \A r \in TellerStates : Pending(r, p) \in 0..2
    <3>1. \A to \in Lines : Left(to, p) <= 2 /\ Left(to, p) \in 0..3
      BY LeftIsNumber DEF Lines
    <3>2. QED
      BY <3>1 DEF Pending, TellerStates
  <2>2. Pending(teller[c], p) \in 0..2 /\ Pending(k, p) \in 0..2
    BY <2>1 DEF NoticesTyped
  <2>3. ASSUME NEW n \in {1, 2}
        PROVE  LET S == AtLeast(n, teller, p)
                   T == AtLeast(n, teller', p)
               IN  /\ IsFiniteSet(T) /\ Cardinality(S) \in Nat /\ Cardinality(T) \in Nat
                   /\ Cardinality(T) = Cardinality(S) - (IF Pending(teller[c], p) >= n THEN 1 ELSE 0)
                                         + (IF Pending(k, p) >= n THEN 1 ELSE 0)
    <3> DEFINE S == AtLeast(n, teller, p)
               T == AtLeast(n, teller', p)
    <3>1. IsFiniteSet(S)
      BY <2>3 DEF Counted
    <3>2. T = IF Pending(k, p) >= n THEN S \cup {c} ELSE S \ {c}
      BY <1>1 DEF AtLeast
    <3>3. c \in S <=> Pending(teller[c], p) >= n
      BY DEF AtLeast
    <3> HIDE DEF S, T
    <3>4. /\ IsFiniteSet(S \cup {c})
          /\ Cardinality(S \cup {c}) = IF c \in S THEN Cardinality(S) ELSE Cardinality(S) + 1
      BY <3>1, FS_AddElement, Zenon
    <3>5. /\ IsFiniteSet(S \ {c})
          /\ Cardinality(S \ {c}) = IF c \in S THEN Cardinality(S) - 1 ELSE Cardinality(S)
      BY <3>1, FS_RemoveElement, Zenon
    <3>6. IsFiniteSet(T)
      BY <3>2, <3>4, <3>5
    <3>7. Cardinality(S) \in Nat /\ Cardinality(T) \in Nat
      BY <3>1, <3>6, FS_CardinalityType
    <3>8. Cardinality(T) = Cardinality(S) - (IF Pending(teller[c], p) >= n THEN 1 ELSE 0)
                                         + (IF Pending(k, p) >= n THEN 1 ELSE 0)
      <4>1. CASE Pending(k, p) >= n
        BY <3>2, <3>3, <3>4, <3>7, <4>1
      <4>2. CASE ~(Pending(k, p) >= n)
        BY <3>2, <3>3, <3>5, <3>7, <4>2
      <4>3. QED
        BY <4>1, <4>2
    <3>9. QED
      BY <3>6, <3>7, <3>8 DEF S, T
  <2>4. /\ IsFiniteSet(AtLeast(1, teller', p)) /\ IsFiniteSet(AtLeast(2, teller', p))
        /\ Cardinality(AtLeast(1, teller, p)) \in Nat /\ Cardinality(AtLeast(2, teller, p)) \in Nat
        /\ Cardinality(AtLeast(1, teller', p)) \in Nat /\ Cardinality(AtLeast(2, teller', p)) \in Nat
    BY <2>3
  <2>5. Cardinality(AtLeast(1, teller', p)) = Cardinality(AtLeast(1, teller, p))
          - (IF Pending(teller[c], p) >= 1 THEN 1 ELSE 0) + (IF Pending(k, p) >= 1 THEN 1 ELSE 0)
    BY <2>3
  <2>6. Cardinality(AtLeast(2, teller', p)) = Cardinality(AtLeast(2, teller, p))
          - (IF Pending(teller[c], p) >= 2 THEN 1 ELSE 0) + (IF Pending(k, p) >= 2 THEN 1 ELSE 0)
    BY <2>3
  <2>7. QED
    BY <2>2, <2>4, <2>5, <2>6 DEF Owing
<1>3. QED
  BY <1>1, <1>2

\* The counts stay right when what one teller and his notices add is covered by news.
LEMMA CountKept ==
  ASSUME NoticesTyped, Counted, NEW c \in Everyone, NEW k \in TellerStates,
         teller' = [teller EXCEPT ![c] = k], occasion' = occasion,
         told' \in [Addressable -> Nat],
         \/ /\ news' = news
            /\ \A p \in Addressable : told'[p] + Pending(k, p) <= told[p] + Pending(teller[c], p)
         \/ /\ news' = news + 1 /\ told' = told
            /\ \A p \in Addressable : Pending(k, p) <= Often(p)
  PROVE  Counted'
<1> SUFFICES ASSUME NEW p \in Addressable
             PROVE  /\ IsFiniteSet(AtLeast(1, teller', p)) /\ IsFiniteSet(AtLeast(2, teller', p))
                    /\ told'[p] + Owing(teller', p) <= news' * Often(p)'
  BY DEF Counted, Owing, AtLeast, Often
<1>1. /\ IsFiniteSet(AtLeast(1, teller', p)) /\ IsFiniteSet(AtLeast(2, teller', p))
      /\ Owing(teller, p) \in Nat /\ Owing(teller', p) \in Nat
      /\ Owing(teller', p) = Owing(teller, p) - Pending(teller[c], p) + Pending(k, p)
  BY TellerMoves
<1>2. \A r \in TellerStates : Pending(r, p) \in 0..3
  BY LeftIsNumber DEF Pending
<1>3. Pending(teller[c], p) \in 0..3 /\ Pending(k, p) \in 0..3
  BY <1>2 DEF NoticesTyped
<1>4. Often(p)' = Often(p) /\ Often(p) \in {1, 2}
  BY DEF Often
<1>5. told[p] + Owing(teller, p) <= news * Often(p)
  BY DEF Counted
<1>6. told[p] \in Nat /\ told'[p] \in Nat /\ news \in Nat
  BY DEF NoticesTyped
<1>7. CASE news' = news /\ told'[p] + Pending(k, p) <= told[p] + Pending(teller[c], p)
  <2>1. told'[p] + Owing(teller', p) <= told[p] + Owing(teller, p)
    BY <1>1, <1>3, <1>6, <1>7
  <2>2. news' * Often(p)' = news * Often(p) /\ news * Often(p) \in Nat
    BY <1>4, <1>6, <1>7
  <2>3. QED
    BY <1>1, <1>5, <1>6, <2>1, <2>2
<1>8. CASE news' = news + 1 /\ told' = told /\ Pending(k, p) <= Often(p)
  <2>1. told'[p] + Owing(teller', p) <= told[p] + Owing(teller, p) + Often(p)
    BY <1>1, <1>3, <1>4, <1>6, <1>8
  <2>2. news' * Often(p)' = news * Often(p) + Often(p) /\ news * Often(p) \in Nat
    BY <1>4, <1>6, <1>8
  <2>3. QED
    BY <1>1, <1>4, <1>5, <1>6, <2>1, <2>2
<1>9. QED
  BY <1>7, <1>8

LEMMA NotTellingTyped ==
  NotTelling \in TellerStates /\ NotTelling.at = "idle" /\ \A p : Pending(NotTelling, p) = 0
BY ShortLines DEF NotTelling, TellerStates, Pending

\* The invariant at the start.
LEMMA NoticesStart == NoticesInit => NoticesInv
<1> SUFFICES ASSUME NoticesInit PROVE NoticesInv
  OBVIOUS
<1>1. teller \in [Everyone -> TellerStates] /\ \A c \in Everyone : teller[c] = NotTelling
  BY NotTellingTyped DEF NoticesInit, Everyone
<1>2. open \in BOOLEAN /\ carried \in BOOLEAN /\ cutAfterNews \in BOOLEAN /\ carried
  BY Zenon DEF NoticesInit
<1>3. outboxRow \in RowStates /\ outboxRow.state = "none" /\ outboxRow.tries = 0
  BY NoticesAssumption DEF NoticesInit, NoRow, RowStates
<1>4. NoticesTyped
  BY <1>1, <1>2, <1>3, NoticesAssumption DEF NoticesInit, NoticesTyped
<1>5. CarriedSound /\ OwedSound
  BY <1>2 DEF CarriedSound, OwedSound, NoticesInit
<1>6. TellersSound
  BY <1>1, NotTellingTyped DEF TellersSound
<1>7. RowSound /\ DoneRowTold /\ AcceptedCarrierIsOne
  BY <1>1, <1>3, NotTellingTyped
     DEF RowSound, DoneRowTold, AcceptedCarrierIsOne, NoticesInit, Everyone, Addressable
<1>8. Counted
  <2> SUFFICES ASSUME NEW p \in Addressable
               PROVE  /\ IsFiniteSet(AtLeast(1, teller, p)) /\ IsFiniteSet(AtLeast(2, teller, p))
                      /\ told[p] + Owing(teller, p) <= news * Often(p)
    BY DEF Counted
  <2>1. AtLeast(1, teller, p) = {} /\ AtLeast(2, teller, p) = {}
    BY <1>1, NotTellingTyped DEF AtLeast
  <2>2. IsFiniteSet({}) /\ Cardinality({}) = 0
    BY FS_EmptySet
  <2>3. Owing(teller, p) = 0 /\ told[p] = 0 /\ news = 0 /\ Often(p) \in {1, 2}
    BY <2>1, <2>2 DEF Owing, NoticesInit, Often
  <2>4. QED
    BY <2>1, <2>2, <2>3
<1>9. QED
  BY <1>4, <1>5, <1>6, <1>7, <1>8 DEF NoticesInv

\* A teller who has not told anybody moves on; the row, the parties and the news stay.
LEMMA QuietMoveKeeps ==
  ASSUME NoticesInv, NEW c \in Tellers, NEW k \in TellerStates,
         teller' = [teller EXCEPT ![c] = k],
         k.at # "telling", teller[c].at # "telling" \/ teller[c].to = <<>> \/ cutAfterNews',
         k.at \in {"calling", "writing", "answering"} => k.to = Told(occasion, c, TRUE),
         k.at = "calling" => occasion \in Settlements,
         k.at = "answering" => occasion = "released",
         cutAfterNews' \in BOOLEAN, cutAfterNews => cutAfterNews',
         cutShort' \in 0..MaxCutShort,
         outboxRow' \in RowStates,
         \/ outboxRow' = outboxRow
         \/ outboxRow.state = "none" /\ outboxRow'.state = "pending" /\ outboxRow'.tries = 0
            /\ occasion \in Settlements,
         open' \in BOOLEAN, open' => open,
         UNCHANGED <<occasion, carried, told, news, owed, replays>>
  PROVE  NoticesInv'
<1>1. /\ teller' \in [Everyone -> TellerStates] /\ teller'[c] = k
      /\ \A d \in Everyone \ {c} : teller'[d] = teller[d]
  BY TellerMoves DEF NoticesInv, Everyone
<1>2. c # OfRow /\ c \in Everyone
  BY NoticesAssumption DEF Everyone
<1>3. \A p \in Addressable : Pending(k, p) = 0
  BY DEF Pending
<1>4. NoticesTyped'
  BY <1>1 DEF NoticesInv, NoticesTyped
<1>5. CarriedSound'
  BY DEF NoticesInv, CarriedSound
<1>6. TellersSound'
  BY <1>1, <1>2 DEF NoticesInv, TellersSound
<1>7. RowSound'
  BY <1>1, <1>2, NoticesAssumption DEF NoticesInv, RowSound, Everyone
<1>8. OwedSound'
  <2>1. (Pending(teller[c], "sender") = 0 /\ Pending(teller[c], "carrier") = 0) \/ cutAfterNews'
    BY Counts DEF Pending
  <2>2. \A p \in owed : Pending(teller[c], p) = 0 \/ cutAfterNews'
    BY <2>1 DEF NoticesInv, NoticesTyped, Addressable
  <2>3. QED
    BY <1>1, <1>2, <2>2 DEF NoticesInv, OwedSound
<1>9. Counted'
  <2>1. \A p \in Addressable : told'[p] + Pending(k, p) <= told[p] + Pending(teller[c], p)
    <3>1. \A p \in Addressable : Pending(teller[c], p) \in Nat /\ told[p] \in Nat
      BY <1>2, LeftIsNumber DEF Pending, NoticesInv, NoticesTyped
    <3>2. QED
      BY <1>3, <3>1
  <2>2. QED
    BY <1>2, <2>1, CountKept DEF NoticesInv, NoticesTyped
<1>10. AcceptedCarrierIsOne' /\ DoneRowTold'
  BY DEF NoticesInv, AcceptedCarrierIsOne, DoneRowTold
<1>11. QED
  BY <1>4, <1>5, <1>6, <1>7, <1>8, <1>9, <1>10 DEF NoticesInv

\* A teller has written the occasion and begins to tell of it.
LEMMA NewsKeeps ==
  ASSUME NoticesInv, NEW c \in Everyone, teller[c].at \in {"writing", "answering"}, NEW to \in Lines,
         teller' = [teller EXCEPT ![c] = [at |-> "telling", to |-> to]],
         \A p \in Addressable : Left(to, p) <= Often(p),
         \A p \in Members(Told(occasion, c, carried)) : Left(to, p) >= 1,
         occasion = "accepted" /\ Left(to, "carrier") >= 1 => "carrier" \in owed',
         c = OfRow => \A p \in Addressable : Left(to, p) >= 1,
         Happens(c), open' \in BOOLEAN, open' => open,
         UNCHANGED <<occasion, carried, outboxRow, told, cutShort, cutAfterNews, replays>>
  PROVE  NoticesInv'
<1> DEFINE k == [at |-> "telling", to |-> to]
<1>0. k \in TellerStates /\ k.at = "telling" /\ k.to = to /\ teller' = [teller EXCEPT ![c] = k]
  BY DEF TellerStates
<1> HIDE DEF k
<1>1. /\ teller' \in [Everyone -> TellerStates] /\ teller'[c] = k
      /\ \A d \in Everyone \ {c} : teller'[d] = teller[d]
  BY <1>0, TellerMoves DEF NoticesInv
<1>2. owed' = owed \cup Members(Told(occasion, c, carried)) /\ news' = news + 1
  BY DEF Happens
<1>3. Members(Told(occasion, c, carried)) \subseteq Addressable
  BY OwedAreInLine DEF NoticesInv
<1>4. \A p : Pending(k, p) = Left(to, p) /\ Pending(teller[c], p) = 0
  BY <1>0 DEF Pending
<1>5. NoticesTyped'
  BY <1>1, <1>2, <1>3 DEF NoticesInv, NoticesTyped
<1>6. CarriedSound'
  BY DEF NoticesInv, CarriedSound
<1>7. TellersSound'
  BY <1>0, <1>1, <1>2 DEF NoticesInv, TellersSound
<1>8. RowSound'
  BY <1>0, <1>1, NoticesAssumption DEF NoticesInv, RowSound, Everyone
<1>9. OwedSound'
  BY <1>1, <1>2, <1>4 DEF NoticesInv, OwedSound
<1>10. Counted'
  <2>1. NoticesTyped /\ Counted /\ told' \in [Addressable -> Nat]
    BY DEF NoticesInv, NoticesTyped
  <2>2. \A p \in Addressable : Pending(k, p) <= Often(p)
    BY <1>4
  <2>3. QED
    BY <1>0, <1>2, <2>1, <2>2, CountKept
<1>11. AcceptedCarrierIsOne' /\ DoneRowTold'
  BY <1>2 DEF NoticesInv, AcceptedCarrierIsOne, DoneRowTold
<1>12. QED
  BY <1>5, <1>6, <1>7, <1>8, <1>9, <1>10, <1>11 DEF NoticesInv

LEMMA ComeUponKeeps ==
  ASSUME NoticesInv, NEW c \in Tellers, ComeUpon(c)
  PROVE  NoticesInv'
<1> DEFINE k == [at |-> IF occasion \in Settlements THEN "calling" ELSE "writing",
                 to |-> Told(occasion, c, carried)]
<1>1. /\ teller[c].at = "idle" /\ open /\ teller' = [teller EXCEPT ![c] = k]
      /\ UNCHANGED <<occasion, open, carried, outboxRow, told, news, owed, cutShort, cutAfterNews,
                     replays>>
  BY DEF ComeUpon
<1>2. carried = TRUE
  BY <1>1, Zenon DEF NoticesInv, NoticesTyped, CarriedSound
<1>3. Told(occasion, c, TRUE) \in Lines
  BY LineOfTold DEF NoticesInv
<1>4. /\ k \in TellerStates /\ k.to = Told(occasion, c, TRUE)
      /\ k.at = IF occasion \in Settlements THEN "calling" ELSE "writing"
  BY <1>2, <1>3 DEF TellerStates
<1> HIDE DEF k
<1>5. k.at # "telling" /\ k.at # "answering" /\ (k.at = "calling" => occasion \in Settlements)
  BY <1>4
<1>6. /\ open' \in BOOLEAN /\ (open' => open) /\ cutAfterNews' \in BOOLEAN
      /\ (cutAfterNews => cutAfterNews')
  BY <1>1, Zenon DEF NoticesInv, NoticesTyped
<1>7. cutShort' \in 0..MaxCutShort /\ outboxRow' \in RowStates /\ outboxRow' = outboxRow
  BY <1>1 DEF NoticesInv, NoticesTyped
<1>8. QED
  BY <1>1, <1>4, <1>5, <1>6, <1>7, QuietMoveKeeps

LEMMA CallSettledKeeps ==
  ASSUME NoticesInv, NEW c \in Tellers, CallSettled(c)
  PROVE  NoticesInv'
<1> DEFINE k == [teller[c] EXCEPT !.at = "writing"]
<1>1. teller[c] \in TellerStates /\ c \in Everyone
  BY DEF NoticesInv, NoticesTyped, Everyone
<1>2. /\ teller[c].at = "calling"
      /\ UNCHANGED <<occasion, open, carried, outboxRow, told, news, owed, cutShort, cutAfterNews,
                     replays>>
  BY DEF CallSettled
<1>3. teller' = [teller EXCEPT ![c] = k]
  BY DEF CallSettled
<1>4. k \in TellerStates /\ k.at = "writing" /\ k.to = teller[c].to
  BY <1>1 DEF TellerStates
<1> HIDE DEF k
<1>5. k.to = Told(occasion, c, TRUE)
  BY <1>1, <1>2, <1>4 DEF NoticesInv, TellersSound
<1>6. /\ open' \in BOOLEAN /\ (open' => open) /\ cutAfterNews' \in BOOLEAN
      /\ (cutAfterNews => cutAfterNews')
  BY <1>2, Zenon DEF NoticesInv, NoticesTyped
<1>7. cutShort' \in 0..MaxCutShort /\ outboxRow' \in RowStates /\ outboxRow' = outboxRow
  BY <1>2 DEF NoticesInv, NoticesTyped
<1>8. QED
  BY <1>2, <1>3, <1>4, <1>5, <1>6, <1>7, QuietMoveKeeps

LEMMA CallQueuedKeeps ==
  ASSUME NoticesInv, NEW c \in Tellers, CallQueued(c)
  PROVE  NoticesInv'
<1>1. c \in Everyone
  BY DEF Everyone
<1>2. /\ teller[c].at = "calling" /\ teller' = [teller EXCEPT ![c] = NotTelling]
      /\ UNCHANGED <<occasion, open, carried, told, news, owed, cutShort, cutAfterNews, replays>>
      /\ outboxRow' = IF outboxRow = NoRow THEN [NoRow EXCEPT !.state = "pending"] ELSE outboxRow
  BY DEF CallQueued
<1>3. occasion \in Settlements
  BY <1>1, <1>2 DEF NoticesInv, TellersSound
<1>4. /\ open' \in BOOLEAN /\ (open' => open) /\ cutAfterNews' \in BOOLEAN
      /\ (cutAfterNews => cutAfterNews')
  BY <1>2, Zenon DEF NoticesInv, NoticesTyped
<1>5. /\ outboxRow' \in RowStates
      /\ \/ outboxRow' = outboxRow
         \/ outboxRow.state = "none" /\ outboxRow'.state = "pending" /\ outboxRow'.tries = 0
  BY <1>2, NoticesAssumption DEF NoRow, RowStates, NoticesInv, NoticesTyped
<1>6. cutShort' \in 0..MaxCutShort
  BY <1>2 DEF NoticesInv, NoticesTyped
<1>7. QED
  BY <1>2, <1>3, <1>4, <1>5, <1>6, NotTellingTyped, QuietMoveKeeps

LEMMA EndTellingKeeps ==
  ASSUME NoticesInv, NEW c \in Everyone, EndTelling(c)
  PROVE  NoticesInv'
<1>1. c \in Tellers
  BY DEF EndTelling, Everyone
<1>2. /\ teller[c].to = <<>> /\ teller' = [teller EXCEPT ![c] = NotTelling]
      /\ UNCHANGED <<occasion, open, carried, outboxRow, told, news, owed, cutShort, cutAfterNews,
                     replays>>
  BY DEF EndTelling
<1>3. /\ open' \in BOOLEAN /\ (open' => open) /\ cutAfterNews' \in BOOLEAN
      /\ (cutAfterNews => cutAfterNews')
  BY <1>2, Zenon DEF NoticesInv, NoticesTyped
<1>4. cutShort' \in 0..MaxCutShort /\ outboxRow' \in RowStates /\ outboxRow' = outboxRow
  BY <1>2 DEF NoticesInv, NoticesTyped
<1>5. QED
  BY <1>1, <1>2, <1>3, <1>4, NotTellingTyped, QuietMoveKeeps

LEMMA CutTellerKeeps ==
  ASSUME NoticesInv, NEW c \in Everyone, CutTeller(c)
  PROVE  NoticesInv'
<1>1. c \in Tellers
  BY DEF CutTeller, Everyone
<1>2. /\ teller' = [teller EXCEPT ![c] = NotTelling]
      /\ UNCHANGED <<occasion, open, carried, outboxRow, told, news, owed, replays>>
      /\ cutShort < MaxCutShort /\ cutShort' = cutShort + 1
      /\ cutAfterNews' = (cutAfterNews \/ teller[c].at = "telling")
  BY DEF CutTeller
<1>3. /\ open' \in BOOLEAN /\ (open' => open) /\ cutAfterNews' \in BOOLEAN
      /\ (cutAfterNews => cutAfterNews') /\ (teller[c].at # "telling" \/ cutAfterNews')
  BY <1>2, Zenon DEF NoticesInv, NoticesTyped
<1>4. cutShort' \in 0..MaxCutShort
  BY <1>2, NoticesAssumption DEF NoticesInv, NoticesTyped
<1>5. outboxRow' \in RowStates /\ outboxRow' = outboxRow
  BY <1>2 DEF NoticesInv, NoticesTyped
<1>6. QED
  BY <1>1, <1>2, <1>3, <1>4, <1>5, NotTellingTyped, QuietMoveKeeps

LEMMA WriteRowKeeps ==
  ASSUME NoticesInv, NEW c \in Everyone, WriteRow(c)
  PROVE  NoticesInv'
<1>1. /\ teller[c].at = "writing" /\ open' = FALSE
      /\ UNCHANGED <<occasion, carried, outboxRow, told, cutShort, cutAfterNews, replays>>
  BY DEF WriteRow
<1>2. /\ open' \in BOOLEAN /\ (open' => open) /\ cutAfterNews' \in BOOLEAN
      /\ (cutAfterNews => cutAfterNews')
  BY <1>1, Zenon DEF NoticesInv, NoticesTyped
<1>3. teller[c] \in TellerStates /\ teller[c].to = Told(occasion, c, TRUE)
  BY <1>1 DEF NoticesInv, NoticesTyped, TellersSound
<1>4. c = OfRow => occasion \in Settlements
  BY <1>1 DEF NoticesInv, RowSound
<1>5. CASE occasion = "released"
  <2> DEFINE k == [teller[c] EXCEPT !.at = "answering"]
  <2>1. c \in Tellers
    BY <1>4, <1>5 DEF Everyone, Settlements
  <2>2. teller' = [teller EXCEPT ![c] = k] /\ UNCHANGED <<news, owed>>
    BY <1>5 DEF WriteRow
  <2>3. k \in TellerStates /\ k.at = "answering" /\ k.to = Told(occasion, c, TRUE)
    BY <1>3 DEF TellerStates
  <2> HIDE DEF k
  <2>4. cutShort' \in 0..MaxCutShort /\ outboxRow' \in RowStates /\ outboxRow' = outboxRow
    BY <1>1 DEF NoticesInv, NoticesTyped
  <2>5. QED
    BY <1>1, <1>2, <1>5, <2>1, <2>2, <2>3, <2>4, QuietMoveKeeps
<1>6. CASE occasion # "released"
  <2> DEFINE to == Addressees(c)
  <2>1. teller' = [teller EXCEPT ![c] = [at |-> "telling", to |-> to]] /\ Happens(c)
    BY <1>6 DEF WriteRow
  <2>2. \/ to = Told(occasion, c, TRUE)
        \/ occasion = "accepted" /\ to = <<>> /\ Told(occasion, c, carried) = <<>>
    <3>1. CASE occasion # "accepted"
      BY <1>3, <3>1 DEF Addressees
    <3>2. CASE occasion = "accepted" /\ carried
      <4>1. carried = TRUE
        BY <3>2, Zenon DEF NoticesInv, NoticesTyped
      <4>2. QED
        BY <3>2, <4>1 DEF Addressees
    <3>3. CASE occasion = "accepted" /\ ~carried
      <4>1. carried = FALSE
        BY <3>3, Zenon DEF NoticesInv, NoticesTyped
      <4>2. Told(occasion, c, FALSE) = <<>>
        BY <3>3, ToldWithoutCarrier
      <4>3. QED
        BY <3>3, <4>1, <4>2 DEF Addressees
    <3>4. QED
      BY <3>1, <3>2, <3>3
  <2> HIDE DEF to
  <2>3. NoticesTyped /\ CarriedSound
    BY DEF NoticesInv
  <2>4. \A p \in Members(Told(occasion, c, carried)) :
           Left(Told(occasion, c, TRUE), p) >= 1 /\ Left(Told(occasion, c, carried), p) >= 1
    BY <2>3, OwedAreInLine
  <2>5. CASE to = Told(occasion, c, TRUE)
    <3>1. to \in Lines /\ \A p \in Addressable : Left(to, p) <= Often(p)
      BY <2>3, <2>5, LineOfTold
    <3>2. c = OfRow => \A p \in Addressable : Left(to, p) >= 1
      BY <1>4, <2>3, <2>5, LineOfTold
    <3>3. occasion = "accepted" /\ Left(to, "carrier") >= 1 => "carrier" \in owed'
      <4> SUFFICES ASSUME occasion = "accepted" PROVE "carrier" \in owed' \/ ~(Left(to, "carrier") >= 1)
        OBVIOUS
      <4>1. CASE carried
        <5>1. carried = TRUE
          BY <4>1, Zenon DEF NoticesInv, NoticesTyped
        <5>2. Told(occasion, c, carried) = <<"carrier">>
          BY <5>1, ToldWithCarrier DEF Occasions
        <5>3. "carrier" \in Members(<<"carrier">>)
          <6>1. 1 \in DOMAIN <<"carrier">> /\ <<"carrier">>[1] = "carrier"
            OBVIOUS
          <6>2. QED
            BY <6>1 DEF Members
        <5>4. QED
          BY <2>1, <5>2, <5>3 DEF Happens
      <4>2. CASE ~carried
        <5>1. carried = FALSE
          BY <4>2, Zenon DEF NoticesInv, NoticesTyped
        <5>2. to = <<>>
          BY <5>1, ToldWithoutCarrier DEF to, Addressees
        <5>3. Left(to, "carrier") = 0
          BY <5>2, Counts, Zenon
        <5>4. QED
          BY <5>3
      <4>3. QED
        BY <4>1, <4>2
    <3>4. \A p \in Members(Told(occasion, c, carried)) : Left(to, p) >= 1
      BY <2>4, <2>5
    <3>5. QED
      BY <1>1, <1>2, <2>1, <3>1, <3>2, <3>3, <3>4, NewsKeeps
  <2>6. CASE occasion = "accepted" /\ to = <<>> /\ Told(occasion, c, carried) = <<>>
    <3>1. to \in Lines
      BY <2>6, ShortLines
    <3>2. Left(to, "sender") = 0 /\ Left(to, "carrier") = 0
      BY <2>6, Counts, Zenon
    <3>3. \A p \in Addressable : Left(to, p) <= Often(p)
      BY <3>2 DEF Often, Addressable
    <3>4. Members(Told(occasion, c, carried)) = {}
      BY <2>6 DEF Members
    <3>5. c # OfRow
      BY <1>4, <2>6 DEF Settlements
    <3>6. ~(Left(to, "carrier") >= 1) /\ \A p \in Members(Told(occasion, c, carried)) : Left(to, p) >= 1
      BY <3>2, <3>4
    <3>7. QED
      BY <1>1, <1>2, <2>1, <3>1, <3>3, <3>5, <3>6, NewsKeeps
  <2>7. QED
    BY <2>2, <2>5, <2>6
<1>7. QED
  BY <1>5, <1>6

LEMMA ReleaseEndsKeeps ==
  ASSUME NoticesInv, NEW c \in Tellers, ReleaseEnds(c)
  PROVE  NoticesInv'
<1>1. /\ teller[c].at = "answering"
      /\ UNCHANGED <<occasion, open, carried, outboxRow, told, cutShort, cutAfterNews, replays>>
  BY DEF ReleaseEnds
<1>2. /\ open' \in BOOLEAN /\ (open' => open) /\ cutAfterNews' \in BOOLEAN
      /\ (cutAfterNews => cutAfterNews')
  BY <1>1, Zenon DEF NoticesInv, NoticesTyped
<1>3. c \in Everyone /\ c # OfRow
  BY NoticesAssumption DEF Everyone
<1>4. teller[c] \in TellerStates /\ teller[c].to = Told(occasion, c, TRUE) /\ occasion = "released"
  BY <1>1, <1>3 DEF NoticesInv, NoticesTyped, TellersSound
<1>5. CASE teller' = [teller EXCEPT ![c].at = "telling"] /\ Happens(c)
  <2> DEFINE to == teller[c].to
  <2>1. teller' = [teller EXCEPT ![c] = [at |-> "telling", to |-> to]]
    <3>1. teller' = [teller EXCEPT ![c] = [teller[c] EXCEPT !.at = "telling"]]
      BY <1>5
    <3>2. \A r \in TellerStates : [r EXCEPT !.at = "telling"] = [at |-> "telling", to |-> r.to]
      BY DEF TellerStates
    <3>4. [teller[c] EXCEPT !.at = "telling"] = [at |-> "telling", to |-> to]
      BY <1>4, <3>2
    <3>3. QED
      BY <3>1, <3>4
  <2>2. to = Told(occasion, c, TRUE)
    BY <1>4
  <2> HIDE DEF to
  <2>3. NoticesTyped /\ CarriedSound
    BY DEF NoticesInv
  <2>4. to \in Lines /\ \A p \in Addressable : Left(to, p) <= Often(p)
    BY <2>2, <2>3, LineOfTold
  <2>5. \A p \in Members(Told(occasion, c, carried)) : Left(to, p) >= 1
    BY <2>2, <2>3, OwedAreInLine
  <2>6. QED
    BY <1>1, <1>2, <1>3, <1>4, <1>5, <2>1, <2>4, <2>5, NewsKeeps
<1>6. CASE teller' = [teller EXCEPT ![c] = NotTelling] /\ UNCHANGED <<news, owed>>
  <2>1. cutShort' \in 0..MaxCutShort /\ outboxRow' \in RowStates /\ outboxRow' = outboxRow
    BY <1>1 DEF NoticesInv, NoticesTyped
  <2>2. QED
    BY <1>1, <1>2, <1>6, <2>1, NotTellingTyped, QuietMoveKeeps
<1>7. QED
  BY <1>5, <1>6 DEF ReleaseEnds

LEMMA StoreNoticeKeeps ==
  ASSUME NoticesInv, NEW c \in Everyone, StoreNotice(c)
  PROVE  NoticesInv'
<1> DEFINE to == teller[c].to
           k == [teller[c] EXCEPT !.to = Tail(to)]
<1>1. /\ teller[c].at = "telling" /\ to # <<>>
      /\ told' = [told EXCEPT ![Head(to)] = @ + 1] /\ teller' = [teller EXCEPT ![c] = k]
      /\ UNCHANGED <<occasion, open, carried, outboxRow, news, owed, cutShort, cutAfterNews, replays>>
  BY DEF StoreNotice
<1>2. teller[c] \in TellerStates /\ to \in Lines
  BY DEF NoticesInv, NoticesTyped, TellerStates
<1>3. /\ Head(to) \in Addressable /\ Tail(to) \in Lines
      /\ \A p \in Addressable : Left(Tail(to), p) = Left(to, p) - (IF Head(to) = p THEN 1 ELSE 0)
  BY <1>1, <1>2, NextInLine
<1>4. k \in TellerStates /\ k.at = "telling" /\ k.to = Tail(to)
  BY <1>1, <1>2, <1>3 DEF TellerStates
<1> HIDE DEF k
<1>5. /\ teller' \in [Everyone -> TellerStates] /\ teller'[c] = k
      /\ \A d \in Everyone \ {c} : teller'[d] = teller[d]
  BY <1>1, <1>4, TellerMoves DEF NoticesInv
<1>6. /\ told \in [Addressable -> Nat] /\ told' \in [Addressable -> Nat]
      /\ \A p \in Addressable : told'[p] = told[p] + (IF Head(to) = p THEN 1 ELSE 0)
  BY <1>1, <1>3 DEF NoticesInv, NoticesTyped
<1>7. \A p \in Addressable : Left(to, p) \in 0..3 /\ Left(Tail(to), p) \in 0..3
  BY LeftIsNumber
<1>8. \A p \in Addressable : Pending(teller[c], p) = Left(to, p) /\ Pending(k, p) = Left(Tail(to), p)
  BY <1>1, <1>4 DEF Pending
<1> HIDE DEF to
\* Whom he would tell he still tells, or has told.
<1>9. \A p \in Addressable : /\ told[p] > 0 => told'[p] > 0
                             /\ Left(to, p) >= 1 => told'[p] > 0 \/ Left(Tail(to), p) >= 1
  BY <1>3, <1>6, <1>7
<1>10. NoticesTyped'
  BY <1>1, <1>5, <1>6 DEF NoticesInv, NoticesTyped
<1>11. CarriedSound'
  BY <1>1 DEF NoticesInv, CarriedSound
<1>12. "carrier" \in Addressable /\ (Left(Tail(to), "carrier") >= 1 => Left(to, "carrier") >= 1)
  <2>1. "carrier" \in Addressable
    BY DEF Addressable
  <2>2. QED
    BY <1>3, <1>7, <2>1
<1>13. occasion = "accepted" /\ Left(to, "carrier") >= 1 => "carrier" \in owed
  BY <1>1 DEF NoticesInv, TellersSound, to
<1>14. TellersSound'
  BY <1>1, <1>4, <1>5, <1>12, <1>13 DEF NoticesInv, TellersSound
<1>15. RowSound'
  <2>1. CASE c = OfRow
    <3>1. \A p \in Addressable : told[p] > 0 \/ Left(to, p) >= 1
      BY <1>1, <2>1 DEF NoticesInv, RowSound, to
    <3>2. \A p \in Addressable : told'[p] > 0 \/ Left(teller'[OfRow].to, p) >= 1
      BY <1>4, <1>5, <1>9, <2>1, <3>1
    <3>3. teller'[OfRow].at = "telling" /\ teller[OfRow].at = "telling"
      BY <1>1, <1>4, <1>5, <2>1
    <3>4. QED
      BY <1>1, <3>2, <3>3 DEF NoticesInv, RowSound
  <2>2. CASE c # OfRow
    <3>1. teller'[OfRow] = teller[OfRow]
      BY <1>5, <2>2 DEF Everyone
    <3>2. QED
      BY <1>1, <1>9, <3>1 DEF NoticesInv, RowSound
  <2>3. QED
    BY <2>1, <2>2
<1>16. OwedSound'
  <2> SUFFICES ASSUME NEW p \in owed
               PROVE  \/ told'[p] > 0
                      \/ \E d \in Everyone : Pending(teller'[d], p) >= 1
                      \/ cutAfterNews
                      \/ outboxRow.state \notin {"none", "done"}
    BY <1>1 DEF OwedSound
  <2>1. p \in Addressable
    BY DEF NoticesInv, NoticesTyped
  <2>2. \/ told[p] > 0
        \/ \E d \in Everyone : Pending(teller[d], p) >= 1
        \/ cutAfterNews
        \/ outboxRow.state \notin {"none", "done"}
    BY DEF NoticesInv, OwedSound
  <2>3. ASSUME NEW d \in Everyone, Pending(teller[d], p) >= 1
        PROVE  told'[p] > 0 \/ Pending(teller'[d], p) >= 1
    <3>1. CASE d = c
      BY <1>5, <1>8, <1>9, <2>1, <2>3, <3>1
    <3>2. CASE d # c
      BY <1>5, <2>3, <3>2
    <3>3. QED
      BY <3>1, <3>2
  <2>4. QED
    BY <1>9, <2>1, <2>2, <2>3
<1>17. Counted'
  <2>1. \A p \in Addressable : told'[p] + Pending(k, p) <= told[p] + Pending(teller[c], p)
    BY <1>3, <1>6, <1>7, <1>8
  <2>2. NoticesTyped /\ Counted /\ occasion' = occasion /\ news' = news
    BY <1>1 DEF NoticesInv
  <2>3. QED
    BY <1>1, <1>4, <1>6, <2>1, <2>2, CountKept
<1>18. AcceptedCarrierIsOne'
  <2> SUFFICES ASSUME occasion = "accepted", told'["carrier"] > 0
               PROVE  "carrier" \in owed
    BY <1>1 DEF AcceptedCarrierIsOne
  <2>1. CASE told["carrier"] > 0
    BY <2>1 DEF NoticesInv, AcceptedCarrierIsOne
  <2>2. CASE ~(told["carrier"] > 0)
    <3>1. Head(to) = "carrier"
      BY <1>6, <1>12, <2>2
    <3>2. Left(to, "carrier") >= 1
      BY <1>3, <1>7, <1>12, <3>1
    <3>3. QED
      BY <1>13, <3>2
  <2>3. QED
    BY <2>1, <2>2
<1>19. DoneRowTold'
  BY <1>1, <1>9 DEF NoticesInv, DoneRowTold
<1>20. QED
  BY <1>10, <1>11, <1>14, <1>15, <1>16, <1>17, <1>18, <1>19 DEF NoticesInv

LEMMA LoseCarrierKeeps ==
  ASSUME NoticesInv, LoseCarrier
  PROVE  NoticesInv'
<1>1. /\ occasion \in {"accepted", "paid"} /\ carried' = FALSE /\ open' = FALSE
      /\ UNCHANGED <<occasion, teller, outboxRow, told, news, owed, cutShort, cutAfterNews, replays>>
  BY DEF LoseCarrier
<1>2. carried' \in BOOLEAN /\ open' \in BOOLEAN /\ cutAfterNews' \in BOOLEAN
  BY <1>1, Zenon DEF NoticesInv, NoticesTyped
<1>3. NoticesTyped'
  BY <1>1, <1>2 DEF NoticesInv, NoticesTyped
<1>4. CarriedSound' /\ TellersSound' /\ RowSound'
  BY <1>1 DEF NoticesInv, CarriedSound, TellersSound, RowSound
<1>5. OwedSound' /\ Counted'
  BY <1>1 DEF NoticesInv, OwedSound, Counted, Owing, AtLeast, Often
<1>6. AcceptedCarrierIsOne' /\ DoneRowTold'
  BY <1>1 DEF NoticesInv, AcceptedCarrierIsOne, DoneRowTold
<1>7. QED
  BY <1>3, <1>4, <1>5, <1>6 DEF NoticesInv

\* A step of the outbox: its teller and its row.
LEMMA RowMoveKeeps ==
  ASSUME NoticesInv, NEW k \in TellerStates, k.at # "telling",
         teller' = [teller EXCEPT ![OfRow] = k],
         k.at \in {"idle", "writing"}, k.at = "writing" => k.to = Told(occasion, OfRow, TRUE),
         outboxRow' \in RowStates, outboxRow.state # "none", outboxRow'.state # "none",
         outboxRow'.state \in {"pending", "running"} => outboxRow'.tries < MaxRowTries,
         outboxRow'.state = "running" <=> k.at # "idle",
         outboxRow'.state = "done" => \A p \in Addressable : told[p] > 0,
         replays' \in 0..MaxReplays,
         UNCHANGED <<occasion, open, carried, told, news, owed, cutShort, cutAfterNews>>
  PROVE  NoticesInv'
<1>1. OfRow \in Everyone
  BY DEF Everyone
<1>2. /\ teller' \in [Everyone -> TellerStates] /\ teller'[OfRow] = k
      /\ \A d \in Everyone \ {OfRow} : teller'[d] = teller[d]
  BY <1>1, TellerMoves DEF NoticesInv
<1>3. open' \in BOOLEAN /\ carried' \in BOOLEAN /\ cutAfterNews' \in BOOLEAN
  BY Zenon DEF NoticesInv, NoticesTyped
<1>4. NoticesTyped'
  BY <1>2, <1>3 DEF NoticesInv, NoticesTyped
<1>5. CarriedSound'
  BY DEF NoticesInv, CarriedSound
<1>6. TellersSound'
  BY <1>2 DEF NoticesInv, TellersSound
<1>7. RowSound'
  BY <1>2 DEF NoticesInv, RowSound
<1>8. OwedSound'
  <2>1. owed \subseteq Addressable
    BY DEF NoticesInv, NoticesTyped
  <2>2. outboxRow'.state # "done" => outboxRow'.state \notin {"none", "done"}
    OBVIOUS
  <2>3. QED
    BY <2>1, <2>2 DEF OwedSound
<1>9. Counted'
  <2>1. NoticesTyped /\ Counted /\ occasion' = occasion /\ news' = news
    BY DEF NoticesInv
  <2>2. told' \in [Addressable -> Nat] /\ \A p \in Addressable : told'[p] = told[p] /\ told[p] \in Nat
    BY <2>1 DEF NoticesTyped
  <2>3. \A p \in Addressable : Pending(k, p) = 0 /\ Pending(teller[OfRow], p) \in 0..3
    BY LeftIsNumber DEF Pending
  <2>4. \A p \in Addressable : told'[p] + Pending(k, p) <= told[p] + Pending(teller[OfRow], p)
    BY <2>2, <2>3
  <2>5. QED
    BY <1>1, <2>1, <2>2, <2>4, CountKept
<1>10. AcceptedCarrierIsOne' /\ DoneRowTold'
  BY DEF NoticesInv, AcceptedCarrierIsOne, DoneRowTold
<1>11. QED
  BY <1>4, <1>5, <1>6, <1>7, <1>8, <1>9, <1>10 DEF NoticesInv

LEMMA TakeRowKeeps ==
  ASSUME NoticesInv, TakeRow
  PROVE  NoticesInv'
<1> DEFINE k == [at |-> "writing", to |-> Told(occasion, OfRow, carried)]
<1>1. /\ outboxRow.state = "pending" /\ outboxRow' = [outboxRow EXCEPT !.state = "running"]
      /\ teller' = [teller EXCEPT ![OfRow] = k]
      /\ UNCHANGED <<occasion, open, carried, told, news, owed, cutShort, cutAfterNews, replays>>
  BY DEF TakeRow
<1>2. carried
  BY <1>1 DEF NoticesInv, RowSound, CarriedSound, Settlements
<1>3. carried = TRUE
  BY <1>2, Zenon DEF NoticesInv, NoticesTyped
<1>4. Told(occasion, OfRow, TRUE) \in Lines
  BY LineOfTold DEF NoticesInv
<1>5. k \in TellerStates /\ k.at = "writing" /\ k.to = Told(occasion, OfRow, TRUE)
  BY <1>3, <1>4 DEF TellerStates
<1> HIDE DEF k
<1>6. /\ outboxRow' \in RowStates /\ outboxRow'.state = "running"
      /\ outboxRow'.tries = outboxRow.tries /\ outboxRow.tries < MaxRowTries
  BY <1>1 DEF NoticesInv, NoticesTyped, RowStates, RowSound
<1>7. replays' \in 0..MaxReplays
  BY <1>1 DEF NoticesInv, NoticesTyped
<1>8. QED
  BY <1>1, <1>5, <1>6, <1>7, RowMoveKeeps

LEMMA RowDoneKeeps ==
  ASSUME NoticesInv, RowDone
  PROVE  NoticesInv'
<1>1. /\ teller[OfRow].at = "telling" /\ teller[OfRow].to = <<>>
      /\ outboxRow' = [outboxRow EXCEPT !.state = "done"]
      /\ teller' = [teller EXCEPT ![OfRow] = NotTelling]
      /\ UNCHANGED <<occasion, open, carried, told, news, owed, cutShort, cutAfterNews, replays>>
  BY DEF RowDone
<1>2. /\ outboxRow' \in RowStates /\ outboxRow'.state = "done" /\ outboxRow.state # "none"
      /\ replays' \in 0..MaxReplays
  BY <1>1 DEF NoticesInv, NoticesTyped, RowStates, RowSound
<1>3. ASSUME NEW p \in Addressable
      PROVE  told[p] > 0
  <2>1. told[p] > 0 \/ Left(teller[OfRow].to, p) >= 1
    BY <1>1 DEF NoticesInv, RowSound
  <2>2. Left(<<>>, p) = 0
    BY Counts, Zenon DEF Addressable
  <2>3. QED
    BY <1>1, <2>1, <2>2
<1>4. QED
  BY <1>1, <1>2, <1>3, NotTellingTyped, RowMoveKeeps

LEMMA RowFailsKeeps ==
  ASSUME NoticesInv, RowFails
  PROVE  NoticesInv'
<1>1. /\ outboxRow.state = "running"
      /\ outboxRow' = [state |-> StateAfterFailure(outboxRow.tries + 1), tries |-> outboxRow.tries + 1]
      /\ teller' = [teller EXCEPT ![OfRow] = NotTelling]
      /\ UNCHANGED <<occasion, open, carried, told, news, owed, cutShort, cutAfterNews, replays>>
  BY DEF RowFails
<1>2. outboxRow.tries \in Nat /\ outboxRow.tries < MaxRowTries /\ MaxRowTries \in Nat
  BY <1>1, NoticesAssumption DEF NoticesInv, NoticesTyped, RowStates, RowSound
<1>3. /\ outboxRow' \in RowStates
      /\ outboxRow'.state \in {"pending", "failed"}
      /\ outboxRow'.state = "pending" => outboxRow'.tries < MaxRowTries
  BY <1>1, <1>2 DEF RowStates, StateAfterFailure
<1>4. replays' \in 0..MaxReplays
  BY <1>1 DEF NoticesInv, NoticesTyped
<1>5. QED
  BY <1>1, <1>3, <1>4, NotTellingTyped, RowMoveKeeps

LEMMA ReplayRowKeeps ==
  ASSUME NoticesInv, ReplayRow
  PROVE  NoticesInv'
<1>1. /\ outboxRow.state \in {"done", "failed"} /\ replays < MaxReplays
      /\ outboxRow' = [state |-> "pending", tries |-> 0] /\ replays' = replays + 1
      /\ UNCHANGED <<occasion, open, carried, teller, told, news, owed, cutShort, cutAfterNews>>
  BY DEF ReplayRow
<1>2. open' \in BOOLEAN /\ carried' \in BOOLEAN /\ cutAfterNews' \in BOOLEAN
  BY <1>1, Zenon DEF NoticesInv, NoticesTyped
<1>3. outboxRow' \in RowStates /\ outboxRow'.state = "pending" /\ outboxRow'.tries < MaxRowTries
  BY <1>1, NoticesAssumption DEF RowStates
<1>4. replays' \in 0..MaxReplays
  BY <1>1, NoticesAssumption DEF NoticesInv, NoticesTyped
<1>5. NoticesTyped'
  BY <1>1, <1>2, <1>3, <1>4 DEF NoticesInv, NoticesTyped
<1>6. CarriedSound' /\ TellersSound' /\ RowSound'
  BY <1>1, <1>3 DEF NoticesInv, CarriedSound, TellersSound, RowSound
<1>7. OwedSound'
  BY <1>1, <1>3 DEF OwedSound
<1>8. Counted'
  BY <1>1 DEF NoticesInv, Counted, Owing, AtLeast, Often
<1>9. AcceptedCarrierIsOne' /\ DoneRowTold'
  BY <1>1, <1>3 DEF NoticesInv, AcceptedCarrierIsOne, DoneRowTold
<1>10. QED
  BY <1>5, <1>6, <1>7, <1>8, <1>9 DEF NoticesInv

LEMMA NoticesStep == NoticesInv /\ [NoticesNext]_noticesVars => NoticesInv'
<1> SUFFICES ASSUME NoticesInv, [NoticesNext]_noticesVars PROVE NoticesInv'
  OBVIOUS
<1>1. ASSUME NEW c \in Tellers, ComeUpon(c) PROVE NoticesInv'
  BY <1>1, ComeUponKeeps
<1>2. ASSUME NEW c \in Tellers, CallSettled(c) PROVE NoticesInv'
  BY <1>2, CallSettledKeeps
<1>3. ASSUME NEW c \in Tellers, CallQueued(c) PROVE NoticesInv'
  BY <1>3, CallQueuedKeeps
<1>4. ASSUME NEW c \in Tellers, ReleaseEnds(c) PROVE NoticesInv'
  BY <1>4, ReleaseEndsKeeps
<1>5. ASSUME NEW c \in Everyone, WriteRow(c) PROVE NoticesInv'
  BY <1>5, WriteRowKeeps
<1>6. ASSUME NEW c \in Everyone, StoreNotice(c) PROVE NoticesInv'
  BY <1>6, StoreNoticeKeeps
<1>7. ASSUME NEW c \in Everyone, EndTelling(c) PROVE NoticesInv'
  BY <1>7, EndTellingKeeps
<1>8. ASSUME NEW c \in Everyone, CutTeller(c) PROVE NoticesInv'
  BY <1>8, CutTellerKeeps
<1>9. CASE LoseCarrier
  BY <1>9, LoseCarrierKeeps
<1>10. CASE TakeRow
  BY <1>10, TakeRowKeeps
<1>11. CASE RowDone
  BY <1>11, RowDoneKeeps
<1>12. CASE RowFails
  BY <1>12, RowFailsKeeps
<1>13. CASE ReplayRow
  BY <1>13, ReplayRowKeeps
<1>14. CASE UNCHANGED noticesVars
  <2>1. /\ UNCHANGED <<occasion, open, carried, teller, outboxRow, told, news, owed, cutShort>>
        /\ UNCHANGED <<cutAfterNews, replays>>
    BY <1>14 DEF noticesVars
  <2>2. open' \in BOOLEAN /\ carried' \in BOOLEAN /\ cutAfterNews' \in BOOLEAN
    BY <2>1, Zenon DEF NoticesInv, NoticesTyped
  <2>3. NoticesTyped'
    BY <2>1, <2>2 DEF NoticesInv, NoticesTyped
  <2>4. CarriedSound' /\ TellersSound' /\ RowSound' /\ OwedSound'
    BY <2>1 DEF NoticesInv, CarriedSound, TellersSound, RowSound, OwedSound, Pending
  <2>5. Counted'
    BY <2>1 DEF NoticesInv, Counted, Owing, AtLeast, Often
  <2>6. AcceptedCarrierIsOne' /\ DoneRowTold'
    BY <2>1 DEF NoticesInv, AcceptedCarrierIsOne, DoneRowTold
  <2>7. QED
    BY <2>3, <2>4, <2>5, <2>6 DEF NoticesInv
<1>15. QED
  BY <1>1, <1>2, <1>3, <1>4, <1>5, <1>6, <1>7, <1>8, <1>9, <1>10, <1>11, <1>12, <1>13, <1>14
     DEF NoticesNext, Everyone

\* What the invariant says of the parties.
LEMMA NoticesInvTells == NoticesInv => PartiesTold
<1> SUFFICES ASSUME NoticesInv PROVE PartiesTold
  OBVIOUS
<1>1. ToldOfWhatHappened
  <2> SUFFICES ASSUME NEW p \in Addressable
               PROVE  told[p] <= news * Often(p)
    BY DEF ToldOfWhatHappened, Often
  <2>1. told[p] + Owing(teller, p) <= news * Often(p)
    BY DEF NoticesInv, Counted
  <2>2. Owing(teller, p) \in Nat
    <3>1. IsFiniteSet(AtLeast(1, teller, p)) /\ IsFiniteSet(AtLeast(2, teller, p))
      BY DEF NoticesInv, Counted
    <3>2. Cardinality(AtLeast(1, teller, p)) \in Nat /\ Cardinality(AtLeast(2, teller, p)) \in Nat
      BY <3>1, FS_CardinalityType
    <3>3. QED
      BY <3>2 DEF Owing
  <2>3. told[p] \in Nat /\ news \in Nat /\ Often(p) \in {1, 2}
    BY DEF NoticesInv, NoticesTyped, Often
  <2>4. news * Often(p) \in Nat
    BY <2>3
  <2>5. QED
    BY <2>1, <2>2, <2>3, <2>4
<1>2. PartiesKnow
  <2> SUFFICES ASSUME \A c \in Everyone : teller[c].at = "idle", ~cutAfterNews,
                      outboxRow.state \in {"none", "done"}, NEW p \in owed
               PROVE  told[p] > 0
    BY DEF PartiesKnow, Everyone
  <2>1. \A c \in Everyone : Pending(teller[c], p) = 0
    BY DEF Pending
  <2>2. \/ told[p] > 0
        \/ \E c \in Everyone : Pending(teller[c], p) >= 1
    BY DEF NoticesInv, OwedSound
  <2>3. QED
    BY <2>1, <2>2
<1>3. QED
  BY <1>1, <1>2 DEF NoticesInv, PartiesTold

\* The tellers, the row and the notices of Notices are always of their types.
THEOREM NoticesTypeCorrect == NoticesSpec => []NoticesTypeOK
<1>1. NoticesInv => NoticesTypeOK
  <2> SUFFICES ASSUME NoticesInv PROVE NoticesTypeOK
    OBVIOUS
  <2>1. ASSUME NEW c \in Everyone
        PROVE  /\ teller[c].at \in {"idle", "calling", "writing", "answering", "telling"}
               /\ Len(teller[c].to) <= 3 /\ Members(teller[c].to) \subseteq Addressable
    <3>1. /\ teller[c].at \in {"idle", "calling", "writing", "answering", "telling"}
          /\ teller[c].to \in Seq(Addressable) /\ Len(teller[c].to) <= 3
      BY DEF NoticesInv, NoticesTyped, TellerStates, Lines
    <3>2. \A i \in DOMAIN teller[c].to : teller[c].to[i] \in Addressable
      BY <3>1, LenProperties, ElementOfSeq
    <3>3. QED
      BY <3>1, <3>2 DEF Members
  <2>2. outboxRow.state \in {"none", "pending", "running", "done", "failed"}
        /\ outboxRow.tries \in 0..MaxRowTries
    BY DEF NoticesInv, NoticesTyped, RowStates
  <2>3. open \in BOOLEAN /\ carried \in BOOLEAN /\ cutAfterNews \in BOOLEAN
    BY Zenon DEF NoticesInv, NoticesTyped
  <2>4. QED
    BY <2>1, <2>2, <2>3 DEF NoticesInv, NoticesTyped, NoticesTypeOK, Everyone
<1>2. QED
  BY <1>1, NoticesStart, NoticesStep, PTL DEF NoticesSpec

\* Nobody is told more often than it happened, only a carrier is told that his offer was
\* accepted, and when all is done every party knows unless a teller failed after its write.
THEOREM PartiesStayTold == NoticesSpec => []PartiesTold
BY NoticesInvTells, NoticesStart, NoticesStep, PTL DEF NoticesSpec
=============================================================================
