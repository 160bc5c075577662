----------------------- MODULE ShipmentLifecycleProofs -----------------------
(***************************************************************************)
(* Theorems about ShipmentLifecycle for any number of shipments, trips,    *)
(* requests and cron jobs: its type invariant, the three safety properties *)
(* about money, that its outbox rows keep to CommandDelivery, and that the *)
(* capacity of the trips is accounted for as long as no two requests move  *)
(* the same shipment, and not exceeded unless two take from the same trip. *)
(*                                                                         *)
(* A handler acts on what it read, so none of the properties is inductive: *)
(* each is strengthened by what it says of the handlers that are between   *)
(* their read and their write and of the outbox rows that will write later.*)
(***************************************************************************)
EXTENDS ShipmentLifecycle, Sums, TLAPS

(* Types: what one handler carries at each of its steps.                   *)

\* The statuses that the resolution of a dispute writes, and the commands
\* that they may be written after.
Matches(cmd, target) ==
  \/ target = "none"
  \/ target = "CONFIRMED" /\ cmd \in {"ReleaseEscrow", "PartialRefundEscrow"}
  \/ target = "REFUNDED" /\ cmd = "RefundEscrow"
  \/ target = "PARTIALLY_REFUNDED" /\ cmd = "PartialRefundEscrow"

CallSteps == {"calling", "answered", "storing"}
WithdrawSteps == {"returning", "closing", "detaching"}
Advances == {"PICKED_UP", "IN_TRANSIT", "DELIVERED", "CONFIRMED"}

Good(h) ==
  /\ h \in Handlers
  /\ h.pc # "idle" => h.s \in Shipments
  /\ h.pc \in {"reserving", "returning", "matching"} => h.t \in Trips
  /\ h.pc \in CallSteps => h.cmd \in Commands /\ Matches(h.cmd, h.target)
  /\ h.pc \notin CallSteps => h.cmd = "none"
  /\ h.pc \in WithdrawSteps => h.target \in {"PENDING", "CANCELLED"}
  /\ h.pc = "advancing" => h.target \in Advances
  /\ h.pc \notin CallSteps \union WithdrawSteps \union {"advancing"} => h.target = "none"

HandlersGood == proc \in [Procs -> Handlers] /\ \A p \in Procs : Good(proc[p])
RowsGood ==
  /\ row \in [Shipments \X Commands -> OutboxRows]
  /\ \A s \in Shipments, cmd \in Commands : Matches(cmd, row[<<s, cmd>>].target)

\* The type invariant with what handlers and rows carry.
Typed ==
  /\ HandlersGood
  /\ RowsGood
  /\ shipment \in [Shipments -> ShipmentRows]
  /\ chat \in [Shipments -> {"none", "active", "inactive"}]
  /\ available \in [Trips -> Int]
  /\ effect \subseteq Shipments \X Commands
  /\ gateway \subseteq Shipments
  /\ unanswered \in Nat
  /\ faults \in Nat

\* An idle handler carries nothing.
LEMMA IdleGood == Good(Idle)
BY DEF Good, Idle, Handlers, Steps, Targets, CallSteps, WithdrawSteps

\* A handler that is replaced by a good one leaves all of them good.
LEMMA Replaced ==
  ASSUME HandlersGood, NEW p \in Procs, NEW h, Good(h), proc' = [proc EXCEPT ![p] = h]
  PROVE  HandlersGood'
<1>1. h \in Handlers
  BY DEF Good
<1>2. proc' \in [Procs -> Handlers]
  BY <1>1 DEF HandlersGood
<1>3. \A q \in Procs : proc'[q] = IF q = p THEN h ELSE proc[q]
  BY DEF HandlersGood
<1>4. ASSUME NEW q \in Procs
      PROVE  Good(proc[q])'
  <2>1. CASE q = p
    <3>1. proc'[q] = h
      BY <1>3, <2>1
    <3> QED
      BY <3>1 DEF Good
  <2>2. CASE q # p
    <3>1. proc'[q] = proc[q] /\ Good(proc[q])
      BY <1>3, <2>2 DEF HandlersGood
    <3> QED
      BY <3>1 DEF Good
  <2> QED
    BY <2>1, <2>2
<1> QED
  BY <1>2, <1>4 DEF HandlersGood

\* The end of a handler.
LEMMA EndsGood ==
  ASSUME HandlersGood, NEW p \in Procs, Ends(p)
  PROVE  HandlersGood'
BY IdleGood, Replaced DEF Ends

\* A step within a handler, to a step that needs no more than the one before.
LEMMA MovesGood ==
  ASSUME HandlersGood, NEW p \in Procs, NEW pc \in Steps \ {"idle"}, Moves(p, pc),
         \/ pc \in CallSteps /\ proc[p].pc \in CallSteps
         \/ pc = "closing" /\ proc[p].pc = "returning"
         \/ pc = "reserving" /\ proc[p].pc = "matching"
         \/ pc \in {"opening", "rechecking", "paying"} /\ proc[p].pc \in {"reserving", "polling", "rechecking"}
  PROVE  HandlersGood'
<1> DEFINE h == [proc[p] EXCEPT !.pc = pc]
<1>1. proc' = [proc EXCEPT ![p] = h]
  BY DEF Moves
<1>2. Good(proc[p])
  BY DEF HandlersGood
<1>3. Good(h)
  BY <1>2 DEF Good, Handlers, CallSteps, WithdrawSteps
<1> QED
  BY <1>1, <1>3, Replaced

\* The start of a handler that carries only its shipment.
LEMMA BeginsGood ==
  ASSUME HandlersGood, NEW p \in Procs, NEW s \in Shipments,
         NEW pc \in {"accepting", "disputing", "polling"}, Begins(p, s, pc)
  PROVE  HandlersGood'
<1> DEFINE h == [Idle EXCEPT !.pc = pc, !.s = s]
<1>1. Good(h)
  BY DEF Good, Idle, Handlers, Steps, Targets, CallSteps, WithdrawSteps
<1> QED
  BY <1>1, Replaced DEF Begins

\* The start of a status update.
LEMMA BeginsTowardGood ==
  ASSUME HandlersGood, NEW p \in Procs, NEW s \in Shipments, NEW target \in Advances,
         BeginsToward(p, s, "advancing", target)
  PROVE  HandlersGood'
<1> DEFINE h == [Idle EXCEPT !.pc = "advancing", !.s = s, !.target = target]
<1>1. Good(h)
  BY DEF Good, Idle, Handlers, Steps, Targets, Statuses, CallSteps, WithdrawSteps, Advances
<1> QED
  BY <1>1, Replaced DEF BeginsToward

\* The start of a finance call.
LEMMA BeginsCallGood ==
  ASSUME HandlersGood, NEW p \in Procs, NEW s \in Shipments, NEW cmd \in Commands,
         NEW target \in Targets, Matches(cmd, target), BeginsCall(p, s, cmd, target)
  PROVE  HandlersGood'
<1> DEFINE h == [Idle EXCEPT !.pc = "calling", !.s = s, !.cmd = cmd, !.target = target]
<1>1. Good(h)
  BY DEF Good, Idle, Handlers, Steps, CallSteps, WithdrawSteps
<1> QED
  BY <1>1, Replaced DEF BeginsCall

\* What the bridge writes is a shipment row.
LEMMA BridgeTypes ==
  ASSUME Typed, NEW s \in Shipments, NEW cmd \in Commands, NEW target \in Targets,
         Bridge(s, cmd, target)
  PROVE  shipment' \in [Shipments -> ShipmentRows]
<1>1. shipment[s] \in ShipmentRows
  BY DEF Typed
<1>2. CASE cmd = "CreatePaymentOrder" /\ shipment' = [shipment EXCEPT ![s].order = TRUE]
  BY <1>1, <1>2 DEF Typed, ShipmentRows
<1>3. CASE /\ target \in Statuses
           /\ shipment' = [shipment EXCEPT ![s].status = target, ![s].resolved = TRUE]
  BY <1>1, <1>3 DEF Typed, ShipmentRows
<1>4. CASE UNCHANGED shipment
  BY <1>4 DEF Typed
<1> QED
  BY <1>2, <1>3, <1>4 DEF Bridge, Targets

\* What every step of a handler needs to know about it.
LEMMA HandlerFacts ==
  ASSUME Typed, NEW p \in Procs, proc[p].pc # "idle"
  PROVE  /\ proc[p].s \in Shipments
         /\ shipment[proc[p].s] \in ShipmentRows
         /\ proc[p] \in Handlers
         /\ proc[p].pc \in {"reserving", "returning", "matching"} =>
              proc[p].t \in Trips /\ available[proc[p].t] \in Int
         /\ proc[p].pc \in CallSteps =>
              /\ proc[p].cmd \in Commands
              /\ proc[p].target \in Targets
              /\ Matches(proc[p].cmd, proc[p].target)
         /\ proc[p].pc \in WithdrawSteps => proc[p].target \in {"PENDING", "CANCELLED"}
         /\ proc[p].pc = "advancing" => proc[p].target \in Advances
<1>1. Good(proc[p])
  BY DEF Typed, HandlersGood
<1> QED
  BY <1>1 DEF Good, Typed, Handlers

\* A write to one shipment keeps the types of all.
LEMMA RowWritten ==
  ASSUME Typed, NEW s \in Shipments, NEW r \in ShipmentRows,
         shipment' = [shipment EXCEPT ![s] = r]
  PROVE  shipment' \in [Shipments -> ShipmentRows]
BY DEF Typed

\* The types that a step leaves alone.
LEMMA RowsKeep ==
  ASSUME RowsGood, UNCHANGED row
  PROVE  RowsGood'
BY DEF RowsGood

\* A row that changes its state keeps its target.
LEMMA SetRowGood ==
  ASSUME RowsGood, NEW s \in Shipments, NEW cmd \in Commands, NEW state \in OutboxStates,
         SetRow(s, cmd, state)
  PROVE  RowsGood'
<1>1. row[<<s, cmd>>] \in OutboxRows
  BY DEF RowsGood
<1>2. row' \in [Shipments \X Commands -> OutboxRows]
  BY <1>1 DEF RowsGood, SetRow, OutboxRows
<1>3. \A r \in Shipments, c \in Commands : row'[<<r, c>>].target = row[<<r, c>>].target
  BY <1>1 DEF RowsGood, SetRow, OutboxRows
<1> QED
  BY <1>2, <1>3 DEF RowsGood

\* The requests of users and administrators, and the cron jobs, begin well.
LEMMA BeginTyped ==
  ASSUME Typed, NEW p \in Procs, NEW s \in Shipments, RequestStep(p, s) \/ JobStep(p, s)
  PROVE  Typed'
<1> USE DEF Typed
<1>0. /\ shipment[s] \in ShipmentRows /\ NoShipment \notin Shipments
      /\ \A w \in Weights : w \in Nat
  BY NamesAssumption, NumbersAssumption
<1>1. ASSUME NEW t \in Trips, BeginAssign(p, s, t)
      PROVE  Typed'
  <2> DEFINE h == [Idle EXCEPT !.pc = "matching", !.s = s, !.t = t, !.w = shipment[s].weight]
  <2>1. Good(h)
    BY <1>0 DEF ShipmentRows, Good, Idle, Handlers, Steps, Targets, CallSteps, WithdrawSteps
  <2>2. HandlersGood'
    BY <1>1, <2>1, Replaced DEF BeginAssign
  <2> QED
    BY <1>1, <2>2, RowsKeep DEF BeginAssign
<1>2. CASE BeginAccept(p, s)
  BY <1>2, BeginsGood, RowsKeep DEF BeginAccept
<1>3. ASSUME NEW op \in {"reject", "cancel"}, BeginWithdraw(p, s, op)
      PROVE  Typed'
  <2> DEFINE held == shipment[s].status \in HoldsCapacity /\ shipment[s].trip # NoTrip
  <2> DEFINE h == [Idle EXCEPT !.pc = IF held THEN "returning" ELSE "closing",
                               !.s = s, !.t = shipment[s].trip, !.w = shipment[s].weight,
                               !.target = WithdrawnStatus(op)]
  <2>1. Good(h)
    BY <1>0 DEF ShipmentRows, Good, Idle, Handlers, Steps, Targets, Statuses, CallSteps,
                WithdrawSteps, WithdrawnStatus
  <2>2. HandlersGood'
    BY <1>3, <2>1, Replaced DEF BeginWithdraw
  <2> QED
    BY <1>3, <2>2, RowsKeep DEF BeginWithdraw
<1>4. ASSUME NEW w \in Weights, BeginReweigh(p, s, w)
      PROVE  Typed'
  <2> DEFINE h == [Idle EXCEPT !.pc = "reweighing", !.s = s, !.w = w]
  <2>1. Good(h)
    BY <1>0 DEF Good, Idle, Handlers, Steps, Targets, CallSteps, WithdrawSteps
  <2>2. HandlersGood'
    BY <1>4, <2>1, Replaced DEF BeginReweigh
  <2> QED
    BY <1>4, <2>2, RowsKeep DEF BeginReweigh
<1>5. ASSUME NEW op \in {"wallet", "order"}, BeginPayment(p, s, op)
      PROVE  Typed'
  <2>1. PaymentCommand(op) \in Commands /\ "none" \in Targets
    BY DEF PaymentCommand, Commands, Targets
  <2>2. HandlersGood'
    BY <1>5, <2>1, BeginsCallGood DEF BeginPayment, Matches
  <2> QED
    BY <1>5, <2>2, RowsKeep DEF BeginPayment
<1>6. ASSUME NEW target \in DOMAIN ExpectedFrom, BeginAdvance(p, s, target)
      PROVE  Typed'
  <2>1. target \in Advances
    BY DEF ExpectedFrom, Advances
  <2>2. HandlersGood'
    BY <1>6, <2>1, BeginsTowardGood DEF BeginAdvance
  <2> QED
    BY <1>6, <2>2, RowsKeep DEF BeginAdvance
<1>7. CASE BeginDispute(p, s)
  BY <1>7, BeginsGood, RowsKeep DEF BeginDispute
<1>8. ASSUME NEW op \in Resolutions, BeginResolve(p, s, op)
      PROVE  Typed'
  <2>1. /\ FirstCommand(op) \in Commands /\ ResolvedStatus(op) \in Targets
        /\ Matches(FirstCommand(op), ResolvedStatus(op))
    BY DEF Resolutions, FirstCommand, ResolvedStatus, Commands, Targets, Statuses, Matches
  <2>2. HandlersGood'
    BY <1>8, <2>1, BeginsCallGood DEF BeginResolve
  <2> QED
    BY <1>8, <2>2, RowsKeep DEF BeginResolve
<1>9. CASE BeginPoll(p, s)
  BY <1>9, BeginsGood, RowsKeep DEF BeginPoll
<1>10. CASE BeginAutoRelease(p, s)
  <2>1. HandlersGood'
    BY <1>10, BeginsTowardGood DEF BeginAutoRelease, Advances
  <2> QED
    BY <1>10, <2>1, RowsKeep DEF BeginAutoRelease
<1> QED
  BY <1>1, <1>2, <1>3, <1>4, <1>5, <1>6, <1>7, <1>8, <1>9, <1>10 DEF RequestStep, JobStep

\* The next step of a running handler.
LEMMA HandlerTyped ==
  ASSUME Typed, NEW p \in Procs, HandlerStep(p) \/ HandlerFails(p)
  PROVE  Typed'
<1> USE DEF Typed, At
<1>1. CASE AssignToTrip(p)
  <2>1. HandlersGood'
    BY <1>1, MovesGood DEF AssignToTrip, Steps
  <2>2. shipment' \in [Shipments -> ShipmentRows]
    BY <1>1, HandlerFacts DEF AssignToTrip, ShipmentRows, Statuses
  <2> QED
    BY <1>1, <2>1, <2>2, RowsKeep DEF AssignToTrip
<1>2. CASE ReserveWeight(p)
  <2>1. HandlersGood'
    BY <1>2, MovesGood DEF ReserveWeight, Steps
  <2>2. proc[p].t \in Trips /\ available[proc[p].t] - proc[p].w \in Int
    BY <1>2, HandlerFacts DEF ReserveWeight, Handlers
  <2>3. available' \in [Trips -> Int]
    BY <1>2, <2>2 DEF ReserveWeight
  <2> QED
    BY <1>2, <2>1, <2>3, RowsKeep DEF ReserveWeight
<1>3. CASE CreateChat(p)
  <2>1. HandlersGood'
    BY <1>3, EndsGood DEF CreateChat
  <2> QED
    BY <1>3, <2>1, RowsKeep, HandlerFacts DEF CreateChat
<1>4. CASE AcceptOffer(p)
  <2>1. HandlersGood'
    BY <1>4, EndsGood, BeginsCallGood, HandlerFacts DEF AcceptOffer, Commands, Targets, Matches
  <2>2. shipment' \in [Shipments -> ShipmentRows]
    <3>1. shipment' = [shipment EXCEPT ![proc[p].s].status = "ACCEPTED"]
      BY <1>4 DEF AcceptOffer, SetStatus
    <3>2. proc[p].s \in Shipments /\ shipment[proc[p].s] \in ShipmentRows
      BY <1>4, HandlerFacts DEF AcceptOffer
    <3> QED
      BY <3>1, <3>2 DEF ShipmentRows, Statuses
  <2> QED
    BY <1>4, <2>1, <2>2, RowsKeep DEF AcceptOffer
<1>5. CASE ReturnWeight(p)
  <2>1. HandlersGood'
    BY <1>5, MovesGood DEF ReturnWeight, Steps
  <2>2. proc[p].t \in Trips /\ available[proc[p].t] + proc[p].w \in Int
    BY <1>5, HandlerFacts DEF ReturnWeight, Handlers
  <2>3. available' \in [Trips -> Int]
    BY <1>5, <2>2 DEF ReturnWeight
  <2> QED
    BY <1>5, <2>1, <2>3, RowsKeep DEF ReturnWeight
<1>6. CASE DeactivateChat(p)
  <2> DEFINE h == [Idle EXCEPT !.pc = "detaching", !.s = proc[p].s, !.target = proc[p].target]
  <2>1. proc[p].s \in Shipments /\ proc[p].target \in {"PENDING", "CANCELLED"}
    BY <1>6, HandlerFacts DEF DeactivateChat, WithdrawSteps
  <2>2. Good(h)
    BY <2>1 DEF Good, Idle, Handlers, Steps, Targets, Statuses, CallSteps, WithdrawSteps
  <2>3. HandlersGood'
    BY <1>6, <2>2, Replaced DEF DeactivateChat
  <2> QED
    BY <1>6, <2>1, <2>3, RowsKeep DEF DeactivateChat
<1>7. CASE Detach(p)
  <2>1. HandlersGood'
    BY <1>7, EndsGood DEF Detach
  <2>2. shipment' \in [Shipments -> ShipmentRows]
    <3> DEFINE s == proc[p].s
               r == [shipment[s] EXCEPT !.status = proc[p].target, !.trip = NoTrip]
    <3>1. /\ s \in Shipments /\ shipment[s] \in ShipmentRows
          /\ proc[p].target \in {"PENDING", "CANCELLED"}
      BY <1>7, HandlerFacts DEF Detach, WithdrawSteps
    <3>2. shipment' = [shipment EXCEPT ![s] = r]
      BY <1>7, <3>1 DEF Detach, ShipmentRows
    <3>3. r \in ShipmentRows
      BY <3>1 DEF ShipmentRows, Statuses
    <3> HIDE DEF r
    <3> QED
      BY <3>1, <3>2, <3>3, RowWritten
  <2> QED
    BY <1>7, <2>1, <2>2, RowsKeep DEF Detach
<1>8. CASE Reweigh(p)
  <2>1. HandlersGood'
    BY <1>8, EndsGood DEF Reweigh
  <2>2. shipment' \in [Shipments -> ShipmentRows]
    BY <1>8, HandlerFacts DEF Reweigh, ShipmentRows, Handlers
  <2> QED
    BY <1>8, <2>1, <2>2, RowsKeep DEF Reweigh
<1>9. CASE Advance(p)
  <2>1. proc[p].s \in Shipments /\ proc[p].target \in Advances
    BY <1>9, HandlerFacts DEF Advance
  <2>2. \/ BeginsCall(p, proc[p].s, "MarkDelivered", "none")
        \/ BeginsCall(p, proc[p].s, "ReleaseEscrow", "none")
        \/ Ends(p)
    BY <1>9 DEF Advance
  <2>3. HandlersGood'
    BY <2>1, <2>2, EndsGood, BeginsCallGood DEF Commands, Targets, Matches
  <2>4. shipment' \in [Shipments -> ShipmentRows]
    <3> DEFINE s == proc[p].s
               r == [shipment[s] EXCEPT !.status = proc[p].target,
                                        !.delivered = @ \/ proc[p].target = "DELIVERED"]
    <3>1. s \in Shipments /\ shipment[s] \in ShipmentRows
      BY <1>9, HandlerFacts DEF Advance
    <3>2. shipment' = [shipment EXCEPT ![s] = r]
      BY <1>9, <3>1 DEF Advance, ShipmentRows
    <3>3. r \in ShipmentRows
      BY <2>1, <3>1 DEF ShipmentRows, Statuses, Advances
    <3> HIDE DEF r
    <3> QED
      BY <3>1, <3>2, <3>3, RowWritten
  <2> QED
    BY <1>9, <2>3, <2>4, RowsKeep DEF Advance
<1>10. CASE OpenDispute(p)
  <2>1. HandlersGood'
    BY <1>10, BeginsCallGood, HandlerFacts DEF OpenDispute, Commands, Targets, Matches
  <2>2. shipment' \in [Shipments -> ShipmentRows]
    <3> DEFINE s == proc[p].s
               r == [shipment[s] EXCEPT !.status = "DISPUTED", !.disputed = TRUE]
    <3>1. s \in Shipments /\ shipment[s] \in ShipmentRows
      BY <1>10, HandlerFacts DEF OpenDispute
    <3>2. shipment' = [shipment EXCEPT ![s] = r]
      BY <1>10, <3>1 DEF OpenDispute, ShipmentRows
    <3>3. r \in ShipmentRows
      BY <3>1 DEF ShipmentRows, Statuses
    <3> HIDE DEF r
    <3> QED
      BY <3>1, <3>2, <3>3, RowWritten
  <2> QED
    BY <1>10, <2>1, <2>2, RowsKeep DEF OpenDispute
<1>11. CASE FinanceAnswers(p)
  <2>1. HandlersGood'
    BY <1>11, MovesGood DEF FinanceAnswers, Steps, CallSteps
  <2> QED
    BY <1>11, <2>1, RowsKeep, HandlerFacts DEF FinanceAnswers, CallSteps
<1>12. CASE FinanceRejects(p)
  <2>1. HandlersGood'
    BY <1>12, EndsGood DEF FinanceRejects
  <2> QED
    BY <1>12, <2>1, RowsKeep DEF FinanceRejects
<1>13. CASE FinanceUnanswered(p)
  <2>1. HandlersGood'
    BY <1>13, MovesGood DEF FinanceUnanswered, Steps, CallSteps
  <2> QED
    BY <1>13, <2>1, RowsKeep, HandlerFacts DEF FinanceUnanswered, CallSteps
<1>14. CASE StoreAnswer(p)
  <2>1. HandlersGood'
    BY <1>14, EndsGood DEF StoreAnswer
  <2>2. shipment' \in [Shipments -> ShipmentRows]
    BY <1>14, BridgeTypes, HandlerFacts DEF StoreAnswer, CallSteps, Targets
  <2> QED
    BY <1>14, <2>1, <2>2, RowsKeep DEF StoreAnswer
<1>15. CASE ReleaseRest(p)
  <2>1. HandlersGood'
    BY <1>15, BeginsCallGood, HandlerFacts DEF ReleaseRest, Commands, Targets, Statuses, Matches
  <2> QED
    BY <1>15, <2>1, RowsKeep DEF ReleaseRest
<1>16. CASE ResolveShipmentDispute(p)
  <2>1. HandlersGood'
    BY <1>16, EndsGood DEF ResolveShipmentDispute
  <2>2. proc[p].s \in Shipments /\ proc[p].target \in Statuses
    BY <1>16, HandlerFacts DEF ResolveShipmentDispute, CallSteps, Targets
  <2>3. shipment' \in [Shipments -> ShipmentRows]
    BY <1>16, <2>2, SMTT(20) DEF ResolveShipmentDispute, ShipmentRows
  <2> QED
    BY <1>16, <2>1, <2>3, RowsKeep DEF ResolveShipmentDispute
<1>17. CASE Enqueue(p)
  <2>1. HandlersGood'
    BY <1>17, EndsGood DEF Enqueue
  <2> DEFINE s == proc[p].s
             cmd == proc[p].cmd
             new == [state |-> "queued", target |-> proc[p].target]
  <2>2. s \in Shipments /\ cmd \in Commands /\ new \in OutboxRows /\ Matches(cmd, new.target)
    BY <1>17, HandlerFacts DEF Enqueue, CallSteps, OutboxRows, OutboxStates
  <2>3. ASSUME row' = [row EXCEPT ![<<s, cmd>>] = new]
        PROVE  RowsGood'
    BY <2>2, <2>3 DEF RowsGood
  <2>4. ASSUME UNCHANGED row
        PROVE  RowsGood'
    BY <2>4, RowsKeep
  <2>5. RowsGood'
    BY <1>17, <2>3, <2>4 DEF Enqueue
  <2> QED
    BY <1>17, <2>1, <2>5 DEF Enqueue
<1>18. CASE GetEscrow(p)
  <2>1. HandlersGood'
    BY <1>18, MovesGood, EndsGood DEF GetEscrow, Steps
  <2> QED
    BY <1>18, <2>1, RowsKeep DEF GetEscrow
<1>19. CASE RecheckAccepted(p)
  <2>1. HandlersGood'
    BY <1>19, MovesGood, EndsGood DEF RecheckAccepted, Steps
  <2> QED
    BY <1>19, <2>1, RowsKeep DEF RecheckAccepted
<1>20. CASE MarkPaid(p)
  <2>1. HandlersGood'
    BY <1>20, EndsGood DEF MarkPaid
  <2>2. shipment' \in [Shipments -> ShipmentRows]
    BY <1>20, HandlerFacts DEF MarkPaid, SetStatus, ShipmentRows, Statuses
  <2> QED
    BY <1>20, <2>1, <2>2, RowsKeep DEF MarkPaid
<1>21. CASE HandlerFails(p)
  <2>1. HandlersGood'
    BY <1>21, EndsGood DEF HandlerFails
  <2> QED
    BY <1>21, <2>1, RowsKeep DEF HandlerFails
<1> QED
  BY <1>1, <1>2, <1>3, <1>4, <1>5, <1>6, <1>7, <1>8, <1>9, <1>10, <1>11, <1>12, <1>13, <1>14,
     <1>15, <1>16, <1>17, <1>18, <1>19, <1>20, <1>21 DEF HandlerStep

\* The steps of an outbox row and of the gateway.
LEMMA RowTyped ==
  ASSUME Typed, NEW s \in Shipments, NEW cmd \in Commands, RowStep(s, cmd)
  PROVE  Typed'
<1> USE DEF Typed
<1>1. UNCHANGED proc => HandlersGood'
  BY DEF HandlersGood
<1>2. row[<<s, cmd>>].target \in Targets
  BY DEF RowsGood, OutboxRows
<1>3. CASE RowExecutes(s, cmd)
  BY <1>1, <1>3, SetRowGood DEF RowExecutes, OutboxStates
<1>4. CASE RowApplies(s, cmd)
  BY <1>1, <1>2, <1>4, SetRowGood, BridgeTypes DEF RowApplies, OutboxStates
<1>5. CASE RowFails(s, cmd)
  <2>1. shipment' \in [Shipments -> ShipmentRows]
    BY <1>2, <1>5, BridgeTypes DEF RowFails
  <2> QED
    BY <1>1, <1>5, <2>1, SetRowGood DEF RowFails, OutboxStates
<1>6. CASE Replay(s, cmd)
  BY <1>1, <1>6, SetRowGood DEF Replay, OutboxStates
<1> QED
  BY <1>3, <1>4, <1>5, <1>6 DEF RowStep

\* The types and what handlers and rows carry, through every step.
LEMMA TypedInvariant == Spec => []Typed
<1>1. Init => Typed
  <2> SUFFICES ASSUME Init PROVE Typed
    OBVIOUS
  <2>1. HandlersGood
    <3>1. Idle \in Handlers
      BY IdleGood DEF Good
    <3> QED
      BY <3>1, IdleGood DEF Init, HandlersGood
  <2>2. RowsGood
    BY DEF Init, RowsGood, OutboxRows, OutboxStates, Targets, Matches
  <2>3. shipment \in [Shipments -> ShipmentRows]
    <3>1. PICK weight \in [Shipments -> Weights] :
            shipment = [s \in Shipments |->
              [status |-> "PENDING", trip |-> NoTrip, weight |-> weight[s],
               order |-> FALSE, delivered |-> FALSE, disputed |-> FALSE, resolved |-> FALSE]]
      BY DEF Init
    <3>2. \A s \in Shipments : weight[s] \in Nat
      BY NumbersAssumption
    <3> QED
      BY <3>1, <3>2 DEF ShipmentRows, Statuses
  <2>4. available \in [Trips -> Int]
    BY NumbersAssumption DEF Init
  <2> QED
    BY <2>1, <2>2, <2>3, <2>4 DEF Init, Typed
<1>2. Typed /\ [Next]_vars => Typed'
  <2> SUFFICES ASSUME Typed, [Next]_vars PROVE Typed'
    OBVIOUS
  <2>1. ASSUME NEW s \in Shipments, GatewayPays(s)
        PROVE  Typed'
    BY <2>1 DEF GatewayPays, Typed, HandlersGood, RowsGood
  <2>2. CASE UNCHANGED vars
    BY <2>2 DEF vars, Typed, HandlersGood, RowsGood
  <2> QED
    BY <2>1, <2>2, BeginTyped, HandlerTyped, RowTyped DEF Next
<1> QED
  BY <1>1, <1>2, PTL DEF Spec

\* Every step keeps the types: rows, handlers and outbox rows stay in the sets
\* the code can put them in, and a handler has what its next step needs.
THEOREM LifecycleTypes == Spec => []TypeOK
<1>1. Typed => TypeOK
  BY DEF Typed, TypeOK, HandlersGood, RowsGood, Good, CallSteps, WithdrawSteps, Advances, Statuses
<1> QED
  BY TypedInvariant, <1>1, PTL

-----------------------------------------------------------------------------
(* What no step undoes: executed commands, paid orders, deliveries and     *)
(* disputes stay what they are.                                            *)

Grows ==
  /\ effect \subseteq effect'
  /\ gateway \subseteq gateway'
  /\ \A s \in Shipments :
       /\ shipment[s].delivered => shipment'[s].delivered
       /\ shipment[s].disputed => shipment'[s].disputed

\* The bridge clears nothing.
LEMMA BridgeGrows ==
  ASSUME Typed, NEW s \in Shipments, NEW cmd \in Commands, NEW target \in Targets,
         Bridge(s, cmd, target), NEW r \in Shipments
  PROVE  shipment'[r].delivered = shipment[r].delivered /\ shipment'[r].disputed = shipment[r].disputed
BY DEF Typed, Bridge, ShipmentRows

\* The step of a process p changes no other process.
Alone(p) == \A q \in Procs \ {p} : proc'[q] = proc[q]

\* Every step of the program keeps what was done.
LEMMA StepGrows ==
  ASSUME Typed, [Next]_vars
  PROVE  Grows
<1> USE DEF Grows, Typed, ShipmentRows
<1>1. ASSUME NEW p \in Procs, NEW s \in Shipments, RequestStep(p, s) \/ JobStep(p, s)
      PROVE  UNCHANGED <<shipment, effect, gateway>>
  BY <1>1
  DEF RequestStep, JobStep, BeginAssign, BeginAccept, BeginWithdraw, BeginReweigh, BeginPayment,
      BeginAdvance, BeginDispute, BeginResolve, BeginPoll, BeginAutoRelease
<1>2. ASSUME NEW p \in Procs, HandlerStep(p) \/ HandlerFails(p)
      PROVE  Grows
  <2>1. proc[p].pc # "idle" => proc[p].s \in Shipments
    BY HandlerFacts
  <2>2. CASE AssignToTrip(p) \/ Detach(p)
    BY <2>1, <2>2 DEF AssignToTrip, Detach, At
  <2>3. CASE AcceptOffer(p) \/ MarkPaid(p)
    BY <2>1, <2>3 DEF AcceptOffer, MarkPaid, SetStatus, At
  <2>4. CASE Reweigh(p) \/ OpenDispute(p)
    BY <2>1, <2>4, SMTT(30) DEF Reweigh, OpenDispute, At
  <2>5. CASE Advance(p)
    BY <2>1, <2>5 DEF Advance, At
  <2>6. CASE ResolveShipmentDispute(p)
    BY <2>1, <2>6 DEF ResolveShipmentDispute, At
  <2>7. CASE StoreAnswer(p)
    BY <2>7, HandlerFacts, BridgeGrows DEF StoreAnswer, At, CallSteps, Targets
  <2>8. CASE FinanceAnswers(p) \/ FinanceUnanswered(p)
    BY <2>8 DEF FinanceAnswers, FinanceUnanswered
  <2> QED
    BY <1>2, <2>2, <2>3, <2>4, <2>5, <2>6, <2>7, <2>8
    DEF HandlerStep, ReserveWeight, CreateChat, ReturnWeight, DeactivateChat, FinanceRejects,
        ReleaseRest, Enqueue, GetEscrow, RecheckAccepted, HandlerFails
<1>3. ASSUME NEW s \in Shipments, NEW cmd \in Commands, RowStep(s, cmd)
      PROVE  Grows
  <2>1. row[<<s, cmd>>].target \in Targets
    BY DEF RowsGood, OutboxRows
  <2>2. CASE Bridge(s, cmd, row[<<s, cmd>>].target) /\ UNCHANGED <<effect, gateway>>
    BY <2>1, <2>2, BridgeGrows
  <2>3. CASE effect \subseteq effect' /\ UNCHANGED <<shipment, gateway>>
    BY <2>3
  <2> QED
    BY <1>3, <2>2, <2>3 DEF RowStep, RowExecutes, RowApplies, RowFails, Replay
<1>4. ASSUME NEW s \in Shipments, GatewayPays(s)
      PROVE  Grows
  BY <1>4 DEF GatewayPays
<1> QED
  BY <1>1, <1>2, <1>3, <1>4 DEF Next, vars

\* A handler that ends, or is replaced, leaves the others alone.
LEMMA ReplacedAlone ==
  ASSUME Typed, NEW p \in Procs, NEW h, proc' = [proc EXCEPT ![p] = h]
  PROVE  Alone(p) /\ proc'[p] = h
BY DEF Typed, HandlersGood, Alone

\* A handler that moves on keeps everything but its step.
LEMMA MovesAlone ==
  ASSUME Typed, NEW p \in Procs, NEW pc, Moves(p, pc)
  PROVE  /\ Alone(p)
         /\ proc'[p].pc = pc
         /\ proc'[p].s = proc[p].s
         /\ proc'[p].cmd = proc[p].cmd
         /\ proc'[p].target = proc[p].target
BY DEF Typed, HandlersGood, Alone, Moves, Handlers

\* The fields of a handler that has just ended.
LEMMA EndsAlone ==
  ASSUME Typed, NEW p \in Procs, Ends(p)
  PROVE  Alone(p) /\ proc'[p].pc = "idle" /\ proc'[p].target = "none"
<1>1. Alone(p) /\ proc'[p] = Idle
  BY ReplacedAlone DEF Ends
<1> QED
  BY <1>1 DEF Idle

\* The fields of a handler that has just begun.
LEMMA BeginsAlone ==
  ASSUME Typed, NEW p \in Procs, NEW s, NEW pc, Begins(p, s, pc)
  PROVE  Alone(p) /\ proc'[p].pc = pc /\ proc'[p].s = s /\ proc'[p].target = "none"
<1>1. Alone(p) /\ proc'[p] = [Idle EXCEPT !.pc = pc, !.s = s]
  BY ReplacedAlone DEF Begins
<1> QED
  BY <1>1 DEF Idle

\* The fields of a handler that is about to write a status.
LEMMA BeginsTowardAlone ==
  ASSUME Typed, NEW p \in Procs, NEW s, NEW pc, NEW target, BeginsToward(p, s, pc, target)
  PROVE  Alone(p) /\ proc'[p].pc = pc /\ proc'[p].s = s /\ proc'[p].target = target
<1>1. Alone(p) /\ proc'[p] = [Idle EXCEPT !.pc = pc, !.s = s, !.target = target]
  BY ReplacedAlone DEF BeginsToward
<1> QED
  BY <1>1 DEF Idle

\* The fields of a handler that is about to call the finance service.
LEMMA BeginsCallAlone ==
  ASSUME Typed, NEW p \in Procs, NEW s, NEW cmd, NEW target, BeginsCall(p, s, cmd, target)
  PROVE  /\ Alone(p) /\ proc'[p].pc = "calling" /\ proc'[p].s = s
         /\ proc'[p].cmd = cmd /\ proc'[p].target = target
<1>1. /\ Alone(p)
      /\ proc'[p] = [Idle EXCEPT !.pc = "calling", !.s = s, !.cmd = cmd, !.target = target]
  BY ReplacedAlone DEF BeginsCall
<1> QED
  BY <1>1 DEF Idle

-----------------------------------------------------------------------------
(* What a step does to the money: of a shipment only the status and the    *)
(* three marks matter, of a handler its step, shipment, command and target.*)

Same(r) ==
  /\ shipment'[r].status = shipment[r].status
  /\ shipment'[r].delivered = shipment[r].delivered
  /\ shipment'[r].disputed = shipment[r].disputed
  /\ shipment'[r].resolved = shipment[r].resolved
Keeps == \A r \in Shipments : Same(r)
\* Of the shipment s only the status changes, or more.
KeepsBut(s) == \A r \in Shipments \ {s} : Same(r)
Writes(s, status) ==
  /\ KeepsBut(s)
  /\ shipment'[s].status = status
Marks(s, delivered, disputed, resolved) ==
  /\ shipment'[s].delivered = delivered
  /\ shipment'[s].disputed = disputed
  /\ shipment'[s].resolved = resolved
Ended(p) == proc'[p].pc = "idle" /\ proc'[p].target = "none"
Carries(p) == proc'[p].s = proc[p].s /\ proc'[p].target = proc[p].target

(* The kinds of handler steps.                                             *)
Rests(p) == Keeps /\ UNCHANGED <<row, effect>> /\ Ended(p)
GoesOn(p) ==
  /\ Keeps /\ UNCHANGED <<row, effect>> /\ Carries(p)
  /\ proc'[p].pc \in {"opening", "closing", "detaching"}
Unsettles(p) ==
  /\ KeepsBut(proc[p].s) /\ UNCHANGED <<row, effect>>
  /\ shipment'[proc[p].s].status \in {"PENDING", "MATCHED", "ACCEPTED", "CANCELLED"}
  /\ Marks(proc[p].s, shipment[proc[p].s].delivered, shipment[proc[p].s].disputed,
           shipment[proc[p].s].resolved)
  /\ proc'[p].target = "none"
  /\ \/ proc'[p].pc \in {"idle", "reserving"}
     \/ proc'[p].pc = "calling" /\ proc'[p].cmd = "CreateEscrow"
Progresses(p) ==
  /\ proc[p].pc = "advancing" /\ proc[p].target \in Advances
  /\ Writes(proc[p].s, proc[p].target) /\ UNCHANGED <<row, effect>>
  /\ Marks(proc[p].s, shipment[proc[p].s].delivered \/ proc[p].target = "DELIVERED",
           shipment[proc[p].s].disputed, shipment[proc[p].s].resolved)
  /\ proc'[p].target = "none"
  /\ \/ proc'[p].pc = "idle"
     \/ proc'[p].pc = "calling" /\ proc'[p].cmd = "MarkDelivered"
     \/ /\ proc[p].target = "CONFIRMED"
        /\ proc'[p].pc = "calling" /\ proc'[p].cmd = "ReleaseEscrow" /\ proc'[p].s = proc[p].s
Disputes(p) ==
  /\ proc[p].pc = "disputing"
  /\ Writes(proc[p].s, "DISPUTED") /\ UNCHANGED <<row, effect>>
  /\ Marks(proc[p].s, shipment[proc[p].s].delivered, TRUE, shipment[proc[p].s].resolved)
  /\ proc'[p].target = "none" /\ proc'[p].pc = "calling" /\ proc'[p].cmd = "FreezeEscrow"
Calls(p) ==
  /\ proc[p].pc = "calling" /\ Keeps /\ UNCHANGED row
  /\ Carries(p) /\ proc'[p].cmd = proc[p].cmd
  /\ \/ effect' = effect \union {<<proc[p].s, proc[p].cmd>>} /\ proc'[p].pc = "answered"
     \/ effect' \in {effect, effect \union {<<proc[p].s, proc[p].cmd>>}} /\ proc'[p].pc = "storing"
ReleasesRest(p) ==
  /\ proc[p].pc = "answered" /\ FirstLeg(p) /\ Keeps /\ UNCHANGED <<row, effect>>
  /\ Carries(p) /\ proc'[p].pc = "calling" /\ proc'[p].cmd = "ReleaseEscrow"
Resolves(p) ==
  /\ proc[p].pc = "answered" /\ proc[p].target # "none" /\ ~FirstLeg(p)
  /\ Writes(proc[p].s, proc[p].target) /\ UNCHANGED <<row, effect>> /\ Ended(p)
  /\ Marks(proc[p].s, shipment[proc[p].s].delivered, shipment[proc[p].s].disputed, TRUE)
Stores(p) ==
  /\ proc[p].pc = "storing" /\ Keeps /\ UNCHANGED effect /\ Ended(p)
  /\ \A r \in Shipments, cmd \in Commands :
       \/ row'[<<r, cmd>>] = row[<<r, cmd>>]
       \/ /\ r = proc[p].s /\ cmd = proc[p].cmd
          /\ row'[<<r, cmd>>].state = "queued" /\ row'[<<r, cmd>>].target = proc[p].target
Polls(p) ==
  /\ \/ proc[p].pc = "polling" /\ Funded(proc[p].s) /\ proc'[p].pc = "rechecking"
     \/ proc[p].pc = "rechecking" /\ proc'[p].pc = "paying"
  /\ Keeps /\ UNCHANGED <<row, effect>> /\ Carries(p)
Pays(p) ==
  /\ proc[p].pc = "paying"
  /\ Writes(proc[p].s, "PAID") /\ UNCHANGED <<row, effect>> /\ Ended(p)
  /\ Marks(proc[p].s, shipment[proc[p].s].delivered, shipment[proc[p].s].disputed,
           shipment[proc[p].s].resolved)

HandlerEffect(p) ==
  \/ Rests(p)      \/ GoesOn(p)  \/ Unsettles(p)    \/ Progresses(p) \/ Disputes(p)
  \/ Calls(p)      \/ ReleasesRest(p)               \/ Resolves(p)
  \/ Stores(p)     \/ Polls(p)   \/ Pays(p)

\* A handler that ends without a write to a shipment, a row or finance.
LEMMA EndsRests ==
  ASSUME Typed, NEW p \in Procs, Ends(p), UNCHANGED <<shipment, row, effect>>
  PROVE  Alone(p) /\ HandlerEffect(p)
<1>1. Alone(p) /\ Ended(p)
  BY EndsAlone DEF Ended
<1> QED
  BY <1>1 DEF HandlerEffect, Rests, Keeps, Same

\* A write to one row of shipments.
LEMMA OneRow ==
  ASSUME Typed, NEW s \in Shipments, NEW u,
         shipment' = [shipment EXCEPT ![s] = u]
  PROVE  KeepsBut(s) /\ shipment'[s] = u
BY DEF Typed, KeepsBut, Same

\* Every step of a handler is of one of the kinds.
LEMMA HandlerEffects ==
  ASSUME Typed, NEW p \in Procs, HandlerStep(p) \/ HandlerFails(p)
  PROVE  Alone(p) /\ HandlerEffect(p)
<1> DEFINE s == proc[p].s
<1> USE DEF At
<1>0. /\ proc[p].pc # "idle" => s \in Shipments /\ shipment[s] \in ShipmentRows
      /\ shipment \in [Shipments -> ShipmentRows]
  BY HandlerFacts DEF Typed
<1>1. CASE AssignToTrip(p)
  <2>1. Alone(p) /\ proc'[p].pc = "reserving" /\ proc'[p].target = proc[p].target
    BY <1>1, MovesAlone DEF AssignToTrip
  <2>2. proc[p].target = "none"
    BY <1>1 DEF AssignToTrip, Typed, HandlersGood, Good, CallSteps, WithdrawSteps
  <2>3. /\ KeepsBut(s)
        /\ shipment'[s] = [shipment[s] EXCEPT !.status = "MATCHED", !.trip = proc[p].t]
    BY <1>0, <1>1 DEF AssignToTrip, KeepsBut, Same, ShipmentRows
  <2>4. Unsettles(p)
    BY <1>0, <1>1, <2>1, <2>2, <2>3 DEF AssignToTrip, Unsettles, Marks, ShipmentRows
  <2> QED
    BY <2>1, <2>4 DEF HandlerEffect
<1>2. CASE ReserveWeight(p)
  BY <1>2, MovesAlone DEF ReserveWeight, HandlerEffect, GoesOn, Keeps, Same, Carries
<1>3. CASE CreateChat(p)
  BY <1>3, EndsRests DEF CreateChat
<1>4. CASE AcceptOffer(p)
  <2>1. BeginsCall(p, s, "CreateEscrow", "none") \/ Ends(p)
    BY <1>4 DEF AcceptOffer
  <2>2. /\ Alone(p) /\ proc'[p].target = "none"
        /\ proc'[p].pc = "idle" \/ (proc'[p].pc = "calling" /\ proc'[p].cmd = "CreateEscrow")
    BY <2>1, EndsAlone, BeginsCallAlone
  <2>3. KeepsBut(s) /\ shipment'[s] = [shipment[s] EXCEPT !.status = "ACCEPTED"]
    BY <1>0, <1>4, OneRow DEF AcceptOffer, SetStatus
  <2>4. Unsettles(p)
    BY <1>0, <1>4, <2>2, <2>3 DEF AcceptOffer, Unsettles, Marks, ShipmentRows
  <2> QED
    BY <2>2, <2>4 DEF HandlerEffect
<1>5. CASE ReturnWeight(p)
  BY <1>5, MovesAlone DEF ReturnWeight, HandlerEffect, GoesOn, Keeps, Same, Carries
<1>6. CASE DeactivateChat(p)
  <2> DEFINE h == [Idle EXCEPT !.pc = "detaching", !.s = s, !.target = proc[p].target]
  <2>1. Alone(p) /\ proc'[p] = h
    BY <1>6, ReplacedAlone DEF DeactivateChat
  <2>2. Carries(p) /\ proc'[p].pc = "detaching"
    BY <2>1 DEF Carries, Idle
  <2> QED
    BY <1>6, <2>1, <2>2 DEF DeactivateChat, HandlerEffect, GoesOn, Keeps, Same
<1>7. CASE Detach(p)
  <2>1. Alone(p) /\ Ended(p)
    BY <1>7, EndsAlone DEF Detach, Ended
  <2>2. proc[p].target \in {"PENDING", "CANCELLED"}
    BY <1>7, HandlerFacts DEF Detach, WithdrawSteps
  <2>3. /\ KeepsBut(s)
        /\ shipment'[s] = [shipment[s] EXCEPT !.status = proc[p].target, !.trip = NoTrip]
    BY <1>0, <1>7 DEF Detach, KeepsBut, Same, ShipmentRows
  <2>4. Unsettles(p)
    BY <1>0, <1>7, <2>1, <2>2, <2>3 DEF Detach, Unsettles, Marks, ShipmentRows, Ended
  <2> QED
    BY <2>1, <2>4 DEF HandlerEffect
<1>8. CASE Reweigh(p)
  <2>1. Alone(p) /\ Ended(p)
    BY <1>8, EndsAlone DEF Reweigh, Ended
  <2>2. KeepsBut(s) /\ shipment'[s] = [shipment[s] EXCEPT !.weight = proc[p].w]
    BY <1>0, <1>8, OneRow DEF Reweigh
  <2>3. Keeps
    BY <1>0, <1>8, <2>2 DEF Reweigh, KeepsBut, Keeps, Same, ShipmentRows
  <2> QED
    BY <1>8, <2>1, <2>3 DEF Reweigh, HandlerEffect, Rests
<1>9. CASE Advance(p)
  <2>1. Alone(p) /\ proc'[p].target = "none"
    BY <1>9, EndsAlone, BeginsCallAlone DEF Advance
  <2>2. \/ proc'[p].pc = "idle"
        \/ proc'[p].pc = "calling" /\ proc'[p].cmd = "MarkDelivered"
        \/ /\ proc[p].target = "CONFIRMED"
           /\ proc'[p].pc = "calling" /\ proc'[p].cmd = "ReleaseEscrow" /\ proc'[p].s = s
    BY <1>9, EndsAlone, BeginsCallAlone DEF Advance
  <2>3. /\ KeepsBut(s)
        /\ shipment'[s] = [shipment[s] EXCEPT !.status = proc[p].target,
                                              !.delivered = @ \/ proc[p].target = "DELIVERED"]
    BY <1>0, <1>9 DEF Advance, KeepsBut, Same, ShipmentRows
  <2>4. Writes(s, proc[p].target)
    BY <1>0, <1>9, <2>3 DEF Advance, Writes, ShipmentRows
  <2>5. Marks(s, shipment[s].delivered \/ proc[p].target = "DELIVERED",
              shipment[s].disputed, shipment[s].resolved)
    BY <1>0, <1>9, <2>3 DEF Advance, Marks, ShipmentRows
  <2>6. proc[p].target \in Advances
    BY <1>9, HandlerFacts DEF Advance
  <2>7. Progresses(p)
    BY <1>9, <2>1, <2>2, <2>4, <2>5, <2>6 DEF Advance, Progresses
  <2> QED
    BY <2>1, <2>7 DEF HandlerEffect
<1>10. CASE OpenDispute(p)
  <2>1. /\ Alone(p) /\ proc'[p].target = "none" /\ proc'[p].pc = "calling"
        /\ proc'[p].cmd = "FreezeEscrow"
    BY <1>10, BeginsCallAlone DEF OpenDispute
  <2>2. /\ KeepsBut(s)
        /\ shipment'[s] = [shipment[s] EXCEPT !.status = "DISPUTED", !.disputed = TRUE]
    BY <1>0, <1>10 DEF OpenDispute, KeepsBut, Same, ShipmentRows
  <2>3. Disputes(p)
    BY <1>0, <1>10, <2>1, <2>2 DEF OpenDispute, Disputes, Writes, Marks, ShipmentRows
  <2> QED
    BY <2>1, <2>3 DEF HandlerEffect
<1>11. CASE FinanceAnswers(p)
  BY <1>11, MovesAlone DEF FinanceAnswers, HandlerEffect, Calls, Keeps, Same, Carries
<1>12. CASE FinanceRejects(p)
  BY <1>12, EndsRests DEF FinanceRejects
<1>13. CASE FinanceUnanswered(p)
  BY <1>13, MovesAlone DEF FinanceUnanswered, HandlerEffect, Calls, Keeps, Same, Carries
<1>14. CASE StoreAnswer(p)
  <2>1. Alone(p) /\ Ended(p)
    BY <1>14, EndsAlone DEF StoreAnswer, Ended
  <2>2. CASE shipment' = [shipment EXCEPT ![s].order = TRUE]
    <3>1. KeepsBut(s) /\ shipment'[s] = [shipment[s] EXCEPT !.order = TRUE]
      BY <1>0, <1>14, <2>2, OneRow, ZenonT(60) DEF StoreAnswer
    <3>2. Keeps
      BY <1>0, <1>14, <3>1 DEF StoreAnswer, KeepsBut, Keeps, Same, ShipmentRows
    <3> QED
      BY <1>14, <2>1, <3>2 DEF StoreAnswer, HandlerEffect, Rests
  <2>3. CASE UNCHANGED shipment
    BY <1>14, <2>1, <2>3 DEF StoreAnswer, HandlerEffect, Rests, Keeps, Same
  <2> QED
    BY <1>14, <2>2, <2>3 DEF StoreAnswer, Bridge
<1>15. CASE ReleaseRest(p)
  <2>1. /\ Alone(p) /\ proc'[p].pc = "calling" /\ proc'[p].cmd = "ReleaseEscrow"
        /\ proc'[p].s = s /\ proc'[p].target = "CONFIRMED"
    BY <1>15, BeginsCallAlone DEF ReleaseRest
  <2>2. Carries(p)
    BY <1>15, <2>1 DEF ReleaseRest, FirstLeg, Carries
  <2> QED
    BY <1>15, <2>1, <2>2 DEF ReleaseRest, HandlerEffect, ReleasesRest, Keeps, Same
<1>16. CASE ResolveShipmentDispute(p)
  <2>1. Alone(p) /\ Ended(p)
    BY <1>16, EndsAlone DEF ResolveShipmentDispute, Ended
  <2>2. /\ KeepsBut(s)
        /\ shipment'[s] = [shipment[s] EXCEPT !.status = proc[p].target, !.resolved = TRUE]
    BY <1>0, <1>16 DEF ResolveShipmentDispute, KeepsBut, Same, ShipmentRows
  <2>3. Resolves(p)
    BY <1>0, <1>16, <2>1, <2>2
    DEF ResolveShipmentDispute, Resolves, Writes, Marks, ShipmentRows
  <2> QED
    BY <2>1, <2>3 DEF HandlerEffect
<1>17. CASE Enqueue(p)
  <2>1. Alone(p) /\ Ended(p)
    BY <1>17, EndsAlone DEF Enqueue, Ended
  <2> DEFINE new == [state |-> "queued", target |-> proc[p].target]
  <2>2. ASSUME row' = [row EXCEPT ![<<s, proc[p].cmd>>] = new]
        PROVE  Stores(p)
    <3>1. s \in Shipments /\ proc[p].cmd \in Commands
      BY <1>17, HandlerFacts DEF Enqueue, CallSteps
    <3>2. \A r \in Shipments, cmd \in Commands :
            row'[<<r, cmd>>] = IF r = s /\ cmd = proc[p].cmd THEN new ELSE row[<<r, cmd>>]
      BY <2>2, <3>1 DEF Typed, RowsGood
    <3> QED
      BY <1>17, <2>1, <3>2 DEF Enqueue, Stores, Keeps, Same
  <2>3. ASSUME UNCHANGED row
        PROVE  Stores(p)
    BY <1>17, <2>1, <2>3 DEF Enqueue, Stores, Keeps, Same
  <2>4. Stores(p)
    BY <1>17, <2>2, <2>3 DEF Enqueue
  <2> QED
    BY <2>1, <2>4 DEF HandlerEffect
<1>18. CASE GetEscrow(p)
  <2>1. CASE HeldByFinance(s)
    BY <1>18, <2>1, MovesAlone
    DEF GetEscrow, HeldByFinance, HandlerEffect, Polls, Keeps, Same, Carries
  <2>2. CASE ~HeldByFinance(s)
    BY <1>18, <2>2, EndsRests DEF GetEscrow
  <2> QED
    BY <2>1, <2>2
<1>19. CASE RecheckAccepted(p)
  <2>1. CASE Moves(p, "paying")
    BY <1>19, <2>1, MovesAlone DEF RecheckAccepted, HandlerEffect, Polls, Keeps, Same, Carries
  <2>2. CASE Ends(p)
    BY <1>19, <2>2, EndsRests DEF RecheckAccepted
  <2> QED
    BY <1>19, <2>1, <2>2 DEF RecheckAccepted
<1>20. CASE MarkPaid(p)
  <2>1. Alone(p) /\ Ended(p)
    BY <1>20, EndsAlone DEF MarkPaid, Ended
  <2>2. KeepsBut(s) /\ shipment'[s] = [shipment[s] EXCEPT !.status = "PAID"]
    BY <1>0, <1>20, OneRow DEF MarkPaid, SetStatus
  <2>3. Pays(p)
    BY <1>0, <1>20, <2>1, <2>2 DEF MarkPaid, Pays, Writes, Marks, ShipmentRows
  <2> QED
    BY <2>1, <2>3 DEF HandlerEffect
<1>21. CASE HandlerFails(p)
  BY <1>21, EndsRests DEF HandlerFails
<1> QED
  BY <1>1, <1>2, <1>3, <1>4, <1>5, <1>6, <1>7, <1>8, <1>9, <1>10, <1>11, <1>12, <1>13, <1>14,
     <1>15, <1>16, <1>17, <1>18, <1>19, <1>20, <1>21 DEF HandlerStep

(* The kinds of first steps of requests and cron jobs.                     *)
Prepares(p) ==
  /\ proc'[p].target \in {"none", "PENDING", "CANCELLED"}
  /\ \/ proc'[p].pc \in {"matching", "accepting", "returning", "closing", "reweighing", "polling"}
     \/ proc'[p].pc = "calling" /\ proc'[p].cmd \in {"PayFromWallet", "CreatePaymentOrder"}
StartsAdvance(p, s) ==
  /\ proc'[p].s = s /\ proc'[p].pc = "advancing" /\ proc'[p].target \in Advances
  /\ shipment[s].status = ExpectedFrom[proc'[p].target]
StartsDispute(p, s) ==
  /\ proc'[p].s = s /\ proc'[p].pc = "disputing" /\ proc'[p].target = "none"
  /\ shipment[s].status \in Disputable
StartsResolve(p, s) ==
  /\ proc'[p].s = s /\ proc'[p].pc = "calling"
  /\ shipment[s].status \in {"DISPUTED", "PARTIALLY_REFUNDED"}
BeginEffect(p, s) ==
  Prepares(p) \/ StartsAdvance(p, s) \/ StartsDispute(p, s) \/ StartsResolve(p, s)

\* A request or a cron job begins without a write, having read what it needs.
LEMMA BeginEffects ==
  ASSUME Typed, NEW p \in Procs, NEW s \in Shipments, RequestStep(p, s) \/ JobStep(p, s)
  PROVE  UNCHANGED <<shipment, row, effect, gateway>> /\ Alone(p) /\ BeginEffect(p, s)
<1>1. UNCHANGED <<shipment, row, effect, gateway>>
  BY DEF RequestStep, JobStep, BeginAssign, BeginAccept, BeginWithdraw, BeginReweigh, BeginPayment,
         BeginAdvance, BeginDispute, BeginResolve, BeginPoll, BeginAutoRelease
<1>2. ASSUME NEW t \in Trips, BeginAssign(p, s, t)
      PROVE  Alone(p) /\ Prepares(p)
  <2> DEFINE h == [Idle EXCEPT !.pc = "matching", !.s = s, !.t = t, !.w = shipment[s].weight]
  <2>1. Alone(p) /\ proc'[p] = h
    BY <1>2, ReplacedAlone DEF BeginAssign
  <2> QED
    BY <2>1 DEF Idle, Prepares
<1>3. CASE BeginAccept(p, s)
  BY <1>3, BeginsAlone DEF BeginAccept, BeginEffect, Prepares
<1>4. ASSUME NEW op \in {"reject", "cancel"}, BeginWithdraw(p, s, op)
      PROVE  Alone(p) /\ Prepares(p)
  <2> DEFINE held == shipment[s].status \in HoldsCapacity /\ shipment[s].trip # NoTrip
  <2> DEFINE h == [Idle EXCEPT !.pc = IF held THEN "returning" ELSE "closing",
                               !.s = s, !.t = shipment[s].trip, !.w = shipment[s].weight,
                               !.target = WithdrawnStatus(op)]
  <2>1. Alone(p) /\ proc'[p] = h
    BY <1>4, ReplacedAlone DEF BeginWithdraw
  <2> QED
    BY <2>1 DEF Idle, WithdrawnStatus, Prepares
<1>5. ASSUME NEW w \in Weights, BeginReweigh(p, s, w)
      PROVE  Alone(p) /\ Prepares(p)
  <2> DEFINE h == [Idle EXCEPT !.pc = "reweighing", !.s = s, !.w = w]
  <2>1. Alone(p) /\ proc'[p] = h
    BY <1>5, ReplacedAlone DEF BeginReweigh
  <2> QED
    BY <2>1 DEF Idle, Prepares
<1>6. ASSUME NEW op \in {"wallet", "order"}, BeginPayment(p, s, op)
      PROVE  Alone(p) /\ Prepares(p)
  BY <1>6, BeginsCallAlone DEF BeginPayment, PaymentCommand, Prepares
<1>7. ASSUME NEW target \in DOMAIN ExpectedFrom, BeginAdvance(p, s, target)
      PROVE  Alone(p) /\ StartsAdvance(p, s)
  <2>1. target \in Advances
    BY DEF ExpectedFrom, Advances
  <2> QED
    BY <1>7, <2>1, BeginsTowardAlone DEF BeginAdvance, StartsAdvance
<1>8. CASE BeginDispute(p, s)
  BY <1>8, BeginsAlone DEF BeginDispute, BeginEffect, StartsDispute
<1>9. ASSUME NEW op \in Resolutions, BeginResolve(p, s, op)
      PROVE  Alone(p) /\ StartsResolve(p, s)
  BY <1>9, BeginsCallAlone DEF BeginResolve, ResolvableFrom, StartsResolve
<1>10. CASE BeginPoll(p, s)
  BY <1>10, BeginsAlone DEF BeginPoll, BeginEffect, Prepares
<1>11. CASE BeginAutoRelease(p, s)
  <2>1. "CONFIRMED" \in Advances /\ ExpectedFrom["CONFIRMED"] = "DELIVERED"
    BY DEF ExpectedFrom, Advances
  <2> QED
    BY <1>11, <2>1, BeginsTowardAlone DEF BeginAutoRelease, BeginEffect, StartsAdvance
<1> QED
  BY <1>1, <1>2, <1>3, <1>4, <1>5, <1>6, <1>7, <1>8, <1>9, <1>10, <1>11
  DEF RequestStep, JobStep, BeginEffect

(* What the step of an outbox row does.                                    *)
BridgeWrites(s, cmd) ==
  /\ row[<<s, cmd>>].state = "executed" /\ row[<<s, cmd>>].target # "none"
  /\ cmd \in Settling
  /\ Writes(s, row[<<s, cmd>>].target)
  /\ Marks(s, shipment[s].delivered, shipment[s].disputed, TRUE)
RowsAfter(s, cmd) ==
  \A r \in Shipments, c \in Commands :
    /\ row'[<<r, c>>].target = row[<<r, c>>].target
    /\ row'[<<r, c>>].state # "none" => row[<<r, c>>].state # "none"
    /\ row'[<<r, c>>].state = "executed" =>
         \/ row[<<r, c>>].state = "executed"
         \/ r = s /\ c = cmd /\ <<s, cmd>> \in effect'
EffectAfter(s, cmd) ==
  \/ UNCHANGED effect
  \/ effect' = effect \union {<<s, cmd>>} /\ row[<<s, cmd>>].state # "none"

\* The state of one row changes, to one that is not "executed" or after its
\* command was executed.
LEMMA SetRowAfter ==
  ASSUME Typed, NEW s \in Shipments, NEW cmd \in Commands, NEW state, SetRow(s, cmd, state),
         row[<<s, cmd>>].state # "none", state = "executed" => <<s, cmd>> \in effect'
  PROVE  RowsAfter(s, cmd)
<1>1. row[<<s, cmd>>] \in OutboxRows
  BY DEF Typed, RowsGood
<1>2. \A r \in Shipments, c \in Commands :
        /\ row'[<<r, c>>].target = row[<<r, c>>].target
        /\ row'[<<r, c>>].state =
             IF r = s /\ c = cmd THEN state ELSE row[<<r, c>>].state
  BY <1>1 DEF Typed, RowsGood, SetRow, OutboxRows
<1> QED
  BY <1>2 DEF RowsAfter

\* Every step of an outbox row is of this kind.
LEMMA RowEffects ==
  ASSUME Typed, NEW s \in Shipments, NEW cmd \in Commands, RowStep(s, cmd)
  PROVE  /\ UNCHANGED <<proc, gateway>> /\ RowsAfter(s, cmd) /\ EffectAfter(s, cmd)
         /\ Keeps \/ BridgeWrites(s, cmd)
<1>0. shipment[s] \in ShipmentRows /\ shipment \in [Shipments -> ShipmentRows]
  BY DEF Typed
<1>1. ASSUME Bridge(s, cmd, row[<<s, cmd>>].target), row[<<s, cmd>>].state = "executed"
      PROVE  Keeps \/ BridgeWrites(s, cmd)
  <2> DEFINE target == row[<<s, cmd>>].target
  <2>1. CASE shipment' = [shipment EXCEPT ![s].order = TRUE]
    <3>1. KeepsBut(s) /\ shipment'[s] = [shipment[s] EXCEPT !.order = TRUE]
      BY <1>0, <2>1, OneRow
    <3> QED
      BY <1>0, <3>1 DEF KeepsBut, Keeps, Same, ShipmentRows
  <2>2. CASE /\ cmd \in Settling /\ target # "none"
             /\ shipment' = [shipment EXCEPT ![s].status = target, ![s].resolved = TRUE]
    <3>1. /\ KeepsBut(s)
          /\ shipment'[s] = [shipment[s] EXCEPT !.status = target, !.resolved = TRUE]
      BY <1>0, <2>2 DEF KeepsBut, Same, ShipmentRows
    <3> QED
      BY <1>0, <1>1, <2>2, <3>1 DEF BridgeWrites, Writes, Marks, ShipmentRows
  <2>3. CASE UNCHANGED shipment
    BY <2>3 DEF Keeps, Same
  <2> QED
    BY <1>1, <2>1, <2>2, <2>3 DEF Bridge
<1>2. UNCHANGED shipment => Keeps
  BY DEF Keeps, Same
<1>3. CASE RowExecutes(s, cmd)
  BY <1>2, <1>3, SetRowAfter DEF RowExecutes, EffectAfter
<1>4. CASE RowApplies(s, cmd)
  BY <1>1, <1>4, SetRowAfter DEF RowApplies, EffectAfter
<1>5. CASE RowFails(s, cmd)
  BY <1>1, <1>2, <1>5, SetRowAfter DEF RowFails, EffectAfter
<1>6. CASE Replay(s, cmd)
  BY <1>2, <1>6, SetRowAfter DEF Replay, EffectAfter
<1> QED
  BY <1>3, <1>4, <1>5, <1>6 DEF RowStep

\* Every step is one of a handler, of a request or job that begins, of a row,
\* of the gateway, or changes none of the variables.
LEMMA StepKinds ==
  ASSUME Typed, [Next]_vars
  PROVE  \/ \E p \in Procs : Alone(p) /\ HandlerEffect(p)
         \/ \E p \in Procs, s \in Shipments :
              UNCHANGED <<shipment, row, effect, gateway>> /\ Alone(p) /\ BeginEffect(p, s)
         \/ \E s \in Shipments, cmd \in Commands :
              /\ UNCHANGED <<proc, gateway>> /\ RowsAfter(s, cmd) /\ EffectAfter(s, cmd)
              /\ Keeps \/ BridgeWrites(s, cmd)
         \/ UNCHANGED <<shipment, row, proc, effect>>
<1>1. CASE \E p \in Procs, s \in Shipments : RequestStep(p, s) \/ JobStep(p, s)
  BY <1>1, BeginEffects
<1>2. CASE \E p \in Procs : HandlerStep(p) \/ HandlerFails(p)
  BY <1>2, HandlerEffects
<1>3. CASE \E s \in Shipments, cmd \in Commands : RowStep(s, cmd)
  BY <1>3, RowEffects
<1>4. CASE \E s \in Shipments : GatewayPays(s)
  BY <1>4 DEF GatewayPays
<1>5. CASE UNCHANGED vars
  BY <1>5 DEF vars
<1> QED
  BY <1>1, <1>2, <1>3, <1>4, <1>5 DEF Next

-----------------------------------------------------------------------------
(* Money in: no shipment is treated as paid before its escrow is funded.   *)
(* Whoever is about to write a paid status has read that the escrow is     *)
(* funded, or a status that says so; and funding is never undone.          *)

HandlerFunded(h) ==
  /\ h.target \in PaidStatuses => Funded(h.s)
  /\ h.pc \in {"rechecking", "paying", "disputing"} => Funded(h.s)
RowsFunded ==
  \A s \in Shipments, cmd \in Commands : row[<<s, cmd>>].target \in PaidStatuses => Funded(s)
FundedInv == PaidIsFunded /\ (\A p \in Procs : HandlerFunded(proc[p])) /\ RowsFunded

\* The invariant holds after a step of p if what p and the tables say after
\* the step was funded before it.
LEMMA FundedStep ==
  ASSUME FundedInv, Grows, NEW p \in Procs, Alone(p),
         \/ proc'[p].target \in PaidStatuses
         \/ proc'[p].pc \in {"rechecking", "paying", "disputing"}
         => Funded(proc'[p].s),
         \A s \in Shipments : shipment'[s].status \in PaidStatuses => Funded(s),
         \A s \in Shipments, cmd \in Commands :
           row'[<<s, cmd>>].target \in PaidStatuses => Funded(s)
  PROVE  FundedInv'
<1>1. \A s : Funded(s) => Funded(s)'
  BY DEF Grows, Funded
<1>2. PaidIsFunded' /\ RowsFunded'
  BY <1>1 DEF PaidIsFunded, RowsFunded
<1>3. ASSUME NEW q \in Procs
      PROVE  HandlerFunded(proc[q])'
  <2>1. CASE q = p
    BY <1>1, <2>1 DEF HandlerFunded
  <2>2. CASE q # p
    <3>1. proc'[q] = proc[q] /\ HandlerFunded(proc[q])
      BY <2>2 DEF Alone, FundedInv
    <3> QED
      BY <1>1, <3>1 DEF HandlerFunded
  <2> QED
    BY <2>1, <2>2
<1> QED
  BY <1>2, <1>3 DEF FundedInv

\* A handler writes a paid status only over another one, or where it has seen
\* that the escrow is funded.
LEMMA FundedHandler ==
  ASSUME Typed, FundedInv, Grows, NEW p \in Procs, Alone(p), HandlerEffect(p)
  PROVE  FundedInv'
<1>1. /\ \A r \in Shipments : shipment[r].status \in PaidStatuses => Funded(r)
      /\ \A r \in Shipments, cmd \in Commands :
           row[<<r, cmd>>].target \in PaidStatuses => Funded(r)
      /\ HandlerFunded(proc[p])
  BY DEF FundedInv, PaidIsFunded, RowsFunded
<1>2. Keeps => \A r \in Shipments : shipment'[r].status \in PaidStatuses => Funded(r)
  BY <1>1 DEF Keeps, Same
<1>3. ASSUME KeepsBut(proc[p].s), shipment'[proc[p].s].status \in PaidStatuses => Funded(proc[p].s)
      PROVE  \A r \in Shipments : shipment'[r].status \in PaidStatuses => Funded(r)
  BY <1>1, <1>3 DEF KeepsBut, Same
<1>4. "none" \notin PaidStatuses
  BY DEF PaidStatuses
<1>5. CASE Rests(p)
  BY <1>1, <1>2, <1>4, <1>5, FundedStep DEF Rests, Ended
<1>6. CASE GoesOn(p)
  BY <1>1, <1>2, <1>6, FundedStep DEF GoesOn, Carries, HandlerFunded
<1>7. CASE Unsettles(p)
  <2>1. shipment'[proc[p].s].status \notin PaidStatuses
    BY <1>7 DEF Unsettles, PaidStatuses
  <2> QED
    BY <1>1, <1>3, <1>4, <1>7, <2>1, FundedStep DEF Unsettles
<1>8. CASE Progresses(p)
  <2>1. Funded(proc[p].s)
    BY <1>1, <1>8 DEF Progresses, Advances, PaidStatuses, HandlerFunded
  <2> QED
    BY <1>1, <1>3, <1>4, <1>8, <2>1, FundedStep DEF Progresses, Writes
<1>9. CASE Disputes(p)
  <2>1. Funded(proc[p].s)
    BY <1>1, <1>9 DEF Disputes, HandlerFunded
  <2> QED
    BY <1>1, <1>3, <1>4, <1>9, <2>1, FundedStep DEF Disputes, Writes
<1>10. CASE Calls(p)
  BY <1>1, <1>2, <1>10, FundedStep DEF Calls, Carries, HandlerFunded
<1>11. CASE ReleasesRest(p)
  BY <1>1, <1>2, <1>11, FundedStep DEF ReleasesRest, Carries, HandlerFunded
<1>12. CASE Resolves(p)
  <2>1. proc[p].target \in PaidStatuses => Funded(proc[p].s)
    BY <1>1 DEF HandlerFunded
  <2> QED
    BY <1>1, <1>3, <1>4, <1>12, <2>1, FundedStep DEF Resolves, Writes, Ended
<1>13. CASE Stores(p)
  <2>1. \A r \in Shipments, cmd \in Commands :
          row'[<<r, cmd>>].target \in PaidStatuses => Funded(r)
    BY <1>1, <1>13 DEF Stores, HandlerFunded
  <2> QED
    BY <1>2, <1>4, <1>13, <2>1, FundedStep DEF Stores, Ended
<1>14. CASE Polls(p)
  BY <1>1, <1>2, <1>14, FundedStep DEF Polls, Carries, HandlerFunded
<1>15. CASE Pays(p)
  <2>1. Funded(proc[p].s)
    BY <1>1, <1>15 DEF Pays, HandlerFunded
  <2> QED
    BY <1>1, <1>3, <1>4, <1>15, <2>1, FundedStep DEF Pays, Writes, Ended
<1> QED
  BY <1>5, <1>6, <1>7, <1>8, <1>9, <1>10, <1>11, <1>12, <1>13, <1>14, <1>15 DEF HandlerEffect

\* A request begins to write a paid status only after it has read one.
LEMMA FundedBegin ==
  ASSUME Typed, FundedInv, Grows, NEW p \in Procs, NEW s \in Shipments,
         UNCHANGED <<shipment, row, effect, gateway>>, Alone(p), BeginEffect(p, s)
  PROVE  FundedInv'
<1>1. /\ \A r \in Shipments : shipment[r].status \in PaidStatuses => Funded(r)
      /\ \A r \in Shipments, cmd \in Commands :
           row[<<r, cmd>>].target \in PaidStatuses => Funded(r)
  BY DEF FundedInv, PaidIsFunded, RowsFunded
<1>2. CASE Prepares(p)
  <2>1. /\ proc'[p].target \notin PaidStatuses
        /\ proc'[p].pc \notin {"rechecking", "paying", "disputing"}
    BY <1>2 DEF Prepares, PaidStatuses
  <2> QED
    BY <1>1, <2>1, FundedStep
<1>3. CASE StartsAdvance(p, s) \/ StartsDispute(p, s) \/ StartsResolve(p, s)
  <2>1. proc'[p].s = s /\ shipment[s].status \in PaidStatuses
    BY <1>3 DEF StartsAdvance, StartsDispute, StartsResolve, PaidStatuses, Disputable,
                Advances, ExpectedFrom
  <2> QED
    BY <1>1, <2>1, FundedStep
<1> QED
  BY <1>2, <1>3 DEF BeginEffect

\* A shipment is never treated as paid (handed over, confirmed, disputed,
\* refunded) before its escrow was funded, in any order of stale writes, cron
\* jobs, replays and requests.
THEOREM FundedBeforePaid == Spec => []PaidIsFunded
<1>1. Init => FundedInv
  <2> SUFFICES ASSUME Init PROVE FundedInv
    OBVIOUS
  <2>1. PaidIsFunded
    BY DEF Init, PaidIsFunded, PaidStatuses
  <2>2. \A p \in Procs : HandlerFunded(proc[p])
    BY DEF Init, HandlerFunded, Idle, PaidStatuses
  <2>3. RowsFunded
    BY DEF Init, RowsFunded, PaidStatuses
  <2> QED
    BY <2>1, <2>2, <2>3 DEF FundedInv
<1>2. Typed /\ FundedInv /\ [Next]_vars => FundedInv'
  <2> SUFFICES ASSUME Typed, FundedInv, [Next]_vars PROVE FundedInv'
    OBVIOUS
  <2>1. Grows
    BY StepGrows
  <2>2. \A s : Funded(s) => Funded(s)'
    BY <2>1 DEF Grows, Funded
  <2>3. ASSUME NEW p \in Procs, Alone(p), HandlerEffect(p)
        PROVE  FundedInv'
    BY <2>1, <2>3, FundedHandler
  <2>4. ASSUME NEW p \in Procs, NEW s \in Shipments,
               UNCHANGED <<shipment, row, effect, gateway>>, Alone(p), BeginEffect(p, s)
        PROVE  FundedInv'
    BY <2>1, <2>4, FundedBegin
  <2>5. ASSUME UNCHANGED proc
        PROVE  \A p \in Procs : HandlerFunded(proc[p])'
    BY <2>2, <2>5 DEF FundedInv, HandlerFunded
  <2>6. ASSUME NEW s \in Shipments, NEW cmd \in Commands, UNCHANGED proc, RowsAfter(s, cmd),
               Keeps \/ BridgeWrites(s, cmd)
        PROVE  FundedInv'
    <3>1. RowsFunded'
      BY <2>2, <2>6 DEF FundedInv, RowsFunded, RowsAfter
    <3>2. PaidIsFunded'
      <4>1. row[<<s, cmd>>].target \in PaidStatuses => Funded(s)
        BY DEF FundedInv, RowsFunded
      <4> QED
        BY <2>2, <2>6, <4>1
        DEF FundedInv, PaidIsFunded, Keeps, Same, BridgeWrites, Writes, KeepsBut
    <3> QED
      BY <2>5, <2>6, <3>1, <3>2 DEF FundedInv
  <2>7. ASSUME UNCHANGED <<shipment, row, proc>>
        PROVE  FundedInv'
    BY <2>2, <2>5, <2>7 DEF FundedInv, PaidIsFunded, RowsFunded
  <2> QED
    BY <2>3, <2>4, <2>6, <2>7, StepKinds
<1>3. FundedInv => PaidIsFunded
  BY DEF FundedInv
<1> QED
  BY TypedInvariant, <1>1, <1>2, <1>3, PTL DEF Spec

-----------------------------------------------------------------------------
(* Money out: a settlement has a cause.  The cause is in the shipment      *)
(* before anyone carries the command: a handler on its way to the call, a  *)
(* row of the outbox, or the finance service; and a cause is never undone. *)

Cause(s, cmd) ==
  /\ cmd = "ReleaseEscrow" => shipment[s].delivered \/ shipment[s].disputed
  /\ cmd \in {"RefundEscrow", "PartialRefundEscrow"} => shipment[s].disputed

HandlerHasCause(h) ==
  /\ h.pc \in CallSteps => Cause(h.s, h.cmd)
  /\ h.pc = "advancing" /\ h.target = "CONFIRMED" => Cause(h.s, "ReleaseEscrow")
StatusHasCause ==
  \A s \in Shipments :
    /\ shipment[s].status = "DELIVERED" => shipment[s].delivered
    /\ shipment[s].status \in {"DISPUTED", "PARTIALLY_REFUNDED"} => shipment[s].disputed
RowsHaveCause ==
  \A s \in Shipments, cmd \in Commands : row[<<s, cmd>>].state # "none" => Cause(s, cmd)
EffectHasCause == \A s \in Shipments, cmd \in Commands : <<s, cmd>> \in effect => Cause(s, cmd)

CauseInv ==
  /\ \A p \in Procs : HandlerHasCause(proc[p])
  /\ StatusHasCause
  /\ RowsHaveCause
  /\ EffectHasCause

\* A cause stays, and so do the handlers that a step leaves alone.
LEMMA CauseStays ==
  ASSUME Typed, Grows, CauseInv
  PROVE  /\ \A s \in Shipments : \A cmd : Cause(s, cmd) => Cause(s, cmd)'
         /\ \A q \in Procs : proc'[q] = proc[q] => HandlerHasCause(proc[q])'
<1>1. \A s \in Shipments : \A cmd : Cause(s, cmd) => Cause(s, cmd)'
  BY DEF Grows, Cause
<1>2. ASSUME NEW q \in Procs, proc'[q] = proc[q]
      PROVE  HandlerHasCause(proc[q])'
  <2>1. HandlerHasCause(proc[q])
    BY DEF CauseInv
  <2>2. proc[q].pc # "idle" => proc[q].s \in Shipments
    BY HandlerFacts
  <2> QED
    BY <1>1, <1>2, <2>1, <2>2 DEF HandlerHasCause, CallSteps
<1> QED
  BY <1>1, <1>2

\* The invariant holds after a step of p if p has a cause for what it is about
\* to do, and the tables say no more than before or what has one.
LEMMA CauseStep ==
  ASSUME Typed, Grows, CauseInv, NEW p \in Procs, Alone(p), HandlerHasCause(proc[p])',
         StatusHasCause',
         \A s \in Shipments, cmd \in Commands : row'[<<s, cmd>>].state # "none" => Cause(s, cmd),
         \A s \in Shipments, cmd \in Commands : <<s, cmd>> \in effect' => Cause(s, cmd)
  PROVE  CauseInv'
<1>1. \A q \in Procs : HandlerHasCause(proc[q])'
  BY CauseStays DEF Alone
<1>2. RowsHaveCause' /\ EffectHasCause'
  BY CauseStays DEF RowsHaveCause, EffectHasCause
<1> QED
  BY <1>1, <1>2 DEF CauseInv

\* A handler that writes a status leaves the cause of the status with it, and
\* passes a settlement on only with its cause.
LEMMA CauseHandler ==
  ASSUME Typed, Grows, CauseInv, NEW p \in Procs, Alone(p), HandlerEffect(p)
  PROVE  CauseInv'
<1>1. /\ \A s \in Shipments, cmd \in Commands : row[<<s, cmd>>].state # "none" => Cause(s, cmd)
      /\ \A s \in Shipments, cmd \in Commands : <<s, cmd>> \in effect => Cause(s, cmd)
      /\ StatusHasCause
      /\ HandlerHasCause(proc[p])
  BY DEF CauseInv, RowsHaveCause, EffectHasCause
<1>2. proc[p].pc # "idle" => proc[p].s \in Shipments
  BY HandlerFacts
<1>3. \A s \in Shipments : \A cmd : Cause(s, cmd) => Cause(s, cmd)'
  BY CauseStays
<1>4. Keeps => StatusHasCause'
  BY <1>1 DEF Keeps, Same, StatusHasCause
<1>5. ASSUME KeepsBut(proc[p].s),
             shipment'[proc[p].s].status = "DELIVERED" => shipment'[proc[p].s].delivered,
             shipment'[proc[p].s].status \in {"DISPUTED", "PARTIALLY_REFUNDED"} =>
               shipment'[proc[p].s].disputed
      PROVE  StatusHasCause'
  BY <1>1, <1>5 DEF KeepsBut, Same, StatusHasCause
(* A handler that carries nothing, or a command that needs no cause.       *)
<1>6. ASSUME \/ proc'[p].pc \notin CallSteps \union {"advancing"}
             \/ proc'[p].pc = "calling" /\ proc'[p].cmd \notin Settling
      PROVE  HandlerHasCause(proc[p])'
  BY <1>6 DEF HandlerHasCause, CallSteps, Cause, Settling
<1>7. CASE Rests(p)
  <2>1. HandlerHasCause(proc[p])'
    BY <1>6, <1>7 DEF Rests, Ended, CallSteps
  <2> QED
    BY <1>1, <1>4, <1>7, <2>1, CauseStep DEF Rests
<1>8. CASE GoesOn(p)
  <2>1. HandlerHasCause(proc[p])'
    BY <1>6, <1>8 DEF GoesOn, CallSteps
  <2> QED
    BY <1>1, <1>4, <1>8, <2>1, CauseStep DEF GoesOn
<1>9. CASE Unsettles(p)
  <2>1. HandlerHasCause(proc[p])'
    BY <1>6, <1>9 DEF Unsettles, CallSteps, Settling
  <2>2. StatusHasCause'
    BY <1>5, <1>9 DEF Unsettles
  <2> QED
    BY <1>1, <1>9, <2>1, <2>2, CauseStep DEF Unsettles
<1>10. CASE Progresses(p)
  <2>1. HandlerHasCause(proc[p])'
    <3>1. CASE proc'[p].pc = "idle" \/ (proc'[p].pc = "calling" /\ proc'[p].cmd = "MarkDelivered")
      BY <1>6, <3>1 DEF CallSteps, Settling
    <3>2. CASE /\ proc[p].target = "CONFIRMED"
               /\ proc'[p].pc = "calling" /\ proc'[p].cmd = "ReleaseEscrow"
               /\ proc'[p].s = proc[p].s
      <4>1. proc[p].s \in Shipments /\ Cause(proc[p].s, "ReleaseEscrow")
        BY <1>1, <1>2, <1>10, <3>2 DEF Progresses, HandlerHasCause
      <4> QED
        BY <1>3, <3>2, <4>1 DEF HandlerHasCause, Cause
    <3> QED
      BY <1>10, <3>1, <3>2 DEF Progresses
  <2>2. StatusHasCause'
    BY <1>5, <1>10 DEF Progresses, Writes, Marks, Advances
  <2> QED
    BY <1>1, <1>10, <2>1, <2>2, CauseStep DEF Progresses
<1>11. CASE Disputes(p)
  <2>1. HandlerHasCause(proc[p])'
    BY <1>6, <1>11 DEF Disputes, Settling
  <2>2. StatusHasCause'
    BY <1>5, <1>11 DEF Disputes, Writes, Marks
  <2> QED
    BY <1>1, <1>11, <2>1, <2>2, CauseStep DEF Disputes
<1>12. CASE Calls(p)
  <2>1. proc[p].s \in Shipments /\ Cause(proc[p].s, proc[p].cmd)
    BY <1>1, <1>2, <1>12 DEF Calls, HandlerHasCause, CallSteps
  <2>2. /\ proc'[p].s = proc[p].s /\ proc'[p].cmd = proc[p].cmd
        /\ proc'[p].pc \in {"answered", "storing"}
    BY <1>12 DEF Calls, Carries
  <2>3. HandlerHasCause(proc[p])'
    BY <1>3, <2>1, <2>2 DEF HandlerHasCause, Cause
  <2>4. \A s \in Shipments, cmd \in Commands : <<s, cmd>> \in effect' => Cause(s, cmd)
    BY <1>1, <1>12, <2>1 DEF Calls
  <2> QED
    BY <1>1, <1>4, <1>12, <2>3, <2>4, CauseStep DEF Calls
<1>13. CASE ReleasesRest(p)
  <2>1. proc[p].s \in Shipments /\ Cause(proc[p].s, "ReleaseEscrow")
    BY <1>1, <1>2, <1>13 DEF ReleasesRest, FirstLeg, HandlerHasCause, CallSteps, Cause
  <2>2. HandlerHasCause(proc[p])'
    BY <1>3, <1>13, <2>1 DEF ReleasesRest, Carries, HandlerHasCause, Cause
  <2> QED
    BY <1>1, <1>4, <1>13, <2>2, CauseStep DEF ReleasesRest
<1>14. CASE Resolves(p)
  <2>1. HandlerHasCause(proc[p])'
    BY <1>6, <1>14 DEF Resolves, Ended, CallSteps
  <2>2. Matches(proc[p].cmd, proc[p].target)
    BY <1>14, HandlerFacts DEF Resolves, CallSteps
  <2>3. proc[p].target = "PARTIALLY_REFUNDED" => shipment[proc[p].s].disputed
    BY <1>1, <1>14, <2>2 DEF Resolves, Matches, HandlerHasCause, CallSteps, Cause
  <2>4. proc[p].target \notin {"DELIVERED", "DISPUTED"}
    BY <2>2 DEF Matches
  <2>5. StatusHasCause'
    BY <1>5, <1>14, <2>3, <2>4 DEF Resolves, Writes, Marks
  <2> QED
    BY <1>1, <1>14, <2>1, <2>5, CauseStep DEF Resolves
<1>15. CASE Stores(p)
  <2>1. HandlerHasCause(proc[p])'
    BY <1>6, <1>15 DEF Stores, Ended, CallSteps
  <2>2. Cause(proc[p].s, proc[p].cmd)
    BY <1>1, <1>15 DEF Stores, HandlerHasCause, CallSteps
  <2>3. \A s \in Shipments, cmd \in Commands :
          row'[<<s, cmd>>].state # "none" => Cause(s, cmd)
    BY <1>1, <1>15, <2>2 DEF Stores
  <2> QED
    BY <1>1, <1>4, <1>15, <2>1, <2>3, CauseStep DEF Stores
<1>16. CASE Polls(p)
  <2>1. HandlerHasCause(proc[p])'
    BY <1>6, <1>16 DEF Polls, CallSteps
  <2> QED
    BY <1>1, <1>4, <1>16, <2>1, CauseStep DEF Polls
<1>17. CASE Pays(p)
  <2>1. HandlerHasCause(proc[p])'
    BY <1>6, <1>17 DEF Pays, Ended, CallSteps
  <2>2. StatusHasCause'
    BY <1>5, <1>17 DEF Pays, Writes
  <2> QED
    BY <1>1, <1>17, <2>1, <2>2, CauseStep DEF Pays
<1> QED
  BY <1>7, <1>8, <1>9, <1>10, <1>11, <1>12, <1>13, <1>14, <1>15, <1>16, <1>17 DEF HandlerEffect

\* A request or a cron job begins a settlement only after it has read the
\* status that is its cause.
LEMMA CauseBegin ==
  ASSUME Typed, Grows, CauseInv, NEW p \in Procs, NEW s \in Shipments,
         UNCHANGED <<shipment, row, effect, gateway>>, Alone(p), BeginEffect(p, s)
  PROVE  CauseInv'
<1>1. /\ \A r \in Shipments, cmd \in Commands : row[<<r, cmd>>].state # "none" => Cause(r, cmd)
      /\ \A r \in Shipments, cmd \in Commands : <<r, cmd>> \in effect => Cause(r, cmd)
      /\ StatusHasCause
  BY DEF CauseInv, RowsHaveCause, EffectHasCause
<1>2. StatusHasCause'
  BY <1>1 DEF StatusHasCause
<1>3. CASE Prepares(p)
  <2>1. HandlerHasCause(proc[p])'
    BY <1>3 DEF Prepares, HandlerHasCause, CallSteps, Cause
  <2> QED
    BY <1>1, <1>2, <2>1, CauseStep
<1>4. CASE StartsAdvance(p, s)
  <2>1. proc'[p].target = "CONFIRMED" => shipment[s].status = "DELIVERED"
    BY <1>4 DEF StartsAdvance, ExpectedFrom
  <2>2. proc'[p].target = "CONFIRMED" => shipment'[s].delivered
    BY <1>1, <2>1 DEF StatusHasCause
  <2>3. HandlerHasCause(proc[p])'
    BY <1>4, <2>2 DEF StartsAdvance, HandlerHasCause, CallSteps, Cause
  <2> QED
    BY <1>1, <1>2, <2>3, CauseStep
<1>5. CASE StartsDispute(p, s)
  <2>1. HandlerHasCause(proc[p])'
    BY <1>5 DEF StartsDispute, HandlerHasCause, CallSteps
  <2> QED
    BY <1>1, <1>2, <2>1, CauseStep
<1>6. CASE StartsResolve(p, s)
  <2>1. shipment'[s].disputed
    BY <1>1, <1>6 DEF StartsResolve, StatusHasCause
  <2>2. HandlerHasCause(proc[p])'
    BY <1>6, <2>1 DEF StartsResolve, HandlerHasCause, CallSteps, Cause
  <2> QED
    BY <1>1, <1>2, <2>2, CauseStep
<1> QED
  BY <1>3, <1>4, <1>5, <1>6 DEF BeginEffect

\* An outbox row executes and bridges only what was put in it.
LEMMA CauseRow ==
  ASSUME Typed, Grows, CauseInv, NEW s \in Shipments, NEW cmd \in Commands,
         UNCHANGED proc, RowsAfter(s, cmd), EffectAfter(s, cmd), Keeps \/ BridgeWrites(s, cmd)
  PROVE  CauseInv'
<1>1. \A p \in Procs : HandlerHasCause(proc[p])'
  BY CauseStays
<1>2. RowsHaveCause'
  BY CauseStays DEF CauseInv, RowsHaveCause, RowsAfter
<1>3. EffectHasCause'
  BY CauseStays DEF CauseInv, RowsHaveCause, EffectHasCause, EffectAfter
<1>4. CASE Keeps
  <2>1. StatusHasCause'
    BY <1>4 DEF CauseInv, StatusHasCause, Keeps, Same
  <2> QED
    BY <1>1, <1>2, <1>3, <2>1 DEF CauseInv
<1>5. CASE BridgeWrites(s, cmd)
  <2>1. Matches(cmd, row[<<s, cmd>>].target) /\ Cause(s, cmd)
    BY <1>5 DEF BridgeWrites, Typed, RowsGood, CauseInv, RowsHaveCause
  <2>2. /\ shipment'[s].status \notin {"DELIVERED", "DISPUTED"}
        /\ shipment'[s].status = "PARTIALLY_REFUNDED" => shipment'[s].disputed
    BY <1>5, <2>1 DEF BridgeWrites, Writes, Marks, Matches, Cause
  <2>3. StatusHasCause'
    BY <1>5, <2>2 DEF CauseInv, StatusHasCause, BridgeWrites, Writes, KeepsBut, Same
  <2> QED
    BY <1>1, <1>2, <1>3, <2>3 DEF CauseInv
<1> QED
  BY <1>4, <1>5

\* The finance service is told to release an escrow only after a delivery or a
\* dispute, and to refund one only after a dispute, by whichever process and
\* however often a command is retried or replayed.
THEOREM CauseBeforeMoney == Spec => []MoneyMovesWithCause
<1>1. Init => CauseInv
  BY DEF Init, CauseInv, HandlerHasCause, StatusHasCause, RowsHaveCause, EffectHasCause, Idle,
         CallSteps
<1>2. Typed /\ CauseInv /\ [Next]_vars => CauseInv'
  <2> SUFFICES ASSUME Typed, CauseInv, [Next]_vars PROVE CauseInv'
    OBVIOUS
  <2>1. Grows
    BY StepGrows
  <2>2. ASSUME UNCHANGED <<shipment, row, proc, effect>>
        PROVE  CauseInv'
    BY <2>2 DEF CauseInv, HandlerHasCause, StatusHasCause, RowsHaveCause, EffectHasCause, Cause
  <2> QED
    BY <2>1, <2>2, CauseHandler, CauseBegin, CauseRow, StepKinds
<1>3. CauseInv => MoneyMovesWithCause
  BY DEF CauseInv, EffectHasCause, MoneyMovesWithCause, Cause, Commands
<1> QED
  BY TypedInvariant, <1>1, <1>2, <1>3, PTL DEF Spec

-----------------------------------------------------------------------------
(* The end of a dispute: a handler that has an answer, and a row that has  *)
(* been executed, are ahead of the write they are going to make.           *)

RowsExecuted ==
  \A s \in Shipments, cmd \in Commands : row[<<s, cmd>>].state = "executed" => <<s, cmd>> \in effect
AnswerExecuted(h) == h.pc = "answered" => <<h.s, h.cmd>> \in effect
ResolvedInv ==
  ResolvedAfterFinance /\ (\A p \in Procs : AnswerExecuted(proc[p])) /\ RowsExecuted

\* What the status that closes a dispute says of the finance service.
Settled(s, target) ==
  /\ \E cmd \in Settling : <<s, cmd>> \in effect'
  /\ target = "REFUNDED" => <<s, "RefundEscrow">> \in effect'
  /\ target = "PARTIALLY_REFUNDED" => <<s, "PartialRefundEscrow">> \in effect'

\* A command that finance has executed justifies the status that matches it.
LEMMA ExecutedSettles ==
  ASSUME NEW s \in Shipments, NEW cmd, NEW target, <<s, cmd>> \in effect', Matches(cmd, target),
         target # "none"
  PROVE  Settled(s, target)
BY DEF Settled, Matches, Settling

\* Resolutions stay justified if a step writes no status that closes a
\* dispute but a justified one.
LEMMA ResolvedStep ==
  ASSUME ResolvedAfterFinance, effect \subseteq effect', NEW s,
         KeepsBut(s),
         s \in Shipments =>
           \/ Same(s)
           \/ Settled(s, shipment'[s].status)
           \/ /\ shipment'[s].status \notin {"REFUNDED", "PARTIALLY_REFUNDED"}
              /\ shipment'[s].resolved = shipment[s].resolved
  PROVE  ResolvedAfterFinance'
<1>1. ASSUME NEW r \in Shipments, Same(r)
      PROVE  /\ shipment'[r].resolved => \E cmd \in Settling : <<r, cmd>> \in effect'
             /\ shipment'[r].status = "REFUNDED" => <<r, "RefundEscrow">> \in effect'
             /\ shipment'[r].status = "PARTIALLY_REFUNDED" => <<r, "PartialRefundEscrow">> \in effect'
  BY <1>1 DEF ResolvedAfterFinance, Same
<1>2. s \in Shipments =>
        /\ shipment'[s].resolved => \E cmd \in Settling : <<s, cmd>> \in effect'
        /\ shipment'[s].status = "REFUNDED" => <<s, "RefundEscrow">> \in effect'
        /\ shipment'[s].status = "PARTIALLY_REFUNDED" => <<s, "PartialRefundEscrow">> \in effect'
  BY <1>1 DEF ResolvedAfterFinance, Settled
<1> QED
  BY <1>1, <1>2 DEF ResolvedAfterFinance, KeepsBut

\* Handlers and rows stay ahead of their writes.
LEMMA AheadStep ==
  ASSUME effect \subseteq effect', NEW p \in Procs, Alone(p), ResolvedInv,
         proc'[p].pc = "answered" => <<proc'[p].s, proc'[p].cmd>> \in effect'
  PROVE  \A q \in Procs : AnswerExecuted(proc[q])'
<1>1. ASSUME NEW q \in Procs
      PROVE  AnswerExecuted(proc[q])'
  <2>1. CASE q = p
    BY <2>1 DEF AnswerExecuted
  <2>2. CASE q # p
    <3>1. proc'[q] = proc[q] /\ AnswerExecuted(proc[q])
      BY <2>2 DEF Alone, ResolvedInv
    <3> QED
      BY <3>1 DEF AnswerExecuted
  <2> QED
    BY <2>1, <2>2
<1> QED
  BY <1>1

\* A handler closes a dispute only with the answer in hand.
LEMMA ResolvedHandler ==
  ASSUME Typed, Grows, ResolvedInv, NEW p \in Procs, Alone(p), HandlerEffect(p)
  PROVE  ResolvedInv'
<1>1. ResolvedAfterFinance /\ effect \subseteq effect' /\ RowsExecuted /\ AnswerExecuted(proc[p])
  BY DEF ResolvedInv, Grows
<1>2. Keeps => KeepsBut(proc[p].s) /\ (proc[p].s \in Shipments => Same(proc[p].s))
  BY DEF Keeps, KeepsBut
<1>3. RowsExecuted'
  <2>1. UNCHANGED row => RowsExecuted'
    BY <1>1 DEF RowsExecuted
  <2>2. Stores(p) => RowsExecuted'
    BY <1>1 DEF Stores, RowsExecuted
  <2> QED
    BY <2>1, <2>2 DEF HandlerEffect, Rests, GoesOn, Unsettles, Progresses, Disputes, Calls,
                      ReleasesRest, Resolves, Polls, Pays
<1>4. proc'[p].pc = "answered" => <<proc'[p].s, proc'[p].cmd>> \in effect'
  BY DEF HandlerEffect, Rests, GoesOn, Unsettles, Progresses, Disputes, Calls, Carries,
         ReleasesRest, Resolves, Stores, Polls, Pays, Ended
<1>5. ResolvedAfterFinance'
  <2>1. CASE Resolves(p)
    <3>1. /\ proc[p].s \in Shipments /\ <<proc[p].s, proc[p].cmd>> \in effect'
          /\ Matches(proc[p].cmd, proc[p].target) /\ proc[p].target # "none"
      BY <1>1, <2>1, HandlerFacts DEF Resolves, AnswerExecuted, CallSteps
    <3>2. Settled(proc[p].s, proc[p].target)
      BY <3>1, ExecutedSettles
    <3> QED
      BY <1>1, <2>1, <3>2, ResolvedStep DEF Resolves, Writes
  <2>2. CASE Keeps
    BY <1>1, <1>2, <2>2, ResolvedStep
  <2>3. CASE Unsettles(p)
    BY <1>1, <2>3, ResolvedStep DEF Unsettles, Marks
  <2>4. CASE Progresses(p)
    BY <1>1, <2>4, ResolvedStep DEF Progresses, Writes, Marks, Advances
  <2>5. CASE Disputes(p)
    BY <1>1, <2>5, ResolvedStep DEF Disputes, Writes, Marks
  <2>6. CASE Pays(p)
    BY <1>1, <2>6, ResolvedStep DEF Pays, Writes, Marks
  <2> QED
    BY <2>1, <2>2, <2>3, <2>4, <2>5, <2>6
    DEF HandlerEffect, Rests, GoesOn, Calls, ReleasesRest, Stores, Polls
<1> QED
  BY <1>1, <1>3, <1>4, <1>5, AheadStep DEF ResolvedInv

\* A row closes a dispute only after it was executed.
LEMMA ResolvedRow ==
  ASSUME Typed, Grows, ResolvedInv, NEW s \in Shipments, NEW cmd \in Commands,
         UNCHANGED proc, RowsAfter(s, cmd), Keeps \/ BridgeWrites(s, cmd)
  PROVE  ResolvedInv'
<1>1. ResolvedAfterFinance /\ effect \subseteq effect'
  BY DEF ResolvedInv, Grows
<1>2. \A p \in Procs : AnswerExecuted(proc[p])'
  BY <1>1 DEF ResolvedInv, AnswerExecuted
<1>3. RowsExecuted'
  BY <1>1 DEF ResolvedInv, RowsExecuted, RowsAfter
<1>4. CASE Keeps
  <2>1. KeepsBut(s) /\ Same(s)
    BY <1>4 DEF Keeps, KeepsBut
  <2> QED
    BY <1>1, <1>2, <1>3, <2>1, ResolvedStep DEF ResolvedInv
<1>5. CASE BridgeWrites(s, cmd)
  <2>1. /\ <<s, cmd>> \in effect' /\ Matches(cmd, row[<<s, cmd>>].target)
        /\ row[<<s, cmd>>].target # "none"
    BY <1>1, <1>5 DEF BridgeWrites, ResolvedInv, RowsExecuted, Typed, RowsGood
  <2>2. Settled(s, row[<<s, cmd>>].target)
    BY <2>1, ExecutedSettles
  <2>3. ResolvedAfterFinance'
    BY <1>1, <1>5, <2>2, ResolvedStep DEF BridgeWrites, Writes
  <2> QED
    BY <1>2, <1>3, <2>3 DEF ResolvedInv
<1> QED
  BY <1>4, <1>5

\* Closed disputes, answers and executed rows have their command in effect.
LEMMA ResolvedInvariant == Spec => []ResolvedInv
<1>1. Init => ResolvedInv
  BY DEF Init, ResolvedInv, ResolvedAfterFinance, AnswerExecuted, RowsExecuted, Idle
<1>2. Typed /\ ResolvedInv /\ [Next]_vars => ResolvedInv'
  <2> SUFFICES ASSUME Typed, ResolvedInv, [Next]_vars PROVE ResolvedInv'
    OBVIOUS
  <2>1. Grows
    BY StepGrows
  <2>2. ASSUME NEW p \in Procs, NEW s \in Shipments,
               UNCHANGED <<shipment, row, effect, gateway>>, Alone(p), BeginEffect(p, s)
        PROVE  ResolvedInv'
    <3>1. proc'[p].pc # "answered"
      BY <2>2 DEF BeginEffect, Prepares, StartsAdvance, StartsDispute, StartsResolve
    <3>2. \A q \in Procs : AnswerExecuted(proc[q])'
      BY <2>2, <3>1, AheadStep
    <3>3. ResolvedAfterFinance' /\ RowsExecuted'
      BY <2>2 DEF ResolvedInv, ResolvedAfterFinance, RowsExecuted
    <3> QED
      BY <3>2, <3>3 DEF ResolvedInv
  <2>3. ASSUME UNCHANGED <<shipment, row, proc, effect>>
        PROVE  ResolvedInv'
    BY <2>3 DEF ResolvedInv, ResolvedAfterFinance, AnswerExecuted, RowsExecuted
  <2> QED
    BY <2>1, <2>2, <2>3, ResolvedHandler, ResolvedRow, StepKinds
<1> QED
  BY TypedInvariant, <1>1, <1>2, PTL DEF Spec

\* A dispute is closed only after the finance service has executed the command
\* that settles it, by the administrator's request or later by the outbox.
THEOREM SettledBeforeResolved == Spec => []ResolvedAfterFinance
<1>1. ResolvedInv => ResolvedAfterFinance
  BY DEF ResolvedInv
<1> QED
  BY ResolvedInvariant, <1>1, PTL

-----------------------------------------------------------------------------
(* The outbox rows of the lifecycle are commands of CommandDelivery.       *)

PhaseOf == [k \in Shipments \X Commands |-> Phase(row[k].state)]

\* Storing, retrying, replaying, finishing and giving up a row are Accept,
\* Settle and Abandon, a finance call that is executed is TakeEffect, and all
\* else that happens to a shipment is invisible: a row is settled only with the
\* effect of its command, as IntegrationOutbox promises.
THEOREM RowsUseDelivery == Spec => UsesDelivery
<1>1. Init => Outbox!Init
  BY DEF Init, Outbox!Init, Phase
<1>2. Typed /\ ResolvedInv /\ [Next]_vars => [Outbox!Next]_(Outbox!dvars)
  <2> SUFFICES ASSUME Typed, ResolvedInv, [Next]_vars
               PROVE  Outbox!Next \/ UNCHANGED <<effect, PhaseOf>>
    BY DEF Outbox!dvars, PhaseOf
  <2>1. ASSUME UNCHANGED <<row, effect>>
        PROVE  UNCHANGED <<effect, PhaseOf>>
    BY <2>1 DEF PhaseOf
  <2>2. ASSUME NEW k \in Shipments \X Commands, UNCHANGED PhaseOf, effect' = effect \union {k}
        PROVE  Outbox!Next
    BY <2>2 DEF PhaseOf, Outbox!Next, Outbox!TakeEffect
  <2>3. ASSUME NEW k \in Shipments \X Commands, NEW state,
               \A j \in Shipments \X Commands :
                 row'[j].state = IF j = k THEN state ELSE row[j].state
        PROVE  PhaseOf' = [PhaseOf EXCEPT ![k] = Phase(state)]
    BY <2>3 DEF PhaseOf
  <2>4. ASSUME NEW k \in Shipments \X Commands, UNCHANGED effect,
               \/ PhaseOf' = [PhaseOf EXCEPT ![k] = "accepted"]
               \/ PhaseOf' = [PhaseOf EXCEPT ![k] = "settled"] /\ PhaseOf[k] # "unknown" /\ k \in effect
               \/ PhaseOf' = [PhaseOf EXCEPT ![k] = "abandoned"] /\ PhaseOf[k] # "unknown"
        PROVE  Outbox!Next
    BY <2>4 DEF PhaseOf, Outbox!Next, Outbox!Accept, Outbox!Settle, Outbox!Abandon
  <2>5. ASSUME NEW p \in Procs, HandlerStep(p) \/ HandlerFails(p)
        PROVE  Outbox!Next \/ UNCHANGED <<effect, PhaseOf>>
    <3> DEFINE k == <<proc[p].s, proc[p].cmd>>
    <3> USE DEF At
    <3>1. proc[p].pc \in CallSteps => k \in Shipments \X Commands
      BY HandlerFacts DEF CallSteps
    <3>2. CASE FinanceAnswers(p) \/ FinanceUnanswered(p)
      <4>1. UNCHANGED PhaseOf
        BY <3>2 DEF FinanceAnswers, FinanceUnanswered, PhaseOf
      <4> QED
        BY <2>2, <3>1, <3>2, <4>1 DEF FinanceAnswers, FinanceUnanswered, CallSteps
    <3>3. CASE Enqueue(p)
      <4>1. CASE row' = [row EXCEPT ![k] = [state |-> "queued", target |-> proc[p].target]]
        <5>1. k \in Shipments \X Commands /\ Phase("queued") = "accepted"
          BY <3>1, <3>3 DEF Enqueue, CallSteps, Phase
        <5>2. \A j \in Shipments \X Commands :
                row'[j].state = IF j = k THEN "queued" ELSE row[j].state
          BY <4>1, <5>1 DEF Typed, RowsGood
        <5>3. PhaseOf' = [PhaseOf EXCEPT ![k] = "accepted"]
          BY <2>3, <5>1, <5>2
        <5> QED
          BY <2>4, <3>3, <5>1, <5>3 DEF Enqueue
      <4>2. CASE UNCHANGED row
        BY <2>1, <3>3, <4>2 DEF Enqueue
      <4> QED
        BY <3>3, <4>1, <4>2 DEF Enqueue
    <3> QED
      BY <2>1, <2>5, <3>2, <3>3
      DEF HandlerStep, AssignToTrip, ReserveWeight, CreateChat, AcceptOffer, ReturnWeight,
          DeactivateChat, Detach, Reweigh, Advance, OpenDispute, FinanceRejects, StoreAnswer,
          ReleaseRest, ResolveShipmentDispute, GetEscrow, RecheckAccepted, MarkPaid, HandlerFails
  <2>6. ASSUME NEW s \in Shipments, NEW cmd \in Commands, RowStep(s, cmd)
        PROVE  Outbox!Next \/ UNCHANGED <<effect, PhaseOf>>
    <3> DEFINE k == <<s, cmd>>
    <3>1. k \in Shipments \X Commands /\ row[k].state \in OutboxStates
      BY DEF Typed, RowsGood, OutboxRows
    <3>2. PhaseOf[k] = Phase(row[k].state)
      BY <3>1 DEF PhaseOf
    <3>3. ASSUME NEW state, SetRow(s, cmd, state)
          PROVE  PhaseOf' = [PhaseOf EXCEPT ![k] = Phase(state)]
      <4>1. \A j \in Shipments \X Commands :
              row'[j].state = IF j = k THEN state ELSE row[j].state
        BY <3>1, <3>3 DEF SetRow, Typed, RowsGood, OutboxRows
      <4> QED
        BY <2>3, <3>1, <4>1
    <3>4. CASE RowExecutes(s, cmd)
      <4>1. PhaseOf' = [PhaseOf EXCEPT ![k] = Phase("executed")]
        BY <3>3, <3>4 DEF RowExecutes
      <4>2. Phase("executed") = PhaseOf[k]
        BY <3>2, <3>4 DEF RowExecutes, Phase
      <4>3. UNCHANGED PhaseOf
        BY <4>1, <4>2 DEF PhaseOf
      <4> QED
        BY <2>2, <3>1, <3>4, <4>3 DEF RowExecutes
    <3>5. CASE RowApplies(s, cmd)
      <4>1. PhaseOf' = [PhaseOf EXCEPT ![k] = "settled"]
        BY <3>3, <3>5 DEF RowApplies, Phase
      <4>2. PhaseOf[k] # "unknown" /\ k \in effect
        BY <3>2, <3>5 DEF RowApplies, Phase, ResolvedInv, RowsExecuted
      <4> QED
        BY <2>4, <3>1, <3>5, <4>1, <4>2 DEF RowApplies
    <3>6. CASE RowFails(s, cmd)
      <4>1. \/ PhaseOf' = [PhaseOf EXCEPT ![k] = "accepted"]
            \/ PhaseOf' = [PhaseOf EXCEPT ![k] = "abandoned"]
        BY <3>3, <3>6 DEF RowFails, Phase
      <4>2. PhaseOf[k] # "unknown"
        BY <3>2, <3>6 DEF RowFails, Phase
      <4> QED
        BY <2>4, <3>1, <3>6, <4>1, <4>2 DEF RowFails
    <3>7. CASE Replay(s, cmd)
      <4>1. PhaseOf' = [PhaseOf EXCEPT ![k] = "accepted"]
        BY <3>3, <3>7 DEF Replay, Phase
      <4> QED
        BY <2>4, <3>1, <3>7, <4>1 DEF Replay
    <3> QED
      BY <2>6, <3>4, <3>5, <3>6, <3>7 DEF RowStep
  <2>7. ASSUME NEW p \in Procs, NEW s \in Shipments, RequestStep(p, s) \/ JobStep(p, s)
        PROVE  UNCHANGED <<effect, PhaseOf>>
    BY <2>1, <2>7, BeginEffects
  <2>8. ASSUME NEW s \in Shipments, GatewayPays(s)
        PROVE  UNCHANGED <<effect, PhaseOf>>
    BY <2>1, <2>8 DEF GatewayPays
  <2>9. CASE UNCHANGED vars
    BY <2>1, <2>9 DEF vars
  <2> QED
    BY <2>5, <2>6, <2>7, <2>8, <2>9 DEF Next
<1> QED
  BY TypedInvariant, ResolvedInvariant, <1>1, <1>2, PTL DEF Spec, UsesDelivery, Outbox!SafeSpec

-----------------------------------------------------------------------------
(* Capacity.  Between the write that attaches a shipment to a trip, or     *)
(* detaches it, and the update of availableWeight, the shipment is moving: *)
(* of the shipments that are not, the weights add up to what is missing.   *)

MovingSteps == {"reserving", "closing", "detaching"}

Weight == [s \in Shipments |-> shipment[s].weight]
Moving == {proc[p].s : p \in {q \in Procs : proc[q].pc \in MovingSteps}}
Counted(t) == {s \in Shipments \ Moving : shipment[s].trip = t}

\* What a handler has read of its shipment is still true of it.
LoadSound(h) ==
  /\ h.pc = "matching" => shipment[h.s].trip = NoTrip /\ h.w = shipment[h.s].weight
  /\ h.pc \in {"reserving", "returning"} =>
       shipment[h.s].trip = h.t /\ h.w = shipment[h.s].weight

PendingFree == \A s \in Shipments : shipment[s].status = "PENDING" => shipment[s].trip = NoTrip
Balance == \A t \in Trips : IsSum(Weight, Counted(t), Capacity - available[t])

CapacityInv ==
  /\ \A p \in Procs : LoadSound(proc[p])
  /\ PendingFree
  /\ Balance

\* What the steps that are no business of a trip leave alone.
SameLoads ==
  \A s \in Shipments :
    /\ shipment'[s].trip = shipment[s].trip
    /\ shipment'[s].weight = shipment[s].weight
NoNewPending ==
  \A s \in Shipments : shipment'[s].status = "PENDING" => shipment[s].status = "PENDING"
Apart(p) ==
  /\ Alone(p)
  /\ proc[p].pc \notin LoadSteps /\ proc'[p].pc \notin LoadSteps
  /\ SameLoads /\ NoNewPending /\ UNCHANGED available

\* The same shipments count, with the same weights, for the same total.
LEMMA BalanceStays ==
  ASSUME Balance, UNCHANGED available,
         \A s \in Shipments : shipment'[s].weight = shipment[s].weight,
         \A t \in Trips : Counted(t)' = Counted(t)
  PROVE  Balance'
<1> SUFFICES ASSUME NEW t \in Trips
             PROVE  IsSum(Weight', Counted(t)', Capacity - available'[t])
  BY DEF Balance
<1>1. IsSum(Weight, Counted(t), Capacity - available'[t])
  BY DEF Balance
<1>2. \A s \in Counted(t) : Weight[s] = Weight'[s]
  BY DEF Counted, Weight
<1> QED
  BY <1>1, <1>2, SameSum

\* A process that moves no load, before or after its step, does not change
\* which shipments are moving.
LEMMA MovingStays ==
  ASSUME NEW p \in Procs, Alone(p),
         proc[p].pc \notin MovingSteps, proc'[p].pc \notin MovingSteps
  PROVE  Moving' = Moving
BY DEF Alone, Moving

\* While the loads stay, the same shipments count.
LEMMA LoadsStay ==
  ASSUME CapacityInv, SameLoads, NoNewPending, UNCHANGED available, Moving' = Moving
  PROVE  PendingFree' /\ Balance'
<1>1. \A t \in Trips : Counted(t)' = Counted(t)
  BY DEF Counted, SameLoads
<1>2. Balance'
  BY <1>1, BalanceStays DEF CapacityInv, SameLoads
<1>3. PendingFree'
  BY DEF PendingFree, CapacityInv, SameLoads, NoNewPending
<1> QED
  BY <1>2, <1>3

\* A step that is no business of a trip keeps the invariant.
LEMMA ApartStep ==
  ASSUME Typed, CapacityInv, NEW p \in Procs, Apart(p)
  PROVE  CapacityInv'
<1>0. Moving' = Moving
  BY MovingStays DEF Apart, LoadSteps, MovingSteps
<1>1. PendingFree' /\ Balance'
  BY <1>0, LoadsStay DEF Apart
<1>2. ASSUME NEW q \in Procs
      PROVE  LoadSound(proc[q])'
  <2>1. CASE q = p
    BY <2>1 DEF Apart, LoadSound, LoadSteps, MovingSteps
  <2>2. CASE q # p
    <3>1. proc'[q] = proc[q] /\ SameLoads
      BY <2>2 DEF Apart, Alone
    <3>2. LoadSound(proc[q]) /\ (proc[q].pc # "idle" => proc[q].s \in Shipments)
      BY HandlerFacts DEF CapacityInv
    <3> QED
      BY <3>1, <3>2 DEF LoadSound, SameLoads
  <2> QED
    BY <2>1, <2>2
<1> QED
  BY <1>1, <1>2 DEF CapacityInv

\* So does one that is not a step of a handler.
LEMMA StillStep ==
  ASSUME Typed, CapacityInv, UNCHANGED <<proc, available>>, SameLoads, NoNewPending
  PROVE  CapacityInv'
<1>1. Moving' = Moving
  BY DEF Moving
<1>2. PendingFree' /\ Balance'
  BY <1>1, LoadsStay
<1>3. ASSUME NEW q \in Procs
      PROVE  LoadSound(proc[q])'
  <2>1. LoadSound(proc[q]) /\ (proc[q].pc # "idle" => proc[q].s \in Shipments)
    BY HandlerFacts DEF CapacityInv
  <2> QED
    BY <2>1 DEF LoadSound, SameLoads
<1> QED
  BY <1>2, <1>3 DEF CapacityInv

\* A write to one shipment that keeps its trip and its weight.
LEMMA OneWrite ==
  ASSUME Typed, NEW s \in Shipments, NEW r,
         shipment' = [shipment EXCEPT ![s] = r],
         r.trip = shipment[s].trip, r.weight = shipment[s].weight,
         r.status = "PENDING" => shipment[s].status = "PENDING"
  PROVE  SameLoads /\ NoNewPending
<1>1. \A q \in Shipments : shipment'[q] = IF q = s THEN r ELSE shipment[q]
  BY DEF Typed
<1> QED
  BY <1>1 DEF SameLoads, NoNewPending

\* What the bridge writes keeps trip and weight, and never makes a row PENDING.
LEMMA BridgeLoads ==
  ASSUME Typed, NEW s \in Shipments, NEW cmd \in Commands, NEW target,
         Matches(cmd, target), Bridge(s, cmd, target)
  PROVE  SameLoads /\ NoNewPending
<1>0. shipment[s] \in ShipmentRows
  BY DEF Typed
<1>1. CASE shipment' = [shipment EXCEPT ![s].order = TRUE]
  BY <1>0, <1>1, OneWrite DEF ShipmentRows
<1>2. CASE /\ cmd \in Settling /\ target # "none"
           /\ shipment' = [shipment EXCEPT ![s].status = target, ![s].resolved = TRUE]
  <2>1. target # "PENDING"
    BY <1>2 DEF Matches
  <2>2. shipment' = [shipment EXCEPT ![s] =
          [shipment[s] EXCEPT !.status = target, !.resolved = TRUE]]
    BY <1>0, <1>2 DEF Typed, ShipmentRows
  <2> QED
    BY <1>0, <2>1, <2>2, OneWrite DEF ShipmentRows
<1>3. CASE UNCHANGED shipment
  BY <1>3 DEF SameLoads, NoNewPending
<1> QED
  BY <1>1, <1>2, <1>3 DEF Bridge

\* The handlers of payment, dispute and finance, and the jobs, move no load.
LEMMA HandlerApart ==
  ASSUME Typed, NEW p \in Procs,
         \/ CreateChat(p) \/ AcceptOffer(p) \/ Advance(p) \/ OpenDispute(p)
         \/ FinanceAnswers(p) \/ FinanceRejects(p) \/ FinanceUnanswered(p)
         \/ StoreAnswer(p) \/ ReleaseRest(p) \/ ResolveShipmentDispute(p)
         \/ Enqueue(p) \/ GetEscrow(p) \/ RecheckAccepted(p) \/ MarkPaid(p)
  PROVE  Apart(p)
<1> USE DEF At
<1>0. /\ proc[p].pc # "idle" => proc[p].s \in Shipments
      /\ shipment \in [Shipments -> ShipmentRows]
      /\ UNCHANGED shipment => SameLoads /\ NoNewPending
  BY HandlerFacts DEF Typed, SameLoads, NoNewPending
<1> DEFINE s == proc[p].s
           Writes1(status) == shipment' = [shipment EXCEPT ![s].status = status]
<1>1. ASSUME NEW status, status # "PENDING", proc[p].pc # "idle", Writes1(status)
      PROVE  SameLoads /\ NoNewPending
  <2> DEFINE r == [shipment[s] EXCEPT !.status = status]
  <2>1. shipment' = [shipment EXCEPT ![s] = r]
    BY <1>0, <1>1
  <2>2. /\ r.status # "PENDING" /\ s \in Shipments
        /\ r.trip = shipment[s].trip /\ r.weight = shipment[s].weight
    BY <1>0, <1>1 DEF ShipmentRows
  <2> HIDE DEF r
  <2> QED
    BY <2>1, <2>2, OneWrite
<1>2. CASE CreateChat(p) \/ FinanceRejects(p) \/ Enqueue(p)
  BY <1>0, <1>2, EndsAlone
  DEF CreateChat, FinanceRejects, Enqueue, Apart, LoadSteps, MovingSteps
<1>3. CASE FinanceAnswers(p) \/ FinanceUnanswered(p)
  BY <1>0, <1>3, MovesAlone
  DEF FinanceAnswers, FinanceUnanswered, Apart, LoadSteps, MovingSteps
<1>4. CASE GetEscrow(p) \/ RecheckAccepted(p)
  BY <1>0, <1>4, MovesAlone, EndsAlone
  DEF GetEscrow, RecheckAccepted, Apart, LoadSteps, MovingSteps
<1>5. CASE AcceptOffer(p)
  <2>1. SameLoads /\ NoNewPending
    BY <1>1, <1>5 DEF AcceptOffer, SetStatus
  <2> QED
    BY <1>5, <2>1, EndsAlone, BeginsCallAlone DEF AcceptOffer, Apart, LoadSteps, MovingSteps
<1>6. CASE MarkPaid(p)
  <2>1. SameLoads /\ NoNewPending
    BY <1>1, <1>6 DEF MarkPaid, SetStatus
  <2> QED
    BY <1>6, <2>1, EndsAlone DEF MarkPaid, Apart, LoadSteps, MovingSteps
<1>7. CASE Advance(p)
  <2>1. proc[p].target \in Advances /\ proc[p].target # "PENDING"
    BY <1>7, HandlerFacts DEF Advance, Advances
  <2> DEFINE r == [shipment[s] EXCEPT !.status = proc[p].target,
                                      !.delivered = @ \/ proc[p].target = "DELIVERED"]
  <2>2. shipment' = [shipment EXCEPT ![s] = r]
    BY <1>0, <1>7 DEF Advance, ShipmentRows
  <2>3. /\ r.status # "PENDING" /\ s \in Shipments
        /\ r.trip = shipment[s].trip /\ r.weight = shipment[s].weight
    BY <1>0, <1>7, <2>1 DEF Advance, ShipmentRows
  <2>5. SameLoads /\ NoNewPending
    <3> HIDE DEF r
    <3> QED
      BY <2>2, <2>3, OneWrite
  <2>4. \/ BeginsCall(p, s, "MarkDelivered", "none")
        \/ BeginsCall(p, s, "ReleaseEscrow", "none")
        \/ Ends(p)
    BY <1>7 DEF Advance
  <2> QED
    BY <1>7, <2>4, <2>5, EndsAlone, BeginsCallAlone DEF Advance, Apart, LoadSteps, MovingSteps
<1>8. CASE OpenDispute(p)
  <2> DEFINE r == [shipment[s] EXCEPT !.status = "DISPUTED", !.disputed = TRUE]
  <2>1. shipment' = [shipment EXCEPT ![s] = r]
    BY <1>0, <1>8 DEF OpenDispute, ShipmentRows
  <2>3. /\ r.status # "PENDING" /\ s \in Shipments
        /\ r.trip = shipment[s].trip /\ r.weight = shipment[s].weight
    BY <1>0, <1>8 DEF OpenDispute, ShipmentRows
  <2>2. SameLoads /\ NoNewPending
    <3> HIDE DEF r
    <3> QED
      BY <2>1, <2>3, OneWrite
  <2> QED
    BY <1>8, <2>2, BeginsCallAlone DEF OpenDispute, Apart, LoadSteps, MovingSteps
<1>9. CASE StoreAnswer(p)
  <2>1. SameLoads /\ NoNewPending
    BY <1>0, <1>9, HandlerFacts, BridgeLoads DEF StoreAnswer, CallSteps
  <2> QED
    BY <1>9, <2>1, EndsAlone DEF StoreAnswer, Apart, LoadSteps, MovingSteps
<1>10. CASE ReleaseRest(p)
  BY <1>0, <1>10, BeginsCallAlone DEF ReleaseRest, Apart, LoadSteps, MovingSteps
<1>11. CASE ResolveShipmentDispute(p)
  <2>1. proc[p].target # "PENDING"
    BY <1>11, HandlerFacts DEF ResolveShipmentDispute, CallSteps, Matches
  <2> DEFINE r == [shipment[s] EXCEPT !.status = proc[p].target, !.resolved = TRUE]
  <2>2. shipment' = [shipment EXCEPT ![s] = r]
    BY <1>0, <1>11 DEF ResolveShipmentDispute, ShipmentRows
  <2>4. /\ r.status # "PENDING" /\ s \in Shipments
        /\ r.trip = shipment[s].trip /\ r.weight = shipment[s].weight
    BY <1>0, <1>11, <2>1 DEF ResolveShipmentDispute, ShipmentRows
  <2>3. SameLoads /\ NoNewPending
    <3> HIDE DEF r
    <3> QED
      BY <2>2, <2>4, OneWrite
  <2> QED
    BY <1>11, <2>3, EndsAlone DEF ResolveShipmentDispute, Apart, LoadSteps, MovingSteps
<1> QED
  BY <1>2, <1>3, <1>4, <1>5, <1>6, <1>7, <1>8, <1>9, <1>10, <1>11

\* Neither do the requests of these kinds, and the jobs, when they begin.
LEMMA BeginApart ==
  ASSUME Typed, NEW p \in Procs, NEW s \in Shipments,
         \/ BeginAccept(p, s)
         \/ \E op \in {"wallet", "order"} : BeginPayment(p, s, op)
         \/ \E target \in DOMAIN ExpectedFrom : BeginAdvance(p, s, target)
         \/ BeginDispute(p, s)
         \/ \E op \in Resolutions : BeginResolve(p, s, op)
         \/ BeginPoll(p, s) \/ BeginAutoRelease(p, s)
  PROVE  Apart(p)
<1>0. UNCHANGED shipment => SameLoads /\ NoNewPending
  BY DEF SameLoads, NoNewPending
<1> USE DEF Serves, At
<1>1. CASE BeginAccept(p, s) \/ BeginDispute(p, s) \/ BeginPoll(p, s)
  BY <1>0, <1>1, BeginsAlone
  DEF BeginAccept, BeginDispute, BeginPoll, Apart, LoadSteps, MovingSteps
<1>2. ASSUME NEW op \in {"wallet", "order"}, BeginPayment(p, s, op)
      PROVE  Apart(p)
  BY <1>0, <1>2, BeginsCallAlone DEF BeginPayment, Apart, LoadSteps, MovingSteps
<1>3. ASSUME NEW target \in DOMAIN ExpectedFrom, BeginAdvance(p, s, target)
      PROVE  Apart(p)
  BY <1>0, <1>3, BeginsTowardAlone DEF BeginAdvance, Apart, LoadSteps, MovingSteps
<1>4. ASSUME NEW op \in Resolutions, BeginResolve(p, s, op)
      PROVE  Apart(p)
  BY <1>0, <1>4, BeginsCallAlone DEF BeginResolve, Apart, LoadSteps, MovingSteps
<1>5. CASE BeginAutoRelease(p, s)
  BY <1>0, <1>5, BeginsTowardAlone DEF BeginAutoRelease, Apart, LoadSteps, MovingSteps
<1> QED
  BY <1>1, <1>2, <1>3, <1>4, <1>5

\* Nor does the outbox, whose late writes never bring back a PENDING shipment.
LEMMA RowStill ==
  ASSUME Typed, NEW s \in Shipments, NEW cmd \in Commands, RowStep(s, cmd)
  PROVE  SameLoads /\ NoNewPending /\ UNCHANGED <<proc, available>>
<1>1. Matches(cmd, row[<<s, cmd>>].target)
  BY DEF Typed, RowsGood
<1>2. Bridge(s, cmd, row[<<s, cmd>>].target) => SameLoads /\ NoNewPending
  BY <1>1, BridgeLoads
<1>3. UNCHANGED shipment => SameLoads /\ NoNewPending
  BY DEF SameLoads, NoNewPending
<1> QED
  BY <1>2, <1>3 DEF RowStep, RowExecutes, RowApplies, RowFails, Replay

-----------------------------------------------------------------------------
(* The steps that move a load, of a handler that has its shipment for      *)
(* itself.                                                                 *)

Free(p, s) == \A q \in Procs \ {p} : proc[q].pc \in LoadSteps => proc[q].s # s

\* No other handler moves the load of a handler that is about to.
LEMMA FreeBefore ==
  ASSUME NoOverlap, NEW p \in Procs, proc[p].pc \in LoadSteps
  PROVE  Free(p, proc[p].s)
BY DEF NoOverlap, Free

\* Nor that of one that has just begun.
LEMMA FreeAfter ==
  ASSUME NoOverlap', NEW p \in Procs, Alone(p), proc'[p].pc \in LoadSteps
  PROVE  Free(p, proc'[p].s)
BY DEF NoOverlap, Free, Alone

\* Only the shipment of the handler starts or ends to move.
LEMMA MovingStep ==
  ASSUME NEW p \in Procs, NEW s, Alone(p), Free(p, s),
         proc[p].pc \in MovingSteps => proc[p].s = s,
         proc'[p].pc \in MovingSteps => proc'[p].s = s
  PROVE  /\ s \in Moving <=> proc[p].pc \in MovingSteps
         /\ s \in Moving' <=> proc'[p].pc \in MovingSteps
         /\ Moving \ {s} = Moving' \ {s}
<1>1. \A q \in Procs \ {p} :
        proc'[q] = proc[q] /\ (proc[q].pc \in MovingSteps => proc[q].s # s)
  BY DEF Free, Alone, LoadSteps, MovingSteps
<1>2. (s \in Moving <=> proc[p].pc \in MovingSteps) /\ (s \in Moving' <=> proc'[p].pc \in MovingSteps)
  BY <1>1 DEF Moving
<1>3. ASSUME NEW r, r # s
      PROVE  r \in Moving <=> r \in Moving'
  BY <1>1, <1>3 DEF Moving
<1> QED
  BY <1>2, <1>3

\* What remains to show of a step of the handler.
LEMMA LoadStepKeeps ==
  ASSUME Typed, CapacityInv, NEW p \in Procs, NEW s \in Shipments, Alone(p), Free(p, s),
         \A r \in Shipments \ {s} :
           shipment'[r].trip = shipment[r].trip /\ shipment'[r].weight = shipment[r].weight,
         LoadSound(proc[p])', PendingFree', Balance'
  PROVE  CapacityInv'
<1>1. ASSUME NEW q \in Procs, q # p
      PROVE  LoadSound(proc[q])'
  <2>1. LoadSound(proc[q]) /\ proc'[q] = proc[q]
    BY <1>1 DEF CapacityInv, Alone
  <2>2. proc[q].pc \in LoadSteps => proc[q].s \in Shipments \ {s}
    BY <1>1, HandlerFacts DEF Free, LoadSteps, MovingSteps
  <2> QED
    BY <2>1, <2>2 DEF LoadSound, LoadSteps, MovingSteps
<1> QED
  BY <1>1 DEF CapacityInv

\* The offer that begins has read a shipment without a trip.
LEMMA AssignBegins ==
  ASSUME Typed, CapacityInv, NoOverlap', NEW p \in Procs, NEW s \in Shipments,
         NEW t \in Trips, BeginAssign(p, s, t)
  PROVE  CapacityInv'
<1> USE DEF At, Serves
<1> DEFINE h == [Idle EXCEPT !.pc = "matching", !.s = s, !.t = t, !.w = shipment[s].weight]
<1>1. Alone(p) /\ proc'[p] = h
  BY ReplacedAlone DEF BeginAssign
<1>2. SameLoads /\ NoNewPending /\ UNCHANGED <<shipment, available>>
  BY DEF BeginAssign, SameLoads, NoNewPending
<1>3. proc'[p].pc = "matching" /\ proc'[p].s = s /\ Free(p, s)
  BY <1>1, FreeAfter DEF Idle, LoadSteps
<1>4. PendingFree' /\ Balance'
  BY <1>1, <1>2, <1>3, MovingStays, LoadsStay DEF BeginAssign, MovingSteps
<1>5. LoadSound(proc[p])'
  BY <1>1, <1>2 DEF BeginAssign, CapacityInv, PendingFree, LoadSound, Idle
<1> QED
  BY <1>1, <1>2, <1>3, <1>4, <1>5, LoadStepKeeps

\* The shipment that gets its trip counts from the next step on.
LEMMA AssignMoves ==
  ASSUME Typed, CapacityInv, NoOverlap, NEW p \in Procs, AssignToTrip(p)
  PROVE  CapacityInv'
<1> USE DEF At
<1> DEFINE s == proc[p].s
<1>1. /\ s \in Shipments /\ proc[p].t \in Trips
      /\ shipment[s].trip = NoTrip /\ proc[p].w = shipment[s].weight
      /\ shipment[s] \in ShipmentRows /\ proc[p] \in Handlers /\ Free(p, s)
  BY HandlerFacts, FreeBefore DEF AssignToTrip, CapacityInv, LoadSound, LoadSteps
<1>2. Alone(p) /\ proc'[p] = [proc[p] EXCEPT !.pc = "reserving"]
  BY ReplacedAlone DEF AssignToTrip, Moves
<1>3. \A q \in Shipments :
        shipment'[q] = IF q = s THEN [shipment[s] EXCEPT !.status = "MATCHED", !.trip = proc[p].t]
                                ELSE shipment[q]
  BY <1>1 DEF AssignToTrip, Typed, ShipmentRows
<1>4. proc'[p].pc = "reserving" /\ proc'[p].s = s /\ proc'[p].t = proc[p].t /\ proc'[p].w = proc[p].w
  BY <1>1, <1>2 DEF Handlers
<1>5. s \in Moving' /\ Moving \ {s} = Moving' \ {s}
  BY <1>1, <1>2, <1>4, MovingStep DEF AssignToTrip, MovingSteps
<1>6. /\ shipment'[s].trip = proc[p].t
      /\ \A q \in Shipments : shipment'[q].weight = shipment[q].weight
  BY <1>1, <1>3 DEF ShipmentRows
<1>7. \A u \in Trips : Counted(u)' = Counted(u)
  BY <1>1, <1>3, <1>5, NamesAssumption DEF Counted
<1>8. Balance'
  BY <1>6, <1>7, BalanceStays DEF AssignToTrip, CapacityInv
<1>9. PendingFree'
  BY <1>1, <1>3 DEF PendingFree, CapacityInv, ShipmentRows
<1>10. LoadSound(proc[p])'
  BY <1>1, <1>4, <1>6 DEF LoadSound
<1> QED
  BY <1>1, <1>2, <1>3, <1>8, <1>9, <1>10, LoadStepKeeps

\* What is reserved is the weight of the shipment that now counts.
LEMMA ReserveMoves ==
  ASSUME Typed, CapacityInv, NoOverlap, NEW p \in Procs, ReserveWeight(p)
  PROVE  CapacityInv'
<1> USE DEF At
<1> DEFINE s == proc[p].s
           t == proc[p].t
           Rest(u) == {q \in Shipments \ Moving : shipment[q].trip = u}
           Added(u) == IF u = t THEN Rest(u) \union {s} ELSE Rest(u)
<1>1. /\ s \in Shipments /\ t \in Trips
      /\ shipment[s].trip = t /\ proc[p].w = shipment[s].weight
      /\ shipment[s] \in ShipmentRows /\ UNCHANGED shipment /\ Free(p, s)
  BY HandlerFacts, FreeBefore DEF ReserveWeight, CapacityInv, LoadSound, LoadSteps, MovingSteps
<1>2. Alone(p) /\ proc'[p].pc = "opening"
  BY MovesAlone DEF ReserveWeight
<1>3. \A u \in Trips :
        /\ available[u] \in Int
        /\ available'[u] = IF u = t THEN available[t] - shipment[s].weight ELSE available[u]
  BY <1>1 DEF ReserveWeight, Typed
<1>4. s \in Moving /\ s \notin Moving' /\ Moving \ {s} = Moving' \ {s}
  BY <1>1, <1>2, MovingStep DEF ReserveWeight, MovingSteps
<1>5. (\A u : Counted(u) = Rest(u)) /\ \A u : Counted(u)' = Added(u)
  BY <1>1, <1>4 DEF Counted
<1>6. ASSUME NEW u \in Trips
      PROVE  IsSum(Weight, Added(u), Capacity - available'[u])
  <2>1. IsSum(Weight, Rest(u), Capacity - available[u])
    <3>1. IsSum(Weight, Counted(u), Capacity - available[u])
      BY DEF Balance, CapacityInv
    <3>2. Counted(u) = Rest(u)
      BY <1>5
    <3> QED
      BY <3>1, <3>2
  <2>2. Capacity - available[u] \in Int
    BY <1>3, NumbersAssumption
  <2>3. CASE u = t
    <3>1. Weight[s] = shipment[s].weight /\ Weight[s] \in Int /\ s \notin Rest(u)
      BY <1>1, <1>4 DEF Weight, ShipmentRows
    <3>2. IsSum(Weight, Rest(u) \union {s}, (Capacity - available[u]) + Weight[s])
      BY <2>1, <2>2, <3>1, SumWith
    <3>3. (Capacity - available[u]) + Weight[s] = Capacity - available'[u]
      BY <1>1, <1>3, <2>3, <3>1, NumbersAssumption
    <3> QED
      BY <2>3, <3>2, <3>3
  <2>4. CASE u # t
    BY <1>3, <2>1, <2>4
  <2> QED
    BY <2>3, <2>4
<1>7. Weight' = Weight
  BY <1>1 DEF Weight
<1>8. Balance'
  BY <1>5, <1>6, <1>7 DEF Balance
<1>9. PendingFree' /\ LoadSound(proc[p])'
  BY <1>1, <1>2 DEF PendingFree, CapacityInv, LoadSound
<1> QED
  BY <1>1, <1>2, <1>8, <1>9, LoadStepKeeps

\* A withdrawal that begins hands its load back first, or has none.
LEMMA WithdrawBegins ==
  ASSUME Typed, CapacityInv, NoOverlap', NEW p \in Procs, NEW s \in Shipments,
         NEW op \in {"reject", "cancel"}, BeginWithdraw(p, s, op)
  PROVE  CapacityInv'
<1> USE DEF At, Serves
<1> DEFINE held == shipment[s].status \in HoldsCapacity /\ shipment[s].trip # NoTrip
           h == [Idle EXCEPT !.pc = IF held THEN "returning" ELSE "closing",
                             !.s = s, !.t = shipment[s].trip, !.w = shipment[s].weight,
                             !.target = WithdrawnStatus(op)]
<1>1. /\ Alone(p) /\ proc'[p] = h
      /\ UNCHANGED <<shipment, available>> /\ shipment[s] \in ShipmentRows
  BY ReplacedAlone DEF BeginWithdraw, Typed
<1>2. /\ proc'[p].pc = IF held THEN "returning" ELSE "closing"
      /\ proc'[p].s = s /\ proc'[p].t = shipment[s].trip /\ proc'[p].w = shipment[s].weight
  BY <1>1 DEF Idle
<1>3. Free(p, s)
  BY <1>1, <1>2, FreeAfter DEF LoadSteps, MovingSteps
<1>4. /\ s \notin Moving /\ Moving \ {s} = Moving' \ {s}
      /\ s \in Moving' <=> ~held
  BY <1>1, <1>2, <1>3, MovingStep DEF BeginWithdraw, MovingSteps
<1>5. ~held => shipment[s].trip = NoTrip
  BY DEF BeginWithdraw, Withdrawable, HoldsCapacity, PendingFree, CapacityInv
<1>6. \A u \in Trips : Counted(u)' = Counted(u)
  BY <1>1, <1>4, <1>5, NamesAssumption DEF Counted
<1>7. Balance'
  BY <1>1, <1>6, BalanceStays DEF CapacityInv
<1>8. PendingFree' /\ LoadSound(proc[p])'
  BY <1>1, <1>2 DEF PendingFree, CapacityInv, LoadSound
<1> QED
  BY <1>1, <1>3, <1>7, <1>8, LoadStepKeeps

\* What is handed back is the weight of the shipment that no longer counts.
LEMMA ReturnMoves ==
  ASSUME Typed, CapacityInv, NoOverlap, NEW p \in Procs, ReturnWeight(p)
  PROVE  CapacityInv'
<1> USE DEF At
<1> DEFINE s == proc[p].s
           t == proc[p].t
           Whole(u) == {q \in Shipments \ Moving : shipment[q].trip = u}
           Left(u) == IF u = t THEN Whole(u) \ {s} ELSE Whole(u)
<1>1. /\ s \in Shipments /\ t \in Trips
      /\ shipment[s].trip = t /\ proc[p].w = shipment[s].weight
      /\ shipment[s] \in ShipmentRows /\ UNCHANGED shipment /\ Free(p, s)
  BY HandlerFacts, FreeBefore DEF ReturnWeight, CapacityInv, LoadSound, LoadSteps
<1>2. Alone(p) /\ proc'[p].pc = "closing" /\ proc'[p].s = s
  BY MovesAlone DEF ReturnWeight
<1>3. \A u \in Trips :
        /\ available[u] \in Int
        /\ available'[u] = IF u = t THEN available[t] + shipment[s].weight ELSE available[u]
  BY <1>1 DEF ReturnWeight, Typed
<1>4. s \notin Moving /\ s \in Moving' /\ Moving \ {s} = Moving' \ {s}
  BY <1>1, <1>2, MovingStep DEF ReturnWeight, MovingSteps
<1>5. (\A u : Counted(u) = Whole(u)) /\ \A u : Counted(u)' = Left(u)
  BY <1>1, <1>4 DEF Counted
<1>6. ASSUME NEW u \in Trips
      PROVE  IsSum(Weight, Left(u), Capacity - available'[u])
  <2>1. IsSum(Weight, Whole(u), Capacity - available[u])
    <3>1. IsSum(Weight, Counted(u), Capacity - available[u])
      BY DEF Balance, CapacityInv
    <3>2. Counted(u) = Whole(u)
      BY <1>5
    <3> QED
      BY <3>1, <3>2
  <2>2. Capacity - available[u] \in Int
    BY <1>3, NumbersAssumption
  <2>3. CASE u = t
    <3>1. /\ Weight[s] = shipment[s].weight /\ Weight[s] \in Int /\ s \in Whole(u)
          /\ \A q \in Whole(u) : Weight[q] \in Int
      BY <1>1, <1>4, <2>3 DEF Weight, ShipmentRows, Typed
    <3>2. IsSum(Weight, Whole(u) \ {s}, (Capacity - available[u]) - Weight[s])
      BY <2>1, <2>2, <3>1, SumWithout
    <3>3. (Capacity - available[u]) - Weight[s] = Capacity - available'[u]
      BY <1>1, <1>3, <2>3, <3>1, NumbersAssumption
    <3> QED
      BY <2>3, <3>2, <3>3
  <2>4. CASE u # t
    BY <1>3, <2>1, <2>4
  <2> QED
    BY <2>3, <2>4
<1>7. Weight' = Weight
  BY <1>1 DEF Weight
<1>8. Balance'
  BY <1>5, <1>6, <1>7 DEF Balance
<1>9. PendingFree' /\ LoadSound(proc[p])'
  BY <1>1, <1>2 DEF PendingFree, CapacityInv, LoadSound
<1> QED
  BY <1>1, <1>2, <1>8, <1>9, LoadStepKeeps

\* The chat is closed while the shipment is still moving.
LEMMA CloseMoves ==
  ASSUME Typed, CapacityInv, NoOverlap, NEW p \in Procs, DeactivateChat(p)
  PROVE  CapacityInv'
<1> USE DEF At
<1> DEFINE s == proc[p].s
           h == [Idle EXCEPT !.pc = "detaching", !.s = s, !.target = proc[p].target]
<1>1. /\ s \in Shipments /\ UNCHANGED <<shipment, available>> /\ Free(p, s)
      /\ SameLoads /\ NoNewPending
  BY HandlerFacts, FreeBefore
  DEF DeactivateChat, LoadSteps, MovingSteps, SameLoads, NoNewPending
<1>2. Alone(p) /\ proc'[p] = h
  BY ReplacedAlone DEF DeactivateChat
<1>3. proc'[p].pc = "detaching" /\ proc'[p].s = s
  BY <1>2 DEF Idle
<1>4. s \in Moving /\ s \in Moving' /\ Moving \ {s} = Moving' \ {s}
  BY <1>1, <1>2, <1>3, MovingStep DEF DeactivateChat, MovingSteps
<1>5. PendingFree' /\ Balance'
  BY <1>1, <1>4, LoadsStay
<1>6. LoadSound(proc[p])'
  BY <1>3 DEF LoadSound
<1> QED
  BY <1>1, <1>2, <1>5, <1>6, LoadStepKeeps

\* The shipment is off its trip, and counts for none.
LEMMA DetachMoves ==
  ASSUME Typed, CapacityInv, NoOverlap, NEW p \in Procs, Detach(p)
  PROVE  CapacityInv'
<1> USE DEF At
<1> DEFINE s == proc[p].s
<1>1. s \in Shipments /\ shipment[s] \in ShipmentRows /\ Free(p, s)
  BY HandlerFacts, FreeBefore DEF Detach, LoadSteps, MovingSteps
<1>2. Alone(p) /\ proc'[p].pc = "idle"
  BY EndsAlone DEF Detach
<1>3. \A q \in Shipments :
        shipment'[q] = IF q = s THEN [shipment[s] EXCEPT !.status = proc[p].target, !.trip = NoTrip]
                                ELSE shipment[q]
  BY <1>1 DEF Detach, Typed, ShipmentRows
<1>4. s \in Moving /\ Moving \ {s} = Moving' \ {s}
  BY <1>1, <1>2, MovingStep DEF Detach, MovingSteps
<1>5. /\ shipment'[s].trip = NoTrip
      /\ \A q \in Shipments : shipment'[q].weight = shipment[q].weight
  <2>1. shipment'[s].trip = NoTrip /\ shipment'[s].weight = shipment[s].weight
    BY <1>1, <1>3 DEF ShipmentRows
  <2> QED
    BY <1>3, <2>1
<1>6. \A u \in Trips : Counted(u)' = Counted(u)
  BY <1>1, <1>3, <1>4, <1>5, NamesAssumption DEF Counted
<1>7. Balance'
  BY <1>5, <1>6, BalanceStays DEF Detach, CapacityInv
<1>8. PendingFree'
  BY <1>3, <1>5 DEF PendingFree, CapacityInv
<1>9. LoadSound(proc[p])'
  BY <1>2 DEF LoadSound
<1> QED
  BY <1>1, <1>2, <1>3, <1>7, <1>8, <1>9, LoadStepKeeps

\* An update that begins has changed nothing yet.
LEMMA ReweighBegins ==
  ASSUME Typed, CapacityInv, NoOverlap', NEW p \in Procs, NEW s \in Shipments,
         NEW w \in Weights, BeginReweigh(p, s, w)
  PROVE  CapacityInv'
<1> USE DEF At, Serves
<1> DEFINE h == [Idle EXCEPT !.pc = "reweighing", !.s = s, !.w = w]
<1>1. Alone(p) /\ proc'[p] = h
  BY ReplacedAlone DEF BeginReweigh
<1>2. SameLoads /\ NoNewPending /\ UNCHANGED <<shipment, available>>
  BY DEF BeginReweigh, SameLoads, NoNewPending
<1>3. proc'[p].pc = "reweighing" /\ proc'[p].s = s /\ Free(p, s)
  BY <1>1, FreeAfter DEF Idle, LoadSteps
<1>4. PendingFree' /\ Balance'
  BY <1>1, <1>2, <1>3, MovingStays, LoadsStay DEF BeginReweigh, MovingSteps
<1>5. LoadSound(proc[p])'
  BY <1>3 DEF LoadSound
<1> QED
  BY <1>1, <1>2, <1>3, <1>4, <1>5, LoadStepKeeps

\* A weight that no trip counts may change.
LEMMA ReweighMoves ==
  ASSUME Typed, CapacityInv, NoOverlap, FreelyReweighed, NEW p \in Procs, Reweigh(p)
  PROVE  CapacityInv'
<1> USE DEF At
<1> DEFINE s == proc[p].s
<1>1. /\ s \in Shipments /\ shipment[s] \in ShipmentRows /\ Free(p, s)
      /\ shipment[s].trip = NoTrip
  BY HandlerFacts, FreeBefore
  DEF Reweigh, FreelyReweighed, CapacityInv, PendingFree, LoadSteps, MovingSteps
<1>2. Alone(p) /\ proc'[p].pc = "idle"
  BY EndsAlone DEF Reweigh
<1>3. \A q \in Shipments :
        shipment'[q] = IF q = s THEN [shipment[s] EXCEPT !.weight = proc[p].w] ELSE shipment[q]
  BY <1>1 DEF Reweigh, Typed
<1>4. \A q \in Shipments : /\ shipment'[q].trip = shipment[q].trip
                           /\ shipment'[q].status = shipment[q].status
  BY <1>1, <1>3 DEF ShipmentRows
<1>5. Moving' = Moving
  BY <1>2, MovingStays DEF Reweigh, MovingSteps
<1>6. ASSUME NEW u \in Trips
      PROVE  IsSum(Weight', Counted(u)', Capacity - available'[u])
  <2>1. Counted(u)' = Counted(u) /\ s \notin Counted(u)
    BY <1>1, <1>4, <1>5, NamesAssumption DEF Counted
  <2>2. \A q \in Counted(u) : Weight[q] = Weight'[q]
    BY <1>3, <2>1 DEF Counted, Weight
  <2>3. IsSum(Weight, Counted(u), Capacity - available'[u])
    BY DEF Reweigh, CapacityInv, Balance
  <2> QED
    BY <2>1, <2>2, <2>3, SameSum
<1>7. Balance'
  BY <1>6 DEF Balance
<1>8. PendingFree' /\ LoadSound(proc[p])'
  BY <1>2, <1>4 DEF PendingFree, CapacityInv, LoadSound
<1> QED
  BY <1>1, <1>2, <1>3, <1>7, <1>8, LoadStepKeeps

-----------------------------------------------------------------------------
\* Every step but the death of a handler keeps the invariant.
LEMMA CapacityNext ==
  ASSUME Typed, CapacityInv, NoOverlap, NoOverlap', FreelyReweighed, [Next]_vars
  PROVE  CapacityInv' \/ \E p \in Procs : HandlerFails(p)
<1>1. ASSUME NEW p \in Procs, NEW s \in Shipments, RequestStep(p, s) \/ JobStep(p, s)
      PROVE  CapacityInv'
  <2>1. ASSUME NEW w \in Weights, BeginReweigh(p, s, w)
        PROVE  CapacityInv'
    BY <2>1, ReweighBegins
  <2>2. ASSUME NEW t \in Trips, BeginAssign(p, s, t)
        PROVE  CapacityInv'
    BY <2>2, AssignBegins
  <2>3. ASSUME NEW op \in {"reject", "cancel"}, BeginWithdraw(p, s, op)
        PROVE  CapacityInv'
    BY <2>3, WithdrawBegins
  <2> QED
    BY <1>1, <2>1, <2>2, <2>3, BeginApart, ApartStep DEF RequestStep, JobStep
<1>2. ASSUME NEW p \in Procs, HandlerStep(p)
      PROVE  CapacityInv'
  BY <1>2, HandlerApart, ApartStep, AssignMoves, ReserveMoves, ReturnMoves, CloseMoves,
     DetachMoves, ReweighMoves DEF HandlerStep
<1>3. ASSUME NEW s \in Shipments, NEW cmd \in Commands, RowStep(s, cmd)
      PROVE  CapacityInv'
  BY <1>3, RowStill, StillStep
<1>4. CASE (\E s \in Shipments : GatewayPays(s)) \/ UNCHANGED vars
  <2>1. UNCHANGED <<shipment, proc, available>>
    BY <1>4 DEF GatewayPays, vars
  <2> QED
    BY <2>1, StillStep DEF SameLoads, NoNewPending
<1> QED
  BY <1>1, <1>2, <1>3, <1>4 DEF Next

\* Only the death of a handler is a fault.
LEMMA OnlyDeathsCount ==
  ASSUME [Next]_vars, \A p \in Procs : ~HandlerFails(p)
  PROVE  UNCHANGED faults
<1>1. ASSUME NEW p \in Procs, NEW s \in Shipments, RequestStep(p, s) \/ JobStep(p, s)
      PROVE  UNCHANGED faults
  BY <1>1
  DEF RequestStep, JobStep, BeginAssign, BeginAccept, BeginWithdraw, BeginReweigh, BeginPayment,
      BeginAdvance, BeginDispute, BeginResolve, BeginPoll, BeginAutoRelease
<1>2. ASSUME NEW p \in Procs, HandlerStep(p)
      PROVE  UNCHANGED faults
  BY <1>2
  DEF HandlerStep, AssignToTrip, ReserveWeight, CreateChat, AcceptOffer, ReturnWeight,
      DeactivateChat, Detach, Reweigh, Advance, OpenDispute, FinanceAnswers, FinanceRejects,
      FinanceUnanswered, StoreAnswer, ReleaseRest, ResolveShipmentDispute, Enqueue, GetEscrow,
      RecheckAccepted, MarkPaid
<1>3. ASSUME NEW s \in Shipments, NEW cmd \in Commands, RowStep(s, cmd)
      PROVE  UNCHANGED faults
  BY <1>3 DEF RowStep, RowExecutes, RowApplies, RowFails, Replay
<1>4. CASE (\E s \in Shipments : GatewayPays(s)) \/ UNCHANGED vars
  BY <1>4 DEF GatewayPays, vars
<1> QED
  BY <1>1, <1>2, <1>3, <1>4 DEF Next

\* When nothing is under way every shipment on a trip counts.
LEMMA BalancedWhenQuiet ==
  ASSUME Typed, CapacityInv
  PROVE  CapacityBalanced
<1> SUFFICES ASSUME Quiet, NEW t \in Trips
             PROVE  available[t] =
                      Capacity - SumFunctionOnSet([s \in Shipments |-> shipment[s].weight],
                                                  {s \in Shipments : shipment[s].trip = t})
  BY DEF CapacityBalanced
<1> DEFINE On == {s \in Shipments : shipment[s].trip = t}
<1>1. Moving = {}
  BY DEF Quiet, At, Moving, MovingSteps
<1>2. Counted(t) = On
  BY <1>1 DEF Counted
<1>3. IsSum(Weight, On, Capacity - available[t])
  BY <1>2 DEF CapacityInv, Balance
<1>4. Capacity - available[t] \in Int /\ available[t] \in Int
  BY NumbersAssumption DEF Typed
<1>5. \A s \in On : Weight[s] \in Int
  BY DEF Weight, Typed, ShipmentRows
<1>6. SumFunctionOnSet(Weight, On) = Capacity - available[t]
  BY <1>3, <1>4, <1>5, SumIsFold
<1> QED
  BY <1>4, <1>6, NumbersAssumption DEF Weight

\* Between requests the weight missing from a trip is the weight of the
\* shipments on it, whatever the cron jobs, the outbox and the finance service
\* do meanwhile and however many requests overlap: as long as no two of them
\* assign, withdraw or update the same shipment, no weight is updated of a
\* shipment that was matched, and no handler has died between two of its writes.
THEOREM CapacityStaysBalanced ==
  Spec /\ []NoOverlap /\ []FreelyReweighed => [](faults = 0 => CapacityBalanced)
<1> DEFINE Inv == faults = 0 => CapacityInv
<1>1. Init => Inv
  <2> SUFFICES ASSUME Init
               PROVE  CapacityInv
    OBVIOUS
  <2>1. \A p \in Procs : proc[p].pc = "idle"
    BY DEF Init, Idle
  <2>2. \A s \in Shipments : shipment[s].trip = NoTrip
    BY DEF Init
  <2>3. \A t \in Trips : Counted(t) = {} /\ Capacity - available[t] = 0
    BY <2>2, NamesAssumption, NumbersAssumption DEF Init, Counted
  <2> QED
    BY <2>1, <2>2, <2>3, SumOfNothing DEF CapacityInv, LoadSound, PendingFree, Balance
<1>2. Typed /\ NoOverlap /\ NoOverlap' /\ FreelyReweighed /\ Inv /\ [Next]_vars => Inv'
  <2> SUFFICES ASSUME Typed, NoOverlap, NoOverlap', FreelyReweighed, Inv, [Next]_vars, faults' = 0
               PROVE  CapacityInv'
    OBVIOUS
  <2>1. \A p \in Procs : ~HandlerFails(p)
    BY DEF HandlerFails, Typed
  <2>2. faults = 0
    BY <2>1, OnlyDeathsCount
  <2> QED
    BY <2>1, <2>2, CapacityNext
<1>3. Typed /\ Inv => (faults = 0 => CapacityBalanced)
  BY BalancedWhenQuiet
<1> QED
  BY TypedInvariant, <1>1, <1>2, <1>3, PTL DEF Spec

-----------------------------------------------------------------------------
(* One request at a time overlaps with none: only requests move loads.     *)

OnlyRequests == \A p \in Procs : proc[p].pc \in LoadSteps => p \in Requests

\* No cron job assigns or withdraws a shipment.
LEMMA OnlyRequestsMove == Spec => []OnlyRequests
<1>1. Init => OnlyRequests
  BY DEF Init, OnlyRequests, Idle, LoadSteps, MovingSteps
<1>2. Typed /\ OnlyRequests /\ [Next]_vars => OnlyRequests'
  <2> SUFFICES ASSUME Typed, OnlyRequests, [Next]_vars
               PROVE  OnlyRequests'
    OBVIOUS
  <2>1. ASSUME NEW p \in Procs, Alone(p), p \in Requests \/ proc'[p].pc \notin LoadSteps
        PROVE  OnlyRequests'
    BY <2>1 DEF OnlyRequests, Alone
  <2>2. ASSUME NEW p \in Procs, NEW s \in Shipments, RequestStep(p, s) \/ JobStep(p, s)
        PROVE  OnlyRequests'
    <3>1. ASSUME NEW t \in Trips, BeginAssign(p, s, t)
          PROVE  Alone(p) /\ p \in Requests
      BY <3>1, ReplacedAlone DEF BeginAssign, Serves
    <3>2. ASSUME NEW op \in {"reject", "cancel"}, BeginWithdraw(p, s, op)
          PROVE  Alone(p) /\ p \in Requests
      BY <3>2, ReplacedAlone DEF BeginWithdraw, Serves
    <3>3. ASSUME NEW w \in Weights, BeginReweigh(p, s, w)
          PROVE  Alone(p) /\ p \in Requests
      BY <3>3, ReplacedAlone DEF BeginReweigh, Serves
    <3> QED
      BY <2>1, <2>2, <3>1, <3>2, <3>3, BeginApart DEF RequestStep, JobStep, Apart
  <2>3. ASSUME NEW p \in Procs, HandlerStep(p) \/ HandlerFails(p)
        PROVE  OnlyRequests'
    <3> USE DEF At
    <3>1. CASE Detach(p) \/ Reweigh(p) \/ HandlerFails(p)
      BY <2>1, <3>1, EndsAlone DEF Detach, Reweigh, HandlerFails, LoadSteps, MovingSteps
    <3>2. CASE AssignToTrip(p) \/ ReserveWeight(p) \/ ReturnWeight(p)
      BY <2>1, <3>2, MovesAlone
      DEF AssignToTrip, ReserveWeight, ReturnWeight, OnlyRequests, LoadSteps, MovingSteps
    <3>3. CASE DeactivateChat(p)
      BY <2>1, <3>3, ReplacedAlone DEF DeactivateChat, OnlyRequests, LoadSteps, MovingSteps
    <3> QED
      BY <2>1, <2>3, <3>1, <3>2, <3>3, HandlerApart DEF HandlerStep, Apart
  <2>4. CASE UNCHANGED proc
    BY <2>4 DEF OnlyRequests
  <2> QED
    BY <2>2, <2>3, <2>4, RowStill DEF Next, GatewayPays, vars
<1> QED
  BY TypedInvariant, <1>1, <1>2, PTL DEF Spec

\* In particular the balance holds when requests come one at a time.
THEOREM OneByOneStaysBalanced ==
  ASSUME \A p, q \in Requests : p = q
  PROVE  Spec /\ []FreelyReweighed => [](faults = 0 => CapacityBalanced)
<1>1. OnlyRequests => NoOverlap
  BY DEF OnlyRequests, NoOverlap
<1> QED
  BY CapacityStaysBalanced, OnlyRequestsMove, <1>1, PTL

-----------------------------------------------------------------------------
(* Overbooking.  assign checks the capacity, writes the shipment and then  *)
(* takes the weight: what it checked is still there as long as no other    *)
(* offer takes from the same trip in between.                              *)

OfferSteps == {"matching", "reserving"}

\* Two offers under way are made to two trips.
OffersApart ==
  \A p, q \in Procs :
    p # q /\ proc[p].pc \in OfferSteps /\ proc[q].pc \in OfferSteps => proc[p].t # proc[q].t

RoomLeft(h) == h.pc \in OfferSteps => h.w <= available[h.t]
RoomInv == NeverOverbooked /\ \A p \in Procs : RoomLeft(proc[p])

\* A step that takes no weight and starts no offer leaves the room as it was.
LEMMA RoomStays ==
  ASSUME Typed, RoomInv, NEW p \in Procs, Alone(p),
         \A t \in Trips : available[t] <= available'[t], available' \in [Trips -> Int],
         proc'[p].pc \notin OfferSteps
  PROVE  RoomInv'
<1>1. NeverOverbooked'
  BY DEF RoomInv, NeverOverbooked, Typed
<1>2. ASSUME NEW q \in Procs, q # p
      PROVE  RoomLeft(proc[q])'
  <2>1. /\ proc'[q] = proc[q] /\ RoomLeft(proc[q]) /\ proc[q] \in Handlers
        /\ proc[q].pc \in OfferSteps => proc[q].t \in Trips
    BY <1>2, HandlerFacts DEF Alone, RoomInv, OfferSteps, Typed, HandlersGood
  <2> QED
    BY <2>1 DEF RoomLeft, Handlers, Typed
<1>3. RoomLeft(proc[p])'
  BY DEF RoomLeft
<1> QED
  BY <1>1, <1>2, <1>3 DEF RoomInv

\* The offer reads a capacity that suffices.
LEMMA OfferBegins ==
  ASSUME Typed, RoomInv, NEW p \in Procs, NEW s \in Shipments, NEW t \in Trips,
         BeginAssign(p, s, t)
  PROVE  RoomInv'
<1> DEFINE h == [Idle EXCEPT !.pc = "matching", !.s = s, !.t = t, !.w = shipment[s].weight]
<1>1. Alone(p) /\ proc'[p] = h /\ UNCHANGED available
  BY ReplacedAlone DEF BeginAssign
<1>2. proc'[p].t = t /\ proc'[p].w = shipment[s].weight
  BY <1>1 DEF Idle
<1>3. RoomLeft(proc[p])'
  BY <1>1, <1>2 DEF BeginAssign, RoomLeft
<1>4. \A q \in Procs : q # p => RoomLeft(proc[q])'
  BY <1>1 DEF Alone, RoomInv, RoomLeft
<1> QED
  BY <1>1, <1>3, <1>4 DEF RoomInv, NeverOverbooked

\* Writing the shipment changes neither the room nor what the offer takes.
LEMMA OfferWrites ==
  ASSUME Typed, RoomInv, NEW p \in Procs, AssignToTrip(p)
  PROVE  RoomInv'
<1>1. Alone(p) /\ proc'[p] = [proc[p] EXCEPT !.pc = "reserving"] /\ UNCHANGED available
  BY ReplacedAlone DEF AssignToTrip, Moves
<1>2. proc'[p].t = proc[p].t /\ proc'[p].w = proc[p].w /\ proc[p].pc = "matching"
  BY <1>1 DEF AssignToTrip, At, Typed, HandlersGood, Handlers
<1>3. RoomLeft(proc[p])'
  BY <1>1, <1>2 DEF RoomLeft, RoomInv, OfferSteps
<1>4. \A q \in Procs : q # p => RoomLeft(proc[q])'
  BY <1>1 DEF Alone, RoomInv, RoomLeft
<1> QED
  BY <1>1, <1>3, <1>4 DEF RoomInv, NeverOverbooked

\* The weight that is taken was left, and nobody else counts on that trip.
LEMMA OfferTakes ==
  ASSUME Typed, RoomInv, OffersApart, NEW p \in Procs, ReserveWeight(p)
  PROVE  RoomInv'
<1> USE DEF At
<1>1. /\ proc[p].t \in Trips /\ proc[p].w \in Nat /\ proc[p].pc = "reserving"
      /\ Alone(p) /\ proc'[p].pc = "opening"
  BY HandlerFacts, MovesAlone DEF ReserveWeight, Handlers
<1>2. \A t \in Trips :
        /\ available[t] \in Int
        /\ available'[t] = IF t = proc[p].t THEN available[t] - proc[p].w ELSE available[t]
  BY <1>1 DEF ReserveWeight, Typed
<1>3. proc[p].w <= available[proc[p].t]
  BY <1>1 DEF RoomInv, RoomLeft, OfferSteps
<1>4. NeverOverbooked'
  BY <1>1, <1>2, <1>3 DEF RoomInv, NeverOverbooked
<1>5. ASSUME NEW q \in Procs, q # p
      PROVE  RoomLeft(proc[q])'
  <2>1. /\ proc'[q] = proc[q] /\ RoomLeft(proc[q])
        /\ proc[q].pc \in OfferSteps => proc[q].t \in Trips /\ proc[q].t # proc[p].t
    BY <1>1, <1>5, HandlerFacts DEF Alone, RoomInv, OfferSteps, OffersApart
  <2> QED
    BY <1>2, <2>1 DEF RoomLeft
<1>6. RoomLeft(proc[p])'
  BY <1>1 DEF RoomLeft, OfferSteps
<1> QED
  BY <1>4, <1>5, <1>6 DEF RoomInv

\* No trip is overbooked as long as two offers under way are made to two
\* trips, whatever else overlaps, fails or is repeated: it takes two offers to
\* one trip to give away more than there is.
THEOREM ApartNeverOverbooked == Spec /\ []OffersApart => []NeverOverbooked
<1>1. Init => RoomInv
  BY NumbersAssumption DEF Init, RoomInv, NeverOverbooked, RoomLeft, OfferSteps, Idle
<1>2. Typed /\ OffersApart /\ RoomInv /\ [Next]_vars => RoomInv'
  <2> SUFFICES ASSUME Typed, OffersApart, RoomInv, [Next]_vars
               PROVE  RoomInv'
    OBVIOUS
  <2>0. /\ available \in [Trips -> Int]
        /\ UNCHANGED available => \A t \in Trips : available[t] <= available'[t]
    BY DEF Typed
  <2>1. ASSUME NEW p \in Procs, Alone(p), proc'[p].pc \notin OfferSteps, UNCHANGED available
        PROVE  RoomInv'
    BY <2>0, <2>1, RoomStays
  <2>2. ASSUME NEW p \in Procs, NEW s \in Shipments, RequestStep(p, s) \/ JobStep(p, s)
        PROVE  RoomInv'
    <3>1. ASSUME NEW op \in {"reject", "cancel"}, BeginWithdraw(p, s, op)
          PROVE  RoomInv'
      <4> DEFINE held == shipment[s].status \in HoldsCapacity /\ shipment[s].trip # NoTrip
                 h == [Idle EXCEPT !.pc = IF held THEN "returning" ELSE "closing",
                                   !.s = s, !.t = shipment[s].trip, !.w = shipment[s].weight,
                                   !.target = WithdrawnStatus(op)]
      <4>1. Alone(p) /\ proc'[p] = h /\ UNCHANGED available
        BY <3>1, ReplacedAlone DEF BeginWithdraw
      <4>2. h.pc \notin OfferSteps
        BY DEF Idle, OfferSteps
      <4> QED
        BY <2>1, <4>1, <4>2
    <3>2. ASSUME NEW w \in Weights, BeginReweigh(p, s, w)
          PROVE  RoomInv'
      <4> DEFINE h == [Idle EXCEPT !.pc = "reweighing", !.s = s, !.w = w]
      <4>1. Alone(p) /\ proc'[p] = h /\ UNCHANGED available
        BY <3>2, ReplacedAlone DEF BeginReweigh
      <4>2. h.pc \notin OfferSteps
        BY DEF Idle, OfferSteps
      <4> QED
        BY <2>1, <4>1, <4>2
    <3>3. Apart(p) => RoomInv'
      BY <2>1 DEF Apart, LoadSteps, MovingSteps, OfferSteps
    <3> QED
      BY <2>2, <3>1, <3>2, <3>3, BeginApart, OfferBegins DEF RequestStep, JobStep
  <2>3. ASSUME NEW p \in Procs, HandlerStep(p) \/ HandlerFails(p)
        PROVE  RoomInv'
    <3>1. CASE Detach(p) \/ Reweigh(p) \/ HandlerFails(p)
      BY <2>1, <3>1, EndsAlone DEF Detach, Reweigh, HandlerFails, OfferSteps
    <3>2. CASE DeactivateChat(p)
      <4> DEFINE h == [Idle EXCEPT !.pc = "detaching", !.s = proc[p].s, !.target = proc[p].target]
      <4>1. Alone(p) /\ proc'[p] = h /\ UNCHANGED available
        BY <3>2, ReplacedAlone DEF DeactivateChat
      <4>2. h.pc \notin OfferSteps
        BY DEF Idle, OfferSteps
      <4> QED
        BY <2>1, <4>1, <4>2
    <3>3. CASE ReturnWeight(p)
      <4>1. Alone(p) /\ proc'[p].pc = "closing" /\ proc[p].t \in Trips /\ proc[p].w \in Nat
        BY <3>3, MovesAlone, HandlerFacts DEF ReturnWeight, At, Handlers
      <4>2. /\ available' \in [Trips -> Int]
            /\ \A t \in Trips : available[t] <= available'[t]
        BY <2>0, <3>3, <4>1 DEF ReturnWeight
      <4> QED
        BY <4>1, <4>2, RoomStays DEF OfferSteps
    <3>4. Apart(p) => RoomInv'
      BY <2>1 DEF Apart, LoadSteps, MovingSteps, OfferSteps
    <3> QED
      BY <2>3, <3>1, <3>2, <3>3, <3>4, HandlerApart, OfferWrites, OfferTakes DEF HandlerStep
  <2>4. CASE UNCHANGED <<proc, available>>
    BY <2>4 DEF RoomInv, RoomLeft, NeverOverbooked
  <2> QED
    BY <2>2, <2>3, <2>4, RowStill DEF Next, GatewayPays, vars
<1>3. RoomInv => NeverOverbooked
  BY DEF RoomInv
<1> QED
  BY TypedInvariant, <1>1, <1>2, <1>3, PTL DEF Spec
=============================================================================
