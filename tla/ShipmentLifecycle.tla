-------------------------- MODULE ShipmentLifecycle --------------------------
(***************************************************************************)
(* The life of a shipment: the marketplace handlers that match it with a   *)
(* trip, the payment, dispute and cron handlers that move its escrow, and  *)
(* the outbox rows that finish a finance command later.                    *)
(*                                                                         *)
(* Every handler reads the shipment, checks what it read, and then writes  *)
(* by id whatever the row has become: an action is one step between two    *)
(* awaits, and a process keeps between its steps what the handler read.    *)
(* The outbox is taken at the level of CommandDelivery, which              *)
(* IntegrationOutbox implements: a row is queued, executed, bridged and    *)
(* done, or failed, and an administrator may replay it.                    *)
(*                                                                         *)
(* The trip of a shipment stands for its tripId and carrierId, which the   *)
(* code writes and clears together.  Prices, tracking history, and the     *)
(* fields that no handler reads (financeEscrowId, paymentMethod, the other *)
(* timestamps) are left out, and so are notifications.                     *)
(***************************************************************************)
EXTENDS Integers, FiniteSets, Functions

CONSTANTS
  Shipments, Trips,
  Requests,       \* request handlers that can run at the same time
  Pollers,        \* runs of EscrowJobsService.pollFundedEscrows
  Releasers,      \* runs of EscrowJobsService.autoReleaseEscrow
  NoShipment, NoTrip,
  Ops,            \* the kinds of requests that users and administrators send
  Weights,        \* weights of a shipment
  Capacity,       \* availableWeight of every trip at first
  MaxAvailable,   \* bound: no hand-back is started above this availableWeight
  MaxUnanswered,  \* bound: finance calls of requests that get no answer
  MaxFaults       \* bound: handlers that die between two awaits

Statuses ==
  {"PENDING", "MATCHED", "ACCEPTED", "PAID", "PICKED_UP", "IN_TRANSIT", "DELIVERED",
   "CONFIRMED", "DISPUTED", "PARTIALLY_REFUNDED", "CANCELLED", "REFUNDED"}
Commands ==
  {"CreateEscrow", "CreatePaymentOrder", "PayFromWallet", "MarkDelivered",
   "FreezeEscrow", "ReleaseEscrow", "RefundEscrow", "PartialRefundEscrow"}
Settling == {"ReleaseEscrow", "RefundEscrow", "PartialRefundEscrow"}
Operations ==
  {"assign", "accept", "reject", "cancel", "reweigh", "wallet", "order", "advance",
   "dispute", "RELEASE", "REFUND", "PARTIAL_REFUND", "SPLIT"}
Procs == Requests \union Pollers \union Releasers

ASSUME OpsAssumption == Ops \subseteq Operations
ASSUME NamesAssumption == NoShipment \notin Shipments /\ NoTrip \notin Trips
ASSUME NumbersAssumption ==
  /\ Weights \subseteq Nat \ {0}
  /\ Capacity \in Nat
  /\ MaxAvailable \in Nat
  /\ MaxUnanswered \in Nat
  /\ MaxFaults \in Nat

VARIABLES
  shipment,    \* rows of the table shipments
  chat,        \* whether the shipment has a chat row, and an active one
  available,   \* availableWeight of every trip
  proc,        \* what every running handler does next, and what it has read
  row,         \* integration_outbox rows, one for each shipment and command
  effect,      \* commands the finance service has executed
  gateway,     \* shipments whose payment order was paid at the gateway
  unanswered,
  faults

vars == <<shipment, chat, available, proc, row, effect, gateway, unanswered, faults>>

\* order: paymentOrderId is set; delivered: deliveredAt is set;
\* disputed: disputeReason is set; resolved: disputeResolvedAt is set.
ShipmentRows ==
  [status : Statuses, trip : Trips \union {NoTrip}, weight : Nat,
   order : BOOLEAN, delivered : BOOLEAN, disputed : BOOLEAN, resolved : BOOLEAN]

Steps ==
  {"idle", "matching", "reserving", "opening", "accepting", "returning", "closing",
   "detaching", "reweighing", "advancing", "disputing", "calling", "answered",
   "storing", "polling", "rechecking", "paying"}
Targets == Statuses \union {"none"}
Handlers ==
  [pc : Steps, s : Shipments \union {NoShipment}, t : Trips \union {NoTrip}, w : Nat,
   cmd : Commands \union {"none"}, target : Targets]
Idle ==
  [pc |-> "idle", s |-> NoShipment, t |-> NoTrip, w |-> 0, cmd |-> "none", target |-> "none"]

OutboxStates == {"none", "queued", "executed", "done", "failed"}
OutboxRows == [state : OutboxStates, target : Targets]

TypeOK ==
  /\ shipment \in [Shipments -> ShipmentRows]
  /\ chat \in [Shipments -> {"none", "active", "inactive"}]
  /\ available \in [Trips -> Int]
  /\ proc \in [Procs -> Handlers]
  /\ \A p \in Procs : proc[p].pc # "idle" => proc[p].s \in Shipments
  /\ \A p \in Procs : proc[p].pc \in {"reserving", "returning"} => proc[p].t \in Trips
  /\ \A p \in Procs : proc[p].pc \in {"calling", "answered", "storing"} => proc[p].cmd \in Commands
  /\ \A p \in Procs : proc[p].pc \in {"advancing", "detaching"} => proc[p].target \in Statuses
  /\ row \in [Shipments \X Commands -> OutboxRows]
  /\ effect \subseteq Shipments \X Commands
  /\ gateway \subseteq Shipments
  /\ unanswered \in Nat
  /\ faults \in Nat

Init ==
  /\ \E weight \in [Shipments -> Weights] :
       shipment = [s \in Shipments |->
         [status |-> "PENDING", trip |-> NoTrip, weight |-> weight[s],
          order |-> FALSE, delivered |-> FALSE, disputed |-> FALSE, resolved |-> FALSE]]
  /\ chat = [s \in Shipments |-> "none"]
  /\ available = [t \in Trips |-> Capacity]
  /\ proc = [p \in Procs |-> Idle]
  /\ row = [k \in Shipments \X Commands |-> [state |-> "none", target |-> "none"]]
  /\ effect = {}
  /\ gateway = {}
  /\ unanswered = 0
  /\ faults = 0

At(p, pc) == proc[p].pc = pc
Moves(p, pc) == proc' = [proc EXCEPT ![p].pc = pc]
Ends(p) == proc' = [proc EXCEPT ![p] = Idle]
Begins(p, s, pc) == proc' = [proc EXCEPT ![p] = [Idle EXCEPT !.pc = pc, !.s = s]]
BeginsToward(p, s, pc, target) ==
  proc' = [proc EXCEPT ![p] = [Idle EXCEPT !.pc = pc, !.s = s, !.target = target]]
BeginsCall(p, s, cmd, target) ==
  proc' = [proc EXCEPT ![p] =
    [Idle EXCEPT !.pc = "calling", !.s = s, !.cmd = cmd, !.target = target]]
Serves(p, op) == p \in Requests /\ op \in Ops /\ At(p, "idle")
SetStatus(s, status) == shipment' = [shipment EXCEPT ![s].status = status]

-----------------------------------------------------------------------------
(* Matching: assign, accept, reject, cancel, update.                       *)

BeginAssign(p, s, t) ==
  /\ Serves(p, "assign")
  /\ shipment[s].status = "PENDING"
  /\ shipment[s].weight <= available[t]
  /\ proc' = [proc EXCEPT ![p] =
       [Idle EXCEPT !.pc = "matching", !.s = s, !.t = t, !.w = shipment[s].weight]]
  /\ UNCHANGED <<shipment, chat, available, row, effect, gateway, unanswered, faults>>

AssignToTrip(p) ==
  /\ At(p, "matching")
  /\ shipment' = [shipment EXCEPT ![proc[p].s].status = "MATCHED",
                                  ![proc[p].s].trip = proc[p].t]
  /\ Moves(p, "reserving")
  /\ UNCHANGED <<chat, available, row, effect, gateway, unanswered, faults>>

ReserveWeight(p) ==
  /\ At(p, "reserving")
  /\ available' = [available EXCEPT ![proc[p].t] = @ - proc[p].w]
  /\ Moves(p, "opening")
  /\ UNCHANGED <<shipment, chat, row, effect, gateway, unanswered, faults>>

\* Chat.shipmentId is unique: the create of a second chat throws.
CreateChat(p) ==
  /\ At(p, "opening")
  /\ chat' = [chat EXCEPT ![proc[p].s] = IF @ = "none" THEN "active" ELSE @]
  /\ Ends(p)
  /\ UNCHANGED <<shipment, available, row, effect, gateway, unanswered, faults>>

BeginAccept(p, s) ==
  /\ Serves(p, "accept")
  /\ shipment[s].status = "MATCHED"
  /\ Begins(p, s, "accepting")
  /\ UNCHANGED <<shipment, chat, available, row, effect, gateway, unanswered, faults>>

\* The escrow is only created for a row that still has a carrier.
AcceptOffer(p) ==
  /\ At(p, "accepting")
  /\ SetStatus(proc[p].s, "ACCEPTED")
  /\ IF shipment[proc[p].s].trip # NoTrip
       THEN BeginsCall(p, proc[p].s, "CreateEscrow", "none")
       ELSE Ends(p)
  /\ UNCHANGED <<chat, available, row, effect, gateway, unanswered, faults>>

\* reject leads back to PENDING, cancel to CANCELLED.
Withdrawable(op) ==
  IF op = "reject" THEN {"MATCHED"} ELSE {"PENDING", "MATCHED", "ACCEPTED"}
WithdrawnStatus(op) == IF op = "reject" THEN "PENDING" ELSE "CANCELLED"
\* Mutant: an accepted shipment keeps its share of the trip when cancelled.
HoldsCapacityMatched == {"MATCHED"}
HoldsCapacity == {"MATCHED", "ACCEPTED"}

BeginWithdraw(p, s, op) ==
  /\ Serves(p, op)
  /\ op \in {"reject", "cancel"}
  /\ shipment[s].status \in Withdrawable(op)
  /\ \A t \in Trips : available[t] <= MaxAvailable
  /\ proc' = [proc EXCEPT ![p] =
       [Idle EXCEPT !.pc = IF shipment[s].status \in HoldsCapacity /\ shipment[s].trip # NoTrip
                             THEN "returning" ELSE "closing",
                    !.s = s, !.t = shipment[s].trip, !.w = shipment[s].weight,
                    !.target = WithdrawnStatus(op)]]
  /\ UNCHANGED <<shipment, chat, available, row, effect, gateway, unanswered, faults>>

ReturnWeight(p) ==
  /\ At(p, "returning")
  /\ available' = [available EXCEPT ![proc[p].t] = @ + proc[p].w]
  /\ Moves(p, "closing")
  /\ UNCHANGED <<shipment, chat, row, effect, gateway, unanswered, faults>>

\* Mutant: the status to write is lost on the way.
DeactivateChatForgetful(p) ==
  /\ At(p, "closing")
  /\ chat' = [chat EXCEPT ![proc[p].s] = IF @ = "active" THEN "inactive" ELSE @]
  /\ Begins(p, proc[p].s, "detaching")
  /\ UNCHANGED <<shipment, available, row, effect, gateway, unanswered, faults>>

DeactivateChat(p) ==
  /\ At(p, "closing")
  /\ chat' = [chat EXCEPT ![proc[p].s] = IF @ = "active" THEN "inactive" ELSE @]
  /\ proc' = [proc EXCEPT ![p] =
       [Idle EXCEPT !.pc = "detaching", !.s = proc[p].s, !.target = proc[p].target]]
  /\ UNCHANGED <<shipment, available, row, effect, gateway, unanswered, faults>>

Detach(p) ==
  /\ At(p, "detaching")
  /\ shipment' = [shipment EXCEPT ![proc[p].s].status = proc[p].target,
                                  ![proc[p].s].trip = NoTrip]
  /\ Ends(p)
  /\ UNCHANGED <<chat, available, row, effect, gateway, unanswered, faults>>

BeginReweigh(p, s, w) ==
  /\ Serves(p, "reweigh")
  /\ shipment[s].status \in {"PENDING", "MATCHED"}
  /\ proc' = [proc EXCEPT ![p] = [Idle EXCEPT !.pc = "reweighing", !.s = s, !.w = w]]
  /\ UNCHANGED <<shipment, chat, available, row, effect, gateway, unanswered, faults>>

Reweigh(p) ==
  /\ At(p, "reweighing")
  /\ shipment' = [shipment EXCEPT ![proc[p].s].weight = proc[p].w]
  /\ Ends(p)
  /\ UNCHANGED <<chat, available, row, effect, gateway, unanswered, faults>>

-----------------------------------------------------------------------------
(* Payment, transport, dispute and its resolution.                         *)

PaymentCommand(op) == IF op = "wallet" THEN "PayFromWallet" ELSE "CreatePaymentOrder"

BeginPayment(p, s, op) ==
  /\ Serves(p, op)
  /\ op \in {"wallet", "order"}
  /\ shipment[s].status = "ACCEPTED"
  /\ shipment[s].trip # NoTrip
  /\ BeginsCall(p, s, PaymentCommand(op), "none")
  /\ UNCHANGED <<shipment, chat, available, row, effect, gateway, unanswered, faults>>

ExpectedFrom ==
  [target \in {"PICKED_UP", "IN_TRANSIT", "DELIVERED", "CONFIRMED"} |->
    CASE target = "PICKED_UP"  -> "PAID"
      [] target = "IN_TRANSIT" -> "PICKED_UP"
      [] target = "DELIVERED"  -> "IN_TRANSIT"
      [] target = "CONFIRMED"  -> "DELIVERED"]

\* The sender confirms; the other steps are the carrier's.
BeginAdvance(p, s, target) ==
  /\ Serves(p, "advance")
  /\ shipment[s].status = ExpectedFrom[target]
  /\ target # "CONFIRMED" => shipment[s].trip # NoTrip
  /\ BeginsToward(p, s, "advancing", target)
  /\ UNCHANGED <<shipment, chat, available, row, effect, gateway, unanswered, faults>>

\* Also the write of autoReleaseEscrow, whose target is CONFIRMED.
Advance(p) ==
  /\ At(p, "advancing")
  /\ shipment' = [shipment EXCEPT ![proc[p].s].status = proc[p].target,
                                  ![proc[p].s].delivered = @ \/ proc[p].target = "DELIVERED"]
  /\ CASE proc[p].target = "DELIVERED" -> BeginsCall(p, proc[p].s, "MarkDelivered", "none")
       [] proc[p].target = "CONFIRMED" -> BeginsCall(p, proc[p].s, "ReleaseEscrow", "none")
       [] OTHER                        -> Ends(p)
  /\ UNCHANGED <<chat, available, row, effect, gateway, unanswered, faults>>

Disputable == {"PAID", "PICKED_UP", "IN_TRANSIT", "DELIVERED"}

BeginDispute(p, s) ==
  /\ Serves(p, "dispute")
  /\ shipment[s].status \in Disputable
  /\ Begins(p, s, "disputing")
  /\ UNCHANGED <<shipment, chat, available, row, effect, gateway, unanswered, faults>>

OpenDispute(p) ==
  /\ At(p, "disputing")
  /\ shipment' = [shipment EXCEPT ![proc[p].s].status = "DISPUTED",
                                  ![proc[p].s].disputed = TRUE]
  /\ BeginsCall(p, proc[p].s, "FreezeEscrow", "none")
  /\ UNCHANGED <<chat, available, row, effect, gateway, unanswered, faults>>

Resolutions == {"RELEASE", "REFUND", "PARTIAL_REFUND", "SPLIT"}
ResolvableFrom(op) ==
  IF op = "RELEASE" THEN {"DISPUTED", "PARTIALLY_REFUNDED"} ELSE {"DISPUTED"}
FirstCommand(op) ==
  CASE op = "RELEASE" -> "ReleaseEscrow"
    [] op = "REFUND"  -> "RefundEscrow"
    [] OTHER          -> "PartialRefundEscrow"
\* disputeTargetStatus of the payload of the first command.
ResolvedStatus(op) ==
  CASE op = "REFUND"         -> "REFUNDED"
    [] op = "PARTIAL_REFUND" -> "PARTIALLY_REFUNDED"
    [] OTHER                 -> "CONFIRMED"

BeginResolve(p, s, op) ==
  /\ Serves(p, op)
  /\ op \in Resolutions
  /\ shipment[s].status \in ResolvableFrom(op)
  /\ BeginsCall(p, s, FirstCommand(op), ResolvedStatus(op))
  /\ UNCHANGED <<shipment, chat, available, row, effect, gateway, unanswered, faults>>

-----------------------------------------------------------------------------
(* A finance command of a handler: trySync, then what the handler does     *)
(* with the answer.                                                        *)

\* What ShipmentFinanceBridgeService.apply writes on the shipment.
Bridge(s, cmd, target) ==
  \/ /\ cmd = "CreatePaymentOrder"
     /\ shipment' = [shipment EXCEPT ![s].order = TRUE]
  \/ /\ cmd \in Settling /\ target # "none"
     /\ shipment' = [shipment EXCEPT ![s].status = target, ![s].resolved = TRUE]
  \/ /\ cmd # "CreatePaymentOrder" /\ ~(cmd \in Settling /\ target # "none")
     /\ UNCHANGED shipment

FinanceAnswers(p) ==
  /\ At(p, "calling")
  /\ effect' = effect \union {<<proc[p].s, proc[p].cmd>>}
  /\ Moves(p, "answered")
  /\ UNCHANGED <<shipment, chat, available, row, gateway, unanswered, faults>>

FinanceRejects(p) ==
  /\ At(p, "calling")
  /\ Ends(p)
  /\ UNCHANGED <<shipment, chat, available, row, effect, gateway, unanswered, faults>>

\* Mutant: a command that got no answer is not queued but taken for done.
FinanceUnansweredIgnored(p) ==
  /\ At(p, "calling")
  /\ unanswered < MaxUnanswered
  /\ unanswered' = unanswered + 1
  /\ effect' \in {effect, effect \union {<<proc[p].s, proc[p].cmd>>}}
  /\ Moves(p, "answered")
  /\ UNCHANGED <<shipment, chat, available, row, gateway, faults>>

FinanceUnanswered(p) ==
  /\ At(p, "calling")
  /\ unanswered < MaxUnanswered
  /\ unanswered' = unanswered + 1
  /\ effect' \in {effect, effect \union {<<proc[p].s, proc[p].cmd>>}}
  /\ Moves(p, "storing")
  /\ UNCHANGED <<shipment, chat, available, row, gateway, faults>>

\* The first leg of SPLIT: a partial refund on the way to CONFIRMED.
FirstLeg(p) == proc[p].cmd = "PartialRefundEscrow" /\ proc[p].target = "CONFIRMED"

\* onSuccess of trySync; a resolution is not bridged here.
StoreAnswer(p) ==
  /\ At(p, "answered")
  /\ proc[p].target = "none"
  /\ Bridge(proc[p].s, proc[p].cmd, "none")
  /\ Ends(p)
  /\ UNCHANGED <<chat, available, row, effect, gateway, unanswered, faults>>

ReleaseRest(p) ==
  /\ At(p, "answered")
  /\ FirstLeg(p)
  /\ BeginsCall(p, proc[p].s, "ReleaseEscrow", "CONFIRMED")
  /\ UNCHANGED <<shipment, chat, available, row, effect, gateway, unanswered, faults>>

\* resolveShipmentDispute.
ResolveShipmentDispute(p) ==
  /\ At(p, "answered")
  /\ proc[p].target # "none"
  /\ ~FirstLeg(p)
  /\ shipment' = [shipment EXCEPT ![proc[p].s].status = proc[p].target,
                                  ![proc[p].s].resolved = TRUE]
  /\ Ends(p)
  /\ UNCHANGED <<chat, available, row, effect, gateway, unanswered, faults>>

\* Every payment order has a key of its own; the other keys name the shipment
\* and the command, and an outbox row with the same key makes the insert throw.
\* The key of a partial refund names its amount too. Amounts are not in this
\* model, so the partial refunds of a shipment share one row here: a second
\* one of another amount, while the first is queued, is left out.
Enqueue(p) ==
  /\ At(p, "storing")
  /\ IF proc[p].cmd = "CreatePaymentOrder" \/ row[<<proc[p].s, proc[p].cmd>>].state = "none"
       THEN row' = [row EXCEPT ![<<proc[p].s, proc[p].cmd>>] =
                     [state |-> "queued", target |-> proc[p].target]]
       ELSE UNCHANGED row
  /\ Ends(p)
  /\ UNCHANGED <<shipment, chat, available, effect, gateway, unanswered, faults>>

\* The process dies, or the database fails the next call of the handler.
HandlerFails(p) ==
  /\ proc[p].pc # "idle"
  /\ faults < MaxFaults
  /\ faults' = faults + 1
  /\ Ends(p)
  /\ UNCHANGED <<shipment, chat, available, row, effect, gateway, unanswered>>

-----------------------------------------------------------------------------
(* The outbox worker, at the level of CommandDelivery.                     *)

SetRow(s, cmd, state) == row' = [row EXCEPT ![<<s, cmd>>].state = state]

RowExecutes(s, cmd) ==
  /\ row[<<s, cmd>>].state = "queued"
  /\ effect' = effect \union {<<s, cmd>>}
  /\ SetRow(s, cmd, "executed")
  /\ UNCHANGED <<shipment, chat, available, proc, gateway, unanswered, faults>>

\* Mutant: the row is bridged and closed before the call.
RowAppliesEarly(s, cmd) ==
  /\ row[<<s, cmd>>].state \in {"queued", "executed"}
  /\ Bridge(s, cmd, row[<<s, cmd>>].target)
  /\ SetRow(s, cmd, "done")
  /\ UNCHANGED <<chat, available, proc, effect, gateway, unanswered, faults>>

RowApplies(s, cmd) ==
  /\ row[<<s, cmd>>].state = "executed"
  /\ Bridge(s, cmd, row[<<s, cmd>>].target)
  /\ SetRow(s, cmd, "done")
  /\ UNCHANGED <<chat, available, proc, effect, gateway, unanswered, faults>>

\* An attempt fails: before finance executed it, after that, or after the
\* bridge; the row waits for another attempt or is given up.
RowFails(s, cmd) ==
  /\ \/ row[<<s, cmd>>].state = "queued" /\ UNCHANGED shipment
     \/ row[<<s, cmd>>].state = "executed" /\ UNCHANGED shipment
     \/ row[<<s, cmd>>].state = "executed" /\ Bridge(s, cmd, row[<<s, cmd>>].target)
  /\ \/ SetRow(s, cmd, "queued")
     \/ SetRow(s, cmd, "failed")
  /\ UNCHANGED <<chat, available, proc, effect, gateway, unanswered, faults>>

Replay(s, cmd) ==
  /\ row[<<s, cmd>>].state # "none"
  /\ SetRow(s, cmd, "queued")
  /\ UNCHANGED <<shipment, chat, available, proc, effect, gateway, unanswered, faults>>

-----------------------------------------------------------------------------
(* The finance service and the cron jobs.                                  *)

\* The sender pays an order at the gateway, which calls the finance service.
GatewayPays(s) ==
  /\ <<s, "CreatePaymentOrder">> \in effect
  /\ gateway' = gateway \union {s}
  /\ UNCHANGED <<shipment, chat, available, proc, row, effect, unanswered, faults>>

Funded(s) == s \in gateway \/ <<s, "PayFromWallet">> \in effect

\* getEscrow answers FUNDED or HELD: no later command has changed its status.
HeldByFinance(s) ==
  Funded(s) /\ \A cmd \in Settling \union {"MarkDelivered", "FreezeEscrow"} : <<s, cmd>> \notin effect

BeginPoll(p, s) ==
  /\ p \in Pollers
  /\ At(p, "idle")
  /\ shipment[s].status = "ACCEPTED"
  /\ shipment[s].order
  /\ Begins(p, s, "polling")
  /\ UNCHANGED <<shipment, chat, available, row, effect, gateway, unanswered, faults>>

\* Mutant: the status of the escrow is not looked at.
GetEscrowUnchecked(p) ==
  /\ At(p, "polling")
  /\ Moves(p, "rechecking")
  /\ UNCHANGED <<shipment, chat, available, row, effect, gateway, unanswered, faults>>

GetEscrow(p) ==
  /\ At(p, "polling")
  /\ IF HeldByFinance(proc[p].s) THEN Moves(p, "rechecking") ELSE Ends(p)
  /\ UNCHANGED <<shipment, chat, available, row, effect, gateway, unanswered, faults>>

\* Mutant: the second read expects another status than the first.
RecheckPaid(p) ==
  /\ At(p, "rechecking")
  /\ IF shipment[proc[p].s].status = "PAID" THEN Moves(p, "paying") ELSE Ends(p)
  /\ UNCHANGED <<shipment, chat, available, row, effect, gateway, unanswered, faults>>

\* markShipmentPaid reads the shipment again, and then writes.
RecheckAccepted(p) ==
  /\ At(p, "rechecking")
  /\ IF shipment[proc[p].s].status = "ACCEPTED" THEN Moves(p, "paying") ELSE Ends(p)
  /\ UNCHANGED <<shipment, chat, available, row, effect, gateway, unanswered, faults>>

MarkPaid(p) ==
  /\ At(p, "paying")
  /\ SetStatus(proc[p].s, "PAID")
  /\ Ends(p)
  /\ UNCHANGED <<chat, available, row, effect, gateway, unanswered, faults>>

\* Mutant: the job takes shipments that are still on their way.
BeginAutoReleaseEarly(p, s) ==
  /\ p \in Releasers
  /\ At(p, "idle")
  /\ shipment[s].status \in {"IN_TRANSIT", "DELIVERED"}
  /\ ~shipment[s].disputed
  /\ BeginsToward(p, s, "advancing", "CONFIRMED")
  /\ UNCHANGED <<shipment, chat, available, row, effect, gateway, unanswered, faults>>

\* Mutant: the filter on disputeReason is inverted.
BeginAutoReleaseDisputed(p, s) ==
  /\ p \in Releasers
  /\ At(p, "idle")
  /\ shipment[s].status = "DELIVERED"
  /\ shipment[s].disputed
  /\ BeginsToward(p, s, "advancing", "CONFIRMED")
  /\ UNCHANGED <<shipment, chat, available, row, effect, gateway, unanswered, faults>>

\* deliveredAt lies before the cutoff.
BeginAutoRelease(p, s) ==
  /\ p \in Releasers
  /\ At(p, "idle")
  /\ shipment[s].status = "DELIVERED"
  /\ ~shipment[s].disputed
  /\ BeginsToward(p, s, "advancing", "CONFIRMED")
  /\ UNCHANGED <<shipment, chat, available, row, effect, gateway, unanswered, faults>>

-----------------------------------------------------------------------------
RequestStep(p, s) ==
  \/ \E t \in Trips : BeginAssign(p, s, t)
  \/ BeginAccept(p, s)
  \/ \E op \in {"reject", "cancel"} : BeginWithdraw(p, s, op)
  \/ \E w \in Weights : BeginReweigh(p, s, w)
  \/ \E op \in {"wallet", "order"} : BeginPayment(p, s, op)
  \/ \E target \in DOMAIN ExpectedFrom : BeginAdvance(p, s, target)
  \/ BeginDispute(p, s)
  \/ \E op \in Resolutions : BeginResolve(p, s, op)

JobStep(p, s) == BeginPoll(p, s) \/ BeginAutoRelease(p, s)

\* The next step of a handler that is running.
HandlerStep(p) ==
  \/ AssignToTrip(p)
  \/ ReserveWeight(p)
  \/ CreateChat(p)
  \/ AcceptOffer(p)
  \/ ReturnWeight(p)
  \/ DeactivateChat(p)
  \/ Detach(p)
  \/ Reweigh(p)
  \/ Advance(p)
  \/ OpenDispute(p)
  \/ FinanceAnswers(p)
  \/ FinanceRejects(p)
  \/ FinanceUnanswered(p)
  \/ StoreAnswer(p)
  \/ ReleaseRest(p)
  \/ ResolveShipmentDispute(p)
  \/ Enqueue(p)
  \/ GetEscrow(p)
  \/ RecheckAccepted(p)
  \/ MarkPaid(p)

RowStep(s, cmd) ==
  \/ RowExecutes(s, cmd)
  \/ RowApplies(s, cmd)
  \/ RowFails(s, cmd)
  \/ Replay(s, cmd)

Next ==
  \/ \E p \in Procs, s \in Shipments : RequestStep(p, s) \/ JobStep(p, s)
  \/ \E p \in Procs : HandlerStep(p) \/ HandlerFails(p)
  \/ \E s \in Shipments, cmd \in Commands : RowStep(s, cmd)
  \/ \E s \in Shipments : GatewayPays(s)

\* The cron jobs run again and again, and a handler that has started goes on.
\* Users, administrators, the gateway and the outbox owe nothing.
Fairness ==
  /\ \A p \in Procs : WF_vars(HandlerStep(p))
  /\ \A s \in Shipments :
       /\ SF_vars(\E p \in Pollers : BeginPoll(p, s))
       /\ SF_vars(\E p \in Releasers : BeginAutoRelease(p, s))

Spec == Init /\ [][Next]_vars

FairSpec == Spec /\ Fairness

-----------------------------------------------------------------------------
(* Money.                                                                  *)

PaidStatuses ==
  {"PAID", "PICKED_UP", "IN_TRANSIT", "DELIVERED", "CONFIRMED", "DISPUTED",
   "PARTIALLY_REFUNDED", "REFUNDED"}

\* A shipment is handed over, confirmed, disputed or refunded only if its
\* escrow was funded: no order of stale writes, cron jobs, replayed rows and
\* requests brings an unpaid shipment past ACCEPTED.
PaidIsFunded == \A s \in Shipments : shipment[s].status \in PaidStatuses => Funded(s)

\* The finance service is told to release an escrow only after a delivery or
\* a dispute, and to refund one only after a dispute, whichever process told
\* it to and however often the command was retried or replayed.
MoneyMovesWithCause ==
  \A s \in Shipments :
    /\ <<s, "ReleaseEscrow">> \in effect => shipment[s].delivered \/ shipment[s].disputed
    /\ <<s, "RefundEscrow">> \in effect => shipment[s].disputed
    /\ <<s, "PartialRefundEscrow">> \in effect => shipment[s].disputed

\* A dispute is closed, by the administrator's request or later by the outbox,
\* only after the finance service has executed the command that settles it.
ResolvedAfterFinance ==
  \A s \in Shipments :
    /\ shipment[s].resolved => \E cmd \in Settling : <<s, cmd>> \in effect
    /\ shipment[s].status = "REFUNDED" => <<s, "RefundEscrow">> \in effect
    /\ shipment[s].status = "PARTIALLY_REFUNDED" => <<s, "PartialRefundEscrow">> \in effect

\* A shipment that was closed as CONFIRMED by the resolution of a dispute has
\* had its escrow released: SPLIT refunds a part and releases the remainder.
\* Or the release is on its way: a handler or an outbox row still has it.
ReleaseUnderWay(s) ==
  \/ \E p \in Procs : proc[p].s = s /\ proc[p].cmd = "ReleaseEscrow"
  \/ row[<<s, "ReleaseEscrow">>].state # "none"
SplitReleasesRemainder ==
  \A s \in Shipments :
    shipment[s].status = "CONFIRMED" /\ shipment[s].resolved =>
      <<s, "ReleaseEscrow">> \in effect \/ ReleaseUnderWay(s)

-----------------------------------------------------------------------------
(* Capacity and chats, when no two handlers overlap.                       *)

Quiet == \A p \in Procs : At(p, "idle")

\* Between requests the weight missing from a trip is the weight of the
\* shipments on it: what assign takes, reject and cancel give back, once.
CapacityBalanced ==
  Quiet => \A t \in Trips :
    available[t] =
      Capacity - SumFunctionOnSet([s \in Shipments |-> shipment[s].weight],
                                  {s \in Shipments : shipment[s].trip = t})

\* What the balance needs of the requests: no two of them, from read to write,
\* assign, withdraw or update the same shipment, ...
LoadSteps == {"matching", "reserving", "returning", "closing", "detaching", "reweighing"}
NoOverlap ==
  \A p, q \in Procs :
    p # q /\ proc[p].pc \in LoadSteps /\ proc[q].pc \in LoadSteps => proc[p].s # proc[q].s

\* ... and a weight is updated before the shipment is matched.
FreelyReweighed ==
  \A p \in Procs : At(p, "reweighing") => shipment[proc[p].s].status = "PENDING"

\* A shipment is not assigned beyond the capacity of the trip.
NeverOverbooked == \A t \in Trips : available[t] >= 0

\* Between requests a matched shipment has an active chat thread, also after
\* an earlier offer was rejected.
MatchedHasChat ==
  Quiet => \A s \in Shipments : shipment[s].status = "MATCHED" => chat[s] = "active"

\* autoReleaseEscrow confirms only shipments that are DELIVERED.
AutoReleaseFromDelivered ==
  [][\A p \in Releasers :
       At(p, "advancing") /\ proc'[p].pc = "calling" =>
         shipment[proc[p].s].status = "DELIVERED"]_vars

-----------------------------------------------------------------------------
(* Liveness, under FairSpec.                                               *)

\* The poller moves a shipment whose payment order was paid on from ACCEPTED,
\* unless it leaves ACCEPTED or the escrow changes hands otherwise.
PaidOrderIsNoticed ==
  \A s \in Shipments :
    (shipment[s].status = "ACCEPTED" /\ shipment[s].order /\ HeldByFinance(s))
      ~> (shipment[s].status # "ACCEPTED" \/ ~HeldByFinance(s))

\* The same of every funded escrow, however it was funded.
FundedEscrowIsNoticed ==
  \A s \in Shipments :
    (shipment[s].status = "ACCEPTED" /\ HeldByFinance(s))
      ~> (shipment[s].status # "ACCEPTED" \/ ~HeldByFinance(s))

\* A delivered shipment that nobody disputes is closed without its sender: the
\* auto-release job finds it, whatever requests come and go in between.
DeliveredIsClosed ==
  \A s \in Shipments :
    (shipment[s].status = "DELIVERED" /\ ~shipment[s].disputed)
      ~> (shipment[s].status # "DELIVERED" \/ shipment[s].disputed)

-----------------------------------------------------------------------------
(* The outbox below it.                                                    *)
Phase(state) ==
  CASE state = "none"   -> "unknown"
    [] state = "done"   -> "settled"
    [] state = "failed" -> "abandoned"
    [] OTHER            -> "accepted"

Outbox ==
  INSTANCE CommandDelivery WITH
    Keys <- Shipments \X Commands,
    phase <- [k \in Shipments \X Commands |-> Phase(row[k].state)]

\* The rows and the finance commands of the handlers behave as the outbox
\* promises: a row is done only when its command has been executed.
UsesDelivery == Outbox!SafeSpec
=============================================================================
