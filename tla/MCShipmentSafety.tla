-------------------------- MODULE MCShipmentSafety --------------------------
(* Two bounds in one run: either three of two requests and the two cron    *)
(* jobs race and every call is answered, or one request and a cron job run *)
(* while a call stays unanswered and a handler dies.  The weight of the    *)
(* shipment, which no step of this run changes, says which.  The rest of a *)
(* SPLIT takes its way through the partial refund, so that the resolution  *)
(* PARTIAL_REFUND is left out.                                             *)
EXTENDS MCShipmentLifecycle

Busy(S) == {p \in S : proc[p].pc # "idle"}
Races == \A s \in Shipments : shipment[s].weight = 1

MixedBounds ==
  IF Races
  THEN /\ Cardinality(Busy(Procs)) <= 3
       /\ unanswered = 0 /\ faults = 0
       /\ \A r \in Requests : proc[r].cmd \notin {"RefundEscrow", "PartialRefundEscrow"}
  ELSE /\ Cardinality(Busy(Procs)) <= 2
       /\ Cardinality(Busy(Requests)) <= 1
       /\ \A r \in Requests : proc[r].target # "PARTIALLY_REFUNDED"
=============================================================================
