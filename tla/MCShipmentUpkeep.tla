--------------------------- MODULE MCShipmentUpkeep ---------------------------
(* Two parts of the state space in one run, in neither of which two         *)
(* requests work on the same shipment at once: two requests put shipments   *)
(* on trips, take them off and change their weights (Loading); or one       *)
(* shipment goes its whole way, with one request at a time and the cron     *)
(* jobs beside it (OnTheWay).  A handler that runs stays within its part,   *)
(* so that the constraint cuts off nothing but requests that would begin,   *)
(* to which nobody is bound.                                                *)
EXTENDS MCShipmentLifecycle

TheShipment == CHOOSE s \in Shipments : TRUE
TheRequest == CHOOSE r \in Requests : TRUE

Loading ==
  /\ NoOverlap /\ FreelyReweighed
  /\ \A p \in Procs : IF p \in Requests THEN ~At(p, "accepting") ELSE At(p, "idle")
  /\ \A s \in Shipments : shipment[s].status \in {"PENDING", "MATCHED", "CANCELLED"}

OnTheWay ==
  /\ \A p \in Requests : At(p, "idle") \/ p = TheRequest
  /\ \A p \in Procs : At(p, "reweighing") => proc[p].w = 1
  /\ \A p \in Procs : At(p, "idle") \/ proc[p].s = TheShipment
  /\ \A s \in Shipments :
       /\ shipment[s].weight = 1
       /\ s # TheShipment => shipment[s].status = "PENDING" /\ chat[s] = "none"

Within == Loading \/ OnTheWay
=============================================================================
