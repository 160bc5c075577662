---------------------------- MODULE MarketStats ----------------------------
(***************************************************************************)
(* The market counters in Redis.  Creating a shipment and publishing a     *)
(* trip write their row and then increment; a process that starts and      *)
(* finds no mark in Redis deletes the counters, counts the rows and adds   *)
(* what it counted.  Nothing excludes increments while it does so, nor     *)
(* another process that does the same.  Counters kept per member (routes,  *)
(* origins, cargo) are one counter here: a rebuild adds to it; the totals  *)
(* are another: a rebuild sets it.                                         *)
(***************************************************************************)
EXTENDS Naturals, FiniteSets

CONSTANTS
  Processes,
  MaxRows,          \* bound on the shipments, and on the trips
  MaxStarts,        \* bound on the starts of processes
  MaxRedisErrors    \* bound on the Redis calls that fail

ASSUME MarketAssumption ==
  MaxRows \in Nat \ {0} /\ MaxStarts \in Nat /\ MaxRedisErrors \in Nat

VARIABLES
  shipmentRows, tripRows, draftRows, activeRows,   \* counts in the database
  demandDue, supplyDue,                 \* rows whose increments are not yet made
  counters,                             \* the keys in Redis
  boot,                                 \* boot[p]: how far onModuleInit of p is, and its counts
  starts, redisErrors,
  blurred                               \* since the counters were last deleted, something overlapped

marketVars == <<shipmentRows, tripRows, draftRows, activeRows, demandDue, supplyDue, counters,
                boot, starts, redisErrors, blurred>>

Rebuilding == {p \in Processes : boot[p].at \in {"deleting", "counting", "adding"}}
NoCounts == [demand |-> 0, demandTotal |-> 0, supply |-> 0, tripTotal |-> 0,
             initialized |-> FALSE]
Bound == MaxRows * (1 + MaxStarts)

MarketTypeOK ==
  /\ {shipmentRows, tripRows} \subseteq 0..MaxRows
  /\ draftRows \in 0..tripRows /\ activeRows \in 0..tripRows /\ draftRows + activeRows <= tripRows
  /\ demandDue \in 0..shipmentRows /\ supplyDue \in 0..tripRows
  /\ counters \in [demand: 0..Bound, demandTotal: 0..Bound, supply: 0..Bound,
                   tripTotal: 0..Bound, initialized: BOOLEAN]
  /\ boot \in [Processes -> [at: {"down", "deleting", "counting", "adding", "up"},
                             shipments: 0..MaxRows, trips: 0..MaxRows, active: 0..MaxRows]]
  /\ \A p \in Processes : boot[p].at = "adding" => boot[p].active <= boot[p].trips
  /\ starts \in 0..MaxStarts /\ redisErrors \in 0..MaxRedisErrors /\ blurred \in BOOLEAN

Down == [at |-> "down", shipments |-> 0, trips |-> 0, active |-> 0]

MarketInit ==
  /\ shipmentRows \in {0, 1} /\ tripRows \in {0, 1}
  /\ draftRows = tripRows /\ activeRows = 0
  /\ demandDue = 0 /\ supplyDue = 0
  /\ counters = NoCounts
  /\ boot = [p \in Processes |-> Down]
  /\ starts = 0 /\ redisErrors = 0 /\ blurred = TRUE

RowsUnchanged == UNCHANGED <<shipmentRows, tripRows, draftRows, activeRows>>
Serving == \E p \in Processes : boot[p].at = "up"

InsertShipment ==
  /\ Serving /\ shipmentRows < MaxRows
  /\ shipmentRows' = shipmentRows + 1 /\ demandDue' = demandDue + 1
  /\ blurred' = (blurred \/ Rebuilding # {})
  /\ UNCHANGED <<tripRows, draftRows, activeRows, supplyDue, counters, boot, starts,
                 redisErrors>>

InsertTrip ==
  /\ Serving /\ tripRows < MaxRows
  /\ tripRows' = tripRows + 1 /\ draftRows' = draftRows + 1
  /\ UNCHANGED <<shipmentRows, activeRows, demandDue, supplyDue, counters, boot, starts,
                 redisErrors, blurred>>

ActivateTrip ==
  /\ Serving /\ draftRows > 0
  /\ draftRows' = draftRows - 1 /\ activeRows' = activeRows + 1
  /\ supplyDue' = supplyDue + 1
  /\ blurred' = (blurred \/ Rebuilding # {})
  /\ UNCHANGED <<shipmentRows, tripRows, demandDue, counters, boot, starts, redisErrors>>

\* Nothing is decremented for a trip that is cancelled.
CancelActiveTrip ==
  /\ activeRows > 0 /\ activeRows' = activeRows - 1
  /\ UNCHANGED <<shipmentRows, tripRows, draftRows, demandDue, supplyDue, counters, boot,
                 starts, redisErrors, blurred>>

RecordShipmentDemand ==
  /\ demandDue > 0
  /\ demandDue' = demandDue - 1
  /\ counters' = [counters EXCEPT !.demand = @ + 1, !.demandTotal = @ + 1]
  /\ RowsUnchanged /\ UNCHANGED <<supplyDue, boot, starts, redisErrors, blurred>>

RecordTripSupply ==
  /\ supplyDue > 0
  /\ supplyDue' = supplyDue - 1
  /\ counters' = [counters EXCEPT !.supply = @ + 1, !.tripTotal = @ + 1]
  /\ RowsUnchanged /\ UNCHANGED <<demandDue, boot, starts, redisErrors, blurred>>

\* The commands are sent together: some may have been applied.  The error is logged.
RecordFails ==
  /\ redisErrors < MaxRedisErrors /\ redisErrors' = redisErrors + 1
  /\ \/ /\ demandDue > 0 /\ demandDue' = demandDue - 1 /\ UNCHANGED supplyDue
        /\ \E a, b \in {0, 1} :
             counters' = [counters EXCEPT !.demand = @ + a, !.demandTotal = @ + b]
     \/ /\ supplyDue > 0 /\ supplyDue' = supplyDue - 1 /\ UNCHANGED demandDue
        /\ \E a, b \in {0, 1} :
             counters' = [counters EXCEPT !.supply = @ + a, !.tripTotal = @ + b]
  /\ blurred' = TRUE
  /\ RowsUnchanged /\ UNCHANGED <<boot, starts>>

----------------------------------------------------------------------------
(* onModuleInit and rebuild                                                 *)

StartProcess(p) ==
  /\ boot[p].at = "down" /\ starts < MaxStarts /\ starts' = starts + 1
  /\ boot' = [boot EXCEPT ![p].at = IF counters.initialized THEN "up" ELSE "deleting"]
  /\ RowsUnchanged /\ UNCHANGED <<demandDue, supplyDue, counters, redisErrors, blurred>>

\* Mutant of Deleted.
DeletedNothing == counters
\* The mark is not among the keys that del names.
Deleted == [NoCounts EXCEPT !.initialized = counters.initialized]

DeleteCounters(p) ==
  /\ boot[p].at = "deleting"
  /\ counters' = Deleted
  /\ blurred' = (Rebuilding # {p} \/ demandDue + supplyDue > 0)
  /\ boot' = [boot EXCEPT ![p].at = "counting"]
  /\ RowsUnchanged /\ UNCHANGED <<demandDue, supplyDue, starts, redisErrors>>

Counted == [at |-> "adding", shipments |-> shipmentRows, trips |-> tripRows,
            active |-> activeRows]

CountRows(p) ==
  /\ boot[p].at = "counting"
  /\ boot' = [boot EXCEPT ![p] = Counted]
  /\ RowsUnchanged
  /\ UNCHANGED <<demandDue, supplyDue, counters, starts, redisErrors, blurred>>

\* The pipeline: zincrby for the members, set for the totals and the mark.
AddCounts(p) ==
  /\ boot[p].at = "adding"
  /\ counters' = [demand |-> counters.demand + boot[p].shipments,
                  demandTotal |-> boot[p].shipments,
                  supply |-> counters.supply + boot[p].active,
                  tripTotal |-> boot[p].trips,
                  initialized |-> TRUE]
  /\ boot' = [boot EXCEPT ![p] = [Down EXCEPT !.at = "up"]]
  /\ RowsUnchanged /\ UNCHANGED <<demandDue, supplyDue, starts, redisErrors, blurred>>

\* A call of the rebuild fails: the process serves without it.
RebuildFails(p) ==
  /\ p \in Rebuilding /\ redisErrors < MaxRedisErrors /\ redisErrors' = redisErrors + 1
  /\ boot' = [boot EXCEPT ![p] = [Down EXCEPT !.at = "up"]]
  /\ blurred' = TRUE
  /\ RowsUnchanged /\ UNCHANGED <<demandDue, supplyDue, counters, starts>>

\* A process stops; increments that it still owed are lost.
StopProcess(p) ==
  /\ boot[p].at # "down"
  /\ boot' = [boot EXCEPT ![p] = Down]
  /\ \E d \in 0..demandDue, s \in 0..supplyDue :
       /\ demandDue' = demandDue - d /\ supplyDue' = supplyDue - s
       /\ blurred' = (blurred \/ d + s > 0 \/ p \in Rebuilding)
  /\ RowsUnchanged /\ UNCHANGED <<counters, starts, redisErrors>>

MarketNext ==
  \/ InsertShipment \/ InsertTrip \/ ActivateTrip \/ CancelActiveTrip
  \/ RecordShipmentDemand \/ RecordTripSupply \/ RecordFails
  \/ \E p \in Processes : \/ StartProcess(p) \/ DeleteCounters(p) \/ CountRows(p)
                          \/ AddCounts(p) \/ RebuildFails(p) \/ StopProcess(p)

MarketSpec == MarketInit /\ [][MarketNext]_marketVars

----------------------------------------------------------------------------
(* Properties *)

\* Once every increment is made, the counters hold one unit for each shipment, and
\* at least one for each active trip (none is taken back for
\* one that is cancelled, and a rebuild counts drafts, which are counted
\* again when they are published).  It takes an increment or another rebuild during
\* a rebuild, or a failure, to blur them; a rebuild that runs alone repairs them.
CountersMatchRows ==
  counters.initialized /\ ~blurred /\ Rebuilding = {} /\ demandDue + supplyDue = 0
    => /\ counters.demand = shipmentRows /\ counters.demandTotal = shipmentRows
       /\ counters.supply >= activeRows /\ counters.tripTotal >= activeRows
=============================================================================
