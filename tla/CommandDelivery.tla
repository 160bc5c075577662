--------------------------- MODULE CommandDelivery ---------------------------
(***************************************************************************)
(* What the integration outbox promises of one finance command, said       *)
(* without rows, jobs, workers or retries: a command that was accepted     *)
(* into the outbox is settled only if the finance service has executed it, *)
(* and while it is neither settled nor abandoned it keeps being worked on. *)
(*                                                                         *)
(* A command is named by its idempotency key.                              *)
(***************************************************************************)
CONSTANT Keys

VARIABLES
  effect,  \* the commands the finance service has executed
  phase    \* how far the outbox is with each command

dvars == <<effect, phase>>

Phases == {"unknown", "accepted", "settled", "abandoned"}

Init ==
  /\ effect = {}
  /\ phase = [k \in Keys |-> "unknown"]

\* A call reaches the finance service, from the request or from a retry.
TakeEffect(k) ==
  /\ effect' = effect \union {k}
  /\ UNCHANGED phase

\* The command is stored in the outbox, for the first time or by a replay,
\* or a slow worker puts a command back that another one has finished.
Accept(k) ==
  /\ phase' = [phase EXCEPT ![k] = "accepted"]
  /\ UNCHANGED effect

Settle(k) ==
  /\ phase[k] # "unknown"
  /\ k \in effect
  /\ phase' = [phase EXCEPT ![k] = "settled"]
  /\ UNCHANGED effect

Abandon(k) ==
  /\ phase[k] # "unknown"
  /\ phase' = [phase EXCEPT ![k] = "abandoned"]
  /\ UNCHANGED effect

Next == \E k \in Keys : TakeEffect(k) \/ Accept(k) \/ Settle(k) \/ Abandon(k)

SafeSpec == Init /\ [][Next]_dvars

\* No accepted command is forgotten.
Progress ==
  \A k \in Keys : (phase[k] = "accepted") ~> (phase[k] \in {"settled", "abandoned"})

Spec == SafeSpec /\ Progress
=============================================================================
