---------------------------- MODULE Withdrawals ----------------------------
(***************************************************************************)
(* Withdrawals: a user's request and the commands of administrators, each  *)
(* one call to the finance service under an idempotency key; a call that   *)
(* times out or finds the service down becomes an outbox row under the     *)
(* same key, which workers execute later, at least once.  The finance      *)
(* service is external: it answers a key that it knows with its first      *)
(* result, and refuses a command that does not fit the withdrawal's state. *)
(***************************************************************************)
EXTENDS Naturals, FiniteSets, TLC

CONSTANTS
  Submissions,      \* requests of users; each has a nonce of its own
  References,       \* provider references that administrators enter
  Operators,        \* administrators' requests under way at once
  MaxUnanswered     \* bound on the calls without an answer

ASSUME WithdrawalsAssumption == MaxUnanswered \in Nat

Commands == {"approve", "sent", "settle", "fail", "process", "reject"}
Paying == {"sent", "process"}
NoRef == "noRef"
Refs(cmd) == IF cmd \in Paying THEN References ELSE {NoRef}

VARIABLES
  active,           \* User.isActive of the users, and the level their finance needs
  submitted,        \* submitted[s]: how far the user's request is
  withdrawals,      \* withdrawals[s]: those that the finance service created for s
  state,            \* state[s]: of the withdrawal
  performed,        \* <<key, reference>> of the commands that took effect
  operator,         \* operator[o]: the command that o has called
  queued,           \* <<s, cmd, reference>> of the rows not yet done
  rows,             \* keys of all rows
  told,             \* <<s, cmd>> of the notifications
  answered,         \* <<s, cmd, reference>> of the successful replies to administrators
  unsure,           \* keys of the calls that had no answer
  unanswered

withdrawalVars == <<active, submitted, withdrawals, state, performed, operator, queued, rows,
                    told, answered, unsure, unanswered>>

States == {"none", "REQUESTED", "APPROVED", "SENT", "SETTLED", "FAILED", "PROCESSED", "REJECTED"}
NoCommand == [on |-> {}, cmd |-> "none", ref |-> NoRef]

----------------------------------------------------------------------------
(* The keys and the finance service                                         *)

\* Mutant of KeyOf.
KeyOfSharedPayout(s, cmd) == <<s, IF cmd = "process" THEN "sent" ELSE cmd>>
\* One key for each withdrawal and command: the reference is not part of it.
KeyOf(s, cmd) == <<s, cmd>>

After == [approve |-> "APPROVED", sent |-> "SENT", settle |-> "SETTLED", fail |-> "FAILED",
          process |-> "PROCESSED", reject |-> "REJECTED"]
Fits(cmd, st) ==
  CASE cmd \in {"approve", "reject"} -> st = "REQUESTED"
    [] cmd = "settle" -> st = "SENT"
    [] cmd = "fail" -> st \in {"APPROVED", "SENT"}
    [] OTHER -> st = "APPROVED"

Known(s, cmd) == \E p \in performed : p[1] = KeyOf(s, cmd)
Accepts(s, cmd) == Known(s, cmd) \/ Fits(cmd, state[s])

TakesEffect(s, cmd, ref) ==
  /\ Accepts(s, cmd)
  /\ IF Known(s, cmd) THEN UNCHANGED <<performed, state>>
     ELSE /\ performed' = performed \cup {<<KeyOf(s, cmd), ref>>}
          /\ state' = [state EXCEPT ![s] = After[cmd]]

WithdrawalsTypeOK ==
  /\ active \in [Submissions -> BOOLEAN]
  /\ submitted \in [Submissions -> {"none", "checked", "answered", "queued", "refused"}]
  /\ withdrawals \in [Submissions -> Nat]
  /\ state \in [Submissions -> States]
  /\ \A s \in Submissions : (state[s] = "none") = (withdrawals[s] = 0)
  /\ \A p, q \in performed : p[1] = q[1] => p = q
  /\ operator \in [Operators -> [on: SUBSET Submissions, cmd: Commands \cup {"none"},
                                 ref: References \cup {NoRef}]]
  /\ queued \subseteq Submissions \X (Commands \cup {"create"}) \X (References \cup {NoRef})
  /\ \A q \in queued : <<q[1], q[2]>> \in rows
  /\ \A p, q \in queued : p[1] = q[1] /\ p[2] = q[2] => p = q
  /\ unanswered \in 0..MaxUnanswered

WithdrawalsInit ==
  /\ active = [s \in Submissions |-> TRUE]
  /\ submitted = [s \in Submissions |-> "none"]
  /\ withdrawals = [s \in Submissions |-> 0]
  /\ state = [s \in Submissions |-> "none"]
  /\ operator = [o \in Operators |-> NoCommand]
  /\ performed = {} /\ queued = {} /\ rows = {} /\ told = {} /\ answered = {} /\ unsure = {}
  /\ unanswered = 0

----------------------------------------------------------------------------
(* RequestWithdrawal                                                        *)

\* The user is deactivated, or falls below the level that payouts need.
LoseStanding(s) ==
  /\ active[s]
  /\ active' = [active EXCEPT ![s] = FALSE]
  /\ UNCHANGED <<submitted, withdrawals, state, performed, operator, queued, rows, told,
                 answered, unsure, unanswered>>

\* Level, limit, activity, payout profile: read once, and sent along.
RequestWithdrawal(s) ==
  /\ submitted[s] = "none"
  /\ submitted' = [submitted EXCEPT ![s] = IF active[s] THEN "checked" ELSE "refused"]
  /\ UNCHANGED <<active, withdrawals, state, performed, operator, queued, rows, told, answered,
                 unsure, unanswered>>

\* wd:<user>:<nonce> is the key of the first call and of the row.
CreatedBy(s) == 1

Creates(s) ==
  /\ withdrawals' = [withdrawals EXCEPT ![s] = CreatedBy(s)]
  /\ state' = [state EXCEPT ![s] = IF @ = "none" THEN "REQUESTED" ELSE @]

CreateAnswered(s) ==
  /\ submitted[s] = "checked"
  /\ Creates(s)
  /\ submitted' = [submitted EXCEPT ![s] = "answered"]
  /\ UNCHANGED <<active, performed, operator, queued, rows, told, answered, unsure, unanswered>>

CreateUnanswered(s) ==
  /\ submitted[s] = "checked" /\ unanswered < MaxUnanswered
  /\ Creates(s) \/ UNCHANGED <<withdrawals, state>>
  /\ submitted' = [submitted EXCEPT ![s] = "queued"]
  /\ queued' = queued \cup {<<s, "create", NoRef>>} /\ rows' = rows \cup {<<s, "create">>}
  /\ unanswered' = unanswered + 1
  /\ UNCHANGED <<active, performed, operator, told, answered, unsure>>

----------------------------------------------------------------------------
(* The commands of administrators                                           *)

CallCommand(o, s, cmd, ref) ==
  /\ operator[o] = NoCommand /\ withdrawals[s] > 0 /\ ref \in Refs(cmd)
  /\ operator' = [operator EXCEPT ![o] = [on |-> {s}, cmd |-> cmd, ref |-> ref]]
  /\ UNCHANGED <<active, submitted, withdrawals, state, performed, queued, rows, told, answered,
                 unsure, unanswered>>

\* The reply repeats what the administrator entered; the user is notified.
CommandAnswered(o) ==
  \E s \in operator[o].on : LET cmd == operator[o].cmd IN
    /\ TakesEffect(s, cmd, operator[o].ref)
    /\ told' = told \cup {<<s, cmd>>}
    /\ answered' = answered \cup {<<s, cmd, operator[o].ref>>}
    /\ operator' = [operator EXCEPT ![o] = NoCommand]
    /\ UNCHANGED <<active, submitted, withdrawals, queued, rows, unsure, unanswered>>

CommandRefused(o) ==
  /\ \E s \in operator[o].on : ~Accepts(s, operator[o].cmd)
  /\ operator' = [operator EXCEPT ![o] = NoCommand]
  /\ UNCHANGED <<active, submitted, withdrawals, state, performed, queued, rows, told, answered,
                 unsure, unanswered>>

\* Neither the request nor, later, the worker notifies.
ToldWhenQueued(s, cmd) == told

\* A key that has a row already is not stored again.
QueuedAfter(s, cmd, ref) ==
  IF <<s, cmd>> \in rows THEN queued ELSE queued \cup {<<s, cmd, ref>>}

\* Down or too late, with or without effect
CommandUnanswered(o) ==
  /\ unanswered < MaxUnanswered /\ unanswered' = unanswered + 1
  /\ \E s \in operator[o].on : LET cmd == operator[o].cmd IN
       /\ TakesEffect(s, cmd, operator[o].ref) \/ UNCHANGED <<performed, state>>
       /\ queued' = QueuedAfter(s, cmd, operator[o].ref)
       /\ rows' = rows \cup {<<s, cmd>>}
       /\ unsure' = unsure \cup {<<s, cmd>>}
       /\ told' = ToldWhenQueued(s, cmd)
  /\ operator' = [operator EXCEPT ![o] = NoCommand]
  /\ UNCHANGED <<active, submitted, withdrawals, answered>>

\* A worker executes a row; before the row is done it may be executed again.
ExecuteRow(q) ==
  /\ q \in queued
  /\ IF q[2] = "create" THEN Creates(q[1]) /\ UNCHANGED performed
     ELSE TakesEffect(q[1], q[2], q[3]) /\ UNCHANGED withdrawals
  /\ UNCHANGED <<active, submitted, operator, queued, rows, told, answered, unsure, unanswered>>

\* Done after it was executed, or given up after its attempts.
EndRow(q) ==
  /\ q \in queued
  /\ queued' = queued \ {q}
  /\ UNCHANGED <<active, submitted, withdrawals, state, performed, operator, rows, told,
                 answered, unsure, unanswered>>

WithdrawalsNext ==
  \/ \E s \in Submissions : \/ LoseStanding(s) \/ RequestWithdrawal(s)
                            \/ CreateAnswered(s) \/ CreateUnanswered(s)
  \/ \E o \in Operators, s \in Submissions, cmd \in Commands, ref \in References \cup {NoRef} :
       CallCommand(o, s, cmd, ref)
  \/ \E o \in Operators : CommandAnswered(o) \/ CommandRefused(o) \/ CommandUnanswered(o)
  \/ \E q \in queued : ExecuteRow(q) \/ EndRow(q)

WithdrawalsSpec == WithdrawalsInit /\ [][WithdrawalsNext]_withdrawalVars

----------------------------------------------------------------------------
(* Properties *)

\* A user hears of a step of a withdrawal only if the finance service took it,
\* whether the step was taken by the request, by an earlier one or by a worker.
ToldWhatHappened ==
  \A t \in told : \E p \in performed : p[1] = <<t[1], t[2]>>

\* A reply that names another reference than the one on record follows a call with
\* the same key that an administrator repeated: after a timeout the first entry
\* stays on record whatever is entered later.
ReferenceOnRecord ==
  \A a \in answered : a[2] \in Paying =>
    \/ \E p \in performed : p = <<<<a[1], a[2]>>, a[3]>>
    \/ <<a[1], a[2]>> \in unsure
    \/ \E b \in answered : b # a /\ b[1] = a[1] /\ b[2] = a[2]

\* A submission creates at most one withdrawal, however often its call and its row
\* are executed, and none when the user was inactive at the check.
OneWithdrawalPerSubmission ==
  \A s \in Submissions :
    /\ withdrawals[s] <= 1
    /\ submitted[s] \in {"none", "refused"} => withdrawals[s] = 0

\* What users and administrators are told of a withdrawal is what happened to it.
WithdrawalsAsTold == ToldWhatHappened /\ ReferenceOnRecord /\ OneWithdrawalPerSubmission
=============================================================================
