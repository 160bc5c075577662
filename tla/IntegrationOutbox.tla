-------------------------- MODULE IntegrationOutbox --------------------------
(***************************************************************************)
(* The integration outbox: FinanceOrchestrator.trySync tries a finance     *)
(* command over gRPC and, when the call fails in a retryable way, stores   *)
(* it as a row of integration_outbox and adds a BullMQ job; workers of the *)
(* finance-outbox queue run IntegrationOutboxService.processRow for every  *)
(* job.  An action is one step between two awaits of the code, so requests *)
(* and workers interleave at every database, Redis and gRPC call.          *)
(*                                                                         *)
(* A row is named by its idempotencyKey, which the schema makes unique.    *)
(* nextRetryAt only delays a job, so a delayed job is a waiting job.       *)
(***************************************************************************)
EXTENDS Naturals

CONSTANTS
  Keys,             \* idempotency keys, one command each
  Callers,          \* requests that run a finance command, one each
  Admins,           \* administrator requests that replay a row, one each
  Workers,          \* BullMQ worker slots
  NoKey,            \* the key of a slot that runs nothing
  MaxAttempts,      \* config.outboxMaxAttempts
  MaxStalledCount,  \* BullMQ: how often a stalled job is put back
  MaxTries,         \* bound: what the count of failed executions stops at
  MaxFaults,        \* bound: crashes of the API, errors of database or Redis
  MaxStalls         \* bound: workers that crash or lose the lock of their job

ASSUME NoKeyAssumption == NoKey \notin Keys
ASSUME MaxAttemptsAssumption == MaxAttempts \in Nat \ {0}
ASSUME BoundsAssumption ==
  /\ MaxStalledCount \in Nat
  /\ MaxTries \in Nat /\ MaxTries >= MaxAttempts  \* exact up to the budget
  /\ MaxFaults \in Nat
  /\ MaxStalls \in Nat

VARIABLES
  row,      \* the rows of integration_outbox
  jobs,     \* waiting and delayed jobs: how many for each key and stalled count
  worker,   \* the job each worker slot is running
  caller,   \* the state of every request
  effect,   \* keys of the commands the finance service has executed
  bridged,  \* keys whose result ShipmentFinanceBridgeService has stored
  tries,    \* history: failed executions of the row since its (re)start, up to MaxTries
  faults,
  stalls

vars == <<row, jobs, worker, caller, effect, bridged, tries, faults, stalls>>

RowStatus == {"NONE", "PENDING", "PROCESSING", "DONE", "FAILED"}
JobKinds == Keys \X (0..MaxStalledCount)
RunningStates ==
  {"finding", "marking", "executing", "applying", "completing", "failing", "requeueing"}
ActiveCalls == {"calling", "applying", "inserting", "adding"}
EndedCalls == {"ok", "queued", "failed"}

NoRow == [status |-> "NONE", attempts |-> 0]
FreshRow == [status |-> "PENDING", attempts |-> 0]
IdleWorker ==
  [pc |-> "idle", key |-> NoKey, stalled |-> 0, holds |-> FALSE, attempts |-> 0]
IdleCaller == [pc |-> "idle", key |-> NoKey]

Rows == [status : RowStatus, attempts : Nat]
Slots ==
  [pc : {"idle"} \union RunningStates, key : Keys \union {NoKey},
   stalled : 0..MaxStalledCount, holds : BOOLEAN, attempts : Nat]
Requests == [pc : {"idle"} \union ActiveCalls \union EndedCalls, key : Keys \union {NoKey}]

TypeOK ==
  /\ row \in [Keys -> Rows]
  /\ jobs \in [JobKinds -> Nat]
  /\ worker \in [Workers -> Slots]
  /\ caller \in [Callers \union Admins -> Requests]
  /\ \A w \in Workers : worker[w].pc # "idle" => worker[w].key \in Keys
  /\ \A c \in Callers \union Admins : caller[c].pc # "idle" => caller[c].key \in Keys
  /\ effect \in SUBSET Keys
  /\ bridged \in SUBSET Keys
  /\ tries \in [Keys -> Nat]
  /\ faults \in Nat
  /\ stalls \in Nat

Init ==
  /\ row = [k \in Keys |-> NoRow]
  /\ jobs = [j \in JobKinds |-> 0]
  /\ worker = [w \in Workers |-> IdleWorker]
  /\ caller = [c \in Callers \union Admins |-> IdleCaller]
  /\ effect = {}
  /\ bridged = {}
  /\ tries = [k \in Keys |-> 0]
  /\ faults = 0
  /\ stalls = 0

-----------------------------------------------------------------------------
(* A request: trySync, enqueue and replay.                                 *)

CallerAt(c, pc) == caller[c].pc = pc
CallerMoves(c, pc) == caller' = [caller EXCEPT ![c].pc = pc]
AddJob(k, stalled) == jobs' = [jobs EXCEPT ![<<k, stalled>>] = @ + 1]

Submit(c, k) ==
  /\ c \in Callers
  /\ CallerAt(c, "idle")
  /\ caller' = [caller EXCEPT ![c] = [pc |-> "calling", key |-> k]]
  /\ UNCHANGED <<row, jobs, worker, effect, bridged, tries, faults, stalls>>

CallSucceeds(c) ==
  /\ CallerAt(c, "calling")
  /\ effect' = effect \union {caller[c].key}
  /\ CallerMoves(c, "applying")
  /\ UNCHANGED <<row, jobs, worker, bridged, tries, faults, stalls>>

\* UNAVAILABLE, DEADLINE_EXCEEDED or an unmapped status: retryable.  The
\* command may or may not have been executed by the time the answer is lost.
CallUnanswered(c) ==
  /\ CallerAt(c, "calling")
  /\ effect' \in {effect, effect \union {caller[c].key}}
  /\ CallerMoves(c, "inserting")
  /\ UNCHANGED <<row, jobs, worker, bridged, tries, faults, stalls>>

\* A non-retryable answer of finance is rethrown to the user.
CallRejected(c) ==
  /\ CallerAt(c, "calling")
  /\ CallerMoves(c, "failed")
  /\ UNCHANGED <<row, jobs, worker, effect, bridged, tries, faults, stalls>>

ResultStored(c) ==
  /\ CallerAt(c, "applying")
  /\ bridged' = bridged \union {caller[c].key}
  /\ CallerMoves(c, "ok")
  /\ UNCHANGED <<row, jobs, worker, effect, tries, faults, stalls>>

InsertRow(c) ==
  /\ CallerAt(c, "inserting")
  /\ row[caller[c].key].status = "NONE"
  /\ row' = [row EXCEPT ![caller[c].key] = FreshRow]
  /\ CallerMoves(c, "adding")
  /\ UNCHANGED <<jobs, worker, effect, bridged, tries, faults, stalls>>

\* Mutant: a repeated insert is taken for a success.
InsertConflictsIgnored(c) ==
  /\ CallerAt(c, "inserting")
  /\ row[caller[c].key].status # "NONE"
  /\ CallerMoves(c, "adding")
  /\ UNCHANGED <<row, jobs, worker, effect, bridged, tries, faults, stalls>>

\* The unique index on idempotencyKey refuses a second row: the create throws.
InsertConflicts(c) ==
  /\ CallerAt(c, "inserting")
  /\ row[caller[c].key].status # "NONE"
  /\ CallerMoves(c, "failed")
  /\ UNCHANGED <<row, jobs, worker, effect, bridged, tries, faults, stalls>>

\* replay: any existing row is reset, whatever its status.
ResetForReplay(a, k) ==
  /\ a \in Admins
  /\ CallerAt(a, "idle")
  /\ row[k].status # "NONE"
  /\ row' = [row EXCEPT ![k] = FreshRow]
  /\ tries' = [tries EXCEPT ![k] = 0]
  /\ caller' = [caller EXCEPT ![a] = [pc |-> "adding", key |-> k]]
  /\ UNCHANGED <<jobs, worker, effect, bridged, faults, stalls>>

QueueAdd(c) ==
  /\ CallerAt(c, "adding")
  /\ AddJob(caller[c].key, 0)
  /\ CallerMoves(c, "queued")
  /\ UNCHANGED <<row, worker, effect, bridged, tries, faults, stalls>>

\* The API process dies, or the database or Redis refuses the pending call:
\* the request ends where it is.  None of these errors is retryable.
CallerFails(c) ==
  /\ caller[c].pc \in ActiveCalls
  /\ faults < MaxFaults
  /\ faults' = faults + 1
  /\ CallerMoves(c, "failed")
  /\ UNCHANGED <<row, jobs, worker, effect, bridged, tries, stalls>>

-----------------------------------------------------------------------------
(* A worker: FinanceOutboxProcessor.process and processRow.                *)

WorkerAt(w, pc) == worker[w].pc = pc
WorkerMoves(w, pc) == worker' = [worker EXCEPT ![w].pc = pc]
Release(w) == worker' = [worker EXCEPT ![w] = IdleWorker]
SetStatus(k, status) == row' = [row EXCEPT ![k].status = status]

\* Mutant: a slot does not look whether a job is waiting.
TakeJobUnchecked(w, k, stalled) ==
  /\ WorkerAt(w, "idle")
  /\ jobs' = [jobs EXCEPT ![<<k, stalled>>] = @ - 1]
  /\ worker' = [worker EXCEPT ![w] =
       [pc |-> "finding", key |-> k, stalled |-> stalled, holds |-> TRUE, attempts |-> 0]]
  /\ UNCHANGED <<row, caller, effect, bridged, tries, faults, stalls>>

TakeJob(w, k, stalled) ==
  /\ WorkerAt(w, "idle")
  /\ jobs[<<k, stalled>>] > 0
  /\ jobs' = [jobs EXCEPT ![<<k, stalled>>] = @ - 1]
  /\ worker' = [worker EXCEPT ![w] =
       [pc |-> "finding", key |-> k, stalled |-> stalled, holds |-> TRUE, attempts |-> 0]]
  /\ UNCHANGED <<row, caller, effect, bridged, tries, faults, stalls>>

\* Mutant: a PROCESSING row is left to the worker that marked it.
FindRowUnlessProcessing(w) ==
  /\ WorkerAt(w, "finding")
  /\ \/ /\ row[worker[w].key].status \in {"NONE", "DONE", "PROCESSING"}
        /\ Release(w)
     \/ /\ row[worker[w].key].status \in {"PENDING", "FAILED"}
        /\ worker' = [worker EXCEPT ![w].pc = "marking",
                                    ![w].attempts = row[worker[w].key].attempts]
  /\ UNCHANGED <<row, jobs, caller, effect, bridged, tries, faults, stalls>>

\* findById: the attempt count read here is the one handleFailure uses.
FindRow(w) ==
  /\ WorkerAt(w, "finding")
  /\ \/ /\ row[worker[w].key].status \in {"NONE", "DONE"}
        /\ Release(w)
     \/ /\ row[worker[w].key].status \notin {"NONE", "DONE"}
        /\ worker' = [worker EXCEPT ![w].pc = "marking",
                                    ![w].attempts = row[worker[w].key].attempts]
  /\ UNCHANGED <<row, jobs, caller, effect, bridged, tries, faults, stalls>>

MarkProcessing(w) ==
  /\ WorkerAt(w, "marking")
  /\ SetStatus(worker[w].key, "PROCESSING")
  /\ WorkerMoves(w, "executing")
  /\ UNCHANGED <<jobs, caller, effect, bridged, tries, faults, stalls>>

\* Mutant: the worker does not run the bridge.
ExecuteWithoutBridge(w) ==
  /\ WorkerAt(w, "executing")
  /\ effect' = effect \union {worker[w].key}
  /\ WorkerMoves(w, "completing")
  /\ UNCHANGED <<row, jobs, caller, bridged, tries, faults, stalls>>

ExecuteSucceeds(w) ==
  /\ WorkerAt(w, "executing")
  /\ effect' = effect \union {worker[w].key}
  /\ WorkerMoves(w, "applying")
  /\ UNCHANGED <<row, jobs, caller, bridged, tries, faults, stalls>>

\* An error anywhere in the try block, retryable or not, counts an attempt:
\* the gRPC call or the bridge, whose effect may have happened before the
\* error, or markDone.  It may happen any number of times: the count stops at
\* MaxTries, the failures do not.
TryFails(w) ==
  /\ worker[w].pc \in {"executing", "applying", "completing"}
  /\ tries' = [tries EXCEPT ![worker[w].key] = IF @ < MaxTries THEN @ + 1 ELSE @]
  /\ \/ /\ WorkerAt(w, "executing")
        /\ effect' \in {effect, effect \union {worker[w].key}}
        /\ UNCHANGED bridged
     \/ /\ WorkerAt(w, "applying")
        /\ bridged' \in {bridged, bridged \union {worker[w].key}}
        /\ UNCHANGED effect
     \/ /\ WorkerAt(w, "completing")
        /\ UNCHANGED <<effect, bridged>>
  /\ WorkerMoves(w, "failing")
  /\ UNCHANGED <<row, jobs, caller, faults, stalls>>

ApplyResult(w) ==
  /\ WorkerAt(w, "applying")
  /\ bridged' = bridged \union {worker[w].key}
  /\ WorkerMoves(w, "completing")
  /\ UNCHANGED <<row, jobs, caller, effect, tries, faults, stalls>>

MarkDone(w) ==
  /\ WorkerAt(w, "completing")
  /\ SetStatus(worker[w].key, "DONE")
  /\ Release(w)
  /\ UNCHANGED <<jobs, caller, effect, bridged, tries, faults, stalls>>

\* Mutant: the last attempt is never made.
ExhaustedEarly(attempts) == attempts + 2 >= MaxAttempts

Exhausted(attempts) == attempts + 1 >= MaxAttempts

\* Mutant: a row that used up its attempts is closed as done.
MarkFailedAsDone(w) ==
  /\ WorkerAt(w, "failing")
  /\ Exhausted(worker[w].attempts)
  /\ SetStatus(worker[w].key, "DONE")
  /\ Release(w)
  /\ UNCHANGED <<jobs, caller, effect, bridged, tries, faults, stalls>>

\* handleFailure, last attempt: markFailed leaves attemptCount as it is.
MarkFailed(w) ==
  /\ WorkerAt(w, "failing")
  /\ Exhausted(worker[w].attempts)
  /\ SetStatus(worker[w].key, "FAILED")
  /\ Release(w)
  /\ UNCHANGED <<jobs, caller, effect, bridged, tries, faults, stalls>>

\* Mutant: the row waits for its retry, but no job is added.
MarkPendingWithoutJob(w) ==
  /\ WorkerAt(w, "failing")
  /\ ~Exhausted(worker[w].attempts)
  /\ row' = [row EXCEPT ![worker[w].key] =
       [status |-> "PENDING", attempts |-> worker[w].attempts + 1]]
  /\ Release(w)
  /\ UNCHANGED <<jobs, caller, effect, bridged, tries, faults, stalls>>

\* Mutant: the failed attempt is not counted in the row.
MarkPendingUncounted(w) ==
  /\ WorkerAt(w, "failing")
  /\ ~Exhausted(worker[w].attempts)
  /\ row' = [row EXCEPT ![worker[w].key] =
       [status |-> "PENDING", attempts |-> worker[w].attempts]]
  /\ WorkerMoves(w, "requeueing")
  /\ UNCHANGED <<jobs, caller, effect, bridged, tries, faults, stalls>>

\* handleFailure, attempts left: the count read at the start is written back.
MarkPendingForRetry(w) ==
  /\ WorkerAt(w, "failing")
  /\ ~Exhausted(worker[w].attempts)
  /\ row' = [row EXCEPT ![worker[w].key] =
       [status |-> "PENDING", attempts |-> worker[w].attempts + 1]]
  /\ WorkerMoves(w, "requeueing")
  /\ UNCHANGED <<jobs, caller, effect, bridged, tries, faults, stalls>>

AddRetryJob(w) ==
  /\ WorkerAt(w, "requeueing")
  /\ AddJob(worker[w].key, 0)
  /\ Release(w)
  /\ UNCHANGED <<row, caller, effect, bridged, tries, faults, stalls>>

\* An error outside the try block fails the job, and a failed job is not run
\* again: queue.add is called without an attempts option.
JobFails(w) ==
  /\ worker[w].pc \in {"finding", "marking", "failing", "requeueing"}
  /\ faults < MaxFaults
  /\ faults' = faults + 1
  /\ Release(w)
  /\ UNCHANGED <<row, jobs, caller, effect, bridged, tries, stalls>>

(* BullMQ puts the job of a worker that stopped renewing its lock back on  *)
(* the queue, at most MaxStalledCount times.                               *)
ReturnStalledJob(w) ==
  /\ stalls < MaxStalls
  /\ stalls' = stalls + 1
  /\ IF worker[w].holds /\ worker[w].stalled < MaxStalledCount
       THEN AddJob(worker[w].key, worker[w].stalled + 1)
       ELSE UNCHANGED jobs

WorkerCrashes(w) ==
  /\ worker[w].pc \in RunningStates
  /\ ReturnStalledJob(w)
  /\ Release(w)
  /\ UNCHANGED <<row, caller, effect, bridged, tries, faults>>

\* The worker is only slow: it goes on with a job that is no longer its own.
LosesLock(w) ==
  /\ worker[w].pc \in RunningStates
  /\ worker[w].holds
  /\ ReturnStalledJob(w)
  /\ worker' = [worker EXCEPT ![w].holds = FALSE]
  /\ UNCHANGED <<row, caller, effect, bridged, tries, faults>>

-----------------------------------------------------------------------------
RequestStep(c) ==
  \/ \E k \in Keys : Submit(c, k) \/ ResetForReplay(c, k)
  \/ CallSucceeds(c)
  \/ CallUnanswered(c)
  \/ CallRejected(c)
  \/ ResultStored(c)
  \/ InsertRow(c)
  \/ InsertConflicts(c)
  \/ QueueAdd(c)
  \/ CallerFails(c)

JobStep(w) ==
  \/ FindRow(w)
  \/ MarkProcessing(w)
  \/ ExecuteSucceeds(w)
  \/ TryFails(w)
  \/ ApplyResult(w)
  \/ MarkDone(w)
  \/ MarkFailed(w)
  \/ MarkPendingForRetry(w)
  \/ AddRetryJob(w)

WorkerStep(w) ==
  \/ \E k \in Keys, stalled \in 0..MaxStalledCount : TakeJob(w, k, stalled)
  \/ JobStep(w)

Failure(w) == JobFails(w) \/ WorkerCrashes(w) \/ LosesLock(w)

Next ==
  \/ \E c \in Callers \union Admins : RequestStep(c)
  \/ \E w \in Workers : WorkerStep(w) \/ Failure(w)

\* A request that has stored its row goes on to add the job, and BullMQ runs
\* every waiting job; nobody has to submit or replay a command.
Fairness ==
  /\ \A c \in Callers \union Admins : WF_vars(QueueAdd(c))
  /\ \A w \in Workers : WF_vars(JobStep(w))
  /\ \A k \in Keys, stalled \in 0..MaxStalledCount :
       SF_vars(\E w \in Workers : TakeJob(w, k, stalled))

Spec == Init /\ [][Next]_vars

FairSpec == Spec /\ Fairness

-----------------------------------------------------------------------------
(* Safety.                                                                 *)

\* A row is DONE, and a request is answered ok, only when the finance service
\* has executed the command and its result is stored on the shipment, however
\* requests, retries, replays and half-dead workers interleave.
CompletionMeansApplied ==
  /\ \A k \in Keys : row[k].status = "DONE" => k \in effect /\ k \in bridged
  /\ \A c \in Callers :
       CallerAt(c, "ok") => caller[c].key \in effect /\ caller[c].key \in bridged

\* The rows that still need work.
Open(k) == row[k].status \in {"PENDING", "PROCESSING"}

\* Somebody will still look at the row: a waiting job, a running worker, or a
\* request that has stored the row and is about to add its job.
Attended(k) ==
  \/ \E stalled \in 0..MaxStalledCount : jobs[<<k, stalled>>] > 0
  \/ \E w \in Workers : worker[w].pc # "idle" /\ worker[w].key = k
  \/ \E c \in Callers \union Admins : CallerAt(c, "adding") /\ caller[c].key = k

\* No row is left PENDING or PROCESSING with nothing in the queue for it: no
\* process of the repository looks for such rows.
NoOrphanedRow == \A k \in Keys : Open(k) => Attended(k)

\* Only a crash or a refused call of enqueue, replay, processRow or
\* handleFailure orphans a row, or a second stall: BullMQ returns the job of
\* the first worker that stops, wherever it was.
OrphanedOnlyByFailure == faults = 0 /\ stalls <= 1 => NoOrphanedRow

NothingReplayed == \A a \in Admins : CallerAt(a, "idle")

\* handleFailure gives a row up only after MaxAttempts failed executions of
\* it, whichever workers they happened in, as long as nobody replays a row.
FullRetryBudget ==
  NothingReplayed => \A k \in Keys : row[k].status = "FAILED" => tries[k] >= MaxAttempts

\* Two workers never run the same row at the same time, as long as no job is
\* returned to the queue by a stall and nobody replays a row: processRow does
\* without a claim of its own because enqueue and handleFailure add one job.
OneWorkerPerRow ==
  NothingReplayed /\ stalls = 0 =>
    \A v, w \in Workers :
      v # w /\ worker[v].pc # "idle" /\ worker[w].pc # "idle" => worker[v].key # worker[w].key

-----------------------------------------------------------------------------
(* Liveness, under FairSpec.                                               *)

\* Every stored command is eventually finished: DONE or FAILED for good, so
\* retries do not go on for ever and no row stays PENDING (no faults).
EventuallySettled ==
  \A k \in Keys :
    row[k].status # "NONE" ~> [](row[k].status \in {"DONE", "FAILED"})

\* The finance service recovers before the attempts of a row are used up, and
\* nobody replays a row: every stored command ends DONE, and stays so.
RecoversAfterOutage ==
  \A k \in Keys :
    [](tries[k] < MaxAttempts /\ NothingReplayed) =>
      (row[k].status # "NONE" ~> [](row[k].status = "DONE"))

-----------------------------------------------------------------------------
(* The abstract specification it implements.                               *)
Phase(k) ==
  CASE row[k].status = "NONE"   -> "unknown"
    [] row[k].status = "DONE"   -> "settled"
    [] row[k].status = "FAILED" -> "abandoned"
    [] OTHER                    -> "accepted"

Delivery == INSTANCE CommandDelivery WITH phase <- [k \in Keys |-> Phase(k)]

\* The outbox delivers commands as CommandDelivery promises: a command is
\* settled only with its effect, and an accepted one is never forgotten.
DeliverySpec == Delivery!Spec
DeliverySafeSpec == Delivery!SafeSpec
=============================================================================
