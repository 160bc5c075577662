----------------------- MODULE IntegrationOutboxProofs -----------------------
(***************************************************************************)
(* Theorems about IntegrationOutbox, for every number of keys, requests,   *)
(* workers, attempts, stalls and faults.                                   *)
(***************************************************************************)
EXTENDS IntegrationOutbox, TLAPS

(* The parts of TypeOK that one helper of the module establishes.          *)
SlotsOK ==
  /\ worker \in [Workers -> Slots]
  /\ \A w \in Workers : worker[w].pc # "idle" => worker[w].key \in Keys
RequestsOK ==
  /\ caller \in [Callers \union Admins -> Requests]
  /\ \A c \in Callers \union Admins : caller[c].pc # "idle" => caller[c].key \in Keys

\* Adding a job keeps the job counts natural numbers.
LEMMA AddJobTypes ==
  ASSUME TypeOK, NEW k \in Keys, NEW stalled \in 0..MaxStalledCount, AddJob(k, stalled)
  PROVE  jobs' \in [JobKinds -> Nat]
<1>1. <<k, stalled>> \in JobKinds
  BY DEF JobKinds
<1>2. jobs[<<k, stalled>>] + 1 \in Nat
  BY <1>1 DEF TypeOK
<1> QED
  BY <1>1, <1>2 DEF TypeOK, AddJob

\* A worker that moves on within its job keeps the key of the job.
LEMMA WorkerMovesTypes ==
  ASSUME TypeOK, NEW w \in Workers, NEW pc \in RunningStates,
         worker[w].pc # "idle", WorkerMoves(w, pc)
  PROVE  SlotsOK'
BY DEF TypeOK, SlotsOK, WorkerMoves, Slots

\* A worker that ends its job is an idle slot.
LEMMA ReleaseTypes ==
  ASSUME TypeOK, NEW w \in Workers, Release(w)
  PROVE  SlotsOK'
<1>1. IdleWorker \in Slots /\ IdleWorker.pc = "idle"
  BY BoundsAssumption DEF IdleWorker, Slots
<1>2. worker' = [worker EXCEPT ![w] = IdleWorker]
  BY DEF Release
<1> QED
  BY <1>1, <1>2 DEF TypeOK, SlotsOK

\* A request that moves on keeps its key.
LEMMA CallerMovesTypes ==
  ASSUME TypeOK, NEW c \in Callers \union Admins, NEW pc \in ActiveCalls \union EndedCalls,
         caller[c].pc # "idle", CallerMoves(c, pc)
  PROVE  RequestsOK'
BY DEF TypeOK, RequestsOK, CallerMoves, Requests

\* Every step of the program keeps the types: rows, jobs, worker and request
\* states stay in the sets the code can put them in.
THEOREM TypeCorrect == Spec => []TypeOK
<1> USE DEF SlotsOK, RequestsOK
<1>1. Init => TypeOK
  <2> SUFFICES ASSUME Init PROVE TypeOK
    OBVIOUS
  <2>1. IdleWorker \in Slots /\ IdleWorker.pc = "idle"
    BY BoundsAssumption DEF IdleWorker, Slots
  <2>2. IdleCaller \in Requests /\ IdleCaller.pc = "idle"
    BY DEF IdleCaller, Requests
  <2>3. NoRow \in Rows
    BY DEF NoRow, Rows, RowStatus
  <2> QED
    BY <2>1, <2>2, <2>3 DEF Init, TypeOK
<1>2. TypeOK /\ [Next]_vars => TypeOK'
  <2> SUFFICES ASSUME TypeOK, [Next]_vars PROVE TypeOK'
    OBVIOUS
  <2>1. ASSUME NEW c \in Callers \union Admins, RequestStep(c)
        PROVE  TypeOK'
    <3> USE DEF TypeOK, CallerAt
    <3>0. FreshRow \in Rows
      BY DEF FreshRow, Rows, RowStatus
    <3>1. ASSUME NEW k \in Keys, Submit(c, k)
          PROVE  TypeOK'
      BY <3>1 DEF Submit, Requests, ActiveCalls
    <3>2. ASSUME NEW k \in Keys, ResetForReplay(c, k)
          PROVE  TypeOK'
      BY <3>0, <3>2 DEF ResetForReplay, Requests, ActiveCalls
    <3>3. CASE CallSucceeds(c)
      BY <3>3, CallerMovesTypes DEF CallSucceeds, ActiveCalls
    <3>4. CASE CallUnanswered(c)
      BY <3>4, CallerMovesTypes DEF CallUnanswered, ActiveCalls
    <3>5. CASE CallRejected(c)
      BY <3>5, CallerMovesTypes DEF CallRejected, EndedCalls
    <3>6. CASE ResultStored(c)
      BY <3>6, CallerMovesTypes DEF ResultStored, EndedCalls
    <3>7. CASE InsertRow(c)
      BY <3>0, <3>7, CallerMovesTypes DEF InsertRow, ActiveCalls
    <3>8. CASE InsertConflicts(c)
      BY <3>8, CallerMovesTypes DEF InsertConflicts, EndedCalls
    <3>9. CASE QueueAdd(c)
      <4>1. RequestsOK'
        BY <3>9, CallerMovesTypes DEF QueueAdd, EndedCalls
      <4>2. 0 \in 0..MaxStalledCount /\ caller[c].key \in Keys
        BY <3>9, BoundsAssumption DEF QueueAdd
      <4>3. jobs' \in [JobKinds -> Nat]
        BY <3>9, <4>2, AddJobTypes DEF QueueAdd
      <4> QED
        BY <3>9, <4>1, <4>3 DEF QueueAdd
    <3>10. CASE CallerFails(c)
      BY <3>10, CallerMovesTypes DEF CallerFails, EndedCalls, ActiveCalls
    <3> QED
      BY <2>1, <3>1, <3>2, <3>3, <3>4, <3>5, <3>6, <3>7, <3>8, <3>9, <3>10 DEF RequestStep
  <2>2. ASSUME NEW w \in Workers, WorkerStep(w) \/ Failure(w)
        PROVE  TypeOK'
    <3> USE DEF TypeOK, WorkerAt
    <3>1. ASSUME NEW k \in Keys, NEW stalled \in 0..MaxStalledCount, TakeJob(w, k, stalled)
          PROVE  TypeOK'
      <4>1. <<k, stalled>> \in JobKinds
        BY DEF JobKinds
      <4>2. jobs[<<k, stalled>>] - 1 \in Nat
        BY <3>1, <4>1 DEF TakeJob
      <4>3. jobs' \in [JobKinds -> Nat]
        BY <3>1, <4>1, <4>2 DEF TakeJob
      <4>4. SlotsOK'
        BY <3>1 DEF TakeJob, Slots, RunningStates
      <4> QED
        BY <3>1, <4>3, <4>4 DEF TakeJob
    <3>2. CASE FindRow(w)
      <4>1. worker[w].key \in Keys
        BY <3>2 DEF FindRow
      <4>2. row[worker[w].key].attempts \in Nat
        BY <4>1 DEF Rows
      <4>3. SlotsOK'
        BY <3>2, <4>2, ReleaseTypes DEF FindRow, Slots, RunningStates
      <4> QED
        BY <3>2, <4>3 DEF FindRow
    <3>3. CASE MarkProcessing(w)
      BY <3>3, WorkerMovesTypes DEF MarkProcessing, SetStatus, RunningStates, Rows, RowStatus
    <3>4. CASE ExecuteSucceeds(w)
      BY <3>4, WorkerMovesTypes DEF ExecuteSucceeds, RunningStates
    <3>5. CASE TryFails(w)
      BY <3>5, WorkerMovesTypes DEF TryFails, RunningStates
    <3>6. CASE ApplyResult(w)
      BY <3>6, WorkerMovesTypes DEF ApplyResult, RunningStates
    <3>7. CASE MarkDone(w)
      BY <3>7, ReleaseTypes DEF MarkDone, SetStatus, Rows, RowStatus
    <3>8. CASE MarkFailed(w)
      BY <3>8, ReleaseTypes DEF MarkFailed, SetStatus, Rows, RowStatus
    <3>9. CASE MarkPendingForRetry(w)
      <4>1. SlotsOK'
        BY <3>9, WorkerMovesTypes DEF MarkPendingForRetry, RunningStates
      <4>2. worker[w].attempts + 1 \in Nat
        BY DEF Slots
      <4>3. row' \in [Keys -> Rows]
        BY <3>9, <4>2 DEF MarkPendingForRetry, Rows, RowStatus
      <4> QED
        BY <3>9, <4>1, <4>3 DEF MarkPendingForRetry
    <3>10. CASE AddRetryJob(w)
      <4>1. 0 \in 0..MaxStalledCount /\ worker[w].key \in Keys
        BY <3>10, BoundsAssumption DEF AddRetryJob
      <4>2. jobs' \in [JobKinds -> Nat]
        BY <3>10, <4>1, AddJobTypes DEF AddRetryJob
      <4> QED
        BY <3>10, <4>2, ReleaseTypes DEF AddRetryJob
    <3>11. CASE JobFails(w)
      BY <3>11, ReleaseTypes DEF JobFails
    <3>12. ASSUME worker[w].pc \in RunningStates, ReturnStalledJob(w)
           PROVE  jobs' \in [JobKinds -> Nat] /\ stalls' \in Nat
      <4>1. worker[w].key \in Keys /\ worker[w].stalled \in 0..MaxStalledCount
        BY <3>12 DEF RunningStates, Slots
      <4>2. CASE worker[w].holds /\ worker[w].stalled < MaxStalledCount
        <5>1. worker[w].stalled + 1 \in 0..MaxStalledCount
          BY <4>1, <4>2, BoundsAssumption
        <5> QED
          BY <3>12, <4>1, <4>2, <5>1, AddJobTypes DEF ReturnStalledJob
      <4>3. CASE ~(worker[w].holds /\ worker[w].stalled < MaxStalledCount)
        BY <3>12, <4>3 DEF ReturnStalledJob
      <4> QED
        BY <4>2, <4>3
    <3>13. CASE WorkerCrashes(w)
      BY <3>12, <3>13, ReleaseTypes DEF WorkerCrashes
    <3>14. CASE LosesLock(w)
      <4>1. SlotsOK'
        BY <3>14 DEF LosesLock, Slots
      <4> QED
        BY <3>12, <3>14, <4>1 DEF LosesLock
    <3> QED
      BY <2>2, <3>1, <3>2, <3>3, <3>4, <3>5, <3>6, <3>7, <3>8, <3>9, <3>10, <3>11, <3>13, <3>14
      DEF WorkerStep, JobStep, Failure
  <2>3. CASE UNCHANGED vars
    BY <2>3 DEF TypeOK, vars
  <2> QED
    BY <2>1, <2>2, <2>3 DEF Next
<1> QED
  BY <1>1, <1>2, PTL DEF Spec

-----------------------------------------------------------------------------
(* A command is completed only after it was applied.  While a worker or a  *)
(* request runs, its position in the code says what has already happened   *)
(* to its key; effect and bridged never shrink, so nobody else undoes it.  *)

AppliedSoFar ==
  /\ \A w \in Workers :
       /\ worker[w].pc \in {"applying", "completing"} => worker[w].key \in effect
       /\ worker[w].pc = "completing" => worker[w].key \in bridged
  /\ \A c \in Callers \union Admins :
       /\ caller[c].pc \in {"applying", "ok"} => caller[c].key \in effect
       /\ caller[c].pc = "ok" => caller[c].key \in bridged

CompletionInv ==
  /\ AppliedSoFar
  /\ \A k \in Keys : row[k].status = "DONE" => k \in effect /\ k \in bridged

\* Every step of the program keeps that correspondence.
LEMMA CompletionInvariant == Spec => []CompletionInv
<1>1. Init => CompletionInv
  BY DEF Init, CompletionInv, AppliedSoFar, IdleWorker, IdleCaller, NoRow
<1>2. TypeOK /\ CompletionInv /\ [Next]_vars => CompletionInv'
  <2> SUFFICES ASSUME TypeOK, CompletionInv, [Next]_vars PROVE CompletionInv'
    OBVIOUS
  <2> USE DEF TypeOK, CompletionInv, AppliedSoFar, Rows
  <2>1. ASSUME NEW c \in Callers \union Admins, RequestStep(c)
        PROVE  CompletionInv'
    <3> USE DEF CallerAt, CallerMoves, Requests
    <3>1. ASSUME NEW k \in Keys, Submit(c, k)
          PROVE  CompletionInv'
      BY <3>1 DEF Submit
    <3>2. ASSUME NEW k \in Keys, ResetForReplay(c, k)
          PROVE  CompletionInv'
      BY <3>2 DEF ResetForReplay, FreshRow
    <3>3. CASE CallSucceeds(c)
      BY <3>3 DEF CallSucceeds
    <3>4. CASE CallUnanswered(c)
      BY <3>4 DEF CallUnanswered
    <3>5. CASE CallRejected(c)
      BY <3>5 DEF CallRejected
    <3>6. CASE ResultStored(c)
      BY <3>6 DEF ResultStored
    <3>7. CASE InsertRow(c)
      BY <3>7 DEF InsertRow, FreshRow
    <3>8. CASE InsertConflicts(c)
      BY <3>8 DEF InsertConflicts
    <3>9. CASE QueueAdd(c)
      BY <3>9 DEF QueueAdd
    <3>10. CASE CallerFails(c)
      BY <3>10 DEF CallerFails
    <3> QED
      BY <2>1, <3>1, <3>2, <3>3, <3>4, <3>5, <3>6, <3>7, <3>8, <3>9, <3>10 DEF RequestStep
  <2>2. ASSUME NEW w \in Workers, WorkerStep(w) \/ Failure(w)
        PROVE  CompletionInv'
    <3> USE DEF WorkerAt, WorkerMoves, Release, IdleWorker, SetStatus, Slots
    <3>1. ASSUME NEW k \in Keys, NEW stalled \in 0..MaxStalledCount, TakeJob(w, k, stalled)
          PROVE  CompletionInv'
      BY <3>1 DEF TakeJob
    <3>2. CASE FindRow(w)
      <4>1. \A v \in Workers : worker'[v].pc \in {"applying", "completing"} => worker'[v] = worker[v]
        BY <3>2 DEF FindRow
      <4> QED
        BY <3>2, <4>1 DEF FindRow
    <3>3. CASE MarkProcessing(w)
      BY <3>3 DEF MarkProcessing
    <3>4. CASE ExecuteSucceeds(w)
      BY <3>4 DEF ExecuteSucceeds
    <3>5. CASE TryFails(w)
      BY <3>5 DEF TryFails
    <3>6. CASE ApplyResult(w)
      BY <3>6 DEF ApplyResult
    <3>7. CASE MarkDone(w)
      BY <3>7 DEF MarkDone
    <3>8. CASE MarkFailed(w)
      BY <3>8 DEF MarkFailed
    <3>9. CASE MarkPendingForRetry(w)
      BY <3>9 DEF MarkPendingForRetry, Exhausted
    <3>10. CASE AddRetryJob(w)
      BY <3>10 DEF AddRetryJob
    <3>11. CASE JobFails(w)
      BY <3>11 DEF JobFails
    <3>12. CASE WorkerCrashes(w)
      BY <3>12 DEF WorkerCrashes
    <3>13. CASE LosesLock(w)
      BY <3>13 DEF LosesLock
    <3> QED
      BY <2>2, <3>1, <3>2, <3>3, <3>4, <3>5, <3>6, <3>7, <3>8, <3>9, <3>10, <3>11, <3>12, <3>13
      DEF WorkerStep, JobStep, Failure
  <2>3. CASE UNCHANGED vars
    BY <2>3 DEF vars
  <2> QED
    BY <2>1, <2>2, <2>3 DEF Next
<1> QED
  BY TypeCorrect, <1>1, <1>2, PTL DEF Spec

\* DONE rows and ok answers only for commands that finance has executed and
\* whose result is stored, in every interleaving and after every failure.
THEOREM CompletionSafe == Spec => []CompletionMeansApplied
<1>1. CompletionInv => CompletionMeansApplied
  BY DEF CompletionInv, AppliedSoFar, CompletionMeansApplied, CallerAt
<1> QED
  BY CompletionInvariant, <1>1, PTL

-----------------------------------------------------------------------------
(* No row is forgotten.  A step that leaves a row open hands it to someone *)
(* who attends to it: the insert and the reset to the request itself,      *)
(* markPendingForRetry to the worker that then adds a job, and a crash to  *)
(* the job that BullMQ returns.  The last step needs the crashed worker to *)
(* hold its job and the job to have a return left, hence the invariant     *)
(* that before the first stall every worker holds its job and no job has   *)
(* been returned.                                                          *)

HeldJobs ==
  stalls = 0 =>
    /\ \A w \in Workers : worker[w].pc # "idle" => worker[w].holds /\ worker[w].stalled = 0
    /\ \A k \in Keys, stalled \in 0..MaxStalledCount :
         jobs[<<k, stalled>>] > 0 => stalled = 0

Watched == HeldJobs /\ NoOrphanedRow
AttendedInv == faults = 0 /\ stalls <= 1 => Watched

\* Until the API fails or a second worker stalls no open row is forgotten, if
\* BullMQ returns a stalled job at least once.
THEOREM NeverOrphaned ==
  ASSUME MaxStalledCount >= 1
  PROVE  Spec => []OrphanedOnlyByFailure
<1>1. Init => AttendedInv
  BY BoundsAssumption DEF Init, AttendedInv, Watched, HeldJobs, NoOrphanedRow, Open, NoRow, IdleWorker, JobKinds
<1>2. TypeOK /\ AttendedInv /\ [Next]_vars => AttendedInv'
  <2> SUFFICES ASSUME TypeOK, AttendedInv, [Next]_vars, faults' = 0, stalls' <= 1
               PROVE  Watched'
    BY DEF AttendedInv
  <2>4. faults = 0 /\ stalls <= 1
    <3>1. faults \in Nat /\ stalls \in Nat
      BY DEF TypeOK
    <3>2. faults' \in {faults, faults + 1} /\ stalls' \in {stalls, stalls + 1}
      BY DEF Next, vars, RequestStep, WorkerStep, JobStep, Failure, Submit, ResetForReplay,
             CallSucceeds, CallUnanswered, CallRejected, ResultStored, InsertRow, InsertConflicts,
             QueueAdd, CallerFails, TakeJob, FindRow, MarkProcessing, ExecuteSucceeds, TryFails,
             ApplyResult, MarkDone, MarkFailed, MarkPendingForRetry, AddRetryJob, JobFails,
             WorkerCrashes, LosesLock, ReturnStalledJob
    <3> QED
      BY <3>1, <3>2
  <2>5. Watched
    BY <2>4 DEF AttendedInv
  <2> USE BoundsAssumption
  <2>0. 0 \in 0..MaxStalledCount
    OBVIOUS
  <2>1. ASSUME NEW c \in Callers \union Admins, RequestStep(c)
        PROVE  Watched'
    <3> USE DEF CallerAt, CallerMoves
    <3>1. ASSUME UNCHANGED <<row, jobs, worker, stalls, faults>>,
                 \A d \in Callers \union Admins : caller[d].pc = "adding" => caller'[d] = caller[d]
          PROVE  Watched'
      BY <2>5, <3>1 DEF Watched, HeldJobs, NoOrphanedRow, Open, Attended
    <3>2. ASSUME NEW k \in Keys,
                 \A j \in Keys : j # k => row'[j] = row[j],
                 UNCHANGED <<jobs, worker, stalls, faults>>,
                 caller'[c].pc = "adding" /\ caller'[c].key = k /\ caller[c].pc # "adding",
                 \A d \in Callers \union Admins : d # c => caller'[d] = caller[d]
          PROVE  Watched'
      <4>1. Attended(k)'
        BY <3>2 DEF Attended, TypeOK
      <4>2. ASSUME NEW j \in Keys, j # k, Open(j)'
            PROVE  Attended(j)'
        <5>1. Attended(j)
          BY <2>5, <3>2, <4>2 DEF Watched, NoOrphanedRow, Open
        <5> QED
          BY <3>2, <5>1 DEF Attended, TypeOK
      <4> QED
        BY <2>5, <3>2, <4>1, <4>2 DEF Watched, HeldJobs, NoOrphanedRow
    <3>3. ASSUME NEW k \in Keys, Submit(c, k)
          PROVE  Watched'
      BY <3>1, <3>3 DEF Submit, TypeOK
    <3>4. ASSUME NEW k \in Keys, ResetForReplay(c, k)
          PROVE  Watched'
      BY <3>2, <3>4 DEF ResetForReplay, TypeOK
    <3>5. CASE CallSucceeds(c)
      BY <3>1, <3>5 DEF CallSucceeds, TypeOK
    <3>6. CASE CallUnanswered(c)
      BY <3>1, <3>6 DEF CallUnanswered, TypeOK
    <3>7. CASE CallRejected(c)
      BY <3>1, <3>7 DEF CallRejected, TypeOK
    <3>8. CASE ResultStored(c)
      BY <3>1, <3>8 DEF ResultStored, TypeOK
    <3>9. CASE InsertRow(c)
      <4>1. caller[c].key \in Keys
        BY <3>9 DEF InsertRow, TypeOK
      <4> QED
        BY <3>2, <3>9, <4>1 DEF InsertRow, TypeOK, Requests
    <3>10. CASE InsertConflicts(c)
      BY <3>1, <3>10 DEF InsertConflicts, TypeOK
    <3>11. CASE QueueAdd(c)
      <4> DEFINE k == caller[c].key
      <4>1. k \in Keys
        BY <3>11 DEF QueueAdd, TypeOK
      <4>2. /\ jobs' = [jobs EXCEPT ![<<k, 0>>] = @ + 1]
            /\ \A j \in JobKinds : jobs[j] > 0 => jobs'[j] > 0
            /\ jobs'[<<k, 0>>] > 0
            /\ \A j \in Keys, s \in 0..MaxStalledCount :
                 j # k \/ s # 0 => jobs'[<<j, s>>] = jobs[<<j, s>>]
        BY <2>0, <3>11, <4>1 DEF QueueAdd, AddJob, JobKinds, TypeOK
      <4>3. HeldJobs'
        BY <2>5, <3>11, <4>2 DEF QueueAdd, Watched, HeldJobs
      <4>4. ASSUME NEW j \in Keys, Open(j)'
            PROVE  Attended(j)'
        <5>1. CASE j = k
          BY <2>0, <4>2, <5>1 DEF Attended
        <5>2. CASE j # k
          <6>1. Attended(j)
            BY <2>5, <3>11, <4>4 DEF QueueAdd, Watched, NoOrphanedRow, Open
          <6> QED
            BY <3>11, <4>2, <5>2, <6>1 DEF QueueAdd, Attended, TypeOK, JobKinds
        <5> QED
          BY <5>1, <5>2
      <4> QED
        BY <2>5, <4>3, <4>4 DEF Watched, NoOrphanedRow
    <3>12. CASE CallerFails(c)
      BY <2>4, <3>12 DEF CallerFails
    <3> QED
      BY <2>1, <3>3, <3>4, <3>5, <3>6, <3>7, <3>8, <3>9, <3>10, <3>11, <3>12 DEF RequestStep
  <2>2. ASSUME NEW w \in Workers, WorkerStep(w) \/ Failure(w)
        PROVE  Watched'
    <3> USE DEF CallerAt, WorkerAt, WorkerMoves, Release, IdleWorker, SetStatus
    (* A step inside the job of w: w goes on attending to its row.         *)
    <3>1. ASSUME NEW k \in Keys, worker[w].key = k, worker[w].pc # "idle",
                 worker'[w].pc # "idle", worker'[w].key = k,
                 worker'[w].holds = worker[w].holds, worker'[w].stalled = worker[w].stalled,
                 \A v \in Workers : v # w => worker'[v] = worker[v],
                 \A j \in Keys : j # k => row'[j] = row[j],
                 UNCHANGED <<jobs, caller, stalls, faults>>
          PROVE  Watched'
      <4>1. HeldJobs'
        BY <2>5, <3>1 DEF Watched, HeldJobs
      <4>2. ASSUME NEW j \in Keys, Open(j)'
            PROVE  Attended(j)'
        <5>1. CASE j = k
          BY <3>1, <5>1 DEF Attended
        <5>2. CASE j # k
          <6>1. Attended(j)
            BY <2>5, <3>1, <4>2, <5>2 DEF Watched, NoOrphanedRow, Open
          <6> QED
            BY <3>1, <5>2, <6>1 DEF Attended
        <5> QED
          BY <5>1, <5>2
      <4> QED
        BY <2>5, <4>1, <4>2 DEF Watched, NoOrphanedRow
    (* The last step of a job that leaves its row closed.                  *)
    <3>2. ASSUME NEW k \in Keys, worker[w].key = k, worker'[w] = IdleWorker,
                 row'[k].status \in {"NONE", "DONE", "FAILED"},
                 \A v \in Workers : v # w => worker'[v] = worker[v],
                 \A j \in Keys : j # k => row'[j] = row[j],
                 UNCHANGED <<jobs, caller, stalls, faults>>
          PROVE  Watched'
      <4>1. HeldJobs'
        BY <2>5, <3>2 DEF Watched, HeldJobs
      <4>2. ASSUME NEW j \in Keys, Open(j)'
            PROVE  Attended(j)'
        <5>1. j # k
          BY <3>2, <4>2 DEF Open
        <5>2. Attended(j)
          BY <2>5, <3>2, <4>2, <5>1 DEF Watched, NoOrphanedRow, Open
        <5> QED
          BY <3>2, <5>1, <5>2 DEF Attended
      <4> QED
        BY <2>5, <4>1, <4>2 DEF Watched, NoOrphanedRow
    (* A job for the row of w is put on the queue.                         *)
    <3>3. ASSUME NEW k \in Keys, NEW s \in 0..MaxStalledCount, AddJob(k, s),
                 worker[w].key = k \/ worker'[w] = worker[w],
                 \A v \in Workers : v # w => worker'[v] = worker[v],
                 UNCHANGED <<row, caller>>,
                 NEW j \in Keys, Open(j)'
          PROVE  Attended(j)'
      <4>1. /\ jobs'[<<k, s>>] > 0
            /\ \A t \in 0..MaxStalledCount : j # k => jobs'[<<j, t>>] = jobs[<<j, t>>]
        BY <3>3 DEF AddJob, JobKinds, TypeOK
      <4>2. CASE j = k
        BY <4>1, <4>2 DEF Attended
      <4>3. CASE j # k
        <5>1. Attended(j)
          BY <2>5, <3>3 DEF Watched, NoOrphanedRow, Open
        <5> QED
          BY <3>3, <4>1, <4>3, <5>1 DEF Attended
      <4> QED
        BY <4>2, <4>3
    <3>4. ASSUME NEW k \in Keys, NEW stalled \in 0..MaxStalledCount, TakeJob(w, k, stalled)
          PROVE  Watched'
      <4>1. <<k, stalled>> \in JobKinds /\ jobs[<<k, stalled>>] \in Nat
        BY DEF JobKinds, TypeOK
      <4>2. /\ \A j \in Keys, s \in 0..MaxStalledCount :
                 jobs'[<<j, s>>] > 0 => jobs[<<j, s>>] > 0
            /\ \A j \in Keys, s \in 0..MaxStalledCount :
                 j # k => jobs'[<<j, s>>] = jobs[<<j, s>>]
        BY <3>4, <4>1 DEF TakeJob, TypeOK, JobKinds
      <4>3. worker'[w].pc = "finding" /\ worker'[w].key = k /\ worker'[w].holds
            /\ worker'[w].stalled = stalled /\ \A v \in Workers : v # w => worker'[v] = worker[v]
        BY <3>4 DEF TakeJob, TypeOK
      <4>4. HeldJobs'
        BY <2>5, <3>4, <4>2, <4>3 DEF TakeJob, Watched, HeldJobs
      <4>5. ASSUME NEW j \in Keys, Open(j)'
            PROVE  Attended(j)'
        <5>1. CASE j = k
          BY <4>3, <5>1 DEF Attended
        <5>2. CASE j # k
          <6>1. Attended(j)
            BY <2>5, <3>4, <4>5 DEF TakeJob, Watched, NoOrphanedRow, Open
          <6> QED
            BY <3>4, <4>2, <4>3, <5>2, <6>1 DEF TakeJob, Attended
        <5> QED
          BY <5>1, <5>2
      <4> QED
        BY <2>5, <4>4, <4>5 DEF Watched, NoOrphanedRow
    <3>5. CASE FindRow(w)
      <4>1. worker[w].key \in Keys
        BY <3>5 DEF FindRow, TypeOK
      <4>2. CASE row[worker[w].key].status \in {"NONE", "DONE"}
        BY <3>2, <3>5, <4>1, <4>2 DEF FindRow, TypeOK
      <4>3. CASE row[worker[w].key].status \notin {"NONE", "DONE"}
        BY <3>1, <3>5, <4>1, <4>3 DEF FindRow, TypeOK, Slots
      <4> QED
        BY <4>2, <4>3
    <3>6. CASE MarkProcessing(w)
      BY <3>1, <3>6 DEF MarkProcessing, TypeOK, Slots
    <3>7. CASE ExecuteSucceeds(w)
      BY <3>1, <3>7 DEF ExecuteSucceeds, TypeOK, Slots
    <3>8. CASE TryFails(w)
      BY <3>1, <3>8 DEF TryFails, TypeOK, Slots
    <3>9. CASE ApplyResult(w)
      BY <3>1, <3>9 DEF ApplyResult, TypeOK, Slots
    <3>10. CASE MarkDone(w)
      BY <3>2, <3>10 DEF MarkDone, TypeOK, Rows
    <3>11. CASE MarkFailed(w)
      BY <3>2, <3>11 DEF MarkFailed, TypeOK, Rows
    <3>12. CASE MarkPendingForRetry(w)
      BY <3>1, <3>12 DEF MarkPendingForRetry, TypeOK, Slots
    <3>13. CASE AddRetryJob(w)
      <4>1. worker[w].key \in Keys
        BY <3>13 DEF AddRetryJob, TypeOK
      <4>2. \A j \in Keys : Open(j)' => Attended(j)'
        BY <2>0, <3>3, <3>13, <4>1 DEF AddRetryJob, TypeOK
      <4>3. \A j \in Keys, s \in 0..MaxStalledCount :
              jobs'[<<j, s>>] > 0 => s = 0 \/ jobs[<<j, s>>] > 0
        BY <2>0, <3>13, <4>1 DEF AddRetryJob, AddJob, TypeOK, JobKinds
      <4>4. HeldJobs'
        BY <2>5, <3>13, <4>3 DEF AddRetryJob, Watched, HeldJobs, TypeOK
      <4> QED
        BY <2>5, <4>2, <4>4 DEF Watched, NoOrphanedRow
    <3>14. CASE JobFails(w)
      BY <2>4, <3>14 DEF JobFails
    <3>15. ASSUME worker[w].pc \in RunningStates, ReturnStalledJob(w)
           PROVE  /\ stalls = 0 /\ stalls' = 1
                  /\ worker[w].key \in Keys
                  /\ AddJob(worker[w].key, 1) /\ 1 \in 0..MaxStalledCount
      <4>1. worker[w].pc # "idle" /\ stalls \in Nat
        BY <3>15 DEF RunningStates, TypeOK
      <4>2. stalls = 0 /\ stalls' = 1
        BY <2>4, <3>15, <4>1 DEF ReturnStalledJob
      <4>3. worker[w].holds /\ worker[w].stalled = 0
        BY <2>5, <4>1, <4>2 DEF Watched, HeldJobs
      <4> QED
        BY <3>15, <4>1, <4>2, <4>3 DEF ReturnStalledJob, TypeOK
    <3>16. CASE WorkerCrashes(w)
      <4>1. HeldJobs'
        BY <2>5, <3>15, <3>16 DEF WorkerCrashes, Watched, HeldJobs
      <4>2. \A j \in Keys : Open(j)' => Attended(j)'
        BY <3>3, <3>15, <3>16 DEF WorkerCrashes, TypeOK
      <4> QED
        BY <2>5, <4>1, <4>2 DEF Watched, NoOrphanedRow
    <3>17. CASE LosesLock(w)
      <4>1. HeldJobs'
        BY <2>5, <3>15, <3>17 DEF LosesLock, Watched, HeldJobs
      <4>2. \A j \in Keys : Open(j)' => Attended(j)'
        BY <3>3, <3>15, <3>17 DEF LosesLock, TypeOK
      <4> QED
        BY <2>5, <4>1, <4>2 DEF Watched, NoOrphanedRow
    <3> QED
      BY <2>2, <3>4, <3>5, <3>6, <3>7, <3>8, <3>9, <3>10, <3>11, <3>12, <3>13, <3>14, <3>16, <3>17
      DEF WorkerStep, JobStep, Failure
  <2>3. CASE UNCHANGED vars
    <3>1. UNCHANGED <<row, jobs, worker, caller, faults, stalls>>
      BY <2>3 DEF vars
    <3>2. HeldJobs'
      BY <2>5, <3>1 DEF Watched, HeldJobs
    <3>3. NoOrphanedRow'
      BY <2>5, <3>1 DEF Watched, NoOrphanedRow, Open, Attended, CallerAt
    <3> QED
      BY <2>5, <3>2, <3>3 DEF Watched
  <2> QED
    BY <2>1, <2>2, <2>3 DEF Next
<1>3. AttendedInv => OrphanedOnlyByFailure
  BY DEF AttendedInv, Watched, OrphanedOnlyByFailure
<1> QED
  BY TypeCorrect, <1>1, <1>2, <1>3, PTL DEF Spec

-----------------------------------------------------------------------------
(* The retry budget.  tries counts the failed executions; the count in the *)
(* row, and the one a worker carries from findById to handleFailure, never *)
(* run ahead of it, whichever of two workers writes last, and stay below   *)
(* MaxAttempts: that tries stops at MaxTries is not felt.                  *)

Counted ==
  /\ \A k \in Keys : row[k].attempts <= tries[k] /\ row[k].attempts < MaxAttempts
  /\ \A w \in Workers :
       /\ worker[w].attempts < MaxAttempts
       /\ worker[w].pc \in {"marking", "executing", "applying", "completing"} =>
            worker[w].attempts <= tries[worker[w].key]
       /\ worker[w].pc = "failing" => worker[w].attempts < tries[worker[w].key]
  /\ \A k \in Keys : row[k].status = "FAILED" => tries[k] >= MaxAttempts

BudgetInv == NothingReplayed => Counted

\* A request that has begun does not become idle again, so a replay is not undone.
LEMMA ReplaysStay ==
  ASSUME TypeOK, [Next]_vars, NothingReplayed'
  PROVE  NothingReplayed
<1>1. ASSUME NEW c \in Callers \union Admins, RequestStep(c)
      PROVE  \A a \in Callers \union Admins : caller'[a].pc = "idle" => caller[a].pc = "idle"
  <2>1. \E r : r.pc # "idle" /\ caller' = [caller EXCEPT ![c] = r]
    <3>1. ASSUME NEW pc \in ActiveCalls \union EndedCalls, CallerMoves(c, pc)
          PROVE  \E r : r.pc # "idle" /\ caller' = [caller EXCEPT ![c] = r]
      <4>1. caller' = [caller EXCEPT ![c] = [caller[c] EXCEPT !.pc = pc]]
        BY <3>1 DEF CallerMoves
      <4>2. [caller[c] EXCEPT !.pc = pc].pc # "idle"
        BY DEF TypeOK, Requests, ActiveCalls, EndedCalls
      <4> QED
        BY <4>1, <4>2
    <3> QED
      BY <1>1, <3>1
      DEF RequestStep, Submit, ResetForReplay, CallSucceeds, CallUnanswered, CallRejected,
          ResultStored, InsertRow, InsertConflicts, QueueAdd, CallerFails, ActiveCalls, EndedCalls
  <2> QED
    BY <2>1 DEF TypeOK
<1>2. ASSUME NEW w \in Workers, WorkerStep(w) \/ Failure(w)
      PROVE  UNCHANGED caller
  BY <1>2
  DEF WorkerStep, JobStep, Failure, TakeJob, FindRow, MarkProcessing, ExecuteSucceeds, TryFails,
      ApplyResult, MarkDone, MarkFailed, MarkPendingForRetry, AddRetryJob, JobFails,
      WorkerCrashes, LosesLock
<1>3. \A a \in Admins : caller'[a].pc = "idle" => caller[a].pc = "idle"
  BY <1>1, <1>2 DEF Next, vars
<1> QED
  BY <1>3 DEF NothingReplayed, CallerAt

\* Until somebody replays a row, rows are given up only after MaxAttempts
\* failed executions (a replay resets the count of a row under a worker that
\* still holds the old one).
THEOREM FailedOnlyAfterBudget == Spec => []FullRetryBudget
<1>1. Init => BudgetInv
  BY MaxAttemptsAssumption DEF Init, BudgetInv, Counted, IdleWorker, NoRow
<1>2. TypeOK /\ BudgetInv /\ [Next]_vars => BudgetInv'
  <2> SUFFICES ASSUME TypeOK, BudgetInv, [Next]_vars, NothingReplayed' PROVE Counted'
    BY DEF BudgetInv
  <2>5. Counted
    BY ReplaysStay DEF BudgetInv
  <2> USE <2>5, MaxAttemptsAssumption DEF TypeOK, Counted, Rows, Slots
  <2>1. ASSUME NEW c \in Callers \union Admins, RequestStep(c)
        PROVE  Counted'
    <3>1. ASSUME UNCHANGED <<row, worker, tries>>
          PROVE  Counted'
      BY <3>1
    <3>2. CASE InsertRow(c)
      BY <3>2 DEF InsertRow, FreshRow, CallerAt
    <3>3. ASSUME NEW k \in Keys, ResetForReplay(c, k)
          PROVE  FALSE
      BY <3>3 DEF ResetForReplay, NothingReplayed, CallerAt
    <3> QED
      BY <2>1, <3>1, <3>2, <3>3
      DEF RequestStep, Submit, CallSucceeds, CallUnanswered, CallRejected,
          ResultStored, InsertConflicts, QueueAdd, CallerFails
  <2>2. ASSUME NEW w \in Workers, WorkerStep(w) \/ Failure(w)
        PROVE  Counted'
    <3> USE DEF WorkerAt, WorkerMoves, Release, IdleWorker, SetStatus
    <3>1. ASSUME NEW k \in Keys, NEW stalled \in 0..MaxStalledCount, TakeJob(w, k, stalled)
          PROVE  Counted'
      BY <3>1 DEF TakeJob
    <3>2. CASE FindRow(w)
      <4>1. CASE Release(w)
        BY <3>2, <4>1 DEF FindRow
      <4>2. CASE worker' = [worker EXCEPT ![w].pc = "marking",
                                          ![w].attempts = row[worker[w].key].attempts]
        BY <3>2, <4>2 DEF FindRow
      <4> QED
        BY <3>2, <4>1, <4>2 DEF FindRow
    <3>3. CASE MarkProcessing(w)
      BY <3>3 DEF MarkProcessing
    <3>4. CASE ExecuteSucceeds(w)
      BY <3>4 DEF ExecuteSucceeds
    <3>5. CASE TryFails(w)
      <4> DEFINE k == worker[w].key
      <4>1. /\ k \in Keys /\ tries' = [tries EXCEPT ![k] = IF @ < MaxTries THEN @ + 1 ELSE @]
            /\ worker[w].attempts <= tries[k] /\ worker[w].attempts < MaxAttempts
        BY <3>5 DEF TryFails
      <4>2. /\ \A j \in Keys : tries'[j] \in Nat /\ tries'[j] >= tries[j]
            /\ worker[w].attempts < tries'[k]
        BY <4>1, BoundsAssumption
      <4>3. UNCHANGED row /\ worker' = [worker EXCEPT ![w].pc = "failing"]
        BY <3>5 DEF TryFails
      <4> QED
        BY <4>1, <4>2, <4>3
    <3>6. CASE ApplyResult(w)
      BY <3>6 DEF ApplyResult
    <3>7. CASE MarkDone(w)
      BY <3>7 DEF MarkDone
    <3>8. CASE MarkFailed(w)
      BY <3>8 DEF MarkFailed, Exhausted
    <3>9. CASE MarkPendingForRetry(w)
      BY <3>9 DEF MarkPendingForRetry, Exhausted
    <3>10. CASE AddRetryJob(w)
      BY <3>10 DEF AddRetryJob
    <3>11. CASE JobFails(w)
      BY <3>11 DEF JobFails
    <3>12. CASE WorkerCrashes(w)
      BY <3>12 DEF WorkerCrashes
    <3>13. CASE LosesLock(w)
      BY <3>13 DEF LosesLock
    <3> QED
      BY <2>2, <3>1, <3>2, <3>3, <3>4, <3>5, <3>6, <3>7, <3>8, <3>9, <3>10, <3>11, <3>12, <3>13
      DEF WorkerStep, JobStep, Failure
  <2>3. CASE UNCHANGED vars
    BY <2>3 DEF vars
  <2> QED
    BY <2>1, <2>2, <2>3 DEF Next
<1>3. BudgetInv => FullRetryBudget
  BY DEF BudgetInv, Counted, FullRetryBudget
<1> QED
  BY TypeCorrect, <1>1, <1>2, <1>3, PTL DEF Spec

-----------------------------------------------------------------------------
(* The outbox implements the safety part of CommandDelivery.               *)

\* A job, a worker or a request about to add a job only exists for a row that
\* has been stored.
StoredInv ==
  /\ \A k \in Keys, stalled \in 0..MaxStalledCount :
       jobs[<<k, stalled>>] > 0 => row[k].status # "NONE"
  /\ \A w \in Workers : worker[w].pc # "idle" => row[worker[w].key].status # "NONE"
  /\ \A c \in Callers \union Admins :
       caller[c].pc = "adding" => row[caller[c].key].status # "NONE"

\* Rows are never removed and jobs only follow rows.
LEMMA StoredInvariant == Spec => []StoredInv
<1>1. Init => StoredInv
  BY DEF Init, StoredInv, IdleWorker, IdleCaller, JobKinds
<1>2. TypeOK /\ StoredInv /\ [Next]_vars => StoredInv'
  <2> SUFFICES ASSUME TypeOK, StoredInv, [Next]_vars PROVE StoredInv'
    OBVIOUS
  <2> USE BoundsAssumption DEF StoredInv
  <2>0. ASSUME NEW k \in Keys, NEW s \in 0..MaxStalledCount, row[k].status # "NONE", AddJob(k, s)
        PROVE  \A j \in Keys, t \in 0..MaxStalledCount :
                 jobs'[<<j, t>>] > 0 => row[j].status # "NONE"
    <3> SUFFICES ASSUME NEW j \in Keys, NEW t \in 0..MaxStalledCount, jobs'[<<j, t>>] > 0
                 PROVE  row[j].status # "NONE"
      OBVIOUS
    <3>1. CASE j = k
      BY <2>0, <3>1
    <3>2. CASE j # k
      BY <2>0, <3>2 DEF AddJob, JobKinds, TypeOK
    <3> QED
      BY <3>1, <3>2
  <2>1. ASSUME NEW c \in Callers \union Admins, RequestStep(c)
        PROVE  StoredInv'
    <3> USE DEF CallerAt, CallerMoves, TypeOK, Rows
    <3>1. ASSUME NEW k \in Keys, Submit(c, k)
          PROVE  StoredInv'
      BY <3>1 DEF Submit
    <3>2. ASSUME NEW k \in Keys, ResetForReplay(c, k)
          PROVE  StoredInv'
      BY <3>2 DEF ResetForReplay, FreshRow
    <3>3. CASE InsertRow(c)
      BY <3>3 DEF InsertRow, FreshRow
    <3>4. CASE QueueAdd(c)
      <4>1. caller[c].key \in Keys /\ row[caller[c].key].status # "NONE" /\ 0 \in 0..MaxStalledCount
        BY <3>4 DEF QueueAdd
      <4>2. \A j \in Keys, t \in 0..MaxStalledCount :
              jobs'[<<j, t>>] > 0 => row[j].status # "NONE"
        BY <2>0, <3>4, <4>1 DEF QueueAdd
      <4> QED
        BY <3>4, <4>2 DEF QueueAdd
    <3>5. CASE CallSucceeds(c) \/ CallUnanswered(c) \/ CallRejected(c) \/ ResultStored(c)
               \/ InsertConflicts(c) \/ CallerFails(c)
      <4>1. /\ UNCHANGED <<row, jobs, worker>>
            /\ \E pc \in {"applying", "inserting", "failed", "ok"} :
                 caller' = [caller EXCEPT ![c].pc = pc]
        BY <3>5 DEF CallSucceeds, CallUnanswered, CallRejected, ResultStored, InsertConflicts,
                    CallerFails
      <4> QED
        BY <4>1
    <3> QED
      BY <2>1, <3>1, <3>2, <3>3, <3>4, <3>5 DEF RequestStep
  <2>2. ASSUME NEW w \in Workers, WorkerStep(w) \/ Failure(w)
        PROVE  StoredInv'
    <3> USE DEF WorkerAt, WorkerMoves, Release, IdleWorker, SetStatus, TypeOK, Rows, Slots
    <3>1. ASSUME NEW k \in Keys, NEW stalled \in 0..MaxStalledCount, TakeJob(w, k, stalled)
          PROVE  StoredInv'
      <4>1. \A j \in JobKinds : jobs'[j] > 0 => jobs[j] > 0
        BY <3>1 DEF TakeJob, JobKinds
      <4> QED
        BY <3>1, <4>1 DEF TakeJob, JobKinds
    <3>2. CASE FindRow(w) \/ JobFails(w)
      BY <3>2 DEF FindRow, JobFails
    <3>3. CASE ExecuteSucceeds(w) \/ TryFails(w) \/ ApplyResult(w)
      <4>1. /\ UNCHANGED <<row, jobs, caller>> /\ worker[w].pc # "idle"
            /\ \E pc \in {"applying", "completing", "failing"} :
                 worker' = [worker EXCEPT ![w].pc = pc]
        BY <3>3 DEF ExecuteSucceeds, TryFails, ApplyResult
      <4>2. \A v \in Workers : worker'[v].pc # "idle" =>
              worker[v].pc # "idle" /\ worker'[v].key = worker[v].key /\ worker[v].key \in Keys
        BY <4>1
      <4>3. UNCHANGED <<row, jobs, caller>>
        BY <4>1
      <4> QED
        BY <4>2, <4>3
    <3>4. CASE MarkProcessing(w) \/ MarkDone(w) \/ MarkFailed(w)
      <4>1. /\ UNCHANGED <<jobs, caller>>
            /\ \A k \in Keys : row'[k].status = "NONE" => row[k].status = "NONE"
        <5>1. UNCHANGED <<jobs, caller>>
          BY <3>4 DEF MarkProcessing, MarkDone, MarkFailed
        <5>2. \E status \in {"PROCESSING", "DONE", "FAILED"} :
                row' = [row EXCEPT ![worker[w].key].status = status]
          BY <3>4 DEF MarkProcessing, MarkDone, MarkFailed
        <5> QED
          BY <5>1, <5>2
      <4>2. \/ worker' = [worker EXCEPT ![w] = IdleWorker]
            \/ worker' = [worker EXCEPT ![w].pc = "executing"] /\ worker[w].pc # "idle"
        BY <3>4 DEF MarkProcessing, MarkDone, MarkFailed
      <4>3. \A v \in Workers : worker'[v].pc # "idle" =>
              worker[v].pc # "idle" /\ worker'[v].key = worker[v].key /\ worker[v].key \in Keys
        BY <4>2
      <4> QED
        BY <4>1, <4>3
    <3>5. CASE MarkPendingForRetry(w)
      BY <3>5 DEF MarkPendingForRetry
    <3>6. CASE AddRetryJob(w)
      <4>1. worker[w].key \in Keys /\ row[worker[w].key].status # "NONE" /\ 0 \in 0..MaxStalledCount
        BY <3>6 DEF AddRetryJob
      <4>2. \A j \in Keys, t \in 0..MaxStalledCount :
              jobs'[<<j, t>>] > 0 => row[j].status # "NONE"
        BY <2>0, <3>6, <4>1 DEF AddRetryJob
      <4> QED
        BY <3>6, <4>2 DEF AddRetryJob
    <3>7. ASSUME worker[w].pc \in RunningStates, ReturnStalledJob(w), row' = row
          PROVE  \A j \in Keys, t \in 0..MaxStalledCount :
                   jobs'[<<j, t>>] > 0 => row'[j].status # "NONE"
      <4>1. worker[w].key \in Keys /\ row[worker[w].key].status # "NONE"
        BY <3>7 DEF RunningStates
      <4>2. CASE worker[w].holds /\ worker[w].stalled < MaxStalledCount
        <5>1. worker[w].stalled + 1 \in 0..MaxStalledCount
          BY <4>2
        <5>2. AddJob(worker[w].key, worker[w].stalled + 1)
          BY <3>7, <4>2 DEF ReturnStalledJob
        <5> QED
          BY <2>0, <3>7, <4>1, <5>1, <5>2
      <4>3. CASE ~(worker[w].holds /\ worker[w].stalled < MaxStalledCount)
        BY <3>7, <4>3 DEF ReturnStalledJob
      <4> QED
        BY <4>2, <4>3
    <3>8. CASE WorkerCrashes(w)
      BY <3>7, <3>8 DEF WorkerCrashes
    <3>9. CASE LosesLock(w)
      BY <3>7, <3>9 DEF LosesLock
    <3> QED
      BY <2>2, <3>1, <3>2, <3>3, <3>4, <3>5, <3>6, <3>8, <3>9 DEF WorkerStep, JobStep, Failure
  <2>3. CASE UNCHANGED vars
    BY <2>3 DEF vars
  <2> QED
    BY <2>1, <2>2, <2>3 DEF Next
<1> QED
  BY TypeCorrect, <1>1, <1>2, PTL DEF Spec

phaseOf == [k \in Keys |-> Phase(k)]

\* Storing, retrying, replaying, finishing and giving up a row are the steps
\* Accept, Settle and Abandon of the abstract delivery, gRPC calls are its
\* TakeEffect, and every other step of the program is invisible to it.
THEOREM ImplementsDelivery == Spec => DeliverySafeSpec
<1>1. Init => Delivery!Init
  BY DEF Init, Delivery!Init, Phase, NoRow
<1>2. /\ TypeOK /\ TypeOK' /\ CompletionInv /\ StoredInv /\ [Next]_vars
      => [Delivery!Next]_(Delivery!dvars)
  <2> SUFFICES ASSUME TypeOK, TypeOK', CompletionInv, StoredInv, [Next]_vars
               PROVE  Delivery!Next \/ UNCHANGED <<effect, phaseOf>>
    BY DEF Delivery!dvars, phaseOf
  <2> USE DEF TypeOK, Rows
  <2>1. ASSUME NEW k \in Keys, UNCHANGED row, effect' = effect \union {k}
        PROVE  Delivery!Next
    BY <2>1 DEF Delivery!Next, Delivery!TakeEffect, Phase
  <2>2. ASSUME UNCHANGED <<row, effect>>
        PROVE  UNCHANGED <<effect, phaseOf>>
    BY <2>2 DEF phaseOf, Phase
  <2>3. ASSUME NEW k \in Keys, UNCHANGED effect, \A j \in Keys \ {k} : row'[j] = row[j],
               \/ row'[k].status \in {"PENDING", "PROCESSING"}
               \/ row'[k].status = "DONE" /\ row[k].status # "NONE" /\ k \in effect
               \/ row'[k].status = "FAILED" /\ row[k].status # "NONE"
        PROVE  Delivery!Next
    <3>1. phaseOf' = [phaseOf EXCEPT ![k] = Phase(k)']
      BY <2>3 DEF phaseOf, Phase
    <3>2. \/ Phase(k)' = "accepted"
          \/ Phase(k)' = "settled" /\ Phase(k) # "unknown" /\ k \in effect
          \/ Phase(k)' = "abandoned" /\ Phase(k) # "unknown"
      BY <2>3 DEF Phase, RowStatus
    <3> QED
      BY <2>3, <3>1, <3>2
      DEF phaseOf, Delivery!Next, Delivery!Accept, Delivery!Settle, Delivery!Abandon
  <2>4. ASSUME NEW c \in Callers \union Admins, RequestStep(c)
        PROVE  Delivery!Next \/ UNCHANGED <<effect, phaseOf>>
    <3> USE DEF CallerAt
    <3>1. ASSUME NEW k \in Keys, ResetForReplay(c, k)
          PROVE  Delivery!Next
      BY <2>3, <3>1 DEF ResetForReplay, FreshRow
    <3>2. CASE InsertRow(c)
      <4>1. caller[c].key \in Keys
        BY <3>2 DEF InsertRow
      <4> QED
        BY <2>3, <3>2, <4>1 DEF InsertRow, FreshRow
    <3>3. CASE CallSucceeds(c) \/ CallUnanswered(c)
      <4>1. caller[c].key \in Keys
        BY <3>3 DEF CallSucceeds, CallUnanswered
      <4> QED
        BY <2>1, <2>2, <3>3, <4>1 DEF CallSucceeds, CallUnanswered
    <3> QED
      BY <2>2, <2>4, <3>1, <3>2, <3>3
      DEF RequestStep, Submit, CallRejected, ResultStored, InsertConflicts, QueueAdd, CallerFails
  <2>5. ASSUME NEW w \in Workers, WorkerStep(w) \/ Failure(w)
        PROVE  Delivery!Next \/ UNCHANGED <<effect, phaseOf>>
    <3> USE DEF WorkerAt, SetStatus, Slots
    <3>1. worker[w].pc # "idle" => worker[w].key \in Keys /\ row[worker[w].key].status # "NONE"
      BY DEF StoredInv
    <3>2. CASE MarkProcessing(w)
      BY <2>3, <3>1, <3>2 DEF MarkProcessing
    <3>3. CASE MarkDone(w)
      BY <2>3, <3>1, <3>3 DEF MarkDone, CompletionInv, AppliedSoFar
    <3>4. CASE MarkFailed(w)
      BY <2>3, <3>1, <3>4 DEF MarkFailed
    <3>5. CASE MarkPendingForRetry(w)
      BY <2>3, <3>1, <3>5 DEF MarkPendingForRetry
    <3>6. CASE ExecuteSucceeds(w)
      BY <2>1, <3>1, <3>6 DEF ExecuteSucceeds
    <3>7. CASE TryFails(w)
      BY <2>1, <2>2, <3>1, <3>7 DEF TryFails
    <3> QED
      BY <2>2, <2>5, <3>2, <3>3, <3>4, <3>5, <3>6, <3>7
      DEF WorkerStep, JobStep, Failure, TakeJob, FindRow, ApplyResult, AddRetryJob, JobFails,
          WorkerCrashes, LosesLock
  <2> QED
    BY <2>2, <2>4, <2>5 DEF Next, vars
<1> QED
  BY TypeCorrect, CompletionInvariant, StoredInvariant, <1>1, <1>2, PTL
  DEF Spec, DeliverySafeSpec, Delivery!SafeSpec

-----------------------------------------------------------------------------
(* One worker for a row.  Until a stall or a replay there is one token for *)
(* each row: a request that is about to add its job, the waiting job, or   *)
(* the worker that runs it.  The insert makes the token, since the unique  *)
(* index lets one request through; each other step hands it on or drops it.*)

Runs(w, k) == worker[w].pc # "idle" /\ worker[w].key = k
Adds(c, k) == caller[c].pc = "adding" /\ caller[c].key = k

OneToken(k) ==
  /\ \A stalled \in 0..MaxStalledCount :
       jobs[<<k, stalled>>] > 0 => stalled = 0 /\ jobs[<<k, stalled>>] = 1
  /\ jobs[<<k, 0>>] > 0 => /\ \A w \in Workers : ~Runs(w, k)
                           /\ \A c \in Callers \union Admins : ~Adds(c, k)
  /\ \A w \in Workers : Runs(w, k) => \A c \in Callers \union Admins : ~Adds(c, k)
  /\ \A v, w \in Workers : Runs(v, k) /\ Runs(w, k) => v = w
  /\ \A c, d \in Callers \union Admins : Adds(c, k) /\ Adds(d, k) => c = d

TokenInv == NothingReplayed /\ stalls = 0 => \A k \in Keys : OneToken(k)

\* A step of a worker that keeps its key, or ends, hands on no token.
LEMMA TokenKept ==
  ASSUME NEW k \in Keys, OneToken(k), NEW w \in Workers, UNCHANGED <<jobs, caller>>,
         \A v \in Workers \ {w} : worker'[v] = worker[v],
         worker'[w].pc # "idle" => worker[w].pc # "idle" /\ worker'[w].key = worker[w].key
  PROVE  OneToken(k)'
BY DEF OneToken, Runs, Adds

\* Nobody works on a row that is not stored.
LEMMA NoTokenYet ==
  ASSUME TypeOK, StoredInv, NEW k \in Keys, row[k].status = "NONE"
  PROVE  /\ \A stalled \in 0..MaxStalledCount : jobs[<<k, stalled>>] = 0
         /\ \A w \in Workers : ~Runs(w, k)
         /\ \A c \in Callers \union Admins : ~Adds(c, k)
BY DEF TypeOK, StoredInv, Runs, Adds, JobKinds

\* Until a stall or a replay at most one worker runs the job of a row.
THEOREM RowsHaveOneWorker == Spec => []OneWorkerPerRow
<1>1. Init => TokenInv
  <2> SUFFICES ASSUME Init, NEW k \in Keys PROVE OneToken(k)
    BY DEF TokenInv
  <2>1. \A stalled \in 0..MaxStalledCount : jobs[<<k, stalled>>] = 0
    BY DEF Init, JobKinds
  <2>2. 0 \in 0..MaxStalledCount
    BY BoundsAssumption
  <2>3. /\ \A w \in Workers : worker[w].pc = "idle"
        /\ \A c \in Callers \union Admins : caller[c].pc = "idle"
    BY DEF Init, IdleWorker, IdleCaller
  <2> QED
    BY <2>1, <2>2, <2>3 DEF OneToken, Runs, Adds
<1>2. TypeOK /\ StoredInv /\ TokenInv /\ [Next]_vars => TokenInv'
  <2> SUFFICES ASSUME TypeOK, StoredInv, TokenInv, [Next]_vars, NothingReplayed', stalls' = 0,
                      NEW k \in Keys
               PROVE  OneToken(k)'
    BY DEF TokenInv
  <2>1. stalls = 0
    <3>1. stalls \in Nat /\ stalls' \in {stalls, stalls + 1}
      BY DEF TypeOK, Next, vars, RequestStep, WorkerStep, JobStep, Failure, Submit, ResetForReplay,
             CallSucceeds, CallUnanswered, CallRejected, ResultStored, InsertRow, InsertConflicts,
             QueueAdd, CallerFails, TakeJob, FindRow, MarkProcessing, ExecuteSucceeds, TryFails,
             ApplyResult, MarkDone, MarkFailed, MarkPendingForRetry, AddRetryJob, JobFails,
             WorkerCrashes, LosesLock, ReturnStalledJob
    <3> QED
      BY <3>1
  <2>2. OneToken(k)
    BY <2>1, ReplaysStay DEF TokenInv
  <2>3. ASSUME NEW c \in Callers \union Admins, RequestStep(c)
        PROVE  OneToken(k)'
    <3> USE DEF CallerAt
    <3>1. ASSUME NEW pc \in ActiveCalls \union EndedCalls, pc # "adding", CallerMoves(c, pc),
                 UNCHANGED <<jobs, worker>>
          PROVE  OneToken(k)'
      BY <2>2, <3>1 DEF TypeOK, CallerMoves, OneToken, Runs, Adds, Requests
    <3>2. ASSUME NEW j \in Keys, Submit(c, j)
          PROVE  OneToken(k)'
      BY <2>2, <3>2 DEF TypeOK, Submit, OneToken, Runs, Adds
    <3>3. ASSUME NEW j \in Keys, ResetForReplay(c, j)
          PROVE  FALSE
      BY <3>3 DEF ResetForReplay, NothingReplayed, TypeOK
    <3>4. CASE InsertRow(c)
      <4>1. /\ caller'[c].key = caller[c].key
            /\ \A d \in (Callers \union Admins) \ {c} : caller'[d] = caller[d]
            /\ UNCHANGED <<jobs, worker>> /\ row[caller[c].key].status = "NONE"
        BY <3>4 DEF InsertRow, CallerMoves, TypeOK, Requests
      <4>2. CASE caller[c].key = k
        <5>1. /\ \A stalled \in 0..MaxStalledCount : jobs[<<k, stalled>>] = 0
              /\ \A w \in Workers : ~Runs(w, k)
              /\ \A d \in Callers \union Admins : ~Adds(d, k)
          BY <4>1, <4>2, NoTokenYet
        <5> QED
          BY <4>1, <5>1, BoundsAssumption DEF OneToken, Runs, Adds
      <4>3. CASE caller[c].key # k
        BY <2>2, <4>1, <4>3 DEF OneToken, Runs, Adds
      <4> QED
        BY <4>2, <4>3
    <3>5. CASE QueueAdd(c)
      <4>1. /\ caller[c].key \in Keys /\ caller'[c].pc = "queued" /\ caller[c].pc = "adding"
            /\ \A d \in (Callers \union Admins) \ {c} : caller'[d] = caller[d]
            /\ worker' = worker
        BY <3>5 DEF QueueAdd, CallerMoves, TypeOK, Requests
      <4>2. <<caller[c].key, 0>> \in JobKinds
        BY <4>1, BoundsAssumption DEF JobKinds
      <4>3. /\ jobs'[<<caller[c].key, 0>>] = jobs[<<caller[c].key, 0>>] + 1
            /\ \A j \in JobKinds : j # <<caller[c].key, 0>> => jobs'[j] = jobs[j]
        BY <3>5, <4>2 DEF QueueAdd, AddJob, TypeOK
      <4>4. CASE caller[c].key = k
        <5>1. /\ \A w \in Workers : ~Runs(w, k)
              /\ \A d \in (Callers \union Admins) \ {c} : ~Adds(d, k)
              /\ \A stalled \in 0..MaxStalledCount : jobs[<<k, stalled>>] = 0
          BY <2>2, <4>1, <4>4, BoundsAssumption DEF OneToken, Runs, Adds, TypeOK, JobKinds
        <5>2. \A stalled \in 0..MaxStalledCount : <<k, stalled>> \in JobKinds
          BY DEF JobKinds
        <5> QED
          BY <4>1, <4>3, <4>4, <5>1, <5>2 DEF OneToken, Runs, Adds
      <4>5. CASE caller[c].key # k
        <5>1. \A stalled \in 0..MaxStalledCount : jobs'[<<k, stalled>>] = jobs[<<k, stalled>>]
          BY <4>3, <4>5 DEF JobKinds
        <5> QED
          BY <2>2, <4>1, <4>5, <5>1, BoundsAssumption DEF OneToken, Runs, Adds
      <4> QED
        BY <4>4, <4>5
    <3> QED
      BY <2>3, <3>1, <3>2, <3>3, <3>4, <3>5
      DEF RequestStep, CallSucceeds, CallUnanswered, CallRejected, ResultStored, InsertConflicts,
          CallerFails, ActiveCalls, EndedCalls
  <2>4. ASSUME NEW w \in Workers, WorkerStep(w) \/ Failure(w)
        PROVE  OneToken(k)'
    <3> USE DEF WorkerAt
    <3>1. ASSUME NEW pc \in RunningStates, worker[w].pc # "idle", WorkerMoves(w, pc),
                 UNCHANGED <<jobs, caller>>
          PROVE  OneToken(k)'
      BY <2>2, <3>1, TokenKept DEF TypeOK, WorkerMoves, Slots
    <3>2. ASSUME Release(w), UNCHANGED <<jobs, caller>>
          PROVE  OneToken(k)'
      BY <2>2, <3>2, TokenKept DEF TypeOK, Release, IdleWorker
    <3>3. CASE FindRow(w)
      <4>1. CASE Release(w)
        BY <3>2, <3>3, <4>1 DEF FindRow
      <4>2. CASE worker' = [worker EXCEPT ![w].pc = "marking",
                                          ![w].attempts = row[worker[w].key].attempts]
        BY <2>2, <3>3, <4>2, TokenKept DEF FindRow, TypeOK, Slots
      <4> QED
        BY <3>3, <4>1, <4>2 DEF FindRow
    <3>4. ASSUME NEW j \in Keys, NEW stalled \in 0..MaxStalledCount, TakeJob(w, j, stalled)
          PROVE  OneToken(k)'
      <4>1. /\ worker[w].pc = "idle" /\ worker'[w].pc # "idle" /\ worker'[w].key = j
            /\ \A v \in Workers \ {w} : worker'[v] = worker[v]
            /\ caller' = caller /\ jobs[<<j, stalled>>] > 0 /\ <<j, stalled>> \in JobKinds
        BY <3>4 DEF TakeJob, TypeOK, JobKinds
      <4>2. /\ jobs'[<<j, stalled>>] = jobs[<<j, stalled>>] - 1
            /\ \A i \in JobKinds : i # <<j, stalled>> => jobs'[i] = jobs[i]
        BY <3>4, <4>1 DEF TakeJob, TypeOK
      <4>3. CASE j = k
        <5>1. stalled = 0 /\ jobs[<<k, 0>>] = 1
          BY <2>2, <4>1, <4>3 DEF OneToken
        <5>2. /\ \A v \in Workers : ~Runs(v, k)
              /\ \A c \in Callers \union Admins : ~Adds(c, k)
          BY <2>2, <5>1 DEF OneToken
        <5>3. \A s \in 0..MaxStalledCount : jobs'[<<k, s>>] = 0
          <6>1. \A s \in 0..MaxStalledCount : <<k, s>> \in JobKinds /\ jobs[<<k, s>>] \in Nat
            BY DEF JobKinds, TypeOK
          <6>2. \A s \in 0..MaxStalledCount : s # 0 => jobs[<<k, s>>] = 0
            BY <2>2, <6>1 DEF OneToken
          <6> QED
            BY <4>2, <4>3, <5>1, <6>1, <6>2
        <5>4. 0 \in 0..MaxStalledCount
          BY BoundsAssumption
        <5> QED
          BY <4>1, <5>2, <5>3, <5>4 DEF OneToken, Runs, Adds
      <4>4. CASE j # k
        <5>1. \A s \in 0..MaxStalledCount : jobs'[<<k, s>>] = jobs[<<k, s>>]
          BY <4>2, <4>4 DEF JobKinds
        <5> QED
          BY <2>2, <4>1, <4>4, <5>1, BoundsAssumption DEF OneToken, Runs, Adds
      <4> QED
        BY <4>3, <4>4
    <3>5. CASE AddRetryJob(w)
      <4>1. /\ worker[w].key \in Keys /\ worker[w].pc # "idle" /\ worker'[w].pc = "idle"
            /\ \A v \in Workers \ {w} : worker'[v] = worker[v]
            /\ caller' = caller
        BY <3>5 DEF AddRetryJob, Release, IdleWorker, TypeOK
      <4>2. <<worker[w].key, 0>> \in JobKinds
        BY <4>1, BoundsAssumption DEF JobKinds
      <4>3. /\ jobs'[<<worker[w].key, 0>>] = jobs[<<worker[w].key, 0>>] + 1
            /\ \A j \in JobKinds : j # <<worker[w].key, 0>> => jobs'[j] = jobs[j]
        BY <3>5, <4>2 DEF AddRetryJob, AddJob, TypeOK
      <4>4. CASE worker[w].key = k
        <5>1. /\ \A v \in Workers \ {w} : ~Runs(v, k)
              /\ \A c \in Callers \union Admins : ~Adds(c, k)
          BY <2>2, <4>1, <4>4 DEF OneToken, Runs
        <5>2. \A s \in 0..MaxStalledCount : <<k, s>> \in JobKinds /\ jobs[<<k, s>>] = 0
          BY <2>2, <4>1, <4>4 DEF OneToken, Runs, TypeOK, JobKinds
        <5> QED
          BY <4>1, <4>3, <4>4, <5>1, <5>2 DEF OneToken, Runs, Adds
      <4>5. CASE worker[w].key # k
        <5>1. \A s \in 0..MaxStalledCount : jobs'[<<k, s>>] = jobs[<<k, s>>]
          BY <4>3, <4>5 DEF JobKinds
        <5> QED
          BY <2>2, <4>1, <4>5, <5>1, BoundsAssumption DEF OneToken, Runs, Adds
      <4> QED
        BY <4>4, <4>5
    <3>6. CASE WorkerCrashes(w) \/ LosesLock(w)
      BY <2>1, <3>6 DEF WorkerCrashes, LosesLock, ReturnStalledJob, TypeOK
    <3> QED
      BY <2>4, <3>1, <3>2, <3>3, <3>4, <3>5, <3>6
      DEF WorkerStep, JobStep, Failure, MarkProcessing, ExecuteSucceeds, TryFails, ApplyResult,
          MarkDone, MarkFailed, MarkPendingForRetry, JobFails, RunningStates
  <2>5. CASE UNCHANGED vars
    BY <2>2, <2>5 DEF vars, OneToken, Runs, Adds
  <2> QED
    BY <2>3, <2>4, <2>5 DEF Next
<1>3. TypeOK /\ TokenInv => OneWorkerPerRow
  BY DEF TypeOK, TokenInv, OneToken, OneWorkerPerRow, Runs
<1> QED
  BY TypeCorrect, StoredInvariant, <1>1, <1>2, <1>3, PTL DEF Spec
=============================================================================
