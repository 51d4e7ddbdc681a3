-------------------------- MODULE ExecutorJobProofs --------------------------
(***************************************************************************)
(* Theorems about single jobs: what their files may say together, which    *)
(* thread holds which of them, and what becomes of a settled one.          *)
(***************************************************************************)
EXTENDS ExecutorFileProofs, FiniteSetTheorems

-----------------------------------------------------------------------------
(* The inductive invariant, in its parts.                                  *)

\* The job waits in the queue of a Core.
Waits(c, j) == \E i \in 1..Len(queue[c]) : queue[c][i] = j

\* Nobody has acted on the job yet, and its key is its own.
Untouched(j) ==
  /\ dispatch[j] = NoCore
  /\ state[j] \in {"queued", "cancel_requested"}
  /\ index[key[j]] = j

\* What the files of one job say of each other.  A job dispatched is a job of the Core that
\* dispatched it and the one its key leads to; no session and no receipt come before that.
Files ==
  \A j \in Jobs :
    /\ state[j] = "absent" <=> scheduler[j] = NoCore
    /\ state[j] # "absent" => key[j] \in Keys
    /\ scheduler[j] # NoCore => core[scheduler[j]] # "off"
    /\ dispatch[j] # NoCore => dispatch[j] = scheduler[j] /\ index[key[j]] = j
    /\ dispatch[j] = NoCore => native[j] = "none" /\ receipt[j] = "none"

\* A Core keeps its jobs apart: the queue, the worker, the futures that failed and the
\* registration under way never share one, and they are all its own.
Queues ==
  \A c \in Cores :
    /\ \A j \in Jobs : Waits(c, j) => core[c] \in {"starting", "up"} /\ scheduler[j] = c
    /\ \A i, k \in 1..Len(queue[c]) : queue[c][i] = queue[c][k] => i = k

\* Failed futures are of a living Core, and no worker has their jobs.
Futures ==
  \A c \in Cores :
    /\ broken[c] # {} => Alive(c)
    /\ \A j \in broken[c] :
         /\ scheduler[j] = c
         /\ ~Waits(c, j)
         /\ pc[Worker(c)] # "idle" => cur[Worker(c)] # j

\* A busy thread has a job of its Core that no longer waits, a service thread a failed future.
Holders ==
  /\ \A t \in Threads :
       pc[t] # "idle" => scheduler[cur[t]] = t[1] /\ ~Waits(t[1], cur[t])
  /\ \A c \in Cores :
       pc[Service(c)] # "idle" =>
         /\ pc[Service(c)] \in {"failing", "uncertain", "releasing"}
         /\ cur[Service(c)] \in broken[c]

\* A registration has its job alone, in a Core that is up.
Newcomer ==
  registering # NoJob =>
    /\ recLock \in Cores
    /\ core[recLock] = "up"
    /\ scheduler[registering] = recLock
    /\ ~Waits(recLock, registering)
    /\ registering \notin broken[recLock]
    /\ \A t \in Threads : pc[t] # "idle" => cur[t] # registering

\* A scan gives up only the job of a dead Core.
Abandoned ==
  lost # NoJob => scheduler[lost] # NoCore /\ core[scheduler[lost]] = "dead"

\* What waits, is examined or is being registered has been touched by nobody.
Fresh ==
  /\ \A c \in Cores, j \in Jobs : Waits(c, j) => Untouched(j)
  /\ \A t \in Threads : pc[t] \in {"waiting", "checking", "marked"} => Untouched(cur[t])
  /\ registering # NoJob =>
       /\ dispatch[registering] = NoCore
       /\ state[registering] \in {"queued", "cancel_requested"}

\* A client is told that nothing was dispatched exactly of the jobs that ended so.
Honest ==
  \A j \in Jobs :
    error[j] \in NotDispatched <=> dispatch[j] = NoCore /\ state[j] \in {"failed", "cancelled"}

\* The receipt bears a verdict out, unless there was no dispatch.
Verdicts ==
  \A j \in Jobs :
    /\ state[j] = "completed" => receipt[j] = "completed"
    /\ state[j] \in {"failed", "cancelled"} =>
         \/ dispatch[j] = NoCore
         \/ receipt[j] = state[j]
         \/ state[j] = "failed" /\ receipt[j] = "completed"

\* Who has a job: the five parts above.
Places == Queues /\ Futures /\ Holders /\ Newcomer /\ Abandoned

-----------------------------------------------------------------------------
(* Lemmas about the helpers.                                               *)

\* What reconciling may make of a state: a job without a receipt keeps its own, no job
\* becomes active, absent or honest by it, and a settled one changes only as its receipt says.
LEMMA ReconciledFacts ==
  ASSUME receipt \in [Jobs -> ReceiptKinds \cup {"none"}],
         NEW j \in Jobs, NEW s \in States, NEW e \in Errors, NEW r \in Reconciled(j, s, e)
  PROVE  /\ receipt[j] = "none" => r.state = s /\ r.error = e
         /\ s # "absent" => r.state # "absent"
         /\ r.state \in ACTIVE => r.state = s
         /\ r.error \in NotDispatched => r.state = s /\ r.error = e
         /\ r.state = "completed" => s = "completed" \/ receipt[j] = "completed"
         /\ r.state \in {"failed", "cancelled"} =>
              \/ r.state = s
              \/ receipt[j] = r.state
              \/ r.state = "failed" /\ receipt[j] = "completed"
         /\ s = "completed" /\ receipt[j] = "completed" =>
              \/ r.state = "completed"
              \/ r.state = "failed" /\ r.error = "REVISION_CONFLICT"
         /\ /\ s \in {"failed", "cancelled"}
            /\ receipt[j] \in {"none", s} \/ (s = "failed" /\ receipt[j] = "completed")
            => r.state = s
<1>1. receipt[j] \in {"none", "completed", "failed", "cancelled", "invalid"}
  BY ConstantsOK
<1>2. s = "completed" /\ receipt[j] = "completed" =>
        \/ r.state = "completed"
        \/ r.state = "failed" /\ r.error = "REVISION_CONFLICT"
  BY DEF Reconciled, ACTIVE
<1> QED
  BY <1>1, <1>2 DEF Reconciled, States, ACTIVE, Errors, NotDispatched

\* The owner of a job is the Core of its scheduler.json.
LEMMA OwnerIsScheduler == ASSUME Files, NEW j \in Jobs PROVE Owner(j) = scheduler[j]
  BY DEF Files, Owner

\* A busy thread shares its job with nobody.
LEMMA HeldApart ==
  ASSUME TypeOK, Ownership, Places, NEW t \in Threads, pc[t] # "idle"
  PROVE  /\ cur[t] \in Jobs
         /\ scheduler[cur[t]] = t[1]
         /\ \A u \in Threads : u # t /\ pc[u] # "idle" => cur[u] # cur[t]
         /\ \A c \in Cores : ~Waits(c, cur[t])
         /\ registering # cur[t]
         /\ lost # cur[t]
<1>1. cur[t] \in Jobs /\ scheduler[cur[t]] = t[1] /\ Alive(t[1]) /\ t[1] \in Cores
  BY ThreadPairs DEF Ownership, Places, Holders
<1>2. ASSUME NEW u \in Threads, u # t, pc[u] # "idle" PROVE cur[u] # cur[t]
  <2>1. CASE u[1] # t[1]
    BY <1>1, <1>2, <2>1 DEF Places, Holders
  <2>2. CASE u[1] = t[1]
    <3>1. \/ u = Worker(t[1]) /\ t = Service(t[1])
          \/ u = Service(t[1]) /\ t = Worker(t[1])
      BY <1>2, <2>2, ThreadPairs
    <3> QED
      BY <1>1, <1>2, <3>1 DEF Places, Holders, Futures
  <2> QED
    BY <2>1, <2>2
<1>3. ASSUME NEW c \in Cores PROVE ~Waits(c, cur[t])
  <2>1. CASE c = t[1]
    BY <2>1 DEF Places, Holders
  <2>2. CASE c # t[1]
    BY <1>1, <2>2 DEF Places, Queues
  <2> QED
    BY <2>1, <2>2
<1>4. registering # cur[t]
  BY <1>1, ConstantsOK DEF Places, Newcomer
<1>5. lost # cur[t]
  BY <1>1, ConstantsOK DEF Places, Abandoned, Alive
<1> QED
  BY <1>1, <1>2, <1>3, <1>4, <1>5

\* Nobody has a job whose owner is not alive.
LEMMA OrphanApart ==
  ASSUME TypeOK, Ownership, Places, NEW j \in Jobs, ~Alive(scheduler[j])
  PROVE  /\ \A u \in Threads : pc[u] # "idle" => cur[u] # j
         /\ \A c \in Cores : ~Waits(c, j) /\ j \notin broken[c]
         /\ registering # j
<1>1. ASSUME NEW u \in Threads, pc[u] # "idle" PROVE cur[u] # j
  BY <1>1, HeldApart DEF Ownership
<1>2. ASSUME NEW c \in Cores PROVE ~Waits(c, j) /\ j \notin broken[c]
  <2>1. ~Waits(c, j)
    BY DEF Places, Queues, Alive
  <2>2. j \notin broken[c]
    BY DEF Places, Futures
  <2> QED
    BY <2>1, <2>2
<1>3. registering # j
  BY ConstantsOK DEF Places, Newcomer, Alive
<1> QED
  BY <1>1, <1>2, <1>3

\* What recovery reconciles: an active job as unknown, a settled one as it stands.
LEMMA RecoverUnknownStores ==
  ASSUME TypeOK, NEW c \in Cores, RecoverUnknown(c)
  PROVE  \E s \in States, e \in Errors :
           /\ \/ s = "unknown" /\ e = "OUTCOME_UNKNOWN"
              \/ state[lost] \notin ACTIVE /\ s = state[lost] /\ e = error[lost]
           /\ StoreReconciled(lost, s, e)
<1>1. CASE state[lost] \in ACTIVE
  <2>1. StoreReconciled(lost, "unknown", "OUTCOME_UNKNOWN")
    BY <1>1 DEF RecoverUnknown
  <2>2. "unknown" \in States /\ "OUTCOME_UNKNOWN" \in Errors
    BY DEF States, Errors
  <2> QED
    BY <2>1, <2>2
<1>2. CASE state[lost] \notin ACTIVE
  <2>1. StoreReconciled(lost, state[lost], error[lost])
    BY <1>2 DEF RecoverUnknown
  <2>2. state[lost] \in States /\ error[lost] \in Errors
    BY DEF RecoverUnknown, TypeOK
  <2> QED
    BY <1>2, <2>1, <2>2
<1> QED
  BY <1>1, <1>2

-----------------------------------------------------------------------------
(* The files of one job.                                                   *)

\* Every step keeps what the files of a job say of each other.
LEMMA FilesStep ==
  TypeOK /\ Ownership /\ Dispatching /\ Registering /\ Files /\ Places /\ Fresh /\ Next
    => Files'
<1> SUFFICES ASSUME TypeOK, Ownership, Dispatching, Registering, Files, Places, Fresh, Next
             PROVE  Files'
  OBVIOUS
<1> USE ConstantsOK
    DEF TypeOK, Files, jobVars, rootVars, sessionVars, threadVars, poolVars, recVars
<1>1. ASSUME NEW c \in Cores, Start(c) \/ Close(c) \/ Crash(c) PROVE Files'
  BY <1>1 DEF Start, Close, Crash, Alive
<1>2. ASSUME NEW c \in Cores, NEW j \in Jobs, NEW k \in Keys, Register(c, j, k) PROVE Files'
  BY <1>2 DEF Register
<1>3. ASSUME NEW c \in Cores, CommitIndex(c) PROVE Files'
  BY <1>3 DEF CommitIndex, Registering
<1>4. ASSUME NEW c \in Cores, IndexFault(c) \/ IdleTime(c)
                              \/ TakeJob(c) \/ RetrySettlement(c) PROVE Files'
  BY <1>4 DEF IndexFault, IdleTime, TakeJob, RetrySettlement
<1>5. ASSUME NEW c \in Cores, BeginRecovery(c) \/ EndRecovery(c) \/ RecoveryFault(c)
      PROVE  Files'
  BY <1>5 DEF BeginRecovery, EndRecovery, RecoveryFault
<1>6. ASSUME NEW c \in Cores, NEW j \in Jobs, RecoverSkip(c, j) \/ RecoverLost(c, j)
      PROVE  Files'
  BY <1>6 DEF RecoverSkip, RecoverLost
<1>7. ASSUME NEW c \in Cores, RecoverUnknown(c) PROVE Files'
  <2>1. /\ lost \in Jobs /\ state[lost] # "absent"
        /\ UNCHANGED <<key, scheduler, dispatch, receipt, index, native, core>>
    BY <1>7 DEF RecoverUnknown, Places, Abandoned
  <2>2. PICK s \in States, e \in Errors :
               s # "absent" /\ StoreReconciled(lost, s, e)
    BY <1>7, <2>1, RecoverUnknownStores
  <2>3. PICK r \in Reconciled(lost, s, e) : state' = [state EXCEPT ![lost] = r.state]
    BY <2>2 DEF StoreReconciled
  <2>4. r.state # "absent"
    BY <2>1, <2>2, ReconciledFacts
  <2> QED
    BY <2>1, <2>3, <2>4
<1>8. ASSUME NEW c \in Cores, NEW j \in Jobs, RecoverConflict(c, j) PROVE Files'
  BY <1>8 DEF RecoverConflict, Orphan, SaveState
<1>9. ASSUME NEW c \in Cores, NEW j \in Jobs, RecoverQueued(c, j) PROVE Files'
  <2>1. /\ state[j] = "queued" /\ dispatch[j] = NoCore /\ core[c] # "off"
        /\ index[key[j]] \in {NoJob, j}
        /\ index' = [index EXCEPT ![key[j]] = j]
        /\ scheduler' = [scheduler EXCEPT ![j] = c]
        /\ UNCHANGED <<state, key, dispatch, receipt, native, core>>
    BY <1>9 DEF RecoverQueued, Orphan, Scanning, Ownership
  <2> QED
    BY <2>1
<1>10. ASSUME NEW c \in Cores, ReconcileTarget(c) PROVE Files'
  <2>1. PICK r \in Reconciled(target[c], state[target[c]], error[target[c]]) :
               state' = [state EXCEPT ![target[c]] = r.state]
    BY <1>10 DEF ReconcileTarget, StoreReconciled
  <2>2. UNCHANGED <<key, scheduler, dispatch, receipt, index, native, core>>
    BY <1>10 DEF ReconcileTarget
  <2>3. CASE target[c] \in Jobs
    <3>1. r.state = "absent" <=> state[target[c]] = "absent"
      BY <2>1, <2>3, ReconciledFacts
    <3> QED
      BY <2>1, <2>2, <3>1
  <2>4. CASE target[c] \notin Jobs
    BY <2>1, <2>2, <2>4
  <2> QED
    BY <2>3, <2>4
<1>11. ASSUME NEW c \in Cores, NEW j \in Jobs, Cancel(c, j) \/ CallReconcile(c, j)
       PROVE  Files'
  BY <1>11 DEF Cancel, CallReconcile, SaveState, ACTIVE
<1>12. ASSUME NEW t \in Threads, ExecutorBusy(t) \/ FailUndispatched(t) PROVE Files'
  BY <1>12 DEF ExecutorBusy, FailUndispatched, SaveState, ACTIVE
<1>13. ASSUME NEW t \in Threads, RefuseQuarantined(t) \/ CancelUndispatched(t) PROVE Files'
  BY <1>13 DEF RefuseQuarantined, CancelUndispatched, SaveState, ACTIVE
<1>14. ASSUME NEW t \in Threads,
              \/ AcquireExecution(t) \/ PublishPrevious(t) \/ FindNoQuarantine(t) \/ WriteMarker(t)
              \/ BackendReturns(t) \/ BackendRaises(t) \/ NoReceipt(t)
              \/ QuarantineSuspect(t) \/ ReleaseExecution(t) \/ QuarantineUncertain(t)
              \/ WorkerFault(t) \/ BusyFault(t) \/ FailureFault(t)
       PROVE  Files'
  BY <1>14 DEF AcquireExecution, PublishPrevious, FindNoQuarantine,
               WriteMarker, BackendReturns, BackendRaises,
               NoReceipt, QuarantineSuspect, ReleaseExecution, QuarantineUncertain,
               WorkerFault, BusyFault, FailureFault
<1>15. ASSUME NEW t \in Threads, WriteDispatch(t) PROVE Files'
  <2>1. cur[t] \in Jobs /\ scheduler[cur[t]] = t[1] /\ Untouched(cur[t])
    BY <1>15, HeldApart DEF WriteDispatch, Fresh
  <2> QED
    BY <1>15, <2>1, ThreadPairs DEF WriteDispatch, Untouched
<1>16. ASSUME NEW t \in Threads, CallBackend(t) PROVE Files'
  <2>1. dispatch[cur[t]] # NoCore
    BY <1>16 DEF CallBackend, Dispatching
  <2> QED
    BY <1>16, <2>1 DEF CallBackend, SaveState
<1>17. ASSUME NEW t \in Threads, ReconcileReturned(t) \/ SettleUncertain(t) PROVE Files'
  <2>1. cur[t] \in Jobs /\ state[cur[t]] # "absent"
    <3>1. pc[t] # "idle"
      BY <1>17 DEF ReconcileReturned, SettleUncertain
    <3>2. cur[t] \in Jobs /\ scheduler[cur[t]] = t[1]
      BY <3>1, HeldApart
    <3> QED
      BY <3>2, ThreadPairs
  <2>2. /\ UNCHANGED <<key, scheduler, dispatch, receipt, index, native, core>>
        /\ \/ StoreReconciled(cur[t], state[cur[t]], error[cur[t]])
           \/ SaveState(cur[t], ACTIVE, "unknown", "OUTCOME_UNKNOWN")
    BY <1>17 DEF ReconcileReturned, SettleUncertain
  <2>3. CASE StoreReconciled(cur[t], state[cur[t]], error[cur[t]])
    <3>1. PICK r \in Reconciled(cur[t], state[cur[t]], error[cur[t]]) :
                 state' = [state EXCEPT ![cur[t]] = r.state]
      BY <2>3 DEF StoreReconciled
    <3>2. r.state # "absent"
      BY <2>1, ReconciledFacts
    <3> QED
      BY <2>1, <2>2, <3>1, <3>2
  <2>4. CASE SaveState(cur[t], ACTIVE, "unknown", "OUTCOME_UNKNOWN")
    BY <2>1, <2>2, <2>4 DEF SaveState
  <2> QED
    BY <2>2, <2>3, <2>4
<1>18. ASSUME NEW j \in Jobs, CommitReceipt(j) \/ SessionExits(j) PROVE Files'
  BY <1>18 DEF CommitReceipt, SessionExits
<1>19. ASSUME ClearQuarantine \/ ClearFault PROVE Files'
  BY <1>19 DEF ClearQuarantine, ClearFault
<1> QED
  BY <1>1, <1>2, <1>3, <1>4, <1>5, <1>6, <1>7, <1>8, <1>9, <1>10, <1>11, <1>12, <1>13,
     <1>14, <1>15, <1>16, <1>17, <1>18, <1>19
  DEF Next, Registration, Owned, Failure, Recovery

-----------------------------------------------------------------------------
(* Who has a job.                                                          *)

\* A queue grows only by a job just registered or one that recovery took over.
LEMMA WaitsStep ==
  TypeOK /\ Next =>
    \A d \in Cores, i \in Jobs :
      Waits(d, i)' =>
        \/ Waits(d, i)
        \/ CommitIndex(d) /\ i = registering
        \/ RecoverQueued(d, i)
<1> DEFINE Grows(d, i) ==
      Waits(d, i)' =>
        \/ Waits(d, i)
        \/ CommitIndex(d) /\ i = registering
        \/ RecoverQueued(d, i)
<1> SUFFICES ASSUME TypeOK, Next, NEW d \in Cores, NEW i \in Jobs PROVE Grows(d, i)
  OBVIOUS
<1>0. ASSUME UNCHANGED queue PROVE Grows(d, i)
  BY <1>0 DEF Waits
<1>1. ASSUME NEW c \in Cores, NEW x \in Jobs, queue' = [queue EXCEPT ![c] = Append(@, x)],
             d = c /\ i = x => (CommitIndex(d) /\ i = registering) \/ RecoverQueued(d, i)
      PROVE  Grows(d, i)
  <2>1. queue[c] \in Seq(Jobs) /\ queue'[c] = Append(queue[c], x)
    BY <1>1 DEF TypeOK
  <2>2. CASE d = c
    <3> SUFFICES ASSUME Waits(d, i)', i # x PROVE Waits(d, i)
      BY <1>1, <2>2
    <3>1. PICK n \in 1..Len(queue'[d]) : queue'[d][n] = i
      BY DEF Waits
    <3>2. n \in 1..Len(queue[d]) /\ queue[d][n] = i
      BY <2>1, <2>2, <3>1
    <3> QED
      BY <3>2 DEF Waits
  <2>3. CASE d # c
    BY <1>1, <2>3 DEF Waits, TypeOK
  <2> QED
    BY <2>2, <2>3
<1>2. ASSUME NEW c \in Cores, queue' = [queue EXCEPT ![c] = <<>>] PROVE Grows(d, i)
  BY <1>2 DEF Waits, TypeOK
<1>3. ASSUME NEW c \in Cores, TakeJob(c) PROVE Grows(d, i)
  <2>1. queue[c] \in Seq(Jobs) /\ queue[c] # <<>> /\ queue' = [queue EXCEPT ![c] = Tail(@)]
    BY <1>3 DEF TakeJob, TypeOK
  <2>2. CASE d = c
    <3> SUFFICES ASSUME Waits(d, i)' PROVE Waits(d, i)
      OBVIOUS
    <3>1. PICK n \in 1..Len(queue'[d]) : queue'[d][n] = i
      BY DEF Waits
    <3>2. n + 1 \in 1..Len(queue[d]) /\ queue[d][n + 1] = i
      BY <2>1, <2>2, <3>1 DEF TypeOK
    <3> QED
      BY <3>2 DEF Waits
  <2>3. CASE d # c
    BY <2>1, <2>3 DEF Waits, TypeOK
  <2> QED
    BY <2>2, <2>3
<1>4. ASSUME NEW c \in Cores, CommitIndex(c) PROVE Grows(d, i)
  BY <1>1, <1>4 DEF CommitIndex, TypeOK
<1>5. ASSUME NEW c \in Cores, NEW j \in Jobs, RecoverQueued(c, j) PROVE Grows(d, i)
  BY <1>1, <1>5 DEF RecoverQueued
<1>6. ASSUME NEW c \in Cores, Crash(c) PROVE Grows(d, i)
  BY <1>2, <1>6 DEF Crash
<1>7. ASSUME NEW c \in Cores, RecoveryFault(c) PROVE Grows(d, i)
  BY <1>0, <1>2, <1>7 DEF RecoveryFault
<1> HIDE DEF Grows
<1> USE DEF poolVars
<1>8. ASSUME NEW c \in Cores,
             \/ Start(c) \/ Close(c) \/ IndexFault(c) \/ IdleTime(c) \/ RetrySettlement(c)
             \/ BeginRecovery(c) \/ RecoverUnknown(c) \/ EndRecovery(c) \/ ReconcileTarget(c)
      PROVE  Grows(d, i)
  BY <1>0, <1>8 DEF Start, Close, IndexFault, IdleTime,
                    RetrySettlement, BeginRecovery, RecoverUnknown,
                    EndRecovery, ReconcileTarget
<1>9. ASSUME NEW c \in Cores, NEW j \in Jobs, NEW k \in Keys, Register(c, j, k)
      PROVE  Grows(d, i)
  BY <1>0, <1>9 DEF Register
<1>10. ASSUME NEW c \in Cores, NEW j \in Jobs,
              \/ Cancel(c, j) \/ CallReconcile(c, j)
              \/ RecoverSkip(c, j) \/ RecoverLost(c, j) \/ RecoverConflict(c, j)
       PROVE  Grows(d, i)
  BY <1>0, <1>10 DEF Cancel, CallReconcile, RecoverSkip, RecoverLost, RecoverConflict
<1>11. ASSUME NEW t \in Threads, Owned(t) PROVE Grows(d, i)
  BY <1>0, <1>11
       DEF Owned, AcquireExecution, ExecutorBusy, PublishPrevious, FindNoQuarantine,
           RefuseQuarantined,
           CancelUndispatched, WriteMarker, WriteDispatch, CallBackend, BackendReturns,
           BackendRaises, NoReceipt, ReconcileReturned, QuarantineSuspect, ReleaseExecution
<1>12. ASSUME NEW t \in Threads,
              Failure(t) \/ WorkerFault(t) \/ BusyFault(t) \/ FailureFault(t)
       PROVE  Grows(d, i)
  BY <1>0, <1>12
       DEF Failure, FailUndispatched, QuarantineUncertain, SettleUncertain, WorkerFault,
           BusyFault, FailureFault
<1>13. ASSUME NEW j \in Jobs, CommitReceipt(j) \/ SessionExits(j) PROVE Grows(d, i)
  BY <1>0, <1>13 DEF CommitReceipt, SessionExits
<1>14. ASSUME ClearQuarantine \/ ClearFault PROVE Grows(d, i)
  BY <1>0, <1>14 DEF ClearQuarantine, ClearFault
<1> QED
  BY <1>3, <1>4, <1>5, <1>6, <1>7, <1>8, <1>9, <1>10, <1>11, <1>12, <1>13, <1>14
  DEF Next, Registration, Recovery, Grows

\* A thread goes on with its job.
Continues(t) ==
  /\ pc[t] # "idle"
  /\ \E label \in PCs \ {"idle"} :
       /\ pc' = [pc EXCEPT ![t] = label]
       /\ pc[t] \in {"failing", "uncertain", "releasing"}
            => label \in {"failing", "uncertain", "releasing"}
       /\ label \in {"waiting", "checking", "marked"}
            => pc[t] \in {"waiting", "checking", "marked"}
  /\ UNCHANGED <<cur, poolVars, scheduler, core, recLock, registering, lost>>

\* A thread lets go of its job, which it takes off the failed futures or puts there.
Finishes(t) ==
  /\ pc[t] # "idle"
  /\ pc' = [pc EXCEPT ![t] = "idle"]
  /\ cur' = [cur EXCEPT ![t] = NoJob]
  /\ \/ broken' = broken
     \/ broken' = [broken EXCEPT ![t[1]] = @ \ {cur[t]}]
     \/ broken' = [broken EXCEPT ![t[1]] = @ \cup {cur[t]}]
  /\ UNCHANGED <<queue, scheduler, core, recLock, registering, lost>>

\* Nobody takes or drops a job, except that a registration or a scan may end.
Rests ==
  /\ UNCHANGED <<pc, cur, poolVars, scheduler, core>>
  /\ registering' = NoJob \/ UNCHANGED <<recLock, registering>>
  /\ lost' \in {lost, NoJob}

\* The steps that move a job from one holder to another are few: the others are of one of
\* the three shapes above.
LEMMA Moves ==
  ASSUME TypeOK, Registering, Next
  PROVE  \/ Rests
         \/ \E t \in Threads : Continues(t) \/ Finishes(t)
         \/ \E c \in Cores :
              \/ Start(c) \/ Close(c) \/ Crash(c) \/ EndRecovery(c) \/ RecoveryFault(c)
              \/ CommitIndex(c) \/ TakeJob(c) \/ RetrySettlement(c)
              \/ \E j \in Jobs, k \in Keys : Register(c, j, k)
              \/ \E j \in Jobs : RecoverLost(c, j) \/ RecoverQueued(c, j)
<1> DEFINE Small == Rests \/ \E t \in Threads : Continues(t) \/ Finishes(t)
<1> USE DEF jobVars, poolVars, threadVars, recVars
<1>1. ASSUME NEW c \in Cores, IndexFault(c) \/ IdleTime(c) \/ ReconcileTarget(c) PROVE Small
  BY <1>1 DEF IndexFault, IdleTime, ReconcileTarget, Rests
<1>2. ASSUME NEW c \in Cores, BeginRecovery(c) \/ RecoverUnknown(c) PROVE Small
  BY <1>2 DEF BeginRecovery, RecoverUnknown, Rests, Registering
<1>3. ASSUME NEW c \in Cores, NEW j \in Jobs,
             \/ Cancel(c, j) \/ CallReconcile(c, j)
             \/ RecoverSkip(c, j) \/ RecoverConflict(c, j)
      PROVE  Small
  BY <1>3 DEF Cancel, CallReconcile, RecoverSkip, RecoverConflict, Rests
<1>4. ASSUME NEW t \in Threads,
             \/ AcquireExecution(t) \/ WriteMarker(t) \/ WriteDispatch(t) \/ CallBackend(t)
             \/ BackendReturns(t) \/ BackendRaises(t) \/ NoReceipt(t)
             \/ QuarantineSuspect(t) \/ QuarantineUncertain(t) \/ SettleUncertain(t)
             \/ WorkerFault(t)
      PROVE  Small
  <2>1. Continues(t)
    BY <1>4 DEF AcquireExecution, WriteMarker, WriteDispatch, CallBackend, BackendReturns,
                BackendRaises, NoReceipt, QuarantineSuspect, QuarantineUncertain,
                SettleUncertain, WorkerFault, Goto, Continues, PCs, Critical
  <2> QED
    BY <2>1
<1>5. ASSUME NEW t \in Threads, ReconcileReturned(t) PROVE Small
  <2>1. PICK label \in {"suspect", "settled"} : pc' = [pc EXCEPT ![t] = label]
    BY <1>5 DEF ReconcileReturned, Goto
  <2>2. Continues(t)
    BY <1>5, <2>1 DEF ReconcileReturned, Goto, Continues, PCs, Critical
  <2> QED
    BY <2>2
<1>6. ASSUME NEW t \in Threads, PublishPrevious(t) \/ FindNoQuarantine(t) PROVE Small
  BY <1>6 DEF PublishPrevious, FindNoQuarantine, Rests
<1>7. ASSUME NEW t \in Threads,
             \/ ExecutorBusy(t) \/ RefuseQuarantined(t) \/ CancelUndispatched(t)
             \/ ReleaseExecution(t) \/ FailUndispatched(t) \/ BusyFault(t)
             \/ FailureFault(t)
      PROVE  Small
  <2>1. Finishes(t)
    BY <1>7 DEF ExecutorBusy, RefuseQuarantined, CancelUndispatched, ReleaseExecution,
                FailUndispatched, BusyFault, FailureFault, Unlock, Finishes
  <2> QED
    BY <2>1
<1>8. ASSUME NEW j \in Jobs, CommitReceipt(j) \/ SessionExits(j) PROVE Small
  BY <1>8 DEF CommitReceipt, SessionExits, Rests
<1>9. ASSUME ClearQuarantine \/ ClearFault PROVE Small
  BY <1>9 DEF ClearQuarantine, ClearFault, Rests
<1> HIDE DEF Small
<1>10. Small \/ \E c \in Cores :
              \/ Start(c) \/ Close(c) \/ Crash(c) \/ EndRecovery(c) \/ RecoveryFault(c)
              \/ CommitIndex(c) \/ TakeJob(c) \/ RetrySettlement(c)
              \/ \E j \in Jobs, k \in Keys : Register(c, j, k)
              \/ \E j \in Jobs : RecoverLost(c, j) \/ RecoverQueued(c, j)
  BY <1>1, <1>2, <1>3, <1>4, <1>5, <1>6, <1>7, <1>8, <1>9
  DEF Next, Registration, Owned, Failure, Recovery
<1> QED
  BY <1>10 DEF Small

\* Every step keeps each queue free of doubles and full of its Core's own jobs.
LEMMA QueuesStep ==
  TypeOK /\ Ownership /\ Registering /\ Files /\ Places /\ Next => Queues'
<1> SUFFICES ASSUME TypeOK, Ownership, Registering, Files, Places, Next PROVE Queues'
  OBVIOUS
<1> USE ConstantsOK DEF jobVars, poolVars, recVars
<1>1. ASSUME NEW d \in Cores, NEW j \in Jobs, Waits(d, j)'
      PROVE  core'[d] \in {"starting", "up"} /\ scheduler'[j] = d
  <2>1. \/ Waits(d, j) /\ core[d] \in {"starting", "up"} /\ scheduler[j] = d
        \/ CommitIndex(d) /\ j = registering
        \/ RecoverQueued(d, j)
    BY <1>1, WaitsStep DEF Places, Queues
  <2>2. CASE CommitIndex(d) /\ j = registering
    BY <2>2 DEF CommitIndex, Places, Newcomer
  <2>3. CASE RecoverQueued(d, j)
    BY <2>3 DEF RecoverQueued, Orphan, Scanning, Ownership, TypeOK
  <2>4. CASE Waits(d, j) /\ core[d] \in {"starting", "up"} /\ scheduler[j] = d
    <3>1. state[j] # "absent" /\ OwnerMayBeAlive(j)
      BY <2>4, OwnerIsScheduler DEF Files, OwnerMayBeAlive, Alive
    <3>2. scheduler'[j] = d
      <4>1. CASE \E c \in Cores, i \in Jobs, k \in Keys : Register(c, i, k)
        BY <2>4, <3>1, <4>1 DEF Register, TypeOK
      <4>2. CASE \E c \in Cores, i \in Jobs : RecoverQueued(c, i)
        BY <2>4, <3>1, <4>2 DEF RecoverQueued, Orphan, TypeOK
      <4>3. CASE UNCHANGED scheduler
        BY <2>4, <4>3
      <4> QED
        BY <4>1, <4>2, <4>3, Moves
        DEF Rests, Continues, Finishes, Start, Close, Crash, EndRecovery, RecoveryFault,
            CommitIndex, TakeJob, RetrySettlement, RecoverLost
    <3>3. core'[d] \in {"starting", "up"}
      <4>1. ASSUME NEW c \in Cores, Crash(c) \/ RecoveryFault(c)
            PROVE  core'[d] \in {"starting", "up"}
        <5>1. c # d \/ UNCHANGED core
          <6> SUFFICES ASSUME c = d, core' # core PROVE FALSE
            OBVIOUS
          <6>1. queue'[d] = <<>>
            BY <4>1 DEF Crash, RecoveryFault, TypeOK
          <6> QED
            BY <1>1, <6>1 DEF Waits
        <5> QED
          BY <2>4, <4>1, <5>1 DEF Crash, RecoveryFault, TypeOK
      <4>2. ASSUME NEW c \in Cores, Start(c) \/ Close(c) \/ EndRecovery(c)
            PROVE  core'[d] \in {"starting", "up"}
        BY <2>4, <4>2 DEF Start, Close, EndRecovery, TypeOK
      <4>3. CASE UNCHANGED core
        BY <2>4, <4>3
      <4> QED
        BY <4>1, <4>2, <4>3, Moves
        DEF Rests, Continues, Finishes, CommitIndex, TakeJob, RetrySettlement, Register,
            RecoverLost, RecoverQueued
    <3> QED
      BY <3>2, <3>3
  <2> QED
    BY <2>1, <2>2, <2>3, <2>4
<1>2. ASSUME NEW d \in Cores, NEW i \in 1..Len(queue'[d]), NEW k \in 1..Len(queue'[d]),
             queue'[d][i] = queue'[d][k]
      PROVE  i = k
  <2>1. ASSUME NEW c \in Cores, NEW x \in Jobs, ~Waits(c, x),
               queue' = [queue EXCEPT ![c] = Append(@, x)]
        PROVE  i = k
    <3>1. queue[c] \in Seq(Jobs) /\ queue'[c] = Append(queue[c], x)
      BY <2>1 DEF TypeOK
    <3>2. CASE d = c
      BY <1>2, <2>1, <3>1, <3>2 DEF Places, Queues, Waits
    <3>3. CASE d # c
      BY <1>2, <2>1, <3>3 DEF Places, Queues, TypeOK
    <3> QED
      BY <3>2, <3>3
  <2>2. ASSUME NEW c \in Cores, CommitIndex(c) PROVE i = k
    BY <2>1, <2>2 DEF CommitIndex, Places, Newcomer, TypeOK
  <2>3. ASSUME NEW c \in Cores, NEW j \in Jobs, RecoverQueued(c, j) PROVE i = k
    <3>1. ~Alive(scheduler[j])
      BY <2>3, OwnerIsScheduler DEF RecoverQueued, Orphan, OwnerMayBeAlive
    <3>2. ~Waits(c, j)
      BY <3>1, OrphanApart
    <3> QED
      BY <2>1, <2>3, <3>2 DEF RecoverQueued
  <2>4. ASSUME NEW c \in Cores, TakeJob(c) PROVE i = k
    <3>1. queue[c] \in Seq(Jobs) /\ queue[c] # <<>> /\ queue' = [queue EXCEPT ![c] = Tail(@)]
      BY <2>4 DEF TakeJob, TypeOK
    <3>2. CASE d = c
      <4>1. /\ i + 1 \in 1..Len(queue[d]) /\ queue[d][i + 1] = queue'[d][i]
            /\ k + 1 \in 1..Len(queue[d]) /\ queue[d][k + 1] = queue'[d][k]
        BY <3>1, <3>2 DEF TypeOK
      <4>2. i + 1 = k + 1
        BY <1>2, <4>1 DEF Places, Queues
      <4>3. i \in Int /\ k \in Int
        BY <3>1, <3>2 DEF TypeOK
      <4> QED
        BY <4>2, <4>3
    <3>3. CASE d # c
      BY <1>2, <3>1, <3>3 DEF Places, Queues, TypeOK
    <3> QED
      BY <3>2, <3>3
  <2>5. CASE UNCHANGED queue
    BY <1>2, <2>5 DEF Places, Queues
  <2>6. ASSUME NEW c \in Cores, queue' = [queue EXCEPT ![c] = <<>>] PROVE i = k
    BY <1>2, <2>6 DEF Places, Queues, TypeOK
  <2>7. ASSUME NEW c \in Cores, Crash(c) \/ RecoveryFault(c) PROVE i = k
    BY <2>5, <2>6, <2>7 DEF Crash, RecoveryFault
  <2> QED
    BY <2>2, <2>3, <2>4, <2>5, <2>7, Moves
    DEF Rests, Continues, Finishes, Start, Close, EndRecovery, RetrySettlement, Register,
        RecoverLost
<1> QED
  BY <1>1, <1>2 DEF Queues

\* Every step keeps the failed futures of a Core apart from its queue and its worker.
LEMMA FuturesStep ==
  TypeOK /\ Ownership /\ Registering /\ Files /\ Places /\ Next => Futures'
<1> SUFFICES ASSUME TypeOK, Ownership, Registering, Files, Places, Next PROVE Futures'
  OBVIOUS
<1> USE ConstantsOK, ThreadPairs DEF TypeOK, jobVars, poolVars, recVars, threadVars, Alive
<1>1. ASSUME NEW t \in Threads, Finishes(t) PROVE Futures'
  <2>1. /\ cur[t] \in Jobs /\ scheduler[cur[t]] = t[1] /\ ~Waits(t[1], cur[t])
        /\ core[t[1]] \in {"starting", "up", "closing"}
    BY <1>1, HeldApart DEF Finishes, Ownership
  <2>2. ASSUME NEW c \in Cores, NEW j \in broken'[c]
        PROVE  /\ core[c] \in {"starting", "up", "closing"} /\ scheduler[j] = c
               /\ ~Waits(c, j)
               /\ pc'[Worker(c)] # "idle" => cur'[Worker(c)] # j
    <3>1. CASE j \in broken[c]
      BY <1>1, <2>2, <3>1 DEF Finishes, Places, Futures
    <3>2. CASE j \notin broken[c]
      <4>1. c = t[1] /\ j = cur[t]
        BY <1>1, <2>2, <3>2 DEF Finishes
      <4>2. t = Worker(c)
        BY <1>1, <3>2, <4>1 DEF Finishes, Places, Holders
      <4> QED
        BY <1>1, <2>1, <4>1, <4>2 DEF Finishes
    <3> QED
      BY <3>1, <3>2
  <2>3. /\ UNCHANGED <<scheduler, core>>
        /\ \A c \in Cores, j \in Jobs : Waits(c, j)' => Waits(c, j)
    BY <1>1 DEF Finishes, Waits
  <2>4. ASSUME NEW c \in Cores PROVE broken'[c] \subseteq Jobs
    <3>1. CASE c = t[1]
      BY <1>1, <2>1, <3>1 DEF Finishes
    <3>2. CASE c # t[1]
      BY <1>1, <3>2 DEF Finishes
    <3> QED
      BY <3>1, <3>2
  <2> QED
    BY <2>2, <2>3, <2>4 DEF Futures
<1>2. ASSUME NEW t \in Threads, Continues(t) PROVE Futures'
  BY <1>2 DEF Continues, Places, Futures, Waits
<1>3. CASE Rests
  BY <1>3 DEF Rests, Places, Futures, Waits
<1>4. ASSUME NEW c \in Cores, Start(c) \/ Close(c) \/ EndRecovery(c) PROVE Futures'
  BY <1>4 DEF Start, Close, EndRecovery, Places, Futures, Waits, Ownership
<1>5. ASSUME NEW c \in Cores, Crash(c) \/ RecoveryFault(c) PROVE Futures'
  <2>1. ASSUME NEW d \in Cores, NEW i \in Jobs PROVE Waits(d, i)' => Waits(d, i)
    BY <1>5, WaitsStep DEF Crash, RecoveryFault, Fault, CommitIndex, RecoverQueued, boundVars
  <2>2. CASE Crash(c)
    BY <2>1, <2>2 DEF Crash, Places, Futures
  <2>3. CASE RecoveryFault(c)
    <3>1. \A d \in Cores : core[d] \in {"starting", "up", "closing"}
                             => core'[d] \in {"starting", "up", "closing"}
      BY <2>3 DEF RecoveryFault
    <3>2. UNCHANGED <<scheduler, pc, cur, broken>>
      BY <2>3 DEF RecoveryFault
    <3> QED
      BY <2>1, <3>1, <3>2 DEF Places, Futures
  <2> QED
    BY <1>5, <2>2, <2>3
<1>6. ASSUME NEW c \in Cores, CommitIndex(c) PROVE Futures'
  <2>1. ASSUME NEW d \in Cores, NEW i \in Jobs, Waits(d, i)'
        PROVE  Waits(d, i) \/ (d = c /\ i = registering)
    BY <1>6, <2>1, WaitsStep DEF CommitIndex, RecoverQueued
  <2> QED
    BY <1>6, <2>1 DEF CommitIndex, Places, Futures, Newcomer
<1>7. ASSUME NEW c \in Cores, TakeJob(c) PROVE Futures'
  <2>1. queue[c] \in Seq(Jobs) /\ queue[c] # <<>>
    BY <1>7 DEF TakeJob
  <2>2. Waits(c, Head(queue[c]))
    <3>1. 1 \in 1..Len(queue[c]) /\ queue[c][1] = Head(queue[c])
      BY <2>1
    <3> QED
      BY <3>1 DEF Waits
  <2>3. ASSUME NEW d \in Cores, NEW i \in Jobs PROVE Waits(d, i)' => Waits(d, i)
    <3>1. pc' # pc
      BY <1>7 DEF TakeJob
    <3> QED
      BY <3>1, WaitsStep DEF CommitIndex, RecoverQueued
  <2>4. /\ pc' = [pc EXCEPT ![Worker(c)] = "waiting"]
        /\ cur' = [cur EXCEPT ![Worker(c)] = Head(queue[c])]
        /\ UNCHANGED <<scheduler, core, broken>>
    BY <1>7 DEF TakeJob
  <2>5. ASSUME NEW d \in Cores, NEW j \in broken[d], pc'[Worker(d)] # "idle"
        PROVE  cur'[Worker(d)] # j
    <3>1. CASE d = c
      BY <2>2, <2>4, <3>1 DEF Places, Futures
    <3>2. CASE d # c
      <4>1. Worker(d) # Worker(c)
        BY <3>2 DEF Worker
      <4>2. cur'[Worker(d)] = cur[Worker(d)] /\ pc'[Worker(d)] = pc[Worker(d)]
        BY <2>4, <4>1
      <4> QED
        BY <2>5, <4>2 DEF Places, Futures
    <3> QED
      BY <3>1, <3>2
  <2> QED
    BY <2>3, <2>4, <2>5 DEF Places, Futures
<1>8. ASSUME NEW c \in Cores, RetrySettlement(c) PROVE Futures'
  BY <1>8 DEF RetrySettlement, Places, Futures, Waits
<1>9. ASSUME NEW c \in Cores, NEW j \in Jobs, NEW k \in Keys, Register(c, j, k)
       PROVE  Futures'
  BY <1>9 DEF Register, Files, Places, Futures, Waits
<1>10. ASSUME NEW c \in Cores, NEW j \in Jobs, RecoverLost(c, j) PROVE Futures'
  BY <1>10 DEF RecoverLost, Places, Futures, Waits
<1>11. ASSUME NEW c \in Cores, NEW j \in Jobs, RecoverQueued(c, j) PROVE Futures'
  <2>1. ~Alive(scheduler[j])
    BY <1>11, OwnerIsScheduler DEF RecoverQueued, Orphan, OwnerMayBeAlive
  <2>2. \A d \in Cores : j \notin broken[d]
    BY <2>1, OrphanApart
  <2>3. ASSUME NEW d \in Cores, NEW i \in Jobs, i # j PROVE Waits(d, i)' => Waits(d, i)
    <3>1. registering = NoJob
      BY <1>11 DEF RecoverQueued, Orphan, Scanning, Registering
    <3>2. ~RecoverQueued(d, i)
      BY <1>11, <2>3 DEF RecoverQueued, Orphan, Scanning
    <3> QED
      BY <3>1, <3>2, WaitsStep DEF CommitIndex
  <2> QED
    BY <1>11, <2>2, <2>3 DEF RecoverQueued, Places, Futures
<1> QED
  BY <1>1, <1>2, <1>3, <1>4, <1>5, <1>6, <1>7, <1>8, <1>9, <1>10, <1>11, Moves

\* The job waits in the queue of a Core after the step.
WillWait(d, x) == \E n \in 1..Len(queue'[d]) : queue'[d][n] = x

\* Every step keeps the job of a thread its own, and a service thread at failed futures.
LEMMA HoldersStep ==
  TypeOK /\ Ownership /\ Registering /\ Files /\ Places /\ Next => Holders'
<1> SUFFICES ASSUME TypeOK, Ownership, Registering, Files, Places, Next PROVE Holders'
  OBVIOUS
<1> USE ConstantsOK, ThreadPairs DEF TypeOK, jobVars, poolVars, recVars, threadVars
<1>1. ASSUME NEW t \in Threads, Finishes(t) PROVE Holders'
  <2>1. ASSUME NEW u \in Threads, pc'[u] # "idle"
        PROVE  u # t /\ pc[u] # "idle" /\ pc'[u] = pc[u] /\ cur'[u] = cur[u]
    BY <1>1, <2>1 DEF Finishes
  <2>2. /\ UNCHANGED scheduler
        /\ \A c \in Cores, j \in Jobs : WillWait(c, j) => Waits(c, j)
    BY <1>1 DEF Finishes, Waits, WillWait
  <2>3. ASSUME NEW u \in Threads, pc'[u] # "idle"
        PROVE  scheduler'[cur'[u]] = u[1] /\ ~WillWait(u[1], cur'[u])
    BY <2>1, <2>2, <2>3, HeldApart
  <2>4. ASSUME NEW c \in Cores, pc'[Service(c)] # "idle"
        PROVE  /\ pc'[Service(c)] \in {"failing", "uncertain", "releasing"}
               /\ cur'[Service(c)] \in broken'[c]
    <3>1. /\ Service(c) # t /\ pc[Service(c)] # "idle" /\ pc'[Service(c)] = pc[Service(c)]
          /\ cur'[Service(c)] = cur[Service(c)]
      BY <2>1, <2>4
    <3>2. cur[Service(c)] # cur[t]
      BY <1>1, <3>1, HeldApart DEF Finishes
    <3>3. cur[Service(c)] \in broken[c]
      BY <3>1 DEF Places, Holders
    <3>4. cur[Service(c)] \in broken'[c]
      <4>1. CASE c = t[1]
        BY <1>1, <3>2, <3>3, <4>1 DEF Finishes
      <4>2. CASE c # t[1]
        BY <1>1, <3>3, <4>2 DEF Finishes
      <4> QED
        BY <4>1, <4>2
    <3> QED
      BY <3>1, <3>4 DEF Places, Holders
  <2> QED
    BY <2>3, <2>4 DEF Holders, Waits, WillWait
<1>2. ASSUME NEW t \in Threads, Continues(t) PROVE Holders'
  BY <1>2 DEF Continues, Places, Holders, Waits
<1>3. CASE Rests
  BY <1>3 DEF Rests, Places, Holders, Waits
<1>4. ASSUME NEW c \in Cores, Start(c) \/ EndRecovery(c) PROVE Holders'
  BY <1>4 DEF Start, EndRecovery, Places, Holders, Waits
<1>5. ASSUME NEW c \in Cores, Close(c) PROVE Holders'
  <2>1. pc[Service(c)] = "idle"
    BY <1>5 DEF Close, Ownership
  <2>2. \A d \in Cores : d # c => broken'[d] = broken[d]
    BY <1>5 DEF Close
  <2> QED
    BY <1>5, <2>1, <2>2 DEF Close, Places, Holders, Waits
<1>6. ASSUME NEW c \in Cores, Crash(c) PROVE Holders'
  <2>1. ASSUME NEW d \in Cores, NEW i \in Jobs PROVE WillWait(d, i) => Waits(d, i)
    <3>1. crashes' # crashes
      BY <1>6 DEF Crash
    <3>2. Waits(d, i)' => Waits(d, i)
      BY <3>1, WaitsStep DEF CommitIndex, RecoverQueued, boundVars
    <3> QED
      BY <3>2 DEF Waits, WillWait
  <2>2. ASSUME NEW u \in Threads, pc'[u] # "idle"
        PROVE  u[1] # c /\ pc'[u] = pc[u] /\ cur'[u] = cur[u]
    BY <1>6, <2>2 DEF Crash
  <2>3. ASSUME NEW u \in Threads, pc'[u] # "idle"
        PROVE  scheduler'[cur'[u]] = u[1] /\ ~WillWait(u[1], cur'[u])
    BY <1>6, <2>1, <2>2, <2>3, HeldApart DEF Crash
  <2>4. ASSUME NEW d \in Cores, pc'[Service(d)] # "idle"
        PROVE  /\ pc'[Service(d)] \in {"failing", "uncertain", "releasing"}
               /\ cur'[Service(d)] \in broken'[d]
    BY <1>6, <2>2, <2>4 DEF Crash, Places, Holders
  <2> QED
    BY <2>3, <2>4 DEF Holders, Waits, WillWait
<1>7. ASSUME NEW c \in Cores, RecoveryFault(c) PROVE Holders'
  <2>1. ASSUME NEW d \in Cores, NEW i \in Jobs PROVE WillWait(d, i) => Waits(d, i)
    <3>1. faults' # faults
      BY <1>7 DEF RecoveryFault, Fault
    <3>2. Waits(d, i)' => Waits(d, i)
      BY <3>1, WaitsStep DEF CommitIndex, RecoverQueued, boundVars
    <3> QED
      BY <3>2 DEF Waits, WillWait
  <2>2. UNCHANGED <<scheduler, pc, cur, broken>>
    BY <1>7 DEF RecoveryFault
  <2>3. ASSUME NEW u \in Threads, pc'[u] # "idle"
        PROVE  scheduler'[cur'[u]] = u[1] /\ ~WillWait(u[1], cur'[u])
    BY <2>1, <2>2, <2>3, HeldApart
  <2> QED
    BY <2>2, <2>3 DEF Places, Holders, Waits, WillWait
<1>8. ASSUME NEW c \in Cores, CommitIndex(c) PROVE Holders'
  <2>1. ASSUME NEW d \in Cores, NEW i \in Jobs, WillWait(d, i)
        PROVE  Waits(d, i) \/ i = registering
    BY <1>8, <2>1, WaitsStep DEF CommitIndex, RecoverQueued, Waits, WillWait
  <2>2. UNCHANGED <<scheduler, pc, cur, broken>>
    BY <1>8 DEF CommitIndex
  <2>3. ASSUME NEW u \in Threads, pc'[u] # "idle"
        PROVE  scheduler'[cur'[u]] = u[1] /\ ~WillWait(u[1], cur'[u])
    BY <2>1, <2>2, <2>3, HeldApart
  <2> QED
    BY <2>2, <2>3 DEF Places, Holders, Waits, WillWait
<1>9. ASSUME NEW c \in Cores, TakeJob(c) PROVE Holders'
  <2>1. queue[c] \in Seq(Jobs) /\ queue[c] # <<>>
    BY <1>9 DEF TakeJob
  <2>2. Head(queue[c]) \in Jobs /\ Waits(c, Head(queue[c]))
    <3>1. 1 \in 1..Len(queue[c]) /\ queue[c][1] = Head(queue[c]) /\ queue[c][1] \in Jobs
      BY <2>1
    <3> QED
      BY <3>1 DEF Waits
  <2>3. ~WillWait(c, Head(queue[c]))
    <3> SUFFICES ASSUME WillWait(c, Head(queue[c])) PROVE FALSE
      OBVIOUS
    <3>1. queue'[c] = Tail(queue[c])
      BY <1>9 DEF TakeJob
    <3>2. PICK n \in 1..Len(queue'[c]) : queue'[c][n] = Head(queue[c])
      BY DEF WillWait
    <3>3. /\ n + 1 \in 1..Len(queue[c]) /\ queue[c][n + 1] = queue[c][1]
          /\ 1 \in 1..Len(queue[c]) /\ n + 1 # 1
      BY <2>1, <3>1, <3>2
    <3> QED
      BY <3>3 DEF Places, Queues
  <2>4. ASSUME NEW d \in Cores, NEW i \in Jobs PROVE WillWait(d, i) => Waits(d, i)
    <3>1. pc' # pc
      BY <1>9 DEF TakeJob
    <3>2. Waits(d, i)' => Waits(d, i)
      BY <3>1, WaitsStep DEF CommitIndex, RecoverQueued
    <3> QED
      BY <3>2 DEF Waits, WillWait
  <2>5. /\ pc' = [pc EXCEPT ![Worker(c)] = "waiting"]
        /\ cur' = [cur EXCEPT ![Worker(c)] = Head(queue[c])]
        /\ UNCHANGED <<scheduler, broken>>
    BY <1>9 DEF TakeJob
  <2>6. ASSUME NEW u \in Threads, pc'[u] # "idle"
        PROVE  scheduler'[cur'[u]] = u[1] /\ ~WillWait(u[1], cur'[u])
    <3>1. CASE u = Worker(c)
      BY <2>2, <2>3, <2>5, <3>1 DEF Places, Queues
    <3>2. CASE u # Worker(c)
      <4>1. cur'[u] = cur[u] /\ pc[u] # "idle"
        BY <2>5, <2>6, <3>2
      <4> QED
        BY <2>4, <2>5, <4>1, HeldApart
    <3> QED
      BY <3>1, <3>2
  <2>7. ASSUME NEW d \in Cores
        PROVE  pc'[Service(d)] = pc[Service(d)] /\ cur'[Service(d)] = cur[Service(d)]
    BY <2>5
  <2> QED
    BY <2>5, <2>6, <2>7 DEF Places, Holders, Waits, WillWait
<1>10. ASSUME NEW c \in Cores, RetrySettlement(c) PROVE Holders'
  <2>1. PICK j \in broken[c] :
          /\ cur' = [cur EXCEPT ![Service(c)] = j]
          /\ pc' = [pc EXCEPT ![Service(c)] = "failing"]
    BY <1>10 DEF RetrySettlement
  <2>2. scheduler[j] = c /\ ~Waits(c, j)
    BY DEF Places, Futures
  <2>3. UNCHANGED <<scheduler, queue, broken>>
    BY <1>10 DEF RetrySettlement
  <2>4. ASSUME NEW u \in Threads, u # Service(c)
        PROVE  pc'[u] = pc[u] /\ cur'[u] = cur[u]
    BY <2>1, <2>4
  <2>5. cur'[Service(c)] = j /\ pc'[Service(c)] = "failing"
    BY <2>1
  <2>6. ASSUME NEW d \in Cores, d # c PROVE Service(d) # Service(c)
    BY <2>6 DEF Service
  <2>7. ASSUME NEW u \in Threads, pc'[u] # "idle"
        PROVE  scheduler'[cur'[u]] = u[1] /\ ~WillWait(u[1], cur'[u])
    <3>1. CASE u = Service(c)
      BY <2>2, <2>3, <2>5, <3>1 DEF Waits, WillWait
    <3>2. CASE u # Service(c)
      BY <2>3, <2>4, <2>7, <3>2 DEF Places, Holders, Waits, WillWait
    <3> QED
      BY <3>1, <3>2
  <2>8. ASSUME NEW d \in Cores, pc'[Service(d)] # "idle"
        PROVE  /\ pc'[Service(d)] \in {"failing", "uncertain", "releasing"}
               /\ cur'[Service(d)] \in broken'[d]
    <3>1. CASE d = c
      BY <2>3, <2>5, <3>1
    <3>2. CASE d # c
      BY <2>3, <2>4, <2>6, <2>8, <3>2 DEF Places, Holders
    <3> QED
      BY <3>1, <3>2
  <2> QED
    BY <2>7, <2>8 DEF Holders, Waits, WillWait
<1>11. ASSUME NEW c \in Cores, NEW j \in Jobs, NEW k \in Keys, Register(c, j, k)
       PROVE  Holders'
  <2>1. ASSUME NEW u \in Threads, pc[u] # "idle" PROVE cur[u] # j
    <3>1. scheduler[j] = NoCore
      BY <1>11 DEF Register, Files
    <3>2. scheduler[cur[u]] = u[1] /\ u[1] \in Cores
      BY <2>1 DEF Places, Holders
    <3> QED
      BY <3>1, <3>2
  <2> QED
    BY <1>11, <2>1 DEF Register, Places, Holders, Waits, Ownership
<1>12. ASSUME NEW c \in Cores, NEW j \in Jobs, RecoverLost(c, j) PROVE Holders'
  BY <1>12 DEF RecoverLost, Places, Holders, Waits
<1>13. ASSUME NEW c \in Cores, NEW j \in Jobs, RecoverQueued(c, j) PROVE Holders'
  <2>1. ~Alive(scheduler[j])
    BY <1>13, OwnerIsScheduler DEF RecoverQueued, Orphan, OwnerMayBeAlive
  <2>2. \A u \in Threads : pc[u] # "idle" => cur[u] # j
    BY <2>1, OrphanApart
  <2>3. ASSUME NEW d \in Cores, NEW i \in Jobs, i # j PROVE WillWait(d, i) => Waits(d, i)
    <3>1. registering = NoJob
      BY <1>13 DEF RecoverQueued, Orphan, Scanning, Registering
    <3>2. ~RecoverQueued(d, i)
      BY <1>13, <2>3 DEF RecoverQueued, Orphan, Scanning
    <3> QED
      BY <3>1, <3>2, WaitsStep DEF CommitIndex, Waits, WillWait
  <2>4. UNCHANGED <<pc, cur, broken>> /\ scheduler' = [scheduler EXCEPT ![j] = c]
    BY <1>13 DEF RecoverQueued
  <2>5. ASSUME NEW u \in Threads, pc'[u] # "idle"
        PROVE  scheduler'[cur'[u]] = u[1] /\ ~WillWait(u[1], cur'[u])
    BY <2>2, <2>3, <2>4, <2>5, HeldApart
  <2> QED
    BY <2>4, <2>5 DEF Places, Holders, Waits, WillWait
<1> QED
  BY <1>1, <1>2, <1>3, <1>4, <1>5, <1>6, <1>7, <1>8, <1>9, <1>10, <1>11, <1>12, <1>13, Moves

\* Every step keeps the job under registration out of every other hand.
LEMMA NewcomerStep ==
  TypeOK /\ Ownership /\ Registering /\ Files /\ Places /\ Next => Newcomer'
<1> SUFFICES ASSUME TypeOK, Ownership, Registering, Files, Places, Next,
                    registering' # NoJob
             PROVE  /\ recLock' \in Cores
                    /\ core'[recLock'] = "up"
                    /\ scheduler'[registering'] = recLock'
                    /\ ~WillWait(recLock', registering')
                    /\ registering' \notin broken'[recLock']
                    /\ \A t \in Threads : pc'[t] # "idle" => cur'[t] # registering'
  BY DEF Newcomer, Waits, WillWait
<1> DEFINE Goal ==
      /\ recLock' \in Cores
      /\ core'[recLock'] = "up"
      /\ scheduler'[registering'] = recLock'
      /\ ~WillWait(recLock', registering')
      /\ registering' \notin broken'[recLock']
      /\ \A t \in Threads : pc'[t] # "idle" => cur'[t] # registering'
<1> USE ConstantsOK, ThreadPairs DEF TypeOK, jobVars, poolVars, recVars, threadVars
<1>1. ASSUME NEW c \in Cores, NEW j \in Jobs, NEW k \in Keys, Register(c, j, k) PROVE Goal
  <2>1. scheduler[j] = NoCore
    BY <1>1 DEF Register, Files
  <2>2. ~Waits(c, j) /\ j \notin broken[c]
    BY <2>1 DEF Places, Queues, Futures
  <2>3. ASSUME NEW u \in Threads, pc[u] # "idle" PROVE cur[u] # j
    <3>1. scheduler[cur[u]] = u[1] /\ u[1] \in Cores
      BY <2>3 DEF Places, Holders
    <3> QED
      BY <2>1, <3>1
  <2> QED
    BY <1>1, <2>2, <2>3 DEF Register, Waits, WillWait
<1> DEFINE Before ==
      /\ registering \in Jobs /\ recLock \in Cores
      /\ core[recLock] = "up"
      /\ scheduler[registering] = recLock
      /\ ~Waits(recLock, registering)
      /\ registering \notin broken[recLock]
      /\ \A t \in Threads : pc[t] # "idle" => cur[t] # registering
<1>2. ASSUME registering # NoJob PROVE Before
  BY <1>2 DEF Places, Newcomer
<1>3. ASSUME NEW t \in Threads, Continues(t) PROVE Goal
  BY <1>2, <1>3 DEF Continues, Waits, WillWait
<1>4. ASSUME NEW t \in Threads, Finishes(t) PROVE Goal
  <2>1. /\ UNCHANGED <<queue, scheduler, core, recLock, registering>>
        /\ pc' = [pc EXCEPT ![t] = "idle"]
        /\ cur' = [cur EXCEPT ![t] = NoJob]
    BY <1>4 DEF Finishes
  <2>2. Before /\ cur[t] # registering
    BY <1>2, <1>4, <2>1 DEF Finishes
  <2>3. registering \notin broken'[recLock]
    <3>1. CASE recLock = t[1]
      BY <1>4, <2>2, <3>1 DEF Finishes
    <3>2. CASE recLock # t[1]
      BY <1>4, <2>2, <3>2 DEF Finishes
    <3> QED
      BY <3>1, <3>2
  <2> QED
    BY <2>1, <2>2, <2>3 DEF Waits, WillWait
<1>5. CASE Rests
  BY <1>2, <1>5 DEF Rests, Waits, WillWait
<1>6. ASSUME NEW c \in Cores, Start(c) \/ Close(c) PROVE Goal
  BY <1>2, <1>6 DEF Start, Close, Waits, WillWait
<1>7. ASSUME NEW c \in Cores, EndRecovery(c) PROVE Goal
  BY <1>7 DEF EndRecovery, Registering
<1>8. ASSUME NEW c \in Cores, Crash(c) PROVE Goal
  <2>1. c # recLock /\ UNCHANGED <<recLock, registering, scheduler>> /\ Before
    BY <1>2, <1>8 DEF Crash
  <2>2. /\ core'[recLock] = core[recLock] /\ queue'[recLock] = queue[recLock]
        /\ broken'[recLock] = broken[recLock]
    BY <1>8, <2>1 DEF Crash
  <2>3. \A u \in Threads : pc'[u] # "idle" => pc[u] # "idle" /\ cur'[u] = cur[u]
    BY <1>8 DEF Crash
  <2> QED
    BY <2>1, <2>2, <2>3 DEF Waits, WillWait
<1>9. ASSUME NEW c \in Cores, RecoveryFault(c) PROVE Goal
  <2>1. Before /\ UNCHANGED <<registering, scheduler, pc, cur, broken>>
    BY <1>2, <1>9 DEF RecoveryFault
  <2>2. handler[c] = "recover" /\ recLock' = recLock
    BY <1>9, <2>1 DEF RecoveryFault, Registering
  <2>3. core'[recLock] = "up" /\ queue'[recLock] = queue[recLock]
    BY <1>9, <2>1 DEF RecoveryFault
  <2> QED
    BY <2>1, <2>2, <2>3 DEF Waits, WillWait
<1>10. ASSUME NEW c \in Cores, CommitIndex(c) PROVE Goal
  BY <1>10 DEF CommitIndex
<1>11. ASSUME NEW c \in Cores, TakeJob(c) PROVE Goal
  <2>1. queue[c] \in Seq(Jobs) /\ queue[c] # <<>>
    BY <1>11 DEF TakeJob
  <2>2. 1 \in 1..Len(queue[c]) /\ queue[c][1] = Head(queue[c])
    BY <2>1
  <2>3. /\ pc' = [pc EXCEPT ![Worker(c)] = "waiting"]
        /\ cur' = [cur EXCEPT ![Worker(c)] = Head(queue[c])]
        /\ queue' = [queue EXCEPT ![c] = Tail(@)]
        /\ UNCHANGED <<scheduler, core, broken, recLock, registering>>
    BY <1>11 DEF TakeJob
  <2>4. Before
    BY <1>2, <2>3
  <2>5. Head(queue[c]) # registering
    <3>1. Waits(c, Head(queue[c])) /\ Head(queue[c]) \in Jobs
      BY <2>1, <2>2 DEF Waits
    <3> QED
      BY <2>4, <3>1 DEF Places, Queues
  <2>6. ASSUME NEW u \in Threads, pc'[u] # "idle" PROVE cur'[u] # registering
    BY <2>3, <2>4, <2>5, <2>6
  <2>7. ~WillWait(recLock, registering)
    <3>1. pc' # pc
      BY <1>11 DEF TakeJob
    <3>2. ~Waits(recLock, registering)'
      BY <2>3, <2>4, <3>1, WaitsStep DEF CommitIndex, RecoverQueued
    <3> QED
      BY <2>3, <3>2 DEF Waits, WillWait
  <2> QED
    BY <2>3, <2>4, <2>6, <2>7
<1>12. ASSUME NEW c \in Cores, RetrySettlement(c) PROVE Goal
  <2>1. PICK j \in broken[c] :
          /\ cur' = [cur EXCEPT ![Service(c)] = j]
          /\ pc' = [pc EXCEPT ![Service(c)] = "failing"]
    BY <1>12 DEF RetrySettlement
  <2>2. UNCHANGED <<scheduler, core, queue, broken, recLock, registering>>
    BY <1>12 DEF RetrySettlement
  <2>3. Before
    BY <1>2, <2>2
  <2>4. j # registering
    BY <2>3 DEF Places, Futures
  <2>5. ASSUME NEW u \in Threads, pc'[u] # "idle" PROVE cur'[u] # registering
    BY <2>1, <2>3, <2>4, <2>5
  <2> QED
    BY <2>2, <2>3, <2>5 DEF Waits, WillWait
<1>13. ASSUME NEW c \in Cores, NEW j \in Jobs, RecoverLost(c, j) PROVE Goal
  BY <1>13 DEF RecoverLost, Scanning, Registering
<1>14. ASSUME NEW c \in Cores, NEW j \in Jobs, RecoverQueued(c, j) PROVE Goal
  BY <1>14 DEF RecoverQueued, Orphan, Scanning, Registering
<1> QED
  BY <1>1, <1>3, <1>4, <1>5, <1>6, <1>7, <1>8, <1>9, <1>10, <1>11, <1>12, <1>13, <1>14, Moves

\* Every step keeps the owner of the job that a scan has given up dead.
LEMMA AbandonedStep ==
  TypeOK /\ Ownership /\ Registering /\ Files /\ Places /\ Next => Abandoned'
<1> SUFFICES ASSUME TypeOK, Ownership, Registering, Files, Places, Next PROVE Abandoned'
  OBVIOUS
<1> USE ConstantsOK DEF TypeOK, jobVars, poolVars, recVars, Abandoned, Places, Alive
<1>1. ASSUME NEW c \in Cores, NEW j \in Jobs, RecoverLost(c, j) PROVE Abandoned'
  <2>1. scheduler[j] \in Cores /\ ~Alive(scheduler[j]) /\ core[scheduler[j]] # "off"
    BY <1>1, OwnerIsScheduler DEF RecoverLost, OwnerMayBeAlive, Files, ACTIVE
  <2> QED
    BY <1>1, <2>1 DEF RecoverLost
<1>2. ASSUME NEW c \in Cores, NEW j \in Jobs, NEW k \in Keys, Register(c, j, k)
      PROVE  Abandoned'
  BY <1>2 DEF Register, Files
<1>3. ASSUME NEW c \in Cores, NEW j \in Jobs, RecoverQueued(c, j) PROVE Abandoned'
  BY <1>3 DEF RecoverQueued, Orphan, Scanning
<1>4. ASSUME NEW t \in Threads, Continues(t) \/ Finishes(t) PROVE Abandoned'
  BY <1>4 DEF Continues, Finishes
<1>5. CASE Rests
  BY <1>5 DEF Rests
<1>6. ASSUME NEW c \in Cores, Start(c) \/ Close(c) \/ Crash(c) PROVE Abandoned'
  BY <1>6 DEF Start, Close, Crash
<1>7. ASSUME NEW c \in Cores, EndRecovery(c) \/ CommitIndex(c) PROVE Abandoned'
  BY <1>7 DEF EndRecovery, CommitIndex
<1>8. ASSUME NEW c \in Cores, TakeJob(c) \/ RetrySettlement(c) PROVE Abandoned'
  BY <1>8 DEF TakeJob, RetrySettlement
<1>9. ASSUME NEW c \in Cores, RecoveryFault(c) PROVE Abandoned'
  BY <1>9 DEF RecoveryFault
<1> QED
  BY <1>1, <1>2, <1>3, <1>4, <1>5, <1>6, <1>7, <1>8, <1>9, Moves

\* Every step keeps each job in one hand.
LEMMA PlacesStep ==
  TypeOK /\ Ownership /\ Registering /\ Files /\ Places /\ Next => Places'
BY QueuesStep, FuturesStep, HoldersStep, NewcomerStep, AbandonedStep DEF Places

-----------------------------------------------------------------------------
(* Fresh work.                                                             *)

\* The job as a registration leaves it: not dispatched, at most marked for cancelling.
Open(j) == dispatch[j] = NoCore /\ state[j] \in {"queued", "cancel_requested"}

\* It is still open after the step, and its key still leads to it.
Kept(j) ==
  /\ dispatch'[j] = NoCore
  /\ state'[j] \in {"queued", "cancel_requested"}
  /\ key'[j] = key[j]
  /\ index[key[j]] = j => index'[key[j]] = j

\* Nobody but the thread that has it takes an open job of a living owner further.
LEMMA OpenStep ==
  ASSUME TypeOK, Ownership, Dispatching, Registering, Files, Places, Next,
         NEW j \in Jobs, Open(j), Alive(scheduler[j]),
         \A t \in Threads :
           pc[t] # "idle" /\ cur[t] = j => pc'[t] \in {"waiting", "checking", "marked"}
  PROVE  Kept(j)
<1> USE ConstantsOK
    DEF TypeOK, Open, Kept, jobVars, rootVars, sessionVars, threadVars, poolVars, recVars
<1>1. ASSUME NEW c \in Cores,
             \/ Start(c) \/ Close(c) \/ Crash(c) \/ IndexFault(c) \/ IdleTime(c) \/ TakeJob(c)
             \/ RetrySettlement(c) \/ BeginRecovery(c) \/ EndRecovery(c) \/ RecoveryFault(c)
      PROVE  Kept(j)
  BY <1>1 DEF Start, Close, Crash, IndexFault, IdleTime, TakeJob, RetrySettlement, BeginRecovery,
              EndRecovery, RecoveryFault
<1>2. ASSUME NEW c \in Cores, NEW i \in Jobs, NEW k \in Keys, Register(c, i, k) PROVE Kept(j)
  BY <1>2 DEF Register
<1>3. ASSUME NEW c \in Cores, CommitIndex(c) PROVE Kept(j)
  BY <1>3 DEF CommitIndex, Registering
<1>4. ASSUME NEW c \in Cores, RecoverUnknown(c) PROVE Kept(j)
  <2>1. lost # j
    BY <1>4 DEF RecoverUnknown, Places, Abandoned, Alive
  <2> QED
    BY <1>4, <2>1 DEF RecoverUnknown, StoreReconciled
<1>5. ASSUME NEW c \in Cores, NEW i \in Jobs,
             RecoverSkip(c, i) \/ RecoverLost(c, i) \/ CallReconcile(c, i)
      PROVE  Kept(j)
  BY <1>5 DEF RecoverSkip, RecoverLost, CallReconcile
<1>6. ASSUME NEW c \in Cores, NEW i \in Jobs, RecoverConflict(c, i) PROVE Kept(j)
  <2>1. i # j
    BY <1>6, OwnerIsScheduler DEF RecoverConflict, Orphan, OwnerMayBeAlive
  <2> QED
    BY <1>6, <2>1 DEF RecoverConflict, SaveState
<1>7. ASSUME NEW c \in Cores, NEW i \in Jobs, RecoverQueued(c, i) PROVE Kept(j)
  <2>1. i # j
    BY <1>7, OwnerIsScheduler DEF RecoverQueued, Orphan, OwnerMayBeAlive
  <2> QED
    BY <1>7, <2>1 DEF RecoverQueued
<1>8. ASSUME NEW c \in Cores, ReconcileTarget(c) PROVE Kept(j)
  <2>1. PICK r \in Reconciled(target[c], state[target[c]], error[target[c]]) :
               state' = [state EXCEPT ![target[c]] = r.state]
    BY <1>8 DEF ReconcileTarget, StoreReconciled
  <2>2. target[c] = j => r.state = state[j]
    BY <2>1, ReconciledFacts DEF Files
  <2> QED
    BY <1>8, <2>1, <2>2 DEF ReconcileTarget
<1>9. ASSUME NEW c \in Cores, NEW i \in Jobs, Cancel(c, i) PROVE Kept(j)
  BY <1>9 DEF Cancel, SaveState, ACTIVE
<1>10. ASSUME NEW t \in Threads,
              \/ AcquireExecution(t) \/ PublishPrevious(t) \/ FindNoQuarantine(t) \/ WriteMarker(t)
              \/ BackendReturns(t) \/ BackendRaises(t) \/ NoReceipt(t)
              \/ QuarantineSuspect(t) \/ ReleaseExecution(t) \/ QuarantineUncertain(t)
              \/ WorkerFault(t) \/ BusyFault(t) \/ FailureFault(t)
       PROVE  Kept(j)
  BY <1>10 DEF AcquireExecution, PublishPrevious, FindNoQuarantine,
               WriteMarker, BackendReturns, BackendRaises,
               NoReceipt, QuarantineSuspect, ReleaseExecution, QuarantineUncertain,
               WorkerFault, BusyFault, FailureFault
<1>11. ASSUME NEW t \in Threads,
              ExecutorBusy(t) \/ RefuseQuarantined(t) \/ CancelUndispatched(t)
              \/ FailUndispatched(t)
       PROVE  Kept(j)
  <2>1. pc[t] # "idle" /\ pc'[t] = "idle"
    BY <1>11 DEF ExecutorBusy, RefuseQuarantined, CancelUndispatched, FailUndispatched, Unlock
  <2>2. cur[t] # j
    BY <2>1
  <2> QED
    BY <1>11, <2>2
    DEF ExecutorBusy, RefuseQuarantined, CancelUndispatched, FailUndispatched, SaveState
<1>12. ASSUME NEW t \in Threads, WriteDispatch(t) \/ CallBackend(t) PROVE Kept(j)
  <2>1. pc[t] # "idle" /\ pc'[t] \in {"dispatched", "native"}
    BY <1>12 DEF WriteDispatch, CallBackend, Goto
  <2>2. cur[t] # j
    BY <2>1
  <2> QED
    BY <1>12, <2>2 DEF WriteDispatch, CallBackend, SaveState
<1>13. ASSUME NEW t \in Threads, ReconcileReturned(t) \/ SettleUncertain(t) PROVE Kept(j)
  <2>1. pc[t] # "idle" /\ pc'[t] \in {"suspect", "settled", "releasing"}
    BY <1>13 DEF ReconcileReturned, SettleUncertain, Goto
  <2>2. cur[t] # j
    BY <2>1
  <2> QED
    BY <1>13, <2>2 DEF ReconcileReturned, SettleUncertain, StoreReconciled, SaveState
<1>14. ASSUME NEW i \in Jobs, CommitReceipt(i) \/ SessionExits(i) PROVE Kept(j)
  BY <1>14 DEF CommitReceipt, SessionExits
<1>15. ASSUME ClearQuarantine \/ ClearFault PROVE Kept(j)
  BY <1>15 DEF ClearQuarantine, ClearFault
<1> QED
  BY <1>1, <1>2, <1>3, <1>4, <1>5, <1>6, <1>7, <1>8, <1>9, <1>10, <1>11, <1>12, <1>13,
     <1>14, <1>15
  DEF Next, Registration, Owned, Failure, Recovery

\* Every step leaves what waits, is examined or is being registered open.
LEMMA FreshStep ==
  TypeOK /\ Ownership /\ Dispatching /\ Registering /\ Files /\ Places /\ Fresh /\ Next
    => Fresh'
<1> SUFFICES ASSUME TypeOK, Ownership, Dispatching, Registering, Files, Places, Fresh, Next
             PROVE  Fresh'
  OBVIOUS
<1> USE ConstantsOK, ThreadPairs
<1>1. ASSUME NEW c \in Cores, NEW j \in Jobs, Waits(c, j) PROVE Kept(j) /\ Untouched(j)
  <2>1. Untouched(j) /\ scheduler[j] = c /\ Alive(c)
    BY <1>1 DEF Fresh, Places, Queues, Alive
  <2>2. \A t \in Threads : pc[t] # "idle" => cur[t] # j
    BY <1>1, HeldApart
  <2> QED
    BY <2>1, <2>2, OpenStep DEF Untouched, Open
<1>2. ASSUME NEW c \in Cores, NEW j \in Jobs, Waits(c, j)'
      PROVE  /\ dispatch'[j] = NoCore /\ state'[j] \in {"queued", "cancel_requested"}
             /\ index'[key'[j]] = j
  <2>1. CASE Waits(c, j)
    BY <1>1, <2>1 DEF Kept, Untouched
  <2>2. CASE CommitIndex(c) /\ j = registering
    <3>1. key[j] \in Keys
      BY <2>2 DEF CommitIndex, Fresh, Files
    <3> QED
      BY <2>2, <3>1 DEF CommitIndex, Fresh, TypeOK, jobVars
  <2>3. CASE RecoverQueued(c, j)
    BY <2>3 DEF RecoverQueued, Orphan, Files, TypeOK
  <2> QED
    BY <1>2, <2>1, <2>2, <2>3, WaitsStep
<1>3. ASSUME NEW t \in Threads, pc'[t] \in {"waiting", "checking", "marked"}
      PROVE  /\ dispatch'[cur'[t]] = NoCore
             /\ state'[cur'[t]] \in {"queued", "cancel_requested"}
             /\ index'[key'[cur'[t]]] = cur'[t]
  <2>1. CASE pc[t] \in {"waiting", "checking", "marked"} /\ cur'[t] = cur[t]
    <3>1. /\ cur[t] \in Jobs /\ Untouched(cur[t]) /\ Alive(scheduler[cur[t]])
          /\ \A u \in Threads : u # t /\ pc[u] # "idle" => cur[u] # cur[t]
      BY <2>1, HeldApart DEF Fresh, Ownership
    <3>2. Kept(cur[t])
      BY <1>3, <3>1, OpenStep DEF Untouched, Open
    <3> QED
      BY <2>1, <3>1, <3>2 DEF Kept, Untouched
  <2>2. ASSUME NEW c \in Cores, TakeJob(c), t = Worker(c), cur'[t] = Head(queue[c])
        PROVE  Kept(cur'[t]) /\ Untouched(Head(queue[c]))
    <3>1. queue[c] \in Seq(Jobs) /\ queue[c] # <<>>
      BY <2>2 DEF TakeJob, TypeOK
    <3>2. 1 \in 1..Len(queue[c]) /\ queue[c][1] = Head(queue[c]) /\ queue[c][1] \in Jobs
      BY <3>1
    <3>3. Waits(c, Head(queue[c]))
      BY <3>2 DEF Waits
    <3> QED
      BY <1>1, <2>2, <3>2, <3>3 DEF Kept
  <2>3. \/ pc[t] \in {"waiting", "checking", "marked"} /\ cur'[t] = cur[t]
        \/ \E c \in Cores : TakeJob(c) /\ t = Worker(c) /\ cur'[t] = Head(queue[c])
    <3> USE DEF TypeOK, threadVars
    <3>1. CASE Rests
      BY <1>3, <3>1 DEF Rests
    <3>2. ASSUME NEW u \in Threads, Continues(u) \/ Finishes(u)
          PROVE  pc[t] \in {"waiting", "checking", "marked"} /\ cur'[t] = cur[t]
      BY <1>3, <3>2 DEF Continues, Finishes
    <3>3. ASSUME NEW c \in Cores,
                 \/ Start(c) \/ Close(c) \/ Crash(c) \/ EndRecovery(c) \/ RecoveryFault(c)
                 \/ CommitIndex(c) \/ RetrySettlement(c)
          PROVE  pc[t] \in {"waiting", "checking", "marked"} /\ cur'[t] = cur[t]
      BY <1>3, <3>3
      DEF Start, Close, Crash, EndRecovery, RecoveryFault, CommitIndex, RetrySettlement
    <3>4. ASSUME NEW c \in Cores, TakeJob(c)
          PROVE  \/ pc[t] \in {"waiting", "checking", "marked"} /\ cur'[t] = cur[t]
                 \/ t = Worker(c) /\ cur'[t] = Head(queue[c])
      BY <1>3, <3>4 DEF TakeJob
    <3>5. ASSUME NEW c \in Cores, NEW j \in Jobs,
                 \/ \E k \in Keys : Register(c, j, k)
                 \/ RecoverLost(c, j) \/ RecoverQueued(c, j)
          PROVE  pc[t] \in {"waiting", "checking", "marked"} /\ cur'[t] = cur[t]
      BY <1>3, <3>5 DEF Register, RecoverLost, RecoverQueued
    <3> QED
      BY <3>1, <3>2, <3>3, <3>4, <3>5, Moves
  <2> QED
    BY <2>1, <2>2, <2>3 DEF Kept, Untouched
<1>4. ASSUME registering' # NoJob
      PROVE  /\ dispatch'[registering'] = NoCore
             /\ state'[registering'] \in {"queued", "cancel_requested"}
  <2>1. CASE registering' = registering
    <3>1. /\ registering \in Jobs /\ Open(registering) /\ Alive(scheduler[registering])
          /\ \A t \in Threads : pc[t] # "idle" => cur[t] # registering
      BY <1>4, <2>1 DEF TypeOK, Fresh, Open, Places, Newcomer, Alive
    <3> QED
      BY <2>1, <3>1, OpenStep DEF Kept
  <2>2. CASE registering' # registering
    <3>1. PICK c \in Cores, j \in Jobs, k \in Keys : Register(c, j, k)
      BY <1>4, <2>2, Moves
      DEF Rests, Continues, Finishes, Start, Close, Crash, EndRecovery, RecoveryFault,
          CommitIndex, TakeJob, RetrySettlement, RecoverLost, RecoverQueued, recVars
    <3> QED
      BY <3>1 DEF Register, Files, TypeOK
  <2> QED
    BY <2>1, <2>2
<1> QED
  BY <1>2, <1>3, <1>4 DEF Fresh, Untouched

-----------------------------------------------------------------------------
(* What is told of a job, and what becomes of it.                          *)

\* What a step may make of a job: a settled one stays settled, a completed one can only be
\* revoked, only a registration makes something of nothing, and nothing is forgotten.
Evolves(j) ==
  /\ state[j] \notin ACTIVE /\ state'[j] \in ACTIVE
       => state[j] = "absent"
  /\ state'[j] = "absent" => state[j] = "absent"
  /\ state[j] = "absent" /\ state'[j] # "absent"
       => \E c \in Cores, k \in Keys : Register(c, j, k)
  /\ state[j] = "completed" /\ state'[j] # "completed"
       => state'[j] = "failed" /\ error'[j] = "REVISION_CONFLICT"
  /\ state[j] \in {"failed", "cancelled"} => state'[j] = state[j]
  /\ state[j] = "unknown" /\ dispatch[j] = NoCore => state'[j] = "unknown"

\* Its client is told that nothing was dispatched exactly when it has ended so.
HonestAfter(j) ==
  error'[j] \in NotDispatched <=> dispatch'[j] = NoCore /\ state'[j] \in {"failed", "cancelled"}

\* The receipt bears a verdict out, unless there was no dispatch.
BorneOutAfter(j) ==
  /\ state'[j] = "completed" => receipt'[j] = "completed"
  /\ state'[j] \in {"failed", "cancelled"} =>
       \/ dispatch'[j] = NoCore
       \/ receipt'[j] = state'[j]
       \/ state'[j] = "failed" /\ receipt'[j] = "completed"

\* Reconciling a job as it stands, or an active one as unknown, keeps all three.
LEMMA ReconcilingKeeps ==
  ASSUME TypeOK, Files, Honest, Verdicts, NEW i \in Jobs, NEW s \in States, NEW e \in Errors,
         \/ s = "unknown" /\ e = "OUTCOME_UNKNOWN" /\ state[i] \in ACTIVE
         \/ s = state[i] /\ e = error[i],
         StoreReconciled(i, s, e), UNCHANGED <<dispatch, receipt>>, NEW j \in Jobs
  PROVE  Evolves(j) /\ HonestAfter(j) /\ BorneOutAfter(j)
<1> USE ConstantsOK DEF TypeOK
<1>1. PICK r \in Reconciled(i, s, e) :
             /\ state' = [state EXCEPT ![i] = r.state]
             /\ error' = [error EXCEPT ![i] = r.error]
  BY DEF StoreReconciled
<1>2. CASE j # i
  BY <1>1, <1>2 DEF Evolves, HonestAfter, BorneOutAfter, Honest, Verdicts
<1>3. CASE j = i
  <2>1. state'[j] = r.state /\ error'[j] = r.error
    BY <1>1, <1>3
  <2>2. Evolves(j)
    BY <1>3, <2>1, ReconciledFacts DEF Evolves, Files, Verdicts, ACTIVE
  <2>3. HonestAfter(j)
    BY <1>3, <2>1, ReconciledFacts DEF HonestAfter, Files, Honest, NotDispatched
  <2>4. BorneOutAfter(j)
    BY <1>3, <2>1, ReconciledFacts DEF BorneOutAfter, Verdicts, ACTIVE
  <2> QED
    BY <2>2, <2>3, <2>4
<1> QED
  BY <1>2, <1>3

\* Every step makes of each job only what it may.
LEMMA JobStep ==
  ASSUME TypeOK, Ownership, Dispatching, Files, Places, Fresh, Honest, Verdicts, Next,
         NEW j \in Jobs
  PROVE  Evolves(j) /\ HonestAfter(j) /\ BorneOutAfter(j)
<1> DEFINE Goal == Evolves(j) /\ HonestAfter(j) /\ BorneOutAfter(j)
<1> USE ConstantsOK
<1>0. ASSUME UNCHANGED <<state, error, dispatch, receipt>> PROVE Goal
  BY <1>0 DEF Evolves, HonestAfter, BorneOutAfter, Honest, Verdicts
<1>1. ASSUME NEW i \in Jobs, NEW s \in States, NEW e \in Errors,
             \/ s = "unknown" /\ e = "OUTCOME_UNKNOWN" /\ state[i] \in ACTIVE
             \/ s = state[i] /\ e = error[i],
             StoreReconciled(i, s, e), UNCHANGED <<dispatch, receipt>>
      PROVE  Goal
  BY <1>1, ReconcilingKeeps
<1>2. ASSUME NEW i \in Jobs, NEW s \in States \ (ACTIVE \cup {"completed", "absent"}),
             NEW e \in Errors, state[i] \in ACTIVE,
             s \in {"failed", "cancelled"} => dispatch[i] = NoCore,
             e \in NotDispatched <=> s \in {"failed", "cancelled"},
             state' = [state EXCEPT ![i] = s], error' = [error EXCEPT ![i] = e],
             UNCHANGED <<dispatch, receipt>>
      PROVE  Goal
  BY <1>2 DEF TypeOK, Evolves, HonestAfter, BorneOutAfter, Honest, Verdicts, ACTIVE, States
<1> HIDE DEF Goal
<1> USE DEF jobVars
<1>3. ASSUME NEW c \in Cores,
             \/ Start(c) \/ Close(c) \/ Crash(c) \/ CommitIndex(c) \/ IndexFault(c) \/ IdleTime(c)
             \/ TakeJob(c) \/ RetrySettlement(c) \/ BeginRecovery(c) \/ EndRecovery(c)
             \/ RecoveryFault(c)
      PROVE  Goal
  BY <1>0, <1>3 DEF Start, Close, Crash, CommitIndex, IndexFault, IdleTime, TakeJob,
                    RetrySettlement,
                    BeginRecovery, EndRecovery, RecoveryFault
<1>4. ASSUME NEW c \in Cores, NEW i \in Jobs, NEW k \in Keys, Register(c, i, k) PROVE Goal
  <2>1. /\ state[i] = "absent" /\ state' = [state EXCEPT ![i] = "queued"]
        /\ UNCHANGED <<error, dispatch, receipt>>
    BY <1>4 DEF Register
  <2>2. i = j => Register(c, j, k)
    BY <1>4
  <2>3. Evolves(j)
    BY <2>1, <2>2 DEF TypeOK, Evolves
  <2>4. HonestAfter(j) /\ BorneOutAfter(j)
    BY <2>1 DEF TypeOK, HonestAfter, BorneOutAfter, Honest, Verdicts
  <2> QED
    BY <2>3, <2>4 DEF Goal
<1>5. ASSUME NEW c \in Cores, NEW i \in Jobs,
             RecoverSkip(c, i) \/ RecoverLost(c, i) \/ RecoverQueued(c, i)
             \/ CallReconcile(c, i)
      PROVE  Goal
  BY <1>0, <1>5 DEF RecoverSkip, RecoverLost, RecoverQueued, CallReconcile
<1>6. ASSUME NEW c \in Cores, RecoverUnknown(c) PROVE Goal
  <2>1. lost \in Jobs /\ UNCHANGED <<dispatch, receipt>>
    BY <1>6 DEF RecoverUnknown, TypeOK
  <2>2. CASE state[lost] \in ACTIVE
    <3>1. StoreReconciled(lost, "unknown", "OUTCOME_UNKNOWN")
      BY <1>6, <2>2 DEF RecoverUnknown
    <3>2. "unknown" \in States /\ "OUTCOME_UNKNOWN" \in Errors
      BY DEF States, Errors
    <3> QED
      BY <1>1, <2>1, <2>2, <3>1, <3>2
  <2>3. CASE state[lost] \notin ACTIVE
    <3>1. StoreReconciled(lost, state[lost], error[lost])
      BY <1>6, <2>3 DEF RecoverUnknown
    <3>2. state[lost] \in States /\ error[lost] \in Errors
      BY <2>1 DEF TypeOK
    <3> QED
      BY <1>1, <2>1, <3>1, <3>2
  <2> QED
    BY <2>2, <2>3
<1>7. ASSUME NEW c \in Cores, NEW i \in Jobs, RecoverConflict(c, i) PROVE Goal
  <2>1. /\ state[i] \in ACTIVE /\ dispatch[i] = NoCore /\ UNCHANGED <<dispatch, receipt>>
        /\ state' = [state EXCEPT ![i] = "failed"]
        /\ error' = [error EXCEPT ![i] = "INDEX_CONFLICT"]
    BY <1>7 DEF RecoverConflict, Orphan, SaveState, States, ACTIVE
  <2>2. /\ "failed" \in States \ (ACTIVE \cup {"completed", "absent"})
        /\ "INDEX_CONFLICT" \in Errors /\ "INDEX_CONFLICT" \in NotDispatched
    BY DEF States, ACTIVE, Errors, NotDispatched
  <2> QED
    BY <1>2, <2>1, <2>2
<1>8. ASSUME NEW c \in Cores, ReconcileTarget(c) PROVE Goal
  <2>1. /\ StoreReconciled(target[c], state[target[c]], error[target[c]])
        /\ UNCHANGED <<dispatch, receipt>>
    BY <1>8 DEF ReconcileTarget
  <2>2. CASE target[c] \in Jobs
    <3>1. state[target[c]] \in States /\ error[target[c]] \in Errors
      BY <2>2 DEF TypeOK
    <3> QED
      BY <1>1, <2>1, <2>2, <3>1
  <2>3. CASE target[c] \notin Jobs
    <3>1. PICK r \in Reconciled(target[c], state[target[c]], error[target[c]]) :
                 /\ state' = [state EXCEPT ![target[c]] = r.state]
                 /\ error' = [error EXCEPT ![target[c]] = r.error]
      BY <2>1 DEF StoreReconciled
    <3>2. state' = state /\ error' = error
      BY <2>3, <3>1 DEF TypeOK
    <3> QED
      BY <1>0, <2>1, <3>2
  <2> QED
    BY <2>2, <2>3
<1>9. ASSUME NEW c \in Cores, NEW i \in Jobs, Cancel(c, i) PROVE Goal
  BY <1>9 DEF Cancel, SaveState, TypeOK, Goal, Evolves, HonestAfter, BorneOutAfter, Honest,
              Verdicts, ACTIVE
<1>10. ASSUME NEW t \in Threads,
              \/ AcquireExecution(t) \/ PublishPrevious(t) \/ FindNoQuarantine(t) \/ WriteMarker(t)
              \/ BackendReturns(t) \/ BackendRaises(t) \/ NoReceipt(t)
              \/ QuarantineSuspect(t) \/ ReleaseExecution(t) \/ QuarantineUncertain(t)
              \/ WorkerFault(t) \/ BusyFault(t) \/ FailureFault(t)
       PROVE  Goal
  BY <1>0, <1>10
     DEF AcquireExecution, PublishPrevious, FindNoQuarantine,
         WriteMarker, BackendReturns, BackendRaises,
         NoReceipt, QuarantineSuspect, ReleaseExecution, QuarantineUncertain, WorkerFault,
         BusyFault, FailureFault
<1>11. ASSUME NEW t \in Threads, ExecutorBusy(t) \/ FailUndispatched(t) PROVE Goal
  <2>1. PICK e \in {"EXECUTOR_BUSY", "DISPATCH_FAILED"} :
          SaveState(cur[t], ACTIVE, "failed", e)
    BY <1>11 DEF ExecutorBusy, FailUndispatched
  <2>2. /\ cur[t] \in Jobs /\ dispatch[cur[t]] = NoCore /\ UNCHANGED <<dispatch, receipt>>
    BY <1>11, HeldApart DEF ExecutorBusy, FailUndispatched
  <2>3. CASE state[cur[t]] \in ACTIVE
    <3>1. /\ state' = [state EXCEPT ![cur[t]] = "failed"]
          /\ error' = [error EXCEPT ![cur[t]] = e]
      BY <2>1, <2>3 DEF SaveState
    <3>2. /\ "failed" \in States \ (ACTIVE \cup {"completed", "absent"})
          /\ e \in Errors /\ e \in NotDispatched
      BY DEF States, ACTIVE, Errors, NotDispatched
    <3> QED
      BY <1>2, <2>2, <2>3, <3>1, <3>2
  <2>4. CASE state[cur[t]] \notin ACTIVE
    BY <1>0, <2>1, <2>2, <2>4 DEF SaveState
  <2> QED
    BY <2>3, <2>4
<1>12. ASSUME NEW t \in Threads, RefuseQuarantined(t) \/ CancelUndispatched(t) PROVE Goal
  <2>1. PICK s \in {"failed", "cancelled"},
             e \in {"EXECUTOR_RECOVERY_REQUIRED", "CANCELLED_BEFORE_DISPATCH"} :
          SaveState(cur[t], States, s, e)
    BY <1>12 DEF RefuseQuarantined, CancelUndispatched
  <2>2. /\ cur[t] \in Jobs /\ dispatch[cur[t]] = NoCore /\ state[cur[t]] \in ACTIVE
        /\ UNCHANGED <<dispatch, receipt>>
    BY <1>12, HeldApart DEF RefuseQuarantined, CancelUndispatched, Fresh, Untouched
  <2>3. state' = [state EXCEPT ![cur[t]] = s] /\ error' = [error EXCEPT ![cur[t]] = e]
    BY <2>1, <2>2 DEF SaveState, States
  <2>4. /\ s \in States \ (ACTIVE \cup {"completed", "absent"})
        /\ e \in Errors /\ e \in NotDispatched
    BY DEF States, ACTIVE, Errors, NotDispatched
  <2> QED
    BY <1>2, <2>2, <2>3, <2>4
<1>13. ASSUME NEW t \in Threads, WriteDispatch(t) PROVE Goal
  <2>1. cur[t] \in Jobs /\ Untouched(cur[t])
    BY <1>13, HeldApart DEF WriteDispatch, Fresh
  <2> QED
    BY <1>13, <2>1
       DEF WriteDispatch, Untouched, TypeOK, Goal, Evolves, HonestAfter, BorneOutAfter,
           Honest, Verdicts
<1>14. ASSUME NEW t \in Threads, CallBackend(t) PROVE Goal
  BY <1>14 DEF CallBackend, SaveState, TypeOK, Goal, Evolves, HonestAfter, BorneOutAfter,
               Honest, Verdicts, ACTIVE, NotDispatched
<1>15. ASSUME NEW t \in Threads, ReconcileReturned(t) \/ SettleUncertain(t) PROVE Goal
  <2>1. /\ cur[t] \in Jobs /\ UNCHANGED <<dispatch, receipt>>
        /\ \/ StoreReconciled(cur[t], state[cur[t]], error[cur[t]])
           \/ SaveState(cur[t], ACTIVE, "unknown", "OUTCOME_UNKNOWN")
    BY <1>15, HeldApart DEF ReconcileReturned, SettleUncertain
  <2>2. CASE StoreReconciled(cur[t], state[cur[t]], error[cur[t]])
    <3>1. state[cur[t]] \in States /\ error[cur[t]] \in Errors
      BY <2>1 DEF TypeOK
    <3> QED
      BY <1>1, <2>1, <2>2, <3>1
  <2>3. CASE SaveState(cur[t], ACTIVE, "unknown", "OUTCOME_UNKNOWN")
    <3>1. /\ "unknown" \in States \ (ACTIVE \cup {"completed", "absent"})
          /\ "OUTCOME_UNKNOWN" \in Errors /\ "OUTCOME_UNKNOWN" \notin NotDispatched
      BY DEF States, ACTIVE, Errors, NotDispatched
    <3>2. CASE state[cur[t]] \in ACTIVE
      BY <1>2, <2>1, <2>3, <3>1, <3>2 DEF SaveState
    <3>3. CASE state[cur[t]] \notin ACTIVE
      BY <1>0, <2>1, <2>3, <3>3 DEF SaveState
    <3> QED
      BY <3>2, <3>3
  <2> QED
    BY <2>1, <2>2, <2>3
<1>16. ASSUME NEW i \in Jobs, CommitReceipt(i) \/ SessionExits(i) PROVE Goal
  BY <1>16 DEF CommitReceipt, SessionExits, TypeOK, Goal, Evolves, HonestAfter, BorneOutAfter,
               Honest, Verdicts, Files
<1>17. ASSUME ClearQuarantine \/ ClearFault PROVE Goal
  BY <1>0, <1>17 DEF ClearQuarantine, ClearFault
<1>18. Goal
  BY <1>3, <1>4, <1>5, <1>6, <1>7, <1>8, <1>9, <1>10, <1>11, <1>12, <1>13, <1>14, <1>15,
     <1>16, <1>17
  DEF Next, Registration, Owned, Failure, Recovery
<1> QED
  BY <1>18 DEF Goal

-----------------------------------------------------------------------------
(* Theorems of the specification.                                          *)

\* All of it together, with the invariants of the other two modules that it rests on.
JobInv ==
  /\ TypeOK /\ Ownership /\ Dispatching /\ Registering
  /\ Files /\ Places /\ Fresh /\ Honest /\ Verdicts

\* The initial files and threads satisfy it.
LEMMA InitJobInv == Init => JobInv
<1> SUFFICES ASSUME Init PROVE JobInv
  OBVIOUS
<1>1. TypeOK /\ Ownership
  BY ConstantsOK, ThreadPairs
       DEF Init, TypeOK, Ownership, States, ACTIVE, Errors, PCs, Critical
<1>2. Dispatching /\ Registering
  BY ConstantsOK DEF Init, Dispatching, NoReplay, Registering
<1>3. Files /\ Honest /\ Verdicts
  BY DEF Init, Files, Honest, Verdicts, NotDispatched
<1>4. \A c \in Cores, j \in Jobs : ~Waits(c, j)
  BY DEF Init, Waits
<1>5. Places
  BY <1>4, ThreadPairs
       DEF Init, Places, Queues, Futures, Holders, Newcomer, Abandoned
<1>6. Fresh
  BY <1>4 DEF Init, Fresh
<1> QED
  BY <1>1, <1>2, <1>3, <1>5, <1>6 DEF JobInv

\* Every step keeps it.
LEMMA NextJobInv == JobInv /\ [Next]_vars => JobInv'
<1>1. ASSUME JobInv, Next PROVE JobInv'
  <2> USE <1>1 DEF JobInv
  <2>1. TypeOK' /\ Ownership' /\ Dispatching' /\ Registering'
    BY TypeStep, OwnershipStep, DispatchingStep, RegisteringStep
  <2>2. Files' /\ Places' /\ Fresh'
    BY FilesStep, PlacesStep, FreshStep
  <2>3. \A j \in Jobs : HonestAfter(j) /\ BorneOutAfter(j)
    BY JobStep
  <2>4. Honest' /\ Verdicts'
    BY <2>3 DEF Honest, Verdicts, HonestAfter, BorneOutAfter
  <2> QED
    BY <2>1, <2>2, <2>4
<1>2. ASSUME JobInv, UNCHANGED vars PROVE JobInv'
  BY <1>2
     DEF vars, jobVars, rootVars, sessionVars, threadVars, poolVars, recVars, boundVars,
         JobInv, TypeOK, Ownership, Alive, Dispatching, NoReplay, Registering, Files, Places,
         Queues, Futures, Holders, Newcomer, Abandoned, Waits, Fresh, Untouched, Honest,
         Verdicts
<1> QED
  BY <1>1, <1>2

\* It is an invariant of the specification.
LEMMA JobInvariant == Spec => []JobInv
BY InitJobInv, NextJobInv, PTL DEF Spec

\* The worker never meets a job that somebody else dispatched, ran or settled: whatever
\* recovery takes over and whatever is cancelled or retried, each job has one holder.
THEOREM WorkIsFresh == Spec => []FreshWork
<1>1. JobInv => FreshWork
  BY DEF JobInv, Fresh, FreshWork, Untouched
<1> QED
  BY <1>1, JobInvariant, PTL

\* "No native dispatch occurred" is never said of a job that was dispatched, nor does such a
\* job run later.
THEOREM ErrorsAreHonest == Spec => []HonestErrors
<1>1. JobInv => HonestErrors
  BY DEF JobInv, Honest, Dispatching, HonestErrors
<1> QED
  BY <1>1, JobInvariant, PTL

\* Two jobs of one idempotency key are never both dispatched: a dispatched job is the one its
\* key leads to.
THEOREM KeyDispatchedOnce == Spec => []OneDispatchPerKey
<1>1. JobInv => OneDispatchPerKey
  BY DEF JobInv, Files, OneDispatchPerKey
<1> QED
  BY <1>1, JobInvariant, PTL

\* A settled job stays settled; a completed one can only be revoked for its artifacts.
THEOREM SettledIsStable == Spec => SettledStable
<1>1. JobInv /\ [Next]_vars =>
        [\A j \in Jobs :
           /\ state[j] \in States \ (ACTIVE \cup {"absent"}) => state'[j] \notin ACTIVE
           /\ state[j] = "completed" /\ state'[j] # "completed"
                => state'[j] = "failed" /\ error'[j] = "REVISION_CONFLICT"
           /\ state[j] \in {"failed", "cancelled"} => state'[j] = state[j]]_<<state, error>>
  <2>1. ASSUME JobInv, Next, NEW j \in Jobs PROVE Evolves(j)
    BY <2>1, JobStep DEF JobInv
  <2>2. UNCHANGED vars => UNCHANGED <<state, error>>
    BY DEF vars, jobVars
  <2> QED
    BY <2>1, <2>2 DEF Evolves
<1> QED
  BY <1>1, JobInvariant, PTL DEF Spec, SettledStable

\* The admission limit of _run holds for all active jobs of the root together, however many
\* Cores register and whatever recovery submits again.
THEOREM QueueIsBounded == Spec => []QueueLimit
<1> DEFINE Bounded == IsFiniteSet(ActiveJobs) /\ Cardinality(ActiveJobs) <= MaxActiveJobs
<1>1. Init => Bounded
  <2> SUFFICES ASSUME Init PROVE Bounded
    OBVIOUS
  <2>1. ActiveJobs = {}
    BY DEF Init, ActiveJobs, ACTIVE
  <2> QED
    BY <2>1, FS_EmptySet, ConstantsOK
<1>2. JobInv /\ Bounded /\ [Next]_vars => Bounded'
  <2>1. ASSUME JobInv, Bounded, ActiveJobs' \subseteq ActiveJobs PROVE Bounded'
    <3>1. /\ IsFiniteSet(ActiveJobs')
          /\ Cardinality(ActiveJobs') <= Cardinality(ActiveJobs)
      BY <2>1, FS_Subset
    <3>2. Cardinality(ActiveJobs') \in Nat /\ Cardinality(ActiveJobs) \in Nat
      BY <2>1, <3>1, FS_CardinalityType
    <3> QED
      BY <2>1, <3>1, <3>2, ConstantsOK
  <2>2. ASSUME JobInv, Bounded, NEW c \in Cores, NEW j \in Jobs, NEW k \in Keys,
               Register(c, j, k)
        PROVE  Bounded'
    <3>1. ActiveJobs' = ActiveJobs \cup {j}
      BY <2>2 DEF Register, JobInv, TypeOK, ActiveJobs, ACTIVE
    <3>2. /\ IsFiniteSet(ActiveJobs')
          /\ Cardinality(ActiveJobs') \in {Cardinality(ActiveJobs), Cardinality(ActiveJobs) + 1}
      BY <2>2, <3>1, FS_AddElement
    <3>3. Cardinality(ActiveJobs) \in Nat /\ Cardinality(ActiveJobs) < MaxActiveJobs
      BY <2>2, FS_CardinalityType DEF Register
    <3> QED
      BY <3>2, <3>3, ConstantsOK
  <2>3. ASSUME JobInv, Bounded, Next PROVE Bounded'
    <3>1. CASE \E c \in Cores, j \in Jobs, k \in Keys : Register(c, j, k)
      BY <2>2, <2>3, <3>1
    <3>2. CASE ~\E c \in Cores, j \in Jobs, k \in Keys : Register(c, j, k)
      <4>1. \A j \in Jobs : Evolves(j)
        BY <2>3, JobStep DEF JobInv
      <4>2. ActiveJobs' \subseteq ActiveJobs
        BY <3>2, <4>1 DEF Evolves, ActiveJobs
      <4> QED
        BY <2>1, <2>3, <4>2
    <3> QED
      BY <3>1, <3>2
  <2>4. ASSUME JobInv, Bounded, UNCHANGED vars PROVE Bounded'
    <3>1. ActiveJobs' = ActiveJobs
      BY <2>4 DEF vars, jobVars, ActiveJobs
    <3> QED
      BY <2>1, <2>4, <3>1
  <2> QED
    BY <2>3, <2>4
<1>3. Bounded => QueueLimit
  BY DEF QueueLimit
<1> HIDE DEF Bounded
<1> QED
  BY <1>1, <1>2, <1>3, JobInvariant, PTL DEF Spec

-----------------------------------------------------------------------------
(* No accepted job is forgotten.                                           *)

\* Somebody has the job: its Core's queue, worker or failed futures, or the next recovery.
Held(j) ==
  \/ core[scheduler[j]] \in {"closing", "dead"}
  \/ Waits(scheduler[j], j)
  \/ pc[Worker(scheduler[j])] # "idle" /\ cur[Worker(scheduler[j])] = j
  \/ j \in broken[scheduler[j]]

\* A thread that is about to let go of its job has settled it, or somebody else has.
Concluded ==
  \A t \in Threads :
    pc[t] \in {"suspect", "settled", "releasing"} => state[cur[t]] \notin ACTIVE

\* A job that is not active now, and has an owner, is not active after the step.
LEMMA StaysSettled ==
  ASSUME JobInv, Next, NEW j \in Jobs, scheduler[j] # NoCore, state[j] \notin ACTIVE
  PROVE  state'[j] \notin ACTIVE
<1>1. Evolves(j)
  BY JobStep DEF JobInv
<1> QED
  BY <1>1 DEF Evolves, JobInv, Files

\* A reconciliation by the owner settles a job that has a receipt.
LEMMA ReceiptSettles ==
  ASSUME TypeOK, NEW j \in Jobs, receipt[j] # "none",
         StoreReconciled(j, state[j], error[j])
  PROVE  state'[j] \notin ACTIVE
<1>1. receipt[j] \in {"completed", "failed", "cancelled", "invalid"}
  BY ConstantsOK DEF TypeOK
<1> QED
  BY <1>1 DEF StoreReconciled, Reconciled, TypeOK, ACTIVE

\* Every step keeps it so.
LEMMA ConcludedStep == JobInv /\ Concluded /\ Next => Concluded'
<1> SUFFICES ASSUME JobInv, Concluded, Next, NEW t \in Threads,
                    pc'[t] \in {"suspect", "settled", "releasing"}
             PROVE  state'[cur'[t]] \notin ACTIVE
  BY DEF Concluded
<1> DEFINE Ends == {"suspect", "settled", "releasing"}
           Was == pc[t] \in Ends /\ cur'[t] = cur[t]
<1> USE DEF JobInv, jobVars, threadVars
<1>1. ASSUME Was PROVE state'[cur'[t]] \notin ACTIVE
  <2>1. cur[t] \in Jobs /\ scheduler[cur[t]] # NoCore
    BY <1>1, HeldApart, ConstantsOK, ThreadPairs
  <2> QED
    BY <1>1, <2>1, StaysSettled DEF Concluded
<1>2. ASSUME UNCHANGED <<pc, cur>> PROVE Was
  BY <1>2
<1>3. ASSUME NEW c \in Cores,
             \/ Start(c) \/ Close(c) \/ Crash(c) \/ CommitIndex(c) \/ IndexFault(c) \/ IdleTime(c)
             \/ TakeJob(c) \/ RetrySettlement(c) \/ BeginRecovery(c) \/ RecoverUnknown(c)
             \/ EndRecovery(c) \/ RecoveryFault(c) \/ ReconcileTarget(c)
      PROVE  Was
  BY <1>3 DEF Start, Close, Crash, CommitIndex, IndexFault, IdleTime, TakeJob, RetrySettlement,
              BeginRecovery, RecoverUnknown, EndRecovery, RecoveryFault, ReconcileTarget,
              TypeOK
<1>4. ASSUME NEW c \in Cores, NEW i \in Jobs, NEW k \in Keys, Register(c, i, k) PROVE Was
  BY <1>4 DEF Register
<1>5. ASSUME NEW c \in Cores, NEW i \in Jobs,
             \/ Cancel(c, i) \/ CallReconcile(c, i) \/ RecoverSkip(c, i)
             \/ RecoverLost(c, i) \/ RecoverConflict(c, i) \/ RecoverQueued(c, i)
      PROVE  Was
  BY <1>5 DEF Cancel, CallReconcile, RecoverSkip, RecoverLost, RecoverConflict, RecoverQueued
<1>6. ASSUME NEW u \in Threads,
             \/ AcquireExecution(u) \/ ExecutorBusy(u) \/ PublishPrevious(u) \/ FindNoQuarantine(u)
             \/ RefuseQuarantined(u) \/ CancelUndispatched(u) \/ WriteMarker(u)
             \/ WriteDispatch(u) \/ CallBackend(u) \/ BackendReturns(u) \/ BackendRaises(u)
             \/ NoReceipt(u) \/ QuarantineSuspect(u) \/ ReleaseExecution(u)
             \/ FailUndispatched(u) \/ QuarantineUncertain(u)
             \/ WorkerFault(u) \/ BusyFault(u) \/ FailureFault(u)
      PROVE  Was
  BY <1>6 DEF AcquireExecution, ExecutorBusy, PublishPrevious, FindNoQuarantine, RefuseQuarantined,
              CancelUndispatched, WriteMarker, WriteDispatch, CallBackend, BackendReturns,
              BackendRaises, NoReceipt, QuarantineSuspect, ReleaseExecution, FailUndispatched,
              QuarantineUncertain, WorkerFault, BusyFault, FailureFault, Goto, Unlock, TypeOK
<1>7. ASSUME NEW u \in Threads, ReconcileReturned(u) \/ SettleUncertain(u)
      PROVE  Was \/ state'[cur'[t]] \notin ACTIVE
  <2>1. /\ cur'[t] = cur[t]
        /\ u # t => pc'[t] = pc[t]
    BY <1>7 DEF ReconcileReturned, SettleUncertain, Goto, TypeOK
  <2>2. cur[u] \in Jobs
    BY <1>7, HeldApart DEF ReconcileReturned, SettleUncertain
  <2>3. CASE ReconcileReturned(u)
    BY <2>1, <2>2, <2>3, ReceiptSettles DEF ReconcileReturned
  <2>4. CASE SettleUncertain(u) /\ receipt[cur[u]] # "none"
    BY <2>1, <2>2, <2>4, ReceiptSettles DEF SettleUncertain
  <2>5. CASE SettleUncertain(u) /\ receipt[cur[u]] = "none"
    BY <2>1, <2>2, <2>5 DEF SettleUncertain, SaveState, TypeOK, ACTIVE
  <2> QED
    BY <1>7, <2>3, <2>4, <2>5
<1>8. ASSUME NEW i \in Jobs, CommitReceipt(i) \/ SessionExits(i) PROVE Was
  BY <1>8 DEF CommitReceipt, SessionExits
<1>9. ASSUME ClearQuarantine \/ ClearFault PROVE Was
  BY <1>9 DEF ClearQuarantine, ClearFault
<1> HIDE DEF Was
<1> QED
  BY <1>1, <1>3, <1>4, <1>5, <1>6, <1>7, <1>8, <1>9
  DEF Next, Registration, Owned, Failure, Recovery

\* A thread lets go only of a settled job, or leaves it with the failed futures.
LEMMA LetsGo ==
  ASSUME TypeOK, Ownership, Places, Concluded, NEW t \in Threads,
         \/ ExecutorBusy(t) \/ RefuseQuarantined(t) \/ CancelUndispatched(t)
         \/ ReleaseExecution(t) \/ FailUndispatched(t) \/ BusyFault(t) \/ FailureFault(t)
  PROVE  /\ Finishes(t) /\ UNCHANGED <<key, index>>
         /\ state'[cur[t]] \notin ACTIVE \/ cur[t] \in broken'[t[1]]
<1> USE DEF jobVars, rootVars, poolVars, recVars
<1>1. /\ cur[t] \in Jobs /\ t[1] \in Cores
      /\ state \in [Jobs -> States] /\ broken \in [Cores -> SUBSET Jobs]
  BY HeldApart, ThreadPairs
     DEF ExecutorBusy, RefuseQuarantined, CancelUndispatched, ReleaseExecution,
         FailUndispatched, BusyFault, FailureFault, TypeOK
<1>2. ASSUME NEW s \in {"failed", "cancelled"}, NEW e,
             SaveState(cur[t], ACTIVE, s, e) \/ SaveState(cur[t], States, s, e)
      PROVE  state'[cur[t]] \notin ACTIVE
  BY <1>1, <1>2 DEF SaveState, ACTIVE
<1>3. CASE ExecutorBusy(t)
  <2>1. Finishes(t) /\ UNCHANGED <<key, index>>
    BY <1>3 DEF ExecutorBusy, Finishes
  <2>2. SaveState(cur[t], ACTIVE, "failed", "EXECUTOR_BUSY")
    BY <1>3 DEF ExecutorBusy
  <2> QED
    BY <1>2, <2>1, <2>2
<1>4. CASE RefuseQuarantined(t)
  <2>1. Finishes(t) /\ UNCHANGED <<key, index>>
    BY <1>4 DEF RefuseQuarantined, Finishes, Unlock
  <2>2. SaveState(cur[t], States, "failed", "EXECUTOR_RECOVERY_REQUIRED")
    BY <1>4 DEF RefuseQuarantined
  <2> QED
    BY <1>2, <2>1, <2>2
<1>5. CASE CancelUndispatched(t)
  <2>1. Finishes(t) /\ UNCHANGED <<key, index>>
    BY <1>5 DEF CancelUndispatched, Finishes, Unlock
  <2>2. SaveState(cur[t], States, "cancelled", "CANCELLED_BEFORE_DISPATCH")
    BY <1>5 DEF CancelUndispatched
  <2> QED
    BY <1>2, <2>1, <2>2
<1>6. CASE FailUndispatched(t)
  <2>1. Finishes(t) /\ UNCHANGED <<key, index>>
    BY <1>6 DEF FailUndispatched, Finishes, Unlock
  <2>2. SaveState(cur[t], ACTIVE, "failed", "DISPATCH_FAILED")
    BY <1>6 DEF FailUndispatched
  <2> QED
    BY <1>2, <2>1, <2>2
<1>7. CASE ReleaseExecution(t)
  <2>1. Finishes(t) /\ UNCHANGED <<key, index, state>>
    BY <1>7 DEF ReleaseExecution, Finishes, Unlock
  <2>2. pc[t] \in {"settled", "releasing"}
    BY <1>7 DEF ReleaseExecution
  <2> QED
    BY <2>1, <2>2 DEF Concluded
<1>8. CASE BusyFault(t) \/ FailureFault(t)
  <2>1. Finishes(t) /\ UNCHANGED <<key, index>>
    BY <1>8 DEF BusyFault, FailureFault, Finishes, Unlock
  <2>2. broken' = [broken EXCEPT ![t[1]] = @ \cup {cur[t]}]
    BY <1>8 DEF BusyFault, FailureFault
  <2> QED
    BY <1>1, <2>1, <2>2
<1> QED
  BY <1>3, <1>4, <1>5, <1>6, <1>7, <1>8

\* Every step keeps every accepted job with somebody.
LEMMA HeldStep ==
  ASSUME JobInv, Concluded, Next, NEW j \in Jobs,
         state[j] \in ACTIVE /\ index[key[j]] = j => Held(j),
         state'[j] \in ACTIVE, index'[key'[j]] = j
  PROVE  Held(j)'
<1> DEFINE d == scheduler[j]
<1> USE ConstantsOK DEF JobInv, jobVars, rootVars, threadVars, poolVars, recVars
<1>1. \/ state[j] \in ACTIVE
      \/ \E c \in Cores, k \in Keys : Register(c, j, k)
  <2>1. Evolves(j)
    BY JobStep
  <2> QED
    BY <2>1 DEF Evolves
<1>2. state[j] \in ACTIVE => d \in Cores /\ core[d] # "off"
  BY DEF Files, TypeOK, ACTIVE
<1>3. ASSUME UNCHANGED <<key, index, scheduler, queue, broken>>, state[j] \in ACTIVE,
             core'[d] = core[d] \/ core'[d] \in {"closing", "dead"},
             pc[Worker(d)] # "idle" => pc'[Worker(d)] # "idle",
             cur'[Worker(d)] = cur[Worker(d)]
      PROVE  Held(j)'
  BY <1>3 DEF Held, Waits
<1>4. ASSUME NEW c \in Cores, NEW i \in Jobs, NEW k \in Keys, Register(c, i, k)
      PROVE  Held(j)'
  <2>1. i # j
    BY <1>4 DEF Register, TypeOK
  <2>2. UNCHANGED <<index, queue, broken, core, pc, cur>> /\ scheduler'[j] = scheduler[j]
        /\ key'[j] = key[j] /\ state'[j] = state[j]
    BY <1>4, <2>1 DEF Register, TypeOK
  <2> QED
    BY <2>2 DEF Held, Waits
<1>5. ASSUME NEW c \in Cores, NEW i \in Jobs, state[j] \in ACTIVE,
             index' = [index EXCEPT ![key[i]] = i], UNCHANGED <<key, broken, core, pc, cur>>,
             queue' = [queue EXCEPT ![c] = Append(@, i)],
             scheduler'[i] = c, j # i => scheduler'[j] = d
      PROVE  Held(j)'
  <2>1. queue[c] \in Seq(Jobs) /\ queue'[c] = Append(queue[c], i)
    BY <1>5 DEF TypeOK
  <2>2. CASE i = j
    <3>1. Len(queue'[c]) \in 1..Len(queue'[c]) /\ queue'[c][Len(queue'[c])] = j
      BY <2>1, <2>2
    <3> QED
      BY <1>5, <2>2, <3>1 DEF Held, Waits
  <2>3. CASE i # j
    <3>1. index[key[j]] = j
      BY <1>5, <2>3 DEF TypeOK
    <3>2. Waits(d, j) => Waits(d, j)'
      <4>1. ASSUME NEW n \in 1..Len(queue[d]), queue[d][n] = j
            PROVE  n \in 1..Len(queue'[d]) /\ queue'[d][n] = j
        BY <1>2, <1>5, <2>1, <4>1 DEF TypeOK
      <4>2. scheduler'[j] = d
        BY <1>5, <2>3
      <4> QED
        BY <4>1, <4>2 DEF Waits
    <3> QED
      BY <1>5, <2>3, <3>1, <3>2 DEF Held
  <2> QED
    BY <2>2, <2>3
<1>6. ASSUME NEW c \in Cores, CommitIndex(c), state[j] \in ACTIVE PROVE Held(j)'
  <2>1. registering \in Jobs /\ scheduler[registering] = c
    BY <1>6 DEF CommitIndex, TypeOK, Places, Newcomer
  <2> QED
    BY <1>5, <1>6, <2>1 DEF CommitIndex
<1>7. ASSUME NEW c \in Cores, NEW i \in Jobs, RecoverQueued(c, i), state[j] \in ACTIVE
      PROVE  Held(j)'
  <2>1. scheduler'[i] = c /\ (j # i => scheduler'[j] = d)
    BY <1>7 DEF RecoverQueued, TypeOK
  <2>2. /\ index' = [index EXCEPT ![key[i]] = i] /\ UNCHANGED <<key, broken, core, pc, cur>>
        /\ queue' = [queue EXCEPT ![c] = Append(@, i)]
    BY <1>7 DEF RecoverQueued
  <2> QED
    BY <1>5, <1>7, <2>1, <2>2
<1>8. ASSUME NEW c \in Cores, TakeJob(c), state[j] \in ACTIVE PROVE Held(j)'
  <2>1. /\ queue[c] \in Seq(Jobs) /\ queue[c] # <<>> /\ queue'[c] = Tail(queue[c])
        /\ \A e \in Cores \ {c} : queue'[e] = queue[e]
        /\ UNCHANGED <<key, index, scheduler, broken, core>>
    BY <1>8 DEF TakeJob, TypeOK
  <2>2. /\ pc'[Worker(c)] = "waiting" /\ cur'[Worker(c)] = queue[c][1]
        /\ \A e \in Cores \ {c} : /\ pc'[Worker(e)] = pc[Worker(e)]
                                  /\ cur'[Worker(e)] = cur[Worker(e)]
    <3>1. pc \in [Threads -> PCs] /\ cur \in [Threads -> Jobs \cup {NoJob}]
      BY DEF TypeOK
    <3>2. /\ pc' = [pc EXCEPT ![Worker(c)] = "waiting"]
          /\ cur' = [cur EXCEPT ![Worker(c)] = queue[c][1]]
      BY <1>8, <2>1 DEF TakeJob
    <3>3. Worker(c) \in Threads /\ \A e \in Cores \ {c} : Worker(e) # Worker(c)
      BY ThreadPairs
    <3> QED
      BY <3>1, <3>2, <3>3
  <2>3. CASE d # c
    BY <1>2, <1>8, <2>1, <2>2, <2>3 DEF Held, Waits
  <2>4. CASE d = c /\ Waits(c, j)
    <3>1. PICK n \in 1..Len(queue[c]) : queue[c][n] = j
      BY <2>4 DEF Waits
    <3>2. CASE n = 1
      BY <2>1, <2>2, <2>4, <3>1, <3>2 DEF Held
    <3>3. CASE n # 1
      <4>1. n - 1 \in 1..Len(queue'[c]) /\ queue'[c][n - 1] = j
        BY <2>1, <3>1, <3>3
      <4> QED
        BY <2>1, <2>4, <4>1 DEF Held, Waits
    <3> QED
      BY <3>2, <3>3
  <2>5. CASE d = c /\ ~Waits(c, j)
    BY <1>8, <2>1, <2>5 DEF TakeJob, Held
  <2> QED
    BY <2>3, <2>4, <2>5
<1>9. ASSUME NEW t \in Threads, state[j] \in ACTIVE,
             \/ ExecutorBusy(t) \/ RefuseQuarantined(t) \/ CancelUndispatched(t)
             \/ ReleaseExecution(t) \/ FailUndispatched(t) \/ BusyFault(t) \/ FailureFault(t)
      PROVE  Held(j)'
  <2>1. /\ Finishes(t) /\ UNCHANGED <<key, index>>
        /\ state'[cur[t]] \notin ACTIVE \/ cur[t] \in broken'[t[1]]
    BY <1>9, LetsGo DEF JobInv
  <2>2. cur[t] \in Jobs /\ scheduler[cur[t]] = t[1] /\ t[1] \in Cores
    BY <2>1, HeldApart, ThreadPairs DEF Finishes
  <2>3. CASE j = cur[t]
    BY <2>1, <2>2, <2>3 DEF Held, Finishes
  <2>4. CASE j # cur[t]
    <3>1. j \in broken[d] => j \in broken'[d]
      <4>1. broken \in [Cores -> SUBSET Jobs]
        BY DEF TypeOK
      <4> QED
        BY <1>2, <1>9, <2>1, <2>2, <2>4, <4>1 DEF Finishes
    <3>2. /\ pc[Worker(d)] # "idle" /\ cur[Worker(d)] = j
          => pc'[Worker(d)] # "idle" /\ cur'[Worker(d)] = j
      BY <1>2, <2>1, <2>4, ThreadPairs DEF Finishes, TypeOK
    <3> QED
      BY <1>9, <2>1, <3>1, <3>2 DEF Held, Finishes, Waits
  <2> QED
    BY <2>3, <2>4
<1>10. ASSUME NEW c \in Cores, Close(c) \/ Crash(c) \/ RecoveryFault(c), state[j] \in ACTIVE
       PROVE  Held(j)'
  <2>1. UNCHANGED <<key, index, scheduler>>
    BY <1>10 DEF Close, Crash, RecoveryFault
  <2>2. CASE core'[d] \in {"closing", "dead"}
    BY <2>1, <2>2 DEF Held
  <2>3. CASE core'[d] \notin {"closing", "dead"}
    <3>1. core'[d] = core[d] /\ queue'[d] = queue[d] /\ broken'[d] = broken[d]
      BY <1>2, <1>10, <2>3 DEF Close, Crash, RecoveryFault, TypeOK
    <3>2. pc'[Worker(d)] = pc[Worker(d)] /\ cur'[Worker(d)] = cur[Worker(d)]
      <4>1. CASE Close(c) \/ RecoveryFault(c)
        BY <4>1 DEF Close, RecoveryFault
      <4>2. CASE Crash(c)
        <5>1. c # d
          BY <1>2, <2>3, <4>2 DEF Crash, TypeOK
        <5> QED
          BY <1>2, <1>10, <4>2, <5>1, ThreadPairs DEF Crash
      <4> QED
        BY <1>10, <4>1, <4>2
    <3> QED
      BY <1>10, <2>1, <2>3, <3>1, <3>2 DEF Held, Waits
  <2> QED
    BY <2>2, <2>3
<1>11. ASSUME NEW c \in Cores, Start(c) \/ EndRecovery(c), state[j] \in ACTIVE
       PROVE  Held(j)'
  <2>1. UNCHANGED <<key, index, scheduler, queue, broken, pc, cur>>
    BY <1>11 DEF Start, EndRecovery
  <2>2. core[d] \in {"closing", "dead"} => core'[d] = core[d]
    BY <1>2, <1>11 DEF Start, EndRecovery, Ownership, TypeOK
  <2> QED
    BY <1>11, <2>1, <2>2 DEF Held, Waits
<1>12. ASSUME NEW c \in Cores, state[j] \in ACTIVE,
              \/ IndexFault(c) \/ IdleTime(c) \/ BeginRecovery(c)
              \/ RecoverUnknown(c) \/ ReconcileTarget(c)
       PROVE  Held(j)'
  BY <1>3, <1>12 DEF IndexFault, IdleTime, BeginRecovery, RecoverUnknown, ReconcileTarget
<1>13. ASSUME NEW c \in Cores, RetrySettlement(c), state[j] \in ACTIVE PROVE Held(j)'
  <2>1. pc'[Worker(d)] = pc[Worker(d)] /\ cur'[Worker(d)] = cur[Worker(d)]
    BY <1>2, <1>13, ThreadPairs DEF RetrySettlement, TypeOK
  <2> QED
    BY <1>3, <1>13, <2>1 DEF RetrySettlement
<1>14. ASSUME NEW c \in Cores, NEW i \in Jobs, state[j] \in ACTIVE,
              \/ Cancel(c, i) \/ CallReconcile(c, i)
              \/ RecoverSkip(c, i) \/ RecoverLost(c, i) \/ RecoverConflict(c, i)
       PROVE  Held(j)'
  BY <1>3, <1>14 DEF Cancel, CallReconcile, RecoverSkip, RecoverLost, RecoverConflict
<1>15. ASSUME NEW t \in Threads, state[j] \in ACTIVE,
              \/ AcquireExecution(t) \/ WriteMarker(t) \/ WriteDispatch(t) \/ CallBackend(t)
              \/ BackendReturns(t) \/ BackendRaises(t) \/ NoReceipt(t) \/ PublishPrevious(t)
              \/ FindNoQuarantine(t)
              \/ ReconcileReturned(t) \/ QuarantineSuspect(t) \/ QuarantineUncertain(t)
              \/ SettleUncertain(t) \/ WorkerFault(t)
       PROVE  Held(j)'
  <2>1. UNCHANGED <<key, index, scheduler, queue, broken, core, cur>>
    BY <1>15 DEF AcquireExecution, WriteMarker, WriteDispatch, CallBackend, BackendReturns,
                 BackendRaises, NoReceipt, PublishPrevious, FindNoQuarantine, ReconcileReturned,
                 QuarantineSuspect, QuarantineUncertain, SettleUncertain, WorkerFault, Goto
  <2>2. \A u \in Threads : pc[u] # "idle" => pc'[u] # "idle"
    BY <1>15 DEF AcquireExecution, WriteMarker, WriteDispatch, CallBackend, BackendReturns,
                 BackendRaises, NoReceipt, PublishPrevious, FindNoQuarantine, ReconcileReturned,
                 QuarantineSuspect, QuarantineUncertain, SettleUncertain, WorkerFault, Goto,
                 TypeOK
  <2> QED
    BY <1>2, <1>3, <1>15, <2>1, <2>2, ThreadPairs
<1>16. ASSUME NEW i \in Jobs, CommitReceipt(i) \/ SessionExits(i), state[j] \in ACTIVE
       PROVE  Held(j)'
  BY <1>3, <1>16 DEF CommitReceipt, SessionExits
<1>17. ASSUME ClearQuarantine \/ ClearFault, state[j] \in ACTIVE PROVE Held(j)'
  BY <1>3, <1>17 DEF ClearQuarantine, ClearFault
<1> QED
  BY <1>1, <1>4, <1>6, <1>7, <1>8, <1>9, <1>10, <1>11, <1>12, <1>13, <1>14, <1>15, <1>16, <1>17
  DEF Next, Registration, Owned, Failure, Recovery

\* No accepted job is forgotten, whatever fails or dies, and with any number of Cores at once:
\* together with the fairness of the threads this is why every accepted job settles.
THEOREM AcceptedIsHeld == Spec => []WorkHeld
<1> DEFINE HeldInv == Concluded /\ \A j \in Jobs :
                        state[j] \in ACTIVE /\ index[key[j]] = j => Held(j)
<1>1. Init => HeldInv
  BY DEF Init, Concluded, ACTIVE
<1>2. JobInv /\ HeldInv /\ [Next]_vars => HeldInv'
  <2>1. ASSUME JobInv, HeldInv, Next PROVE HeldInv'
    BY <2>1, ConcludedStep, HeldStep
  <2>2. ASSUME HeldInv, UNCHANGED vars PROVE HeldInv'
    BY <2>2 DEF vars, jobVars, rootVars, threadVars, poolVars, Concluded, Held, Waits
  <2> QED
    BY <2>1, <2>2
<1>3. HeldInv => WorkHeld
  BY DEF WorkHeld, Held, Waits
<1> HIDE DEF HeldInv
<1> QED
  BY <1>1, <1>2, <1>3, JobInvariant, PTL DEF Spec

-----------------------------------------------------------------------------
(* The promise of JobLifecycle.                                            *)

\* Apart from a registration and a dispatch, a step changes what is read of at most one job.
LEMMA OneJob ==
  ASSUME TypeOK, Ownership, Next
  PROVE  \/ \E c \in Cores, j \in Jobs, k \in Keys : Register(c, j, k)
         \/ \E t \in Threads : WriteDispatch(t)
         \/ /\ UNCHANGED <<key, dispatch>>
            /\ \/ UNCHANGED <<state, error>>
               \/ \E i \in Jobs : \A j \in Jobs \ {i} :
                    state'[j] = state[j] /\ error'[j] = error[j]
<1> DEFINE Small ==
      /\ UNCHANGED <<key, dispatch>>
      /\ \/ UNCHANGED <<state, error>>
         \/ \E i \in Jobs : \A j \in Jobs \ {i} : state'[j] = state[j] /\ error'[j] = error[j]
<1> USE DEF jobVars
<1>1. ASSUME NEW c \in Cores,
             \/ Start(c) \/ Close(c) \/ Crash(c) \/ CommitIndex(c) \/ IndexFault(c) \/ IdleTime(c)
             \/ TakeJob(c) \/ RetrySettlement(c) \/ BeginRecovery(c) \/ EndRecovery(c)
             \/ RecoveryFault(c)
      PROVE  Small
  BY <1>1 DEF Start, Close, Crash, CommitIndex, IndexFault, IdleTime, TakeJob, RetrySettlement,
              BeginRecovery, EndRecovery, RecoveryFault
<1>2. ASSUME NEW c \in Cores, NEW i \in Jobs,
             RecoverSkip(c, i) \/ RecoverLost(c, i) \/ RecoverQueued(c, i)
             \/ CallReconcile(c, i)
      PROVE  Small
  BY <1>2 DEF RecoverSkip, RecoverLost, RecoverQueued, CallReconcile
<1>3. ASSUME NEW i \in Jobs, NEW s, NEW e, UNCHANGED <<key, dispatch>>,
             SaveState(i, States, s, e) \/ SaveState(i, ACTIVE, s, e) \/ StoreReconciled(i, s, e)
      PROVE  Small
  BY <1>3 DEF SaveState, StoreReconciled, TypeOK
<1>4. ASSUME NEW c \in Cores, RecoverUnknown(c) PROVE Small
  <2>1. PICK s \in States, e \in Errors : StoreReconciled(lost, s, e)
    BY <1>4, RecoverUnknownStores
  <2>2. lost \in Jobs /\ UNCHANGED <<key, dispatch>>
    BY <1>4 DEF RecoverUnknown, TypeOK
  <2> QED
    BY <1>3, <2>1, <2>2
<1>5. ASSUME NEW c \in Cores, NEW i \in Jobs, RecoverConflict(c, i) \/ Cancel(c, i)
      PROVE  Small
  BY <1>3, <1>5 DEF RecoverConflict, Cancel
<1>6. ASSUME NEW c \in Cores, ReconcileTarget(c) PROVE Small
  <2>1. /\ StoreReconciled(target[c], state[target[c]], error[target[c]])
        /\ UNCHANGED <<key, dispatch>>
    BY <1>6 DEF ReconcileTarget
  <2>2. CASE target[c] \in Jobs
    BY <1>3, <2>1, <2>2
  <2>3. CASE target[c] \notin Jobs
    BY <2>1, <2>3 DEF StoreReconciled, TypeOK
  <2> QED
    BY <2>2, <2>3
<1>7. ASSUME NEW t \in Threads,
             \/ AcquireExecution(t) \/ PublishPrevious(t) \/ FindNoQuarantine(t) \/ WriteMarker(t)
             \/ BackendReturns(t) \/ BackendRaises(t) \/ NoReceipt(t)
             \/ QuarantineSuspect(t) \/ ReleaseExecution(t) \/ QuarantineUncertain(t)
             \/ WorkerFault(t) \/ BusyFault(t) \/ FailureFault(t)
      PROVE  Small
  BY <1>7
     DEF AcquireExecution, PublishPrevious, FindNoQuarantine,
         WriteMarker, BackendReturns, BackendRaises,
         NoReceipt, QuarantineSuspect, ReleaseExecution, QuarantineUncertain, WorkerFault,
         BusyFault, FailureFault
<1>8. ASSUME NEW t \in Threads,
             \/ ExecutorBusy(t) \/ FailUndispatched(t) \/ RefuseQuarantined(t)
             \/ CancelUndispatched(t) \/ ReconcileReturned(t) \/ SettleUncertain(t)
      PROVE  Small
  <2>1. cur[t] \in Jobs
    BY <1>8 DEF Ownership, ExecutorBusy, FailUndispatched, RefuseQuarantined,
                CancelUndispatched, ReconcileReturned, SettleUncertain
  <2> QED
    BY <1>3, <1>8, <2>1
    DEF ExecutorBusy, FailUndispatched, RefuseQuarantined, CancelUndispatched,
        ReconcileReturned, SettleUncertain
<1>9. ASSUME NEW t \in Threads, CallBackend(t) PROVE Small
  BY <1>9 DEF CallBackend, SaveState, TypeOK
<1>10. ASSUME NEW i \in Jobs, CommitReceipt(i) \/ SessionExits(i) PROVE Small
  BY <1>10 DEF CommitReceipt, SessionExits
<1>11. ASSUME ClearQuarantine \/ ClearFault PROVE Small
  BY <1>11 DEF ClearQuarantine, ClearFault
<1> HIDE DEF Small
<1>12. \/ \E c \in Cores, j \in Jobs, k \in Keys : Register(c, j, k)
       \/ \E t \in Threads : WriteDispatch(t)
       \/ Small
  BY <1>1, <1>2, <1>4, <1>5, <1>6, <1>7, <1>8, <1>9, <1>10, <1>11
  DEF Next, Registration, Owned, Failure, Recovery
<1> QED
  BY <1>12 DEF Small

\* What clients read of the jobs.
Read == <<Status, key, Dispatched, Told>>

\* Every step of the processes is a step of the promise, or none.
LEMMA PromiseStep == JobInv /\ Next => [Lifecycle!Next]_Read
<1> SUFFICES ASSUME JobInv, Next PROVE [Lifecycle!Next]_Read
  OBVIOUS
<1> USE ConstantsOK
<1>1. /\ \A j \in Jobs : Evolves(j) /\ HonestAfter(j) /\ BorneOutAfter(j)
      /\ TypeOK' /\ Files'
  BY JobStep, TypeStep, FilesStep DEF JobInv
<1>2. ASSUME NEW c \in Cores, NEW j \in Jobs, NEW k \in Keys, Register(c, j, k)
      PROVE  Lifecycle!Accept(j, k)
  <2>1. {i \in Jobs : Status[i] = "open"} = ActiveJobs
    BY DEF JobInv, TypeOK, Status, ActiveJobs, States, ACTIVE
  <2>2. Lifecycle!Cardinality({i \in Jobs : Status[i] = "open"}) < MaxActiveJobs
    <3>1. Cardinality({i \in Jobs : Status[i] = "open"}) < MaxActiveJobs
      BY <1>2, <2>1 DEF Register
    <3> QED
      BY <3>1 DEF Cardinality, Lifecycle!Cardinality
  <2>3. Status[j] = "absent"
    BY <1>2 DEF Register, Status, ACTIVE
  <2>4. Status' = [Status EXCEPT ![j] = "open"]
    BY <1>2 DEF Register, JobInv, TypeOK, Status, ACTIVE
  <2>5. /\ key' = [key EXCEPT ![j] = k]
        /\ UNCHANGED <<Dispatched, Told>>
    BY <1>2 DEF Register, Dispatched, Told
  <2> QED
    BY <2>2, <2>3, <2>4, <2>5 DEF Lifecycle!Accept
<1>3. ASSUME NEW t \in Threads, WriteDispatch(t) PROVE Lifecycle!Dispatch(cur[t]) /\ cur[t] \in Jobs
  <2>1. cur[t] \in Jobs /\ Untouched(cur[t]) /\ t[1] \in Cores
    BY <1>3, HeldApart, ThreadPairs DEF WriteDispatch, JobInv, Fresh
  <2>2. Status[cur[t]] = "open"
    BY <2>1 DEF Untouched, Status, ACTIVE
  <2>3. \A i \in Dispatched : key[i] # key[cur[t]]
    BY <2>1 DEF Dispatched, Untouched, JobInv, Files
  <2>4. Dispatched' = Dispatched \cup {cur[t]}
    BY <1>3, <2>1 DEF WriteDispatch, Dispatched, JobInv, TypeOK
  <2>5. Status' = Status /\ key' = key /\ Told' = Told
    BY <1>3 DEF WriteDispatch, Status, Told
  <2> QED
    BY <2>1, <2>2, <2>3, <2>4, <2>5 DEF Lifecycle!Dispatch
<1>4. ASSUME ~\E c \in Cores, j \in Jobs, k \in Keys : Register(c, j, k),
             UNCHANGED <<key, dispatch>>, NEW i \in Jobs,
             \A j \in Jobs \ {i} : state'[j] = state[j] /\ error'[j] = error[j]
      PROVE  [Lifecycle!Next]_Read
  <2> DEFINE From == state[i]
             To == state'[i]
  <2>1. /\ From \in States /\ To \in States
        /\ From \in ACTIVE => Status[i] = "open"
        /\ From \notin ACTIVE => Status[i] = From
        /\ To \in ACTIVE => Status'[i] = "open"
        /\ To \notin ACTIVE => Status'[i] = To
    BY <1>1 DEF JobInv, TypeOK, Status
  <2>2. Status' = [Status EXCEPT ![i] = Status'[i]]
    BY <1>4 DEF Status
  <2>3. Status'[i] = Status[i] => Status' = Status
    BY <1>4 DEF Status
  <2>4. Dispatched' = Dispatched /\ (i \in Dispatched <=> dispatch[i] # NoCore)
    BY <1>4 DEF Dispatched
  <2>5. /\ \A j \in Jobs \ {i} : j \in Told' <=> j \in Told
        /\ Told \subseteq Jobs /\ Told' \subseteq Jobs
    BY <1>4 DEF Told
  <2>6. /\ i \in Told <=> dispatch[i] = NoCore /\ From \in {"failed", "cancelled"}
        /\ i \in Told' <=> dispatch[i] = NoCore /\ To \in {"failed", "cancelled"}
    BY <1>1, <1>4 DEF Told, JobInv, Honest, HonestAfter
  <2>7. (i \in Told' <=> i \in Told) => Told' = Told
    BY <2>5
  <2>8. i \in Told' => Told' = Told \cup {i}
    BY <2>5
  <2>9. /\ From \notin ACTIVE /\ To \in ACTIVE => From = "absent"
        /\ From = "absent" => To = "absent"
        /\ To = "absent" => From = "absent"
        /\ From = "completed" /\ To # "completed" => To = "failed"
        /\ From \in {"failed", "cancelled"} => To = From
        /\ From = "unknown" /\ dispatch[i] = NoCore => To = "unknown"
    BY <1>1, <1>4 DEF Evolves
  <2>10. From = "completed" \/ To = "completed" => dispatch[i] # NoCore
    BY <1>1, <1>4 DEF JobInv, Files, Verdicts, BorneOutAfter
  <2> HIDE DEF From, To
  <2>11. CASE \/ From \in ACTIVE /\ To \in ACTIVE
              \/ To = From
    <3>1. Status' = Status /\ Told' = Told
      BY <2>1, <2>3, <2>6, <2>7, <2>11 DEF ACTIVE
    <3> QED
      BY <1>4, <2>4, <3>1 DEF Read
  <2>12. CASE From \in ACTIVE /\ To = "unknown"
    <3>1. Status[i] = "open" /\ Status' = [Status EXCEPT ![i] = "unknown"]
      BY <2>1, <2>2, <2>12 DEF ACTIVE
    <3>2. Told' = Told
      BY <2>6, <2>7, <2>12 DEF ACTIVE
    <3>3. Lifecycle!Lose(i)
      BY <1>4, <2>4, <3>1, <3>2 DEF Lifecycle!Lose
    <3> QED
      BY <3>3 DEF Lifecycle!Next
  <2>13. CASE /\ From \in ACTIVE \cup {"unknown"} /\ dispatch[i] # NoCore
              /\ To \in {"completed", "failed", "cancelled"}
    <3>1. /\ Status[i] \in {"open", "unknown"}
          /\ Status' = [Status EXCEPT ![i] = To]
      BY <2>1, <2>2, <2>13 DEF ACTIVE
    <3>2. Told' = Told
      BY <2>6, <2>7, <2>13
    <3>3. Lifecycle!Settle(i)
      BY <1>4, <2>4, <2>13, <3>1, <3>2 DEF Lifecycle!Settle, Lifecycle!Verdict
    <3> QED
      BY <3>3 DEF Lifecycle!Next
  <2>14. CASE /\ From \in ACTIVE /\ dispatch[i] = NoCore
              /\ To \in {"failed", "cancelled"}
    <3>1. Status[i] = "open" /\ Status' = [Status EXCEPT ![i] = To]
      BY <2>1, <2>2, <2>14 DEF ACTIVE
    <3>2. Told' = Told \cup {i}
      BY <2>6, <2>8, <2>14
    <3>3. Lifecycle!Refuse(i)
      BY <1>4, <2>4, <2>14, <3>1, <3>2 DEF Lifecycle!Refuse
    <3> QED
      BY <3>3 DEF Lifecycle!Next
  <2>15. CASE From = "completed" /\ To = "failed"
    <3>1. Status[i] = "completed" /\ Status' = [Status EXCEPT ![i] = "failed"]
      BY <2>1, <2>2, <2>15 DEF ACTIVE
    <3>2. Told' = Told
      BY <2>6, <2>7, <2>10, <2>15
    <3>3. Lifecycle!Revoke(i)
      BY <1>4, <2>4, <3>1, <3>2 DEF Lifecycle!Revoke
    <3> QED
      BY <3>3 DEF Lifecycle!Next
  <2> QED
    BY <2>1, <2>9, <2>10, <2>11, <2>12, <2>13, <2>14, <2>15 DEF States, ACTIVE
<1>5. ASSUME UNCHANGED <<key, dispatch, state, error>> PROVE UNCHANGED Read
  BY <1>5 DEF Read, Status, Dispatched, Told
<1>6. CASE \E c \in Cores, j \in Jobs, k \in Keys : Register(c, j, k)
  BY <1>2, <1>6 DEF Lifecycle!Next
<1>7. CASE \E t \in Threads : WriteDispatch(t)
  BY <1>3, <1>7 DEF Lifecycle!Next
<1>8. CASE /\ ~\E c \in Cores, j \in Jobs, k \in Keys : Register(c, j, k)
           /\ ~\E t \in Threads : WriteDispatch(t)
  BY <1>4, <1>5, <1>8, OneJob DEF JobInv
<1> QED
  BY <1>6, <1>7, <1>8

\* The files, threads and sessions of all processes together keep the promise of JobLifecycle.
THEOREM KeepsJobPromise == Spec => JobPromise
<1>1. Init => Lifecycle!Init
  BY DEF Init, Lifecycle!Init, Status, Dispatched, Told, ACTIVE, NotDispatched
<1>2. JobInv /\ [Next]_vars => [Lifecycle!Next]_Read
  <2>1. ASSUME UNCHANGED vars PROVE UNCHANGED Read
    BY <2>1 DEF vars, jobVars, Read, Status, Dispatched, Told
  <2> QED
    BY <2>1, PromiseStep
<1> QED
  BY <1>1, <1>2, JobInvariant, PTL DEF Spec, JobPromise, Lifecycle!Spec, Read

=============================================================================
