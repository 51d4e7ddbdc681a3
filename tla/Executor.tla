------------------------------ MODULE Executor ------------------------------
(***************************************************************************)
(* Durable execution of jobs by matlab_companion/core.py: the files of one *)
(* installation root, the Core incarnations that work on them, the MATLAB  *)
(* sessions they start, and the Setup action that clears a quarantine.     *)
(*                                                                         *)
(* One step is one durable write, or the reads and the write that one lock *)
(* makes indivisible for every other reader; a process may stop between    *)
(* any two steps.  An operating-system lock disappears with its process.   *)
(***************************************************************************)
EXTENDS Integers, FiniteSets, Sequences

CONSTANTS
  Jobs,             \* job identifiers (uuid4, never reused)
  Cores,            \* Core incarnations: one process lifetime each
  Keys,             \* digests of idempotency keys
  NoJob, NoCore, NoThread, NoKey,
  MaxActiveJobs,    \* core.MAX_ACTIVE_JOBS
  MaxLive,          \* Cores alive at once: 1 under the coordinator's lifetime lock
  MaxCrashes,       \* bound: process deaths
  MaxFaults,        \* bound: persistence calls that raise
  MaxMishaps,       \* bound: both together
  FaultSites,       \* which of "worker", "failure", "index", "recovery", "clear" may raise
  ClientCalls,      \* the calls clients make besides registration: "cancel", "reconcile"
  ReceiptKinds,     \* what a session's receipt may say
  ConfirmsEverySession \* the Setup user checks every session, not only the displayed job's

Threads == Cores \X {"worker", "service"}
Worker(c) == <<c, "worker">>     \* the only thread of Core.pool
Service(c) == <<c, "service">>   \* the coordinator's accept loop, in has_active_work

ASSUME ConstantsOK ==
  /\ NoJob \notin Jobs /\ NoCore \notin Cores
  /\ NoThread \notin Threads /\ NoKey \notin Keys
  /\ MaxActiveJobs \in Nat /\ MaxLive \in Nat
  /\ MaxCrashes \in Nat /\ MaxFaults \in Nat /\ MaxMishaps \in Nat
  /\ FaultSites \subseteq {"worker", "failure", "index", "recovery", "clear"}
  /\ ClientCalls \subseteq {"cancel", "reconcile"}
  /\ ReceiptKinds \subseteq {"completed", "failed", "cancelled", "invalid"}
  /\ ConfirmsEverySession \in BOOLEAN

-----------------------------------------------------------------------------
VARIABLES
  \* jobs/<id>/*.json
  state,       \* state.json: state; "absent" before registration
  error,       \* state.json: error code
  key,         \* scheduler.json: idempotency_key
  scheduler,   \* scheduler.json: the owning Core
  dispatch,    \* dispatch.json: the dispatching Core
  cancelFlag,  \* jobs with a cancel.flag
  receipt,     \* receipt.json, by what validating it yields
  \* files of the root
  active,      \* executor-active.json
  quarantine,  \* executor-quarantine.json
  index,       \* idempotency.json
  \* MATLAB sessions
  native,      \* "running" from the backend call until the session is gone
  launches,    \* history: backend calls made for the job
  \* threads and the execution lock
  pc, cur, execLock,
  publishing,  \* threads that found no quarantine and are about to write one
  \* Core processes
  core,        \* "off", "starting" (inside the constructor), "up", "closing" (the
               \* constructor failed and waits for its worker), "dead"
  queue,       \* jobs submitted to Core.pool and not yet taken by its worker
  broken,      \* jobs whose future holds an exception
  \* the recovery lock (with the index lock, always taken together)
  recLock,
  registering, \* the job between its state.json and its index entry
  todo,        \* jobs the recovery scan has not reached
  lost,        \* the job between its quarantine and its unknown state
  handler,     \* the request (or constructor) thread that recovers
  target,      \* the job of the reconcile call the handler serves
  idle,        \* Cores whose service had no request for idle_seconds
  \* bounds
  crashes, faults

jobVars == <<state, error, key, scheduler, dispatch, cancelFlag, receipt>>
rootVars == <<active, quarantine, index>>
sessionVars == <<native, launches>>
threadVars == <<pc, cur, execLock, publishing>>
poolVars == <<queue, broken>>
recVars == <<recLock, registering, todo, lost, handler, target, idle>>
boundVars == <<crashes, faults>>
vars == <<jobVars, rootVars, sessionVars, threadVars, core, poolVars, recVars, boundVars>>

ACTIVE == {"queued", "running", "cancel_requested"}
States == ACTIVE \cup {"absent", "completed", "failed", "cancelled", "unknown"}

\* What tells the user that no native dispatch occurred: three error codes, the conflict
\* recovery reports, and the summary "Cancelled before native dispatch".
NotDispatched ==
  {"EXECUTOR_RECOVERY_REQUIRED", "EXECUTOR_BUSY", "DISPATCH_FAILED", "INDEX_CONFLICT",
   "CANCELLED_BEFORE_DISPATCH"}
Errors == NotDispatched \cup
  {"none", "OUTCOME_UNKNOWN", "OUTPUT_CONTRACT_INVALID", "NATIVE", "REVISION_CONFLICT"}

\* Where a thread stands.  A thread in Critical holds the execution lock.
Critical ==
  {"checking",    \* _execute_owned, before the active marker
   "marked",      \* executor-active.json written
   "dispatched",  \* dispatch.json written
   "native",      \* inside backend.execute
   "returned",    \* backend.execute returned
   "suspect",     \* reconciled to unknown, quarantine not yet published
   "settled",     \* ready to release the active marker
   "failing",     \* _execution_failed entered
   "uncertain",   \* quarantine and cancel.flag written
   "releasing"}   \* outcome recorded, active marker not yet released
PCs == Critical \cup {"idle", "waiting"}

Alive(c) == core[c] \in {"starting", "up", "closing"}
Known == {j \in Jobs : state[j] # "absent"}
ActiveJobs == {j \in Jobs : state[j] \in ACTIVE}

TypeOK ==
  /\ state \in [Jobs -> States]
  /\ error \in [Jobs -> Errors]
  /\ key \in [Jobs -> Keys \cup {NoKey}]
  /\ scheduler \in [Jobs -> Cores \cup {NoCore}]
  /\ dispatch \in [Jobs -> Cores \cup {NoCore}]
  /\ cancelFlag \subseteq Jobs
  /\ receipt \in [Jobs -> ReceiptKinds \cup {"none"}]
  /\ active \in Jobs \cup {NoJob}
  /\ quarantine \in Jobs \cup {NoJob}
  /\ index \in [Keys -> Jobs \cup {NoJob}]
  /\ native \in [Jobs -> {"none", "running", "stopped"}]
  /\ launches \in [Jobs -> Nat]
  /\ pc \in [Threads -> PCs]
  /\ cur \in [Threads -> Jobs \cup {NoJob}]
  /\ execLock \in Threads \cup {NoThread}
  /\ publishing \subseteq Threads
  /\ core \in [Cores -> {"off", "starting", "up", "closing", "dead"}]
  /\ queue \in [Cores -> Seq(Jobs)]
  /\ broken \in [Cores -> SUBSET Jobs]
  /\ recLock \in Cores \cup {NoCore}
  /\ registering \in Jobs \cup {NoJob}
  /\ todo \subseteq Jobs
  /\ lost \in Jobs \cup {NoJob}
  /\ handler \in [Cores -> {"idle", "recover", "scan", "reconcile"}]
  /\ target \in [Cores -> Jobs \cup {NoJob}]
  /\ idle \subseteq Cores
  /\ crashes \in 0..MaxCrashes
  /\ faults \in 0..MaxFaults

Init ==
  /\ state = [j \in Jobs |-> "absent"]
  /\ error = [j \in Jobs |-> "none"]
  /\ key = [j \in Jobs |-> NoKey]
  /\ scheduler = [j \in Jobs |-> NoCore]
  /\ dispatch = [j \in Jobs |-> NoCore]
  /\ cancelFlag = {}
  /\ receipt = [j \in Jobs |-> "none"]
  /\ active = NoJob
  /\ quarantine = NoJob
  /\ index = [k \in Keys |-> NoJob]
  /\ native = [j \in Jobs |-> "none"]
  /\ launches = [j \in Jobs |-> 0]
  /\ pc = [t \in Threads |-> "idle"]
  /\ cur = [t \in Threads |-> NoJob]
  /\ execLock = NoThread
  /\ publishing = {}
  /\ core = [c \in Cores |-> "off"]
  /\ queue = [c \in Cores |-> <<>>]
  /\ broken = [c \in Cores |-> {}]
  /\ recLock = NoCore
  /\ registering = NoJob
  /\ todo = {}
  /\ lost = NoJob
  /\ handler = [c \in Cores |-> "idle"]
  /\ target = [c \in Cores |-> NoJob]
  /\ idle = {}
  /\ crashes = 0
  /\ faults = 0

-----------------------------------------------------------------------------
(* Helpers shared by the threads.                                          *)

\* A persistence call of the given place raises OSError.
Fault(site) ==
  /\ site \in FaultSites
  /\ faults < MaxFaults /\ crashes + faults < MaxMishaps
  /\ faults' = faults + 1
  /\ UNCHANGED crashes

\* _save_state under .state.lock, with expected_states.
SaveState(j, expected, s, e) ==
  IF state[j] \in expected
    THEN /\ state' = [state EXCEPT ![j] = s]
         /\ error' = [error EXCEPT ![j] = e]
    ELSE UNCHANGED <<state, error>>

\* _publish_quarantine: recovery, which writes the same file under another lock, may come
\* between its test (FindNoQuarantine) and its write.
PublishQuarantine(t, j) ==
  /\ t \in publishing \/ quarantine # NoJob
  /\ quarantine' = IF t \in publishing THEN j ELSE quarantine

\* Mutant: the owner never retires its marker.
ReleaseActiveNever(j) == j \in Jobs /\ UNCHANGED active

ReleaseActive(j) ==
  active' = IF active = j THEN NoJob ELSE active

Unlock(t) ==
  /\ pc' = [pc EXCEPT ![t] = "idle"]
  /\ cur' = [cur EXCEPT ![t] = NoJob]
  /\ execLock' = NoThread
  /\ publishing' = publishing \ {t}

Goto(t, label) ==
  /\ pc' = [pc EXCEPT ![t] = label]
  /\ publishing' = publishing \ {t}
  /\ UNCHANGED <<cur, execLock>>

\* Mutant: the state a receipt claims is stored without being validated.
ReconciledRaw(j, s, e) ==
  {[state |-> IF receipt[j] = "none" THEN s ELSE receipt[j], error |-> e]}

\* Mutant: a valid receipt completes the job again, whatever settled it since.
ReconciledAgain(j, s, e) ==
  (CASE receipt[j] = "none" -> {[state |-> s, error |-> e]}
     [] receipt[j] = "completed" -> {[state |-> "completed", error |-> "none"]}
     [] receipt[j] = "invalid" -> {[state |-> "unknown", error |-> "OUTPUT_CONTRACT_INVALID"]}
     [] OTHER -> {[state |-> receipt[j], error |-> "NATIVE"]})
  \cup (IF s = "completed"
          THEN {[state |-> "failed", error |-> "REVISION_CONFLICT"]} ELSE {})

\* What _reconcile may store for a job that now has state s and error e.  A read
\* that fails while it validates gives the unknown outcome; a job whose artifacts do not
\* match the manifest is revoked.  The manifest precedes the completed state, so an
\* earlier reconcile that was stopped may have left one for a job that is still open.
Reconciled(j, s, e) ==
  LET open == s \in ACTIVE \cup {"unknown"}
      invalid == [state |-> "unknown", error |-> "OUTPUT_CONTRACT_INVALID"]
      same == [state |-> s, error |-> e]
      verdict ==
        CASE receipt[j] = "none" -> same
          [] receipt[j] = "completed" ->
               IF open THEN [state |-> "completed", error |-> "none"] ELSE same
          [] receipt[j] = "invalid" -> IF open THEN invalid ELSE same
          [] OTHER -> [state |-> receipt[j], error |-> "NATIVE"]
  IN {verdict}
     \cup (IF receipt[j] # "none" /\ open THEN {invalid} ELSE {})
     \cup (IF receipt[j] = "completed"
             THEN {[state |-> "failed", error |-> "REVISION_CONFLICT"]} ELSE {})

StoreReconciled(j, s, e) ==
  \E r \in Reconciled(j, s, e) :
    /\ state' = [state EXCEPT ![j] = r.state]
    /\ error' = [error EXCEPT ![j] = r.error]

-----------------------------------------------------------------------------
(* Registration: _run holds the recovery and index locks throughout.       *)

\* Mutant: the idempotency index is not consulted.
RegisterAnew(c, j, k) ==
  /\ core[c] = "up"
  /\ recLock = NoCore
  /\ state[j] = "absent"
  /\ quarantine = NoJob
  /\ Cardinality(ActiveJobs) < MaxActiveJobs
  /\ state' = [state EXCEPT ![j] = "queued"]
  /\ key' = [key EXCEPT ![j] = k]
  /\ scheduler' = [scheduler EXCEPT ![j] = c]
  /\ recLock' = c
  /\ registering' = j
  /\ idle' = idle \ {c}
  /\ UNCHANGED <<error, dispatch, cancelFlag, receipt, rootVars, sessionVars, threadVars,
                 core, poolVars, todo, lost, handler, target, boundVars>>

\* Mutant: admission is off by one.
RegisterOneMore(c, j, k) ==
  /\ core[c] = "up"
  /\ recLock = NoCore
  /\ state[j] = "absent"
  /\ index[k] = NoJob
  /\ quarantine = NoJob
  /\ Cardinality(ActiveJobs) <= MaxActiveJobs
  /\ state' = [state EXCEPT ![j] = "queued"]
  /\ key' = [key EXCEPT ![j] = k]
  /\ scheduler' = [scheduler EXCEPT ![j] = c]
  /\ recLock' = c
  /\ registering' = j
  /\ idle' = idle \ {c}
  /\ UNCHANGED <<error, dispatch, cancelFlag, receipt, rootVars, sessionVars, threadVars,
                 core, poolVars, todo, lost, handler, target, boundVars>>

\* The checks, scheduler.json and state.json.  A key the index already holds is
\* answered with its job, a quarantine and a full queue with an error: none of
\* them changes a file.
Register(c, j, k) ==
  /\ core[c] = "up"
  /\ recLock = NoCore
  /\ state[j] = "absent"
  /\ index[k] = NoJob
  /\ quarantine = NoJob
  /\ Cardinality(ActiveJobs) < MaxActiveJobs
  /\ state' = [state EXCEPT ![j] = "queued"]
  /\ key' = [key EXCEPT ![j] = k]
  /\ scheduler' = [scheduler EXCEPT ![j] = c]
  /\ recLock' = c
  /\ registering' = j
  /\ idle' = idle \ {c}
  /\ UNCHANGED <<error, dispatch, cancelFlag, receipt, rootVars, sessionVars, threadVars,
                 core, poolVars, todo, lost, handler, target, boundVars>>

\* The index entry, then pool.submit: no file changes between the two, so a stop
\* between them is a stop before the worker takes the job.
CommitIndex(c) ==
  /\ recLock = c
  /\ registering # NoJob
  /\ index' = [index EXCEPT ![key[registering]] = registering]
  /\ queue' = [queue EXCEPT ![c] = Append(@, registering)]
  /\ recLock' = NoCore
  /\ registering' = NoJob
  /\ UNCHANGED <<jobVars, active, quarantine, sessionVars, threadVars, core, broken,
                 todo, lost, handler, target, idle, boundVars>>

\* Writing the index raises: the request fails and the locks are released.
IndexFault(c) ==
  /\ recLock = c
  /\ registering # NoJob
  /\ Fault("index")
  /\ recLock' = NoCore
  /\ registering' = NoJob
  /\ UNCHANGED <<jobVars, rootVars, sessionVars, threadVars, core, poolVars,
                 todo, lost, handler, target, idle>>

-----------------------------------------------------------------------------
(* The worker: _execute and _execute_owned.                                *)

TakeJob(c) ==
  /\ Alive(c)
  /\ pc[Worker(c)] = "idle"
  /\ queue[c] # <<>>
  /\ queue' = [queue EXCEPT ![c] = Tail(@)]
  /\ pc' = [pc EXCEPT ![Worker(c)] = "waiting"]
  /\ cur' = [cur EXCEPT ![Worker(c)] = Head(queue[c])]
  /\ UNCHANGED <<jobVars, rootVars, sessionVars, execLock, publishing, core, broken, recVars,
                 boundVars>>

\* Mutant: execution does not wait for the lock.
AcquireAnyway(t) ==
  /\ pc[t] = "waiting"
  /\ execLock' = t
  /\ pc' = [pc EXCEPT ![t] = "checking"]
  /\ UNCHANGED <<jobVars, rootVars, sessionVars, cur, publishing, core, poolVars, recVars,
                 boundVars>>

AcquireExecution(t) ==
  /\ pc[t] = "waiting"
  /\ execLock = NoThread
  /\ execLock' = t
  /\ pc' = [pc EXCEPT ![t] = "checking"]
  /\ UNCHANGED <<jobVars, rootVars, sessionVars, cur, publishing, core, poolVars, recVars,
                 boundVars>>

\* The lock stayed busy for 600 seconds: _execution_failed, without the lock.
ExecutorBusy(t) ==
  /\ pc[t] = "waiting"
  /\ execLock # NoThread
  /\ dispatch[cur[t]] = NoCore
  /\ SaveState(cur[t], ACTIVE, "failed", "EXECUTOR_BUSY")
  /\ pc' = [pc EXCEPT ![t] = "idle"]
  /\ cur' = [cur EXCEPT ![t] = NoJob]
  /\ UNCHANGED <<key, scheduler, dispatch, cancelFlag, receipt, rootVars, sessionVars,
                 execLock, publishing, core, poolVars, recVars, boundVars>>

\* The save of that failure raises as well: the future keeps the exception.
BusyFault(t) ==
  /\ pc[t] = "waiting"
  /\ execLock # NoThread
  /\ Fault("failure")
  /\ broken' = [broken EXCEPT ![t[1]] = @ \cup {cur[t]}]
  /\ pc' = [pc EXCEPT ![t] = "idle"]
  /\ cur' = [cur EXCEPT ![t] = NoJob]
  /\ UNCHANGED <<jobVars, rootVars, sessionVars, execLock, publishing, core, queue, recVars>>

\* The test of _publish_quarantine, by a worker that found the marker of a previous owner, by
\* one whose reconcile ended in doubt, and by _execution_failed.
FindNoQuarantine(t) ==
  /\ \/ pc[t] = "checking" /\ state[cur[t]] \in ACTIVE /\ active # NoJob
     \/ pc[t] = "suspect"
     \/ pc[t] = "failing" /\ dispatch[cur[t]] # NoCore
  /\ quarantine = NoJob
  /\ publishing' = publishing \cup {t}
  /\ UNCHANGED <<jobVars, rootVars, sessionVars, pc, cur, execLock, core, poolVars, recVars,
                 boundVars>>

\* The previous owner left its marker behind: its job blocks the executor.
PublishPrevious(t) ==
  /\ pc[t] = "checking"
  /\ active # NoJob
  /\ t \in publishing
  /\ PublishQuarantine(t, active)
  /\ publishing' = publishing \ {t}
  /\ UNCHANGED <<jobVars, active, index, sessionVars, pc, cur, execLock, core, poolVars, recVars,
                 boundVars>>

RefuseQuarantined(t) ==
  /\ pc[t] = "checking"
  /\ state[cur[t]] \in ACTIVE
  /\ quarantine # NoJob /\ t \notin publishing
  /\ SaveState(cur[t], States, "failed", "EXECUTOR_RECOVERY_REQUIRED")
  /\ Unlock(t)
  /\ UNCHANGED <<key, scheduler, dispatch, cancelFlag, receipt, rootVars, sessionVars, core,
                 poolVars, recVars, boundVars>>

CancelUndispatched(t) ==
  /\ pc[t] = "checking"
  /\ state[cur[t]] \in ACTIVE
  /\ active = NoJob
  /\ quarantine = NoJob
  /\ cur[t] \in cancelFlag
  /\ SaveState(cur[t], States, "cancelled", "CANCELLED_BEFORE_DISPATCH")
  /\ Unlock(t)
  /\ UNCHANGED <<key, scheduler, dispatch, cancelFlag, receipt, rootVars, sessionVars, core,
                 poolVars, recVars, boundVars>>

\* Mutant: the quarantine does not stop a dispatch.
WriteMarkerUnchecked(t) ==
  /\ pc[t] = "checking"
  /\ state[cur[t]] \in {"queued", "cancel_requested"}
  /\ dispatch[cur[t]] = NoCore
  /\ active = NoJob
  /\ cur[t] \notin cancelFlag
  /\ active' = cur[t]
  /\ Goto(t, "marked")
  /\ UNCHANGED <<jobVars, quarantine, index, sessionVars, core, poolVars, recVars, boundVars>>

\* executor-active.json, the crash barrier, is written before the dispatch.
WriteMarker(t) ==
  /\ pc[t] = "checking"
  /\ state[cur[t]] \in {"queued", "cancel_requested"}
  /\ dispatch[cur[t]] = NoCore
  /\ active = NoJob
  /\ quarantine = NoJob
  /\ cur[t] \notin cancelFlag
  /\ active' = cur[t]
  /\ Goto(t, "marked")
  /\ UNCHANGED <<jobVars, quarantine, index, sessionVars, core, poolVars, recVars, boundVars>>

WriteDispatch(t) ==
  /\ pc[t] = "marked"
  /\ dispatch' = [dispatch EXCEPT ![cur[t]] = t[1]]
  /\ Goto(t, "dispatched")
  /\ UNCHANGED <<state, error, key, scheduler, cancelFlag, receipt, rootVars, sessionVars,
                 core, poolVars, recVars, boundVars>>

\* The running state, then backend.execute.  From the call on a MATLAB session may
\* exist; one that never starts is one that stops without a receipt.
CallBackend(t) ==
  /\ pc[t] = "dispatched"
  /\ SaveState(cur[t], {"queued"}, "running", "none")
  /\ native' = [native EXCEPT ![cur[t]] = "running"]
  /\ launches' = [launches EXCEPT ![cur[t]] = @ + 1]
  /\ Goto(t, "native")
  /\ UNCHANGED <<key, scheduler, dispatch, cancelFlag, receipt, rootVars, core, poolVars,
                 recVars, boundVars>>

\* backend.execute returns only after it observed the exit of the session.
BackendReturns(t) ==
  /\ pc[t] = "native"
  /\ native[cur[t]] = "stopped"
  /\ Goto(t, "returned")
  /\ UNCHANGED <<jobVars, rootVars, sessionVars, core, poolVars, recVars, boundVars>>

\* Mutant: a lost response is answered by calling the backend again.
BackendRetries(t) ==
  /\ pc[t] = "native"
  /\ Goto(t, "dispatched")
  /\ UNCHANGED <<jobVars, rootVars, sessionVars, core, poolVars, recVars, boundVars>>

\* A lost response, a timeout, or an exit that was not observed.
BackendRaises(t) ==
  /\ pc[t] = "native"
  /\ Goto(t, "failing")
  /\ UNCHANGED <<jobVars, rootVars, sessionVars, core, poolVars, recVars, boundVars>>

\* The backend returned without a receipt.
NoReceipt(t) ==
  /\ pc[t] = "returned"
  /\ receipt[cur[t]] = "none"
  /\ Goto(t, "failing")
  /\ UNCHANGED <<jobVars, rootVars, sessionVars, core, poolVars, recVars, boundVars>>

ReconcileReturned(t) ==
  /\ pc[t] = "returned"
  /\ receipt[cur[t]] # "none"
  /\ StoreReconciled(cur[t], state[cur[t]], error[cur[t]])
  /\ Goto(t, IF state'[cur[t]] = "unknown" THEN "suspect" ELSE "settled")
  /\ UNCHANGED <<key, scheduler, dispatch, cancelFlag, receipt, rootVars, sessionVars, core,
                 poolVars, recVars, boundVars>>

QuarantineSuspect(t) ==
  /\ pc[t] = "suspect"
  /\ PublishQuarantine(t, cur[t])
  /\ Goto(t, "settled")
  /\ UNCHANGED <<jobVars, active, index, sessionVars, core, poolVars, recVars, boundVars>>

\* The end of the normal path and of _execution_failed.  A future that a service
\* thread settled is dropped.
ReleaseExecution(t) ==
  /\ pc[t] \in {"settled", "releasing"}
  /\ ReleaseActive(cur[t])
  /\ broken' = [broken EXCEPT ![t[1]] = @ \ {cur[t]}]
  /\ Unlock(t)
  /\ UNCHANGED <<jobVars, quarantine, index, sessionVars, core, queue, recVars, boundVars>>

\* A persistence call of _execute_owned raises.
WorkerFault(t) ==
  /\ pc[t] \in {"checking", "marked", "dispatched", "returned", "suspect", "settled"}
  /\ Fault("worker")
  /\ Goto(t, "failing")
  /\ UNCHANGED <<jobVars, rootVars, sessionVars, core, poolVars, recVars>>

-----------------------------------------------------------------------------
(* _execution_failed, in the worker or in has_active_work, under the lock. *)

\* Mutant: a failure is called undispatched without looking at dispatch.json.
FailBlindly(t) ==
  /\ pc[t] = "failing"
  /\ SaveState(cur[t], ACTIVE, "failed", "DISPATCH_FAILED")
  /\ broken' = [broken EXCEPT ![t[1]] = @ \ {cur[t]}]
  /\ Unlock(t)
  /\ UNCHANGED <<key, scheduler, dispatch, cancelFlag, receipt, rootVars, sessionVars, core,
                 queue, recVars, boundVars>>

FailUndispatched(t) ==
  /\ pc[t] = "failing"
  /\ dispatch[cur[t]] = NoCore
  /\ SaveState(cur[t], ACTIVE, "failed", "DISPATCH_FAILED")
  /\ broken' = [broken EXCEPT ![t[1]] = @ \ {cur[t]}]
  /\ Unlock(t)
  /\ UNCHANGED <<key, scheduler, dispatch, cancelFlag, receipt, rootVars, sessionVars, core,
                 queue, recVars, boundVars>>

\* Mutant: the cancellation is requested but no quarantine is published.
CancelUncertain(t) ==
  /\ pc[t] = "failing"
  /\ dispatch[cur[t]] # NoCore
  /\ cancelFlag' = cancelFlag \cup {cur[t]}
  /\ Goto(t, "uncertain")
  /\ UNCHANGED <<state, error, key, scheduler, dispatch, receipt, rootVars, sessionVars,
                 core, poolVars, recVars, boundVars>>

QuarantineUncertain(t) ==
  /\ pc[t] = "failing"
  /\ dispatch[cur[t]] # NoCore
  /\ PublishQuarantine(t, cur[t])
  /\ cancelFlag' = cancelFlag \cup {cur[t]}
  /\ Goto(t, "uncertain")
  /\ UNCHANGED <<state, error, key, scheduler, dispatch, receipt, active, index, sessionVars,
                 core, poolVars, recVars, boundVars>>

\* A receipt that is already there decides; otherwise the outcome is unknown.
SettleUncertain(t) ==
  /\ pc[t] = "uncertain"
  /\ IF receipt[cur[t]] # "none"
       THEN StoreReconciled(cur[t], state[cur[t]], error[cur[t]])
       ELSE SaveState(cur[t], ACTIVE, "unknown", "OUTCOME_UNKNOWN")
  /\ Goto(t, "releasing")
  /\ UNCHANGED <<key, scheduler, dispatch, cancelFlag, receipt, rootVars, sessionVars, core,
                 poolVars, recVars, boundVars>>

\* A persistence call of _execution_failed raises: the future keeps the exception,
\* the lock is released and the active marker stays.
FailureFault(t) ==
  /\ pc[t] \in {"failing", "uncertain", "releasing"}
  /\ Fault("failure")
  /\ broken' = [broken EXCEPT ![t[1]] = @ \cup {cur[t]}]
  /\ Unlock(t)
  /\ UNCHANGED <<jobVars, rootVars, sessionVars, core, queue, recVars>>

\* has_active_work, which the service calls when it is idle, retries the settlement of a
\* future that failed.
RetrySettlement(c) ==
  /\ core[c] = "up"
  /\ c \in idle
  /\ pc[Service(c)] = "idle"
  /\ execLock = NoThread
  /\ \E j \in broken[c] :
       /\ cur' = [cur EXCEPT ![Service(c)] = j]
       /\ pc' = [pc EXCEPT ![Service(c)] = "failing"]
       /\ execLock' = Service(c)
  /\ UNCHANGED <<jobVars, rootVars, sessionVars, publishing, core, poolVars, recVars, boundVars>>

\* Coordinator.run sees that no request is in flight and that none was for idle_seconds, or a
\* request comes, a poll or a wait that changes no file, and the time starts anew.  What an
\* idle service does without a failed future is left out.
IdleTime(c) ==
  /\ \/ /\ core[c] = "up" /\ broken[c] # {}
        /\ handler[c] = "idle" /\ recLock # c
        /\ idle' = idle \cup {c}
     \/ /\ c \in idle
        /\ idle' = idle \ {c}
  /\ UNCHANGED <<jobVars, rootVars, sessionVars, threadVars, core, poolVars, recLock,
                 registering, todo, lost, handler, target, boundVars>>

-----------------------------------------------------------------------------
(* MATLAB sessions (matlab/+companion/execute.m).                          *)

\* The session commits its receipt; it is cancelled only at a cancellation check.
CommitReceipt(j) ==
  /\ native[j] = "running"
  /\ receipt[j] = "none"
  /\ \E r \in ReceiptKinds :
       /\ r = "cancelled" => j \in cancelFlag
       /\ receipt' = [receipt EXCEPT ![j] = r]
  /\ UNCHANGED <<state, error, key, scheduler, dispatch, cancelFlag, rootVars, sessionVars,
                 threadVars, core, poolVars, recVars, boundVars>>

SessionExits(j) ==
  /\ native[j] = "running"
  /\ native' = [native EXCEPT ![j] = "stopped"]
  /\ UNCHANGED <<jobVars, rootVars, launches, threadVars, core, poolVars, recVars, boundVars>>

-----------------------------------------------------------------------------
(* Calls of a client: _job.                                                *)

\* The handler read an active state: the job is active, or it was while this Core had
\* it and was settled since.
CancelSeen(c, j) ==
  /\ "cancel" \in ClientCalls
  /\ core[c] = "up"
  /\ state[j] \in ACTIVE \/ scheduler[j] = c

\* Mutant: the state is not read again under its lock.
CancelStale(c, j) ==
  /\ CancelSeen(c, j)
  /\ cancelFlag' = cancelFlag \cup {j}
  /\ SaveState(j, States, "cancel_requested", error[j])
  /\ idle' = idle \ {c}
  /\ UNCHANGED <<key, scheduler, dispatch, receipt, rootVars, sessionVars, threadVars, core,
                 poolVars, recLock, registering, todo, lost, handler, target, boundVars>>

\* cancel.flag, then cancel_requested unless the job is settled by then; the process
\* may stop between the two.
Cancel(c, j) ==
  /\ CancelSeen(c, j)
  /\ cancelFlag' = cancelFlag \cup {j}
  /\ \/ SaveState(j, ACTIVE, "cancel_requested", error[j])
     \/ UNCHANGED <<state, error>>
  /\ idle' = idle \ {c}
  /\ UNCHANGED <<key, scheduler, dispatch, receipt, rootVars, sessionVars, threadVars, core,
                 poolVars, recLock, registering, todo, lost, handler, target, boundVars>>

\* reconcile: _recover_jobs, then _reconcile of the job.
CallReconcile(c, j) ==
  /\ "reconcile" \in ClientCalls
  /\ core[c] = "up"
  /\ handler[c] = "idle"
  /\ state[j] # "absent"
  /\ handler' = [handler EXCEPT ![c] = "recover"]
  /\ target' = [target EXCEPT ![c] = j]
  /\ idle' = idle \ {c}
  /\ UNCHANGED <<jobVars, rootVars, sessionVars, threadVars, core, poolVars, recLock,
                 registering, todo, lost, boundVars>>

ReconcileTarget(c) ==
  /\ handler[c] = "reconcile"
  /\ StoreReconciled(target[c], state[target[c]], error[target[c]])
  /\ handler' = [handler EXCEPT ![c] = "idle"]
  /\ target' = [target EXCEPT ![c] = NoJob]
  /\ UNCHANGED <<key, scheduler, dispatch, cancelFlag, receipt, rootVars, sessionVars,
                 threadVars, core, poolVars, recLock, registering, todo, lost, idle,
                 boundVars>>

-----------------------------------------------------------------------------
(* Recovery: _recover_jobs, from the constructor or a reconcile call.      *)

Owner(j) == IF dispatch[j] # NoCore THEN dispatch[j] ELSE scheduler[j]
\* Mutant: recovery takes over the work of owners that are still alive.
OwnerNeverAlive(j) == j \notin Jobs

OwnerMayBeAlive(j) == Alive(Owner(j))

\* Takes both locks and publishes a marker whose owner no longer holds execution; under all
\* three locks nobody else writes a quarantine.
BeginRecovery(c) ==
  /\ handler[c] = "recover"
  /\ recLock = NoCore
  /\ recLock' = c
  /\ handler' = [handler EXCEPT ![c] = "scan"]
  /\ todo' = Known
  /\ quarantine' = IF active # NoJob /\ execLock = NoThread /\ quarantine = NoJob
                    THEN active ELSE quarantine
  /\ UNCHANGED <<jobVars, active, index, sessionVars, threadVars, core, poolVars,
                 registering, lost, target, idle, boundVars>>

Scanning(c, j) == handler[c] = "scan" /\ lost = NoJob /\ j \in todo

RecoverSkip(c, j) ==
  /\ Scanning(c, j)
  /\ state[j] \notin ACTIVE \/ OwnerMayBeAlive(j)
  /\ todo' = todo \ {j}
  /\ UNCHANGED <<jobVars, rootVars, sessionVars, threadVars, core, poolVars, recLock,
                 registering, lost, handler, target, idle, boundVars>>

\* Everything but a queued job without a dispatch counts as dispatched.
TreatedAsDispatched(j) == dispatch[j] # NoCore \/ state[j] # "queued"

\* The quarantine is replaced, whatever job it named.
RecoverLost(c, j) ==
  /\ Scanning(c, j)
  /\ state[j] \in ACTIVE
  /\ ~OwnerMayBeAlive(j)
  /\ TreatedAsDispatched(j)
  /\ quarantine' = j
  /\ lost' = j
  /\ UNCHANGED <<jobVars, active, index, sessionVars, threadVars, core, poolVars, recLock,
                 registering, todo, handler, target, idle, boundVars>>

\* The unknown state, then what a receipt that is already there says.
RecoverUnknown(c) ==
  /\ handler[c] = "scan"
  /\ lost # NoJob
  /\ IF state[lost] \in ACTIVE
       THEN StoreReconciled(lost, "unknown", "OUTCOME_UNKNOWN")
       ELSE StoreReconciled(lost, state[lost], error[lost])
  /\ todo' = todo \ {lost}
  /\ lost' = NoJob
  /\ UNCHANGED <<key, scheduler, dispatch, cancelFlag, receipt, rootVars, sessionVars,
                 threadVars, core, poolVars, recLock, registering, handler, target, idle,
                 boundVars>>

Orphan(c, j) ==
  /\ Scanning(c, j)
  /\ state[j] = "queued"
  /\ dispatch[j] = NoCore
  /\ ~OwnerMayBeAlive(j)

\* The retry of the request became another job: this one is not dispatched.
RecoverConflict(c, j) ==
  /\ Orphan(c, j)
  /\ index[key[j]] \notin {NoJob, j}
  /\ SaveState(j, States, "failed", "INDEX_CONFLICT")
  /\ todo' = todo \ {j}
  /\ UNCHANGED <<key, scheduler, dispatch, cancelFlag, receipt, rootVars, sessionVars,
                 threadVars, core, poolVars, recLock, registering, lost, handler, target, idle,
                 boundVars>>

\* Mutant: recovery commits its index entry over another job's.
RecoverAndReindex(c, j) ==
  /\ Orphan(c, j)
  /\ index' = [index EXCEPT ![key[j]] = j]
  /\ scheduler' = [scheduler EXCEPT ![j] = c]
  /\ queue' = [queue EXCEPT ![c] = Append(@, j)]
  /\ todo' = todo \ {j}
  /\ UNCHANGED <<state, error, key, dispatch, cancelFlag, receipt, active, quarantine,
                 sessionVars, threadVars, core, broken, recLock, registering, lost, handler,
                 target, idle, boundVars>>

\* Mutant: recovery takes the job over and does not submit it.
RecoverUnsubmitted(c, j) ==
  /\ Orphan(c, j)
  /\ index[key[j]] \in {NoJob, j}
  /\ index' = [index EXCEPT ![key[j]] = j]
  /\ scheduler' = [scheduler EXCEPT ![j] = c]
  /\ todo' = todo \ {j}
  /\ UNCHANGED <<state, error, key, dispatch, cancelFlag, receipt, active, quarantine,
                 sessionVars, threadVars, core, poolVars, recLock, registering, lost, handler,
                 target, idle, boundVars>>

\* Completes the index, takes the job over and submits it.
RecoverQueued(c, j) ==
  /\ Orphan(c, j)
  /\ index[key[j]] \in {NoJob, j}
  /\ index' = [index EXCEPT ![key[j]] = j]
  /\ scheduler' = [scheduler EXCEPT ![j] = c]
  /\ queue' = [queue EXCEPT ![c] = Append(@, j)]
  /\ todo' = todo \ {j}
  /\ UNCHANGED <<state, error, key, dispatch, cancelFlag, receipt, active, quarantine,
                 sessionVars, threadVars, core, broken, recLock, registering, lost, handler,
                 target, idle, boundVars>>

EndRecovery(c) ==
  /\ handler[c] = "scan"
  /\ todo = {}
  /\ lost = NoJob
  /\ recLock' = NoCore
  /\ handler' = [handler EXCEPT ![c] = IF core[c] = "starting" THEN "idle" ELSE "reconcile"]
  /\ core' = [core EXCEPT ![c] = "up"]
  /\ UNCHANGED <<jobVars, rootVars, sessionVars, threadVars, poolVars, registering, todo,
                 lost, target, idle, boundVars>>

\* A lock stays busy or a persistence call of the scan raises: the locks are released,
\* a request fails, a constructor cancels what its worker has not taken and waits for it.
RecoveryFault(c) ==
  /\ handler[c] \in {"recover", "scan"}
  /\ Fault("recovery")
  /\ IF handler[c] = "scan"
       THEN recLock' = NoCore /\ todo' = {} /\ lost' = NoJob
       ELSE UNCHANGED <<recLock, todo, lost>>
  /\ handler' = [handler EXCEPT ![c] = "idle"]
  /\ target' = [target EXCEPT ![c] = NoJob]
  /\ IF core[c] = "starting"
       THEN /\ core' = [core EXCEPT ![c] = "closing"]
            /\ queue' = [queue EXCEPT ![c] = <<>>]
       ELSE UNCHANGED <<core, queue>>
  /\ UNCHANGED <<jobVars, rootVars, sessionVars, threadVars, broken, registering, idle>>

-----------------------------------------------------------------------------
(* setup_ui.clear_quarantine, with what its user establishes first.        *)

\* The user verified that the displayed job's session has stopped, or that all have.
Confirmed ==
  IF ConfirmsEverySession
    THEN \A j \in Jobs : native[j] # "running"
    ELSE native[quarantine] # "running"

Clearable ==
  /\ quarantine # NoJob
  /\ recLock = NoCore
  /\ execLock = NoThread
  /\ active \in {NoJob, quarantine}

ClearQuarantine ==
  /\ Clearable
  /\ Confirmed
  /\ active' = NoJob
  /\ quarantine' = NoJob
  /\ UNCHANGED <<jobVars, index, sessionVars, threadVars, core, poolVars, recVars, boundVars>>

\* Removing the quarantine raises after the active marker was retired.
ClearFault ==
  /\ Clearable
  /\ Confirmed
  /\ active # NoJob
  /\ Fault("clear")
  /\ active' = NoJob
  /\ UNCHANGED <<jobVars, quarantine, index, sessionVars, threadVars, core, poolVars, recVars>>

-----------------------------------------------------------------------------
(* Processes.                                                              *)

Start(c) ==
  /\ core[c] = "off"
  /\ Cardinality({d \in Cores : Alive(d)}) < MaxLive
  /\ core' = [core EXCEPT ![c] = "starting"]
  /\ handler' = [handler EXCEPT ![c] = "recover"]
  /\ UNCHANGED <<jobVars, rootVars, sessionVars, threadVars, poolVars, recLock, registering,
                 todo, lost, target, idle, boundVars>>

\* The constructor that failed raises once its worker is done, and the process ends.
Close(c) ==
  /\ core[c] = "closing"
  /\ pc[Worker(c)] = "idle"
  /\ core' = [core EXCEPT ![c] = "dead"]
  /\ broken' = [broken EXCEPT ![c] = {}]
  /\ UNCHANGED <<jobVars, rootVars, sessionVars, threadVars, queue, recVars, boundVars>>

\* The process ends: its threads, futures and locks are gone, files and sessions stay.
Crash(c) ==
  /\ Alive(c)
  /\ crashes < MaxCrashes /\ crashes + faults < MaxMishaps
  /\ crashes' = crashes + 1
  /\ core' = [core EXCEPT ![c] = "dead"]
  /\ queue' = [queue EXCEPT ![c] = <<>>]
  /\ broken' = [broken EXCEPT ![c] = {}]
  /\ pc' = [t \in Threads |-> IF t[1] = c THEN "idle" ELSE pc[t]]
  /\ cur' = [t \in Threads |-> IF t[1] = c THEN NoJob ELSE cur[t]]
  /\ execLock' = IF execLock \in {Worker(c), Service(c)} THEN NoThread ELSE execLock
  /\ publishing' = publishing \ {Worker(c), Service(c)}
  /\ handler' = [handler EXCEPT ![c] = "idle"]
  /\ target' = [target EXCEPT ![c] = NoJob]
  /\ idle' = idle \ {c}
  /\ IF recLock = c
       THEN recLock' = NoCore /\ registering' = NoJob /\ todo' = {} /\ lost' = NoJob
       ELSE UNCHANGED <<recLock, registering, todo, lost>>
  /\ UNCHANGED <<jobVars, rootVars, sessionVars, faults>>

-----------------------------------------------------------------------------
Registration(c) ==
  \/ \E j \in Jobs, k \in Keys : Register(c, j, k)
  \/ CommitIndex(c)
  \/ IndexFault(c)

Owned(t) ==
  \/ AcquireExecution(t) \/ ExecutorBusy(t)
  \/ FindNoQuarantine(t) \/ PublishPrevious(t) \/ RefuseQuarantined(t) \/ CancelUndispatched(t)
  \/ WriteMarker(t) \/ WriteDispatch(t) \/ CallBackend(t)
  \/ BackendReturns(t) \/ BackendRaises(t)
  \/ NoReceipt(t) \/ ReconcileReturned(t) \/ QuarantineSuspect(t) \/ ReleaseExecution(t)

Failure(t) == FailUndispatched(t) \/ QuarantineUncertain(t) \/ SettleUncertain(t)

Recovery(c) ==
  \/ BeginRecovery(c) \/ RecoverUnknown(c) \/ EndRecovery(c)
  \/ \E j \in Jobs :
       RecoverSkip(c, j) \/ RecoverLost(c, j) \/ RecoverConflict(c, j) \/ RecoverQueued(c, j)

Next ==
  \/ \E c \in Cores :
       \/ Start(c) \/ Close(c) \/ Crash(c)
       \/ Registration(c)
       \/ TakeJob(c) \/ RetrySettlement(c) \/ IdleTime(c)
       \/ Recovery(c) \/ RecoveryFault(c) \/ ReconcileTarget(c)
       \/ \E j \in Jobs : Cancel(c, j) \/ CallReconcile(c, j)
  \/ \E t \in Threads :
       \/ Owned(t) \/ Failure(t)
       \/ WorkerFault(t) \/ BusyFault(t) \/ FailureFault(t)
  \/ \E j \in Jobs : CommitReceipt(j) \/ SessionExits(j)
  \/ ClearQuarantine
  \/ ClearFault

Spec == Init /\ [][Next]_vars

(***************************************************************************)
(* Fairness.  Threads that can go on go on: a worker's wait for the lock   *)
(* ends after 600 seconds and a backend call after 240, so some step of    *)
(* Owned is always possible inside them.  The main thread of a service     *)
(* that stays idle calls has_active_work; nothing makes it idle: IdleTime  *)
(* is up to its clients.  A client that needs the service starts it,       *)
(* sessions end, and a user who was told "still busy" tries to clear the   *)
(* quarantine again.  Requests, crashes and faults need never happen.      *)
(***************************************************************************)
Fairness ==
  /\ \A c \in Cores :
       /\ WF_vars(Start(c)) /\ WF_vars(Close(c))
       /\ WF_vars(CommitIndex(c)) /\ WF_vars(TakeJob(c))
       /\ WF_vars(Recovery(c)) /\ WF_vars(RetrySettlement(c))
  /\ \A t \in Threads : WF_vars(Owned(t)) /\ WF_vars(Failure(t))
  /\ \A j \in Jobs : WF_vars(SessionExits(j))
  /\ SF_vars(ClearQuarantine)

FairSpec == Spec /\ Fairness

-----------------------------------------------------------------------------
(* Safety.                                                                 *)

\* A dispatched request is never replayed: over crashes, takeovers by recovery, retried
\* settlements and reconcile calls, backend.execute is called at most once for a job
\* (the dispatch.json check of _execute_owned and the owner test of _recover_jobs).
NoReplay == \A j \in Jobs : launches[j] <= 1

\* One idempotency key leads to at most one native execution, even when the index write
\* failed and a retry registered a second job for the key (_run, _recover_jobs).
OneDispatchPerKey ==
  \A i, j \in Jobs :
    i # j /\ dispatch[i] # NoCore /\ dispatch[j] # NoCore => key[i] # key[j]

\* The worker only ever meets fresh work: a job it waits for or examines is registered,
\* neither dispatched nor running nor settled by anybody else, so the replay guards and the
\* early return of _execute_owned, and the dispatched branch of a lock timeout, are never
\* taken.
FreshWork ==
  \A t \in Threads :
    pc[t] \in {"waiting", "checking"} =>
      /\ dispatch[cur[t]] = NoCore
      /\ state[cur[t]] \in {"queued", "cancel_requested"}

\* A job whose error says that no native dispatch occurred never reached the backend, and
\* never will (every failed state that _execute_owned, _execution_failed and _recover_jobs
\* write before a dispatch).
HonestErrors ==
  \A j \in Jobs :
    error[j] \in NotDispatched =>
      /\ dispatch[j] = NoCore
      /\ launches[j] = 0

\* As long as a MATLAB session may be running, a file in the root names it or blocks the
\* executor: the active marker is written first and released only after the outcome, and
\* the quarantine, is on disk.
CrashBarrier ==
  \A j \in Jobs : native[j] = "running" => active = j \/ quarantine # NoJob

\* No calculation starts while the session of an earlier one may be running: the markers,
\* the quarantine and its confirmed clearing together keep one session per root.
OneSession ==
  \A i, j \in Jobs : native[i] = "running" /\ native[j] = "running" => i = j

\* Marker and lock agree: the active marker outlives the execution lock only after a crash
\* or a failed write, so a normal execution never leaves the executor blocked.
MarkerNeedsCause ==
  active # NoJob /\ execLock = NoThread => crashes + faults > 0

\* The holder of the execution lock is the only thread inside _execute_owned or
\* _execution_failed, also when crashes drop the lock and has_active_work takes it.
ExecutionMutex ==
  /\ \A t \in Threads : pc[t] \in Critical <=> execLock = t
  /\ \A t \in Threads : pc[t] # "idle" => cur[t] # NoJob /\ Alive(t[1])

\* At most MaxActiveJobs jobs are queued, running or being cancelled, whatever recovery
\* resubmits (the admission limit of _run).
QueueLimit == Cardinality(ActiveJobs) <= MaxActiveJobs

\* No accepted job is forgotten: an open job that its key leads to waits in the queue, is with
\* the worker or is a failed future of the Core that scheduler.json names, or that Core has
\* ended or is about to, so that the next recovery finds the job (_run, _execute_owned,
\* _execution_failed, has_active_work and _recover_jobs together).
WorkHeld ==
  \A j \in Jobs :
    state[j] \in ACTIVE /\ index[key[j]] = j =>
      LET c == scheduler[j] IN
      \/ core[c] \in {"closing", "dead"}
      \/ \E i \in 1..Len(queue[c]) : queue[c][i] = j
      \/ pc[Worker(c)] # "idle" /\ cur[Worker(c)] = j
      \/ j \in broken[c]

\* Settled jobs stay settled: no late failure, cancel, recovery or retry reopens a job, a
\* completed job can only be revoked because its artifacts changed, and what was cancelled
\* or failed is not turned into something else.
SettledStable ==
  [][\A j \in Jobs :
       /\ state[j] \in States \ (ACTIVE \cup {"absent"}) => state'[j] \notin ACTIVE
       /\ state[j] = "completed" /\ state'[j] # "completed"
            => state'[j] = "failed" /\ error'[j] = "REVISION_CONFLICT"
       /\ state[j] \in {"failed", "cancelled"} => state'[j] = state[j]]_<<state, error>>

\* An idempotency key never moves to another job (commits of _run and of _recover_jobs).
IndexStable ==
  [][\A k \in Keys : index[k] # NoJob => index'[k] = index[k]]_index

-----------------------------------------------------------------------------
(* Liveness, under FairSpec.                                               *)

\* The settlement of a job failed, and its service is never idle for long: only an idle
\* service retries the settlement (Coordinator.run, has_active_work), and every request, a
\* poll for this very job too, starts its idle time anew.
KeptBusy(j) == []<>(\E c \in Cores : j \in broken[c] /\ c \notin idle)

\* Every registered job leaves the active states, or its settlement raised and clients keep
\* calling the service that is to retry it.  Of clients nothing is assumed: they may poll for
\* ever, and then only the jobs whose settlement raised may stay active.
AcceptedSettles ==
  \A j \in Jobs : KeptBusy(j) \/ (state[j] \in ACTIVE ~> state[j] \notin ACTIVE)

\* A user who verifies that the displayed job's session stopped can clear the quarantine.
RecoveryPossible == quarantine # NoJob ~> quarantine = NoJob

-----------------------------------------------------------------------------
(* What it all comes to for a job: the promise of JobLifecycle.            *)

Status == [j \in Jobs |-> IF state[j] \in ACTIVE THEN "open" ELSE state[j]]
Dispatched == {j \in Jobs : dispatch[j] # NoCore}
Told == {j \in Jobs : error[j] \in NotDispatched}

Lifecycle == INSTANCE JobLifecycle WITH
  status <- Status, dispatched <- Dispatched, told <- Told

\* Whatever the files, threads and sessions do, the state, the key and the error that clients
\* read of a job evolve as JobLifecycle says: no step of any action skips a stage, dispatches
\* a second job of a key or calls a dispatched job undispatched.
JobPromise == Lifecycle!Spec

=============================================================================
