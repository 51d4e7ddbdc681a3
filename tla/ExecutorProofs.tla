--------------------------- MODULE ExecutorProofs ---------------------------
(***************************************************************************)
(* Theorems about Executor, for every set of jobs, Cores and keys and for  *)
(* every bound.                                                            *)
(***************************************************************************)
EXTENDS Executor, TLAPS

-----------------------------------------------------------------------------
(* The inductive invariant, in its parts.                                  *)

\* The holder of the execution lock is the thread inside the critical section; a busy
\* thread has a job and belongs to a living process, a service thread and a recovery to
\* one that has not begun to close.
Ownership ==
  /\ \A t \in Threads : pc[t] \in Critical <=> execLock = t
  /\ \A t \in Threads : pc[t] # "idle" => cur[t] \in Jobs /\ Alive(t[1])
  /\ \A c \in Cores : pc[Service(c)] # "idle" => core[c] = "up"
  /\ \A c \in Cores : handler[c] # "idle" => core[c] \in {"starting", "up"}

\* dispatch.json precedes the only backend call.
Dispatching ==
  /\ \A t \in Threads : pc[t] = "marked" => dispatch[cur[t]] = NoCore
  /\ \A t \in Threads :
       pc[t] = "dispatched" => dispatch[cur[t]] # NoCore /\ launches[cur[t]] = 0
  /\ \A j \in Jobs : dispatch[j] = NoCore => launches[j] = 0
  /\ NoReplay

\* What the owner may rely on between the two ends of its critical section.
Barrier ==
  /\ \A t \in Threads :
       pc[t] \in {"marked", "dispatched", "native", "returned"} => active = cur[t]
  /\ \A t \in Threads :
       pc[t] \in {"marked", "dispatched"} => \A j \in Jobs : native[j] # "running"
  /\ \A t \in Threads :
       pc[t] \in {"returned", "suspect", "settled"} => native[cur[t]] # "running"
  /\ \A t \in Threads : pc[t] \in {"uncertain", "releasing"} => quarantine # NoJob
  /\ CrashBarrier
  /\ OneSession

-----------------------------------------------------------------------------
(* Lemmas about the helpers.                                               *)

\* Saving a state of the program keeps the two files' types.
LEMMA SaveStateType ==
  ASSUME state \in [Jobs -> States], error \in [Jobs -> Errors],
         NEW j, NEW expected, NEW s \in States, NEW e \in Errors,
         SaveState(j, expected, s, e)
  PROVE  state' \in [Jobs -> States] /\ error' \in [Jobs -> Errors]
  BY DEF SaveState

\* Whatever a receipt says, reconciling stores a state of the program.
LEMMA ReconciledType ==
  ASSUME receipt \in [Jobs -> ReceiptKinds \cup {"none"}],
         NEW j \in Jobs, NEW s \in States, NEW e \in Errors,
         NEW r \in Reconciled(j, s, e)
  PROVE  r.state \in States /\ r.error \in Errors
<1>1. receipt[j] \in {"none", "completed", "failed", "cancelled", "invalid"}
  BY ConstantsOK
<1> QED
  BY <1>1 DEF Reconciled, States, ACTIVE, Errors, NotDispatched

\* The same for the step that stores it.
LEMMA StoreReconciledType ==
  ASSUME state \in [Jobs -> States], error \in [Jobs -> Errors],
         receipt \in [Jobs -> ReceiptKinds \cup {"none"}],
         NEW j \in Jobs, NEW s \in States, NEW e \in Errors,
         StoreReconciled(j, s, e)
  PROVE  state' \in [Jobs -> States] /\ error' \in [Jobs -> Errors]
  BY ReconciledType DEF StoreReconciled

-----------------------------------------------------------------------------
(* Types.                                                                  *)

\* Every step of every action keeps the types.
LEMMA TypeStep == TypeOK /\ Ownership /\ Next => TypeOK'
<1> SUFFICES ASSUME TypeOK, Ownership, Next PROVE TypeOK'
  OBVIOUS
<1> USE ConstantsOK
    DEF TypeOK, jobVars, rootVars, sessionVars, threadVars, poolVars, recVars, boundVars
<1>1. ASSUME NEW c \in Cores, Start(c) PROVE TypeOK'
  BY <1>1 DEF Start
<1>2. ASSUME NEW c \in Cores, Close(c) PROVE TypeOK'
  BY <1>2 DEF Close
<1>3. ASSUME NEW c \in Cores, Crash(c) PROVE TypeOK'
  <2>1. <<>> \in Seq(Jobs)
    OBVIOUS
  <2>2. queue' \in [Cores -> Seq(Jobs)] /\ broken' \in [Cores -> SUBSET Jobs]
    BY <1>3, <2>1 DEF Crash
  <2>3. pc' \in [Threads -> PCs] /\ cur' \in [Threads -> Jobs \cup {NoJob}]
    BY <1>3 DEF Crash, PCs
  <2>4. execLock' \in Threads \cup {NoThread} /\ publishing' \subseteq Threads
    BY <1>3 DEF Crash
  <2>5. /\ recLock' \in Cores \cup {NoCore} /\ todo' \subseteq Jobs
        /\ lost' \in Jobs \cup {NoJob} /\ registering' \in Jobs \cup {NoJob}
    BY <1>3 DEF Crash
  <2>6. crashes' \in 0..MaxCrashes /\ UNCHANGED <<jobVars, rootVars, sessionVars, faults>>
    BY <1>3 DEF Crash
  <2>7. core' \in [Cores -> {"off", "starting", "up", "closing", "dead"}]
    BY <1>3 DEF Crash
  <2>8. /\ handler' \in [Cores -> {"idle", "recover", "scan", "reconcile"}]
        /\ target' \in [Cores -> Jobs \cup {NoJob}] /\ idle' \subseteq Cores
    BY <1>3 DEF Crash
  <2> QED
    BY <2>2, <2>3, <2>4, <2>5, <2>6, <2>7, <2>8
<1>4. ASSUME NEW c \in Cores, NEW j \in Jobs, NEW k \in Keys, Register(c, j, k)
      PROVE  TypeOK'
  BY <1>4 DEF Register, ActiveJobs, States, ACTIVE
<1>5. ASSUME NEW c \in Cores, CommitIndex(c) PROVE TypeOK'
  <2>1. Append(queue[c], registering) \in Seq(Jobs)
    BY <1>5 DEF CommitIndex
  <2> QED
    BY <1>5, <2>1 DEF CommitIndex
<1>6. ASSUME NEW c \in Cores, IndexFault(c) \/ IdleTime(c) PROVE TypeOK'
  BY <1>6 DEF IndexFault, IdleTime, Fault
<1>7. ASSUME NEW c \in Cores, TakeJob(c) PROVE TypeOK'
  <2>1. queue' \in [Cores -> Seq(Jobs)] /\ Head(queue[c]) \in Jobs
    BY <1>7 DEF TakeJob
  <2> QED
    BY <1>7, <2>1 DEF TakeJob, Worker, Threads, PCs, Critical
<1>8. ASSUME NEW c \in Cores, RetrySettlement(c) PROVE TypeOK'
  BY <1>8 DEF RetrySettlement, Service, Threads, PCs, Critical
<1>9. ASSUME NEW c \in Cores, BeginRecovery(c) PROVE TypeOK'
  BY <1>9 DEF BeginRecovery, Known
<1>10. ASSUME NEW c \in Cores, NEW j \in Jobs, RecoverSkip(c, j) PROVE TypeOK'
  BY <1>10 DEF RecoverSkip, Scanning
<1>11. ASSUME NEW c \in Cores, NEW j \in Jobs, RecoverLost(c, j) PROVE TypeOK'
  BY <1>11 DEF RecoverLost, Scanning
<1>12. ASSUME NEW c \in Cores, RecoverUnknown(c) PROVE TypeOK'
  <2>1. state' \in [Jobs -> States] /\ error' \in [Jobs -> Errors]
    BY <1>12, StoreReconciledType DEF RecoverUnknown, States, Errors
  <2> QED
    BY <1>12, <2>1 DEF RecoverUnknown
<1>13. ASSUME NEW c \in Cores, NEW j \in Jobs, RecoverConflict(c, j) PROVE TypeOK'
  <2>1. state' \in [Jobs -> States] /\ error' \in [Jobs -> Errors]
    BY <1>13, SaveStateType DEF RecoverConflict, States, ACTIVE, Errors, NotDispatched
  <2> QED
    BY <1>13, <2>1 DEF RecoverConflict, Orphan, Scanning, PCs, Critical
<1>14. ASSUME NEW c \in Cores, NEW j \in Jobs, RecoverQueued(c, j) PROVE TypeOK'
  <2>1. Append(queue[c], j) \in Seq(Jobs)
    OBVIOUS
  <2> QED
    BY <1>14, <2>1 DEF RecoverQueued
<1>15. ASSUME NEW c \in Cores, EndRecovery(c) PROVE TypeOK'
  BY <1>15 DEF EndRecovery
<1>16. ASSUME NEW c \in Cores, RecoveryFault(c) PROVE TypeOK'
  <2>1. <<>> \in Seq(Jobs)
    OBVIOUS
  <2>2. /\ queue' \in [Cores -> Seq(Jobs)]
        /\ core' \in [Cores -> {"off", "starting", "up", "closing", "dead"}]
    <3>1. CASE core[c] = "starting"
      <4>1. /\ core' = [core EXCEPT ![c] = "closing"]
            /\ queue' = [queue EXCEPT ![c] = <<>>]
        BY <1>16, <3>1 DEF RecoveryFault
      <4> QED
        BY <4>1, <2>1
    <3>2. CASE core[c] # "starting"
      BY <1>16, <3>2 DEF RecoveryFault
    <3> QED
      BY <3>1, <3>2
  <2>4. /\ recLock' \in Cores \cup {NoCore} /\ todo' \subseteq Jobs
        /\ lost' \in Jobs \cup {NoJob}
    BY <1>16 DEF RecoveryFault
  <2>5. faults' \in 0..MaxFaults /\ crashes' = crashes
    BY <1>16 DEF RecoveryFault, Fault
  <2>6. handler' \in [Cores -> {"idle", "recover", "scan", "reconcile"}]
    BY <1>16 DEF RecoveryFault
  <2>7. target' \in [Cores -> Jobs \cup {NoJob}]
    BY <1>16 DEF RecoveryFault
  <2>8. UNCHANGED <<jobVars, rootVars, sessionVars, threadVars, broken, registering, idle>>
    BY <1>16 DEF RecoveryFault
  <2> QED
    BY <2>2, <2>4, <2>5, <2>6, <2>7, <2>8
<1>17. ASSUME NEW c \in Cores, ReconcileTarget(c) PROVE TypeOK'
  <2>1. state' \in [Jobs -> States] /\ error' \in [Jobs -> Errors]
    <3>1. CASE target[c] \in Jobs
      BY <1>17, <3>1, StoreReconciledType DEF ReconcileTarget
    <3>2. CASE target[c] \notin Jobs
      <4> PICK r \in Reconciled(target[c], state[target[c]], error[target[c]]) :
                 /\ state' = [state EXCEPT ![target[c]] = r.state]
                 /\ error' = [error EXCEPT ![target[c]] = r.error]
        BY <1>17 DEF ReconcileTarget, StoreReconciled
      <4> QED
        BY <3>2
    <3> QED
      BY <3>1, <3>2
  <2> QED
    BY <1>17, <2>1 DEF ReconcileTarget
<1>18. ASSUME NEW c \in Cores, NEW j \in Jobs, Cancel(c, j) PROVE TypeOK'
  <2>1. state' \in [Jobs -> States] /\ error' \in [Jobs -> Errors]
    <3>1. error[j] \in Errors /\ "cancel_requested" \in States
      BY DEF States, ACTIVE
    <3>2. CASE SaveState(j, ACTIVE, "cancel_requested", error[j])
      BY <3>1, <3>2, SaveStateType
    <3>3. CASE UNCHANGED <<state, error>>
      BY <3>3
    <3> QED
      BY <1>18, <3>2, <3>3 DEF Cancel
  <2> QED
    BY <1>18, <2>1 DEF Cancel
<1>19. ASSUME NEW c \in Cores, NEW j \in Jobs, CallReconcile(c, j) PROVE TypeOK'
  BY <1>19 DEF CallReconcile
<1>20. ASSUME NEW t \in Threads, AcquireExecution(t) PROVE TypeOK'
  BY <1>20 DEF AcquireExecution, Threads, PCs, Critical
<1>21. ASSUME NEW t \in Threads, ExecutorBusy(t) PROVE TypeOK'
  <2>1. state' \in [Jobs -> States] /\ error' \in [Jobs -> Errors]
    BY <1>21, SaveStateType DEF ExecutorBusy, States, ACTIVE, Errors, NotDispatched
  <2> QED
    BY <1>21, <2>1 DEF ExecutorBusy, PCs, Critical
<1>22. ASSUME NEW t \in Threads, PublishPrevious(t) PROVE TypeOK'
  BY <1>22 DEF PublishPrevious, PublishQuarantine, Threads, PCs, Critical
<1>23. ASSUME NEW t \in Threads, RefuseQuarantined(t) PROVE TypeOK'
  <2>1. state' \in [Jobs -> States] /\ error' \in [Jobs -> Errors]
    BY <1>23, SaveStateType DEF RefuseQuarantined, States, ACTIVE, Errors, NotDispatched
  <2> QED
    BY <1>23, <2>1 DEF RefuseQuarantined, Unlock, PCs, Critical
<1>24. ASSUME NEW t \in Threads, CancelUndispatched(t) PROVE TypeOK'
  <2>1. state' \in [Jobs -> States] /\ error' \in [Jobs -> Errors]
    BY <1>24, SaveStateType DEF CancelUndispatched, States, ACTIVE, Errors, NotDispatched
  <2> QED
    BY <1>24, <2>1 DEF CancelUndispatched, Unlock, PCs, Critical
<1>25. ASSUME NEW t \in Threads, WriteMarker(t) PROVE TypeOK'
  BY <1>25 DEF WriteMarker, Goto, Ownership, Threads, PCs, Critical
<1>26. ASSUME NEW t \in Threads, WriteDispatch(t) PROVE TypeOK'
  BY <1>26 DEF WriteDispatch, Goto, Threads, PCs, Critical
<1>27. ASSUME NEW t \in Threads, CallBackend(t) PROVE TypeOK'
  <2>1. state' \in [Jobs -> States] /\ error' \in [Jobs -> Errors]
    BY <1>27, SaveStateType DEF CallBackend, States, ACTIVE, Errors
  <2>2. cur[t] \in Jobs
    BY <1>27 DEF CallBackend, Ownership
  <2>3. launches[cur[t]] + 1 \in Nat
    BY <2>2
  <2>4. launches' \in [Jobs -> Nat]
    BY <1>27, <2>3 DEF CallBackend
  <2>5. native' \in [Jobs -> {"none", "running", "stopped"}]
    BY <1>27 DEF CallBackend
  <2>6. /\ pc' \in [Threads -> PCs] /\ publishing' \subseteq Threads
        /\ UNCHANGED <<cur, execLock>>
    BY <1>27 DEF CallBackend, Goto, PCs, Critical
  <2>7. UNCHANGED <<key, scheduler, dispatch, cancelFlag, receipt, rootVars, core, poolVars,
                    recVars, boundVars>>
    BY <1>27 DEF CallBackend
  <2> QED
    BY <2>1, <2>4, <2>5, <2>6, <2>7
<1>28. ASSUME NEW t \in Threads, BackendReturns(t) PROVE TypeOK'
  BY <1>28 DEF BackendReturns, Goto, Threads, PCs, Critical
<1>29. ASSUME NEW t \in Threads, BackendRaises(t) PROVE TypeOK'
  BY <1>29 DEF BackendRaises, Goto, Threads, PCs, Critical
<1>30. ASSUME NEW t \in Threads, NoReceipt(t) PROVE TypeOK'
  BY <1>30 DEF NoReceipt, Goto, Threads, PCs, Critical
<1>31. ASSUME NEW t \in Threads, ReconcileReturned(t) PROVE TypeOK'
  <2>1. cur[t] \in Jobs
    BY <1>31 DEF ReconcileReturned, Ownership
  <2>2. state' \in [Jobs -> States] /\ error' \in [Jobs -> Errors]
    BY <1>31, <2>1, StoreReconciledType DEF ReconcileReturned
  <2> QED
    BY <1>31, <2>2 DEF ReconcileReturned, Goto, PCs, Critical
<1>32. ASSUME NEW t \in Threads, QuarantineSuspect(t) PROVE TypeOK'
  BY <1>32 DEF QuarantineSuspect, PublishQuarantine, Goto, Threads, PCs, Critical
<1>33. ASSUME NEW t \in Threads, ReleaseExecution(t) PROVE TypeOK'
  BY <1>33 DEF ReleaseExecution, ReleaseActive, Unlock, Threads, PCs, Critical
<1>34. ASSUME NEW t \in Threads, FailUndispatched(t) PROVE TypeOK'
  <2>1. state' \in [Jobs -> States] /\ error' \in [Jobs -> Errors]
    BY <1>34, SaveStateType DEF FailUndispatched, States, ACTIVE, Errors, NotDispatched
  <2> QED
    BY <1>34, <2>1 DEF FailUndispatched, Unlock, PCs, Critical
<1>35. ASSUME NEW t \in Threads, QuarantineUncertain(t) PROVE TypeOK'
  BY <1>35
       DEF QuarantineUncertain, PublishQuarantine, Goto, Ownership, Threads, PCs, Critical
<1>36. ASSUME NEW t \in Threads, SettleUncertain(t) PROVE TypeOK'
  <2>1. cur[t] \in Jobs
    BY <1>36 DEF SettleUncertain, Ownership
  <2>2. state' \in [Jobs -> States] /\ error' \in [Jobs -> Errors]
    BY <1>36, <2>1, StoreReconciledType, SaveStateType DEF SettleUncertain, States, Errors
  <2> QED
    BY <1>36, <2>2 DEF SettleUncertain, Goto, PCs, Critical
<1>37. ASSUME NEW t \in Threads, WorkerFault(t) PROVE TypeOK'
  BY <1>37 DEF WorkerFault, Fault, Goto, Threads, PCs, Critical
<1>38. ASSUME NEW t \in Threads, BusyFault(t) PROVE TypeOK'
  BY <1>38 DEF BusyFault, Fault, Ownership, Threads, PCs, Critical
<1>39. ASSUME NEW t \in Threads, FailureFault(t) PROVE TypeOK'
  BY <1>39 DEF FailureFault, Fault, Unlock, Ownership, Threads, PCs, Critical
<1>40. ASSUME NEW j \in Jobs, CommitReceipt(j) PROVE TypeOK'
  BY <1>40 DEF CommitReceipt
<1>41. ASSUME NEW j \in Jobs, SessionExits(j) PROVE TypeOK'
  BY <1>41 DEF SessionExits
<1>42. ASSUME ClearQuarantine PROVE TypeOK'
  BY <1>42 DEF ClearQuarantine
<1>43. ASSUME ClearFault PROVE TypeOK'
  BY <1>43 DEF ClearFault, Fault
<1>44. ASSUME NEW t \in Threads, FindNoQuarantine(t) PROVE TypeOK'
  BY <1>44 DEF FindNoQuarantine
<1> QED
  BY <1>1, <1>2, <1>3, <1>4, <1>5, <1>6, <1>7, <1>8, <1>9, <1>10, <1>11, <1>12,
     <1>13, <1>14, <1>15, <1>16, <1>17, <1>18, <1>19, <1>20, <1>21,
     <1>22, <1>23, <1>24, <1>25, <1>26, <1>27, <1>28, <1>29, <1>30, <1>31,
     <1>32, <1>33, <1>34, <1>35, <1>36, <1>37, <1>38, <1>39, <1>40, <1>41,
     <1>42, <1>43, <1>44
  DEF Next, Registration, Owned, Failure, Recovery

-----------------------------------------------------------------------------
(* Ownership of execution.                                                 *)

\* Threads come in pairs, one worker and one service thread for each Core.
LEMMA ThreadPairs ==
  /\ \A c \in Cores : Worker(c) \in Threads /\ Service(c) \in Threads
  /\ \A c \in Cores : Worker(c)[1] = c /\ Service(c)[1] = c
  /\ \A t \in Threads : t[1] \in Cores /\ t \in {Worker(t[1]), Service(t[1])}
  /\ \A c, d \in Cores : Worker(c) # Service(d)
  BY DEF Threads, Worker, Service

\* Every step keeps the execution lock with the one thread inside the critical section.
LEMMA OwnershipStep == TypeOK /\ Ownership /\ Next => Ownership'
<1> SUFFICES ASSUME TypeOK, Ownership, Next PROVE Ownership'
  OBVIOUS
<1> USE ConstantsOK, ThreadPairs
    DEF TypeOK, Ownership, Alive, Critical, jobVars, rootVars, sessionVars, threadVars,
        poolVars, recVars, boundVars
<1>1. ASSUME NEW c \in Cores, Start(c) PROVE Ownership'
  BY <1>1 DEF Start
<1>2. ASSUME NEW c \in Cores, Close(c) PROVE Ownership'
  <2>1. pc[Worker(c)] = "idle" /\ pc[Service(c)] = "idle" /\ handler[c] = "idle"
    BY <1>2 DEF Close
  <2>2. \A t \in Threads : t[1] = c => pc[t] = "idle"
    <3> SUFFICES ASSUME NEW t \in Threads, t[1] = c PROVE pc[t] = "idle"
      OBVIOUS
    <3>1. t = Worker(c) \/ t = Service(c)
      BY ThreadPairs
    <3> QED
      BY <2>1, <3>1
  <2>3. core' = [core EXCEPT ![c] = "dead"] /\ UNCHANGED <<pc, cur, execLock, handler>>
    BY <1>2 DEF Close
  <2> QED
    BY <2>1, <2>2, <2>3
<1>3. ASSUME NEW c \in Cores, Crash(c) PROVE Ownership'
  BY <1>3 DEF Crash
<1>4. ASSUME NEW c \in Cores, NEW j \in Jobs, NEW k \in Keys, Register(c, j, k)
      PROVE  Ownership'
  BY <1>4 DEF Register
<1>5. ASSUME NEW c \in Cores, CommitIndex(c) PROVE Ownership'
  BY <1>5 DEF CommitIndex
<1>6. ASSUME NEW c \in Cores, IndexFault(c) \/ IdleTime(c) PROVE Ownership'
  BY <1>6 DEF IndexFault, IdleTime
<1>7. ASSUME NEW c \in Cores, TakeJob(c) PROVE Ownership'
  BY <1>7 DEF TakeJob
<1>8. ASSUME NEW c \in Cores, RetrySettlement(c) PROVE Ownership'
  BY <1>8 DEF RetrySettlement
<1>9. ASSUME NEW c \in Cores, BeginRecovery(c) PROVE Ownership'
  BY <1>9 DEF BeginRecovery
<1>10. ASSUME NEW c \in Cores, NEW j \in Jobs, RecoverSkip(c, j) PROVE Ownership'
  BY <1>10 DEF RecoverSkip
<1>11. ASSUME NEW c \in Cores, NEW j \in Jobs, RecoverLost(c, j) PROVE Ownership'
  BY <1>11 DEF RecoverLost
<1>12. ASSUME NEW c \in Cores, RecoverUnknown(c) PROVE Ownership'
  BY <1>12 DEF RecoverUnknown
<1>13. ASSUME NEW c \in Cores, NEW j \in Jobs, RecoverConflict(c, j) PROVE Ownership'
  BY <1>13 DEF RecoverConflict
<1>14. ASSUME NEW c \in Cores, NEW j \in Jobs, RecoverQueued(c, j) PROVE Ownership'
  BY <1>14 DEF RecoverQueued
<1>15. ASSUME NEW c \in Cores, EndRecovery(c) PROVE Ownership'
  BY <1>15 DEF EndRecovery
<1>16. ASSUME NEW c \in Cores, RecoveryFault(c) PROVE Ownership'
  <2>1. UNCHANGED <<pc, cur, execLock>> /\ handler' = [handler EXCEPT ![c] = "idle"]
    BY <1>16 DEF RecoveryFault
  <2>2. CASE core[c] = "starting"
    <3>1. core' = [core EXCEPT ![c] = "closing"]
      BY <1>16, <2>2 DEF RecoveryFault
    <3> QED
      BY <2>1, <2>2, <3>1
  <2>3. CASE core[c] # "starting"
    <3>1. UNCHANGED core
      BY <1>16, <2>3 DEF RecoveryFault
    <3> QED
      BY <2>1, <3>1
  <2> QED
    BY <2>2, <2>3
<1>17. ASSUME NEW c \in Cores, ReconcileTarget(c) PROVE Ownership'
  BY <1>17 DEF ReconcileTarget
<1>18. ASSUME NEW c \in Cores, NEW j \in Jobs, Cancel(c, j) PROVE Ownership'
  BY <1>18 DEF Cancel
<1>19. ASSUME NEW c \in Cores, NEW j \in Jobs, CallReconcile(c, j) PROVE Ownership'
  BY <1>19 DEF CallReconcile
<1>20. ASSUME NEW t \in Threads, AcquireExecution(t) PROVE Ownership'
  BY <1>20 DEF AcquireExecution
<1>21. ASSUME NEW t \in Threads, ExecutorBusy(t) PROVE Ownership'
  BY <1>21 DEF ExecutorBusy
<1>22. ASSUME NEW t \in Threads, PublishPrevious(t) PROVE Ownership'
  BY <1>22 DEF PublishPrevious
<1>23. ASSUME NEW t \in Threads, RefuseQuarantined(t) PROVE Ownership'
  BY <1>23 DEF RefuseQuarantined, Unlock
<1>24. ASSUME NEW t \in Threads, CancelUndispatched(t) PROVE Ownership'
  BY <1>24 DEF CancelUndispatched, Unlock
<1>25. ASSUME NEW t \in Threads, WriteMarker(t) PROVE Ownership'
  BY <1>25 DEF WriteMarker, Goto
<1>26. ASSUME NEW t \in Threads, WriteDispatch(t) PROVE Ownership'
  BY <1>26 DEF WriteDispatch, Goto
<1>27. ASSUME NEW t \in Threads, CallBackend(t) PROVE Ownership'
  BY <1>27 DEF CallBackend, Goto
<1>28. ASSUME NEW t \in Threads, BackendReturns(t) PROVE Ownership'
  BY <1>28 DEF BackendReturns, Goto
<1>29. ASSUME NEW t \in Threads, BackendRaises(t) PROVE Ownership'
  BY <1>29 DEF BackendRaises, Goto
<1>30. ASSUME NEW t \in Threads, NoReceipt(t) PROVE Ownership'
  BY <1>30 DEF NoReceipt, Goto
<1>31. ASSUME NEW t \in Threads, ReconcileReturned(t) PROVE Ownership'
  BY <1>31 DEF ReconcileReturned, Goto
<1>32. ASSUME NEW t \in Threads, QuarantineSuspect(t) PROVE Ownership'
  BY <1>32 DEF QuarantineSuspect, Goto
<1>33. ASSUME NEW t \in Threads, ReleaseExecution(t) PROVE Ownership'
  BY <1>33 DEF ReleaseExecution, Unlock
<1>34. ASSUME NEW t \in Threads, FailUndispatched(t) PROVE Ownership'
  BY <1>34 DEF FailUndispatched, Unlock
<1>35. ASSUME NEW t \in Threads, QuarantineUncertain(t) PROVE Ownership'
  BY <1>35 DEF QuarantineUncertain, Goto
<1>36. ASSUME NEW t \in Threads, SettleUncertain(t) PROVE Ownership'
  BY <1>36 DEF SettleUncertain, Goto
<1>37. ASSUME NEW t \in Threads, WorkerFault(t) PROVE Ownership'
  BY <1>37 DEF WorkerFault, Goto
<1>38. ASSUME NEW t \in Threads, BusyFault(t) PROVE Ownership'
  BY <1>38 DEF BusyFault
<1>39. ASSUME NEW t \in Threads, FailureFault(t) PROVE Ownership'
  BY <1>39 DEF FailureFault, Unlock
<1>40. ASSUME NEW j \in Jobs, CommitReceipt(j) PROVE Ownership'
  BY <1>40 DEF CommitReceipt
<1>41. ASSUME NEW j \in Jobs, SessionExits(j) PROVE Ownership'
  BY <1>41 DEF SessionExits
<1>42. ASSUME ClearQuarantine PROVE Ownership'
  BY <1>42 DEF ClearQuarantine
<1>43. ASSUME ClearFault PROVE Ownership'
  BY <1>43 DEF ClearFault
<1>44. ASSUME NEW t \in Threads, FindNoQuarantine(t) PROVE Ownership'
  BY <1>44 DEF FindNoQuarantine
<1> QED
  BY <1>1, <1>2, <1>3, <1>4, <1>5, <1>6, <1>7, <1>8, <1>9, <1>10, <1>11, <1>12,
     <1>13, <1>14, <1>15, <1>16, <1>17, <1>18, <1>19, <1>20, <1>21,
     <1>22, <1>23, <1>24, <1>25, <1>26, <1>27, <1>28, <1>29, <1>30, <1>31,
     <1>32, <1>33, <1>34, <1>35, <1>36, <1>37, <1>38, <1>39, <1>40, <1>41,
     <1>42, <1>43, <1>44
  DEF Next, Registration, Owned, Failure, Recovery

-----------------------------------------------------------------------------
(* Dispatch.                                                               *)

\* Only the owner between dispatch.json and the backend call launches, and only once.
LEMMA DispatchingStep == TypeOK /\ Ownership /\ Dispatching /\ Next => Dispatching'
<1> SUFFICES ASSUME TypeOK, Ownership, Dispatching, Next PROVE Dispatching'
  OBVIOUS
<1> USE ConstantsOK
    DEF TypeOK, Ownership, Dispatching, NoReplay, Critical, jobVars, rootVars, sessionVars,
        threadVars, poolVars, recVars, boundVars
<1>1. ASSUME NEW c \in Cores, Start(c) PROVE Dispatching'
  BY <1>1 DEF Start
<1>2. ASSUME NEW c \in Cores, Close(c) PROVE Dispatching'
  BY <1>2 DEF Close
<1>3. ASSUME NEW c \in Cores, Crash(c) PROVE Dispatching'
  BY <1>3 DEF Crash
<1>4. ASSUME NEW c \in Cores, NEW j \in Jobs, NEW k \in Keys, Register(c, j, k)
      PROVE  Dispatching'
  BY <1>4 DEF Register
<1>5. ASSUME NEW c \in Cores, CommitIndex(c) PROVE Dispatching'
  BY <1>5 DEF CommitIndex
<1>6. ASSUME NEW c \in Cores, IndexFault(c) \/ IdleTime(c) PROVE Dispatching'
  BY <1>6 DEF IndexFault, IdleTime
<1>7. ASSUME NEW c \in Cores, TakeJob(c) PROVE Dispatching'
  BY <1>7 DEF TakeJob
<1>8. ASSUME NEW c \in Cores, RetrySettlement(c) PROVE Dispatching'
  BY <1>8 DEF RetrySettlement
<1>9. ASSUME NEW c \in Cores, BeginRecovery(c) PROVE Dispatching'
  BY <1>9 DEF BeginRecovery
<1>10. ASSUME NEW c \in Cores, NEW j \in Jobs, RecoverSkip(c, j) PROVE Dispatching'
  BY <1>10 DEF RecoverSkip
<1>11. ASSUME NEW c \in Cores, NEW j \in Jobs, RecoverLost(c, j) PROVE Dispatching'
  BY <1>11 DEF RecoverLost
<1>12. ASSUME NEW c \in Cores, RecoverUnknown(c) PROVE Dispatching'
  BY <1>12 DEF RecoverUnknown
<1>13. ASSUME NEW c \in Cores, NEW j \in Jobs, RecoverConflict(c, j) PROVE Dispatching'
  BY <1>13 DEF RecoverConflict
<1>14. ASSUME NEW c \in Cores, NEW j \in Jobs, RecoverQueued(c, j) PROVE Dispatching'
  BY <1>14 DEF RecoverQueued
<1>15. ASSUME NEW c \in Cores, EndRecovery(c) PROVE Dispatching'
  BY <1>15 DEF EndRecovery
<1>16. ASSUME NEW c \in Cores, RecoveryFault(c) PROVE Dispatching'
  BY <1>16 DEF RecoveryFault
<1>17. ASSUME NEW c \in Cores, ReconcileTarget(c) PROVE Dispatching'
  BY <1>17 DEF ReconcileTarget
<1>18. ASSUME NEW c \in Cores, NEW j \in Jobs, Cancel(c, j) PROVE Dispatching'
  BY <1>18 DEF Cancel
<1>19. ASSUME NEW c \in Cores, NEW j \in Jobs, CallReconcile(c, j) PROVE Dispatching'
  BY <1>19 DEF CallReconcile
<1>20. ASSUME NEW t \in Threads, AcquireExecution(t) PROVE Dispatching'
  BY <1>20 DEF AcquireExecution
<1>21. ASSUME NEW t \in Threads, ExecutorBusy(t) PROVE Dispatching'
  BY <1>21 DEF ExecutorBusy
<1>22. ASSUME NEW t \in Threads, PublishPrevious(t) PROVE Dispatching'
  BY <1>22 DEF PublishPrevious
<1>23. ASSUME NEW t \in Threads, RefuseQuarantined(t) PROVE Dispatching'
  BY <1>23 DEF RefuseQuarantined, Unlock
<1>24. ASSUME NEW t \in Threads, CancelUndispatched(t) PROVE Dispatching'
  BY <1>24 DEF CancelUndispatched, Unlock
<1>25. ASSUME NEW t \in Threads, WriteMarker(t) PROVE Dispatching'
  BY <1>25 DEF WriteMarker, Goto
<1>26. ASSUME NEW t \in Threads, WriteDispatch(t) PROVE Dispatching'
  BY <1>26, ThreadPairs DEF WriteDispatch, Goto
<1>27. ASSUME NEW t \in Threads, CallBackend(t) PROVE Dispatching'
  BY <1>27 DEF CallBackend, Goto
<1>28. ASSUME NEW t \in Threads, BackendReturns(t) PROVE Dispatching'
  BY <1>28 DEF BackendReturns, Goto
<1>29. ASSUME NEW t \in Threads, BackendRaises(t) PROVE Dispatching'
  BY <1>29 DEF BackendRaises, Goto
<1>30. ASSUME NEW t \in Threads, NoReceipt(t) PROVE Dispatching'
  BY <1>30 DEF NoReceipt, Goto
<1>31. ASSUME NEW t \in Threads, ReconcileReturned(t) PROVE Dispatching'
  BY <1>31 DEF ReconcileReturned, Goto
<1>32. ASSUME NEW t \in Threads, QuarantineSuspect(t) PROVE Dispatching'
  BY <1>32 DEF QuarantineSuspect, Goto
<1>33. ASSUME NEW t \in Threads, ReleaseExecution(t) PROVE Dispatching'
  BY <1>33 DEF ReleaseExecution, Unlock
<1>34. ASSUME NEW t \in Threads, FailUndispatched(t) PROVE Dispatching'
  BY <1>34 DEF FailUndispatched, Unlock
<1>35. ASSUME NEW t \in Threads, QuarantineUncertain(t) PROVE Dispatching'
  BY <1>35 DEF QuarantineUncertain, Goto
<1>36. ASSUME NEW t \in Threads, SettleUncertain(t) PROVE Dispatching'
  BY <1>36 DEF SettleUncertain, Goto
<1>37. ASSUME NEW t \in Threads, WorkerFault(t) PROVE Dispatching'
  BY <1>37 DEF WorkerFault, Goto
<1>38. ASSUME NEW t \in Threads, BusyFault(t) PROVE Dispatching'
  BY <1>38 DEF BusyFault
<1>39. ASSUME NEW t \in Threads, FailureFault(t) PROVE Dispatching'
  BY <1>39 DEF FailureFault, Unlock
<1>40. ASSUME NEW j \in Jobs, CommitReceipt(j) PROVE Dispatching'
  BY <1>40 DEF CommitReceipt
<1>41. ASSUME NEW j \in Jobs, SessionExits(j) PROVE Dispatching'
  BY <1>41 DEF SessionExits
<1>42. ASSUME ClearQuarantine PROVE Dispatching'
  BY <1>42 DEF ClearQuarantine
<1>43. ASSUME ClearFault PROVE Dispatching'
  BY <1>43 DEF ClearFault
<1>44. ASSUME NEW t \in Threads, FindNoQuarantine(t) PROVE Dispatching'
  BY <1>44 DEF FindNoQuarantine
<1> QED
  BY <1>1, <1>2, <1>3, <1>4, <1>5, <1>6, <1>7, <1>8, <1>9, <1>10, <1>11, <1>12,
     <1>13, <1>14, <1>15, <1>16, <1>17, <1>18, <1>19, <1>20, <1>21,
     <1>22, <1>23, <1>24, <1>25, <1>26, <1>27, <1>28, <1>29, <1>30, <1>31,
     <1>32, <1>33, <1>34, <1>35, <1>36, <1>37, <1>38, <1>39, <1>40, <1>41,
     <1>42, <1>43, <1>44
  DEF Next, Registration, Owned, Failure, Recovery

-----------------------------------------------------------------------------
(* Barriers.                                                               *)

\* No step leaves a session without a barrier or starts a second one, provided that the
\* Setup user verifies every session: ClearQuarantine is the step that needs it.
LEMMA BarrierStep == ConfirmsEverySession /\ TypeOK /\ Ownership /\ Barrier /\ Next => Barrier'
<1> SUFFICES ASSUME ConfirmsEverySession, TypeOK, Ownership, Barrier, Next PROVE Barrier'
  OBVIOUS
<1> USE ConstantsOK
    DEF TypeOK, Ownership, Barrier, CrashBarrier, OneSession, Critical, jobVars, rootVars,
        sessionVars, threadVars, poolVars, recVars, boundVars
<1>1. ASSUME NEW c \in Cores, Start(c) PROVE Barrier'
  BY <1>1 DEF Start
<1>2. ASSUME NEW c \in Cores, Close(c) PROVE Barrier'
  BY <1>2 DEF Close
<1>3. ASSUME NEW c \in Cores, Crash(c) PROVE Barrier'
  BY <1>3 DEF Crash
<1>4. ASSUME NEW c \in Cores, NEW j \in Jobs, NEW k \in Keys, Register(c, j, k)
      PROVE  Barrier'
  BY <1>4 DEF Register
<1>5. ASSUME NEW c \in Cores, CommitIndex(c) PROVE Barrier'
  BY <1>5 DEF CommitIndex
<1>6. ASSUME NEW c \in Cores, IndexFault(c) \/ IdleTime(c) PROVE Barrier'
  BY <1>6 DEF IndexFault, IdleTime
<1>7. ASSUME NEW c \in Cores, TakeJob(c) PROVE Barrier'
  BY <1>7 DEF TakeJob
<1>8. ASSUME NEW c \in Cores, RetrySettlement(c) PROVE Barrier'
  BY <1>8 DEF RetrySettlement
<1>9. ASSUME NEW c \in Cores, BeginRecovery(c) PROVE Barrier'
  BY <1>9 DEF BeginRecovery
<1>10. ASSUME NEW c \in Cores, NEW j \in Jobs, RecoverSkip(c, j) PROVE Barrier'
  BY <1>10 DEF RecoverSkip
<1>11. ASSUME NEW c \in Cores, NEW j \in Jobs, RecoverLost(c, j) PROVE Barrier'
  BY <1>11 DEF RecoverLost
<1>12. ASSUME NEW c \in Cores, RecoverUnknown(c) PROVE Barrier'
  BY <1>12 DEF RecoverUnknown
<1>13. ASSUME NEW c \in Cores, NEW j \in Jobs, RecoverConflict(c, j) PROVE Barrier'
  BY <1>13 DEF RecoverConflict
<1>14. ASSUME NEW c \in Cores, NEW j \in Jobs, RecoverQueued(c, j) PROVE Barrier'
  BY <1>14 DEF RecoverQueued
<1>15. ASSUME NEW c \in Cores, EndRecovery(c) PROVE Barrier'
  BY <1>15 DEF EndRecovery
<1>16. ASSUME NEW c \in Cores, RecoveryFault(c) PROVE Barrier'
  BY <1>16 DEF RecoveryFault
<1>17. ASSUME NEW c \in Cores, ReconcileTarget(c) PROVE Barrier'
  BY <1>17 DEF ReconcileTarget
<1>18. ASSUME NEW c \in Cores, NEW j \in Jobs, Cancel(c, j) PROVE Barrier'
  BY <1>18 DEF Cancel
<1>19. ASSUME NEW c \in Cores, NEW j \in Jobs, CallReconcile(c, j) PROVE Barrier'
  BY <1>19 DEF CallReconcile
<1>20. ASSUME NEW t \in Threads, AcquireExecution(t) PROVE Barrier'
  BY <1>20 DEF AcquireExecution
<1>21. ASSUME NEW t \in Threads, ExecutorBusy(t) PROVE Barrier'
  BY <1>21 DEF ExecutorBusy
<1>22. ASSUME NEW t \in Threads, PublishPrevious(t) PROVE Barrier'
  BY <1>22 DEF PublishPrevious, PublishQuarantine
<1>23. ASSUME NEW t \in Threads, RefuseQuarantined(t) PROVE Barrier'
  BY <1>23 DEF RefuseQuarantined, Unlock
<1>24. ASSUME NEW t \in Threads, CancelUndispatched(t) PROVE Barrier'
  BY <1>24 DEF CancelUndispatched, Unlock
<1>25. ASSUME NEW t \in Threads, WriteMarker(t) PROVE Barrier'
  BY <1>25 DEF WriteMarker, Goto
<1>26. ASSUME NEW t \in Threads, WriteDispatch(t) PROVE Barrier'
  BY <1>26 DEF WriteDispatch, Goto
<1>27. ASSUME NEW t \in Threads, CallBackend(t) PROVE Barrier'
  BY <1>27 DEF CallBackend, Goto
<1>28. ASSUME NEW t \in Threads, BackendReturns(t) PROVE Barrier'
  BY <1>28 DEF BackendReturns, Goto
<1>29. ASSUME NEW t \in Threads, BackendRaises(t) PROVE Barrier'
  BY <1>29 DEF BackendRaises, Goto
<1>30. ASSUME NEW t \in Threads, NoReceipt(t) PROVE Barrier'
  BY <1>30 DEF NoReceipt, Goto
<1>31. ASSUME NEW t \in Threads, ReconcileReturned(t) PROVE Barrier'
  BY <1>31 DEF ReconcileReturned, Goto
<1>32. ASSUME NEW t \in Threads, QuarantineSuspect(t) PROVE Barrier'
  BY <1>32 DEF QuarantineSuspect, PublishQuarantine, Goto
<1>33. ASSUME NEW t \in Threads, ReleaseExecution(t) PROVE Barrier'
  BY <1>33 DEF ReleaseExecution, ReleaseActive, Unlock
<1>34. ASSUME NEW t \in Threads, FailUndispatched(t) PROVE Barrier'
  BY <1>34 DEF FailUndispatched, Unlock
<1>35. ASSUME NEW t \in Threads, QuarantineUncertain(t) PROVE Barrier'
  BY <1>35 DEF QuarantineUncertain, PublishQuarantine, Goto
<1>36. ASSUME NEW t \in Threads, SettleUncertain(t) PROVE Barrier'
  BY <1>36 DEF SettleUncertain, Goto
<1>37. ASSUME NEW t \in Threads, WorkerFault(t) PROVE Barrier'
  BY <1>37 DEF WorkerFault, Goto
<1>38. ASSUME NEW t \in Threads, BusyFault(t) PROVE Barrier'
  BY <1>38 DEF BusyFault
<1>39. ASSUME NEW t \in Threads, FailureFault(t) PROVE Barrier'
  BY <1>39 DEF FailureFault, Unlock
<1>40. ASSUME NEW j \in Jobs, CommitReceipt(j) PROVE Barrier'
  BY <1>40 DEF CommitReceipt
<1>41. ASSUME NEW j \in Jobs, SessionExits(j) PROVE Barrier'
  BY <1>41 DEF SessionExits
<1>42. ASSUME ClearQuarantine PROVE Barrier'
  BY <1>42 DEF ClearQuarantine, Clearable, Confirmed
<1>43. ASSUME ClearFault PROVE Barrier'
  BY <1>43 DEF ClearFault, Clearable, Confirmed
<1>44. ASSUME NEW t \in Threads, FindNoQuarantine(t) PROVE Barrier'
  BY <1>44 DEF FindNoQuarantine
<1> QED
  BY <1>1, <1>2, <1>3, <1>4, <1>5, <1>6, <1>7, <1>8, <1>9, <1>10, <1>11, <1>12,
     <1>13, <1>14, <1>15, <1>16, <1>17, <1>18, <1>19, <1>20, <1>21,
     <1>22, <1>23, <1>24, <1>25, <1>26, <1>27, <1>28, <1>29, <1>30, <1>31,
     <1>32, <1>33, <1>34, <1>35, <1>36, <1>37, <1>38, <1>39, <1>40, <1>41,
     <1>42, <1>43, <1>44
  DEF Next, Registration, Owned, Failure, Recovery

-----------------------------------------------------------------------------
(* Theorems of the specification.                                          *)

\* Type correctness, with the ownership of the execution lock that it needs.
LEMMA LockOwnership == Spec => [](TypeOK /\ Ownership)
<1>1. Init => TypeOK /\ Ownership
  BY ConstantsOK, ThreadPairs
       DEF Init, TypeOK, Ownership, States, ACTIVE, Errors, PCs, Critical
<1>2. TypeOK /\ Ownership /\ [Next]_vars => (TypeOK /\ Ownership)'
  <2>1. TypeOK /\ Ownership /\ UNCHANGED vars => (TypeOK /\ Ownership)'
    BY DEF vars, jobVars, rootVars, sessionVars, threadVars, poolVars, recVars, boundVars,
           TypeOK, Ownership, Alive
  <2> QED
    BY <2>1, TypeStep, OwnershipStep
<1> QED
  BY <1>1, <1>2, PTL DEF Spec

\* Every file, lock and thread always holds a value the program gives it, over crashes and
\* failing writes.
THEOREM TypeCorrect == Spec => []TypeOK
<1>1. Spec => [](TypeOK /\ Ownership)
  BY LockOwnership
<1> QED
  BY <1>1, PTL

\* At most one thread of all processes is inside _execute_owned or _execution_failed, and
\* it is the holder of the execution lock in a living process.
THEOREM MutualExclusion == Spec => []ExecutionMutex
<1>1. TypeOK /\ Ownership => ExecutionMutex
  BY ConstantsOK DEF Ownership, ExecutionMutex
<1>2. Spec => [](TypeOK /\ Ownership)
  BY LockOwnership
<1> QED
  BY <1>1, <1>2, PTL

\* backend.execute is called at most once for a job, whatever crashes, fails or is retried.
THEOREM NeverReplayed == Spec => []NoReplay
<1>1. Init => Dispatching
  BY DEF Init, Dispatching, NoReplay
<1>2. TypeOK /\ Ownership /\ Dispatching /\ [Next]_vars => Dispatching'
  <2>1. Dispatching /\ UNCHANGED vars => Dispatching'
    BY DEF vars, jobVars, sessionVars, threadVars, Dispatching, NoReplay
  <2> QED
    BY <2>1, DispatchingStep
<1>3. Spec => [](TypeOK /\ Ownership)
  BY LockOwnership
<1>4. Dispatching => NoReplay
  BY DEF Dispatching
<1> QED
  BY <1>1, <1>2, <1>3, <1>4, PTL DEF Spec

\* The barrier is inductive when the Setup user verifies every session before clearing.
LEMMA BarrierHolds == ASSUME ConfirmsEverySession PROVE Spec => []Barrier
<1>1. Init => Barrier
  BY DEF Init, Barrier, CrashBarrier, OneSession
<1>2. TypeOK /\ Ownership /\ Barrier /\ [Next]_vars => Barrier'
  <2>1. Barrier /\ UNCHANGED vars => Barrier'
    BY DEF vars, rootVars, sessionVars, threadVars, Barrier, CrashBarrier, OneSession
  <2> QED
    BY <2>1, BarrierStep
<1>3. Spec => [](TypeOK /\ Ownership)
  BY LockOwnership
<1> QED
  BY <1>1, <1>2, <1>3, PTL DEF Spec

\* A running session is always named by the active marker or blocked by a quarantine: the
\* order of the markers in _execute_owned and _execution_failed survives a stop anywhere.
THEOREM SessionBarrier == ASSUME ConfirmsEverySession PROVE Spec => []CrashBarrier
<1>1. Barrier => CrashBarrier
  BY DEF Barrier
<1>2. Spec => []Barrier
  BY BarrierHolds
<1> QED
  BY <1>1, <1>2, PTL

\* No two MATLAB sessions of one root run at a time.
THEOREM SingleSession == ASSUME ConfirmsEverySession PROVE Spec => []OneSession
<1>1. Barrier => OneSession
  BY DEF Barrier
<1>2. Spec => []Barrier
  BY BarrierHolds
<1> QED
  BY <1>1, <1>2, PTL

=============================================================================
