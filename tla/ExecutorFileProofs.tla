------------------------- MODULE ExecutorFileProofs -------------------------
(***************************************************************************)
(* Theorems about two files of the root: idempotency.json keeps what it    *)
(* promised, and executor-active.json outlives its owner only for a cause. *)
(***************************************************************************)
EXTENDS ExecutorProofs

-----------------------------------------------------------------------------
(* The inductive invariants.                                               *)

\* Whoever registers or scans holds the recovery lock, which excludes the other, and the
\* key of a job between its state.json and its index entry is still free.
Registering ==
  /\ recLock = NoCore => registering = NoJob
  /\ \A c \in Cores : handler[c] = "scan" => recLock = c /\ registering = NoJob
  /\ registering # NoJob => index[key[registering]] = NoJob

\* Without a crash or a fault the marker is the owner's, who is past the checks and, past
\* the marker, has written dispatch.json.
MarkerOwned ==
  active # NoJob /\ crashes + faults = 0 =>
    /\ execLock # NoThread
    /\ pc[execLock] # "checking"
    /\ cur[execLock] = active
    /\ pc[execLock] = "marked" \/ dispatch[active] # NoCore

-----------------------------------------------------------------------------
(* The recovery lock and the index.                                        *)

\* Every step keeps the recovery lock with the one registration or scan.
LEMMA RegisteringStep == TypeOK /\ Registering /\ Next => Registering'
<1> SUFFICES ASSUME TypeOK, Registering, Next PROVE Registering'
  OBVIOUS
<1> USE ConstantsOK
    DEF TypeOK, Registering, jobVars, rootVars, recVars
<1>1. ASSUME NEW c \in Cores, Start(c) PROVE Registering'
  BY <1>1 DEF Start
<1>2. ASSUME NEW c \in Cores, Close(c) PROVE Registering'
  BY <1>2 DEF Close
<1>3. ASSUME NEW c \in Cores, Crash(c) PROVE Registering'
  BY <1>3 DEF Crash
<1>4. ASSUME NEW c \in Cores, NEW j \in Jobs, NEW k \in Keys, Register(c, j, k)
      PROVE  Registering'
  BY <1>4 DEF Register
<1>5. ASSUME NEW c \in Cores, CommitIndex(c) PROVE Registering'
  BY <1>5 DEF CommitIndex
<1>6. ASSUME NEW c \in Cores, IndexFault(c) \/ IdleTime(c) PROVE Registering'
  BY <1>6 DEF IndexFault, IdleTime
<1>7. ASSUME NEW c \in Cores, TakeJob(c) PROVE Registering'
  BY <1>7 DEF TakeJob
<1>8. ASSUME NEW c \in Cores, RetrySettlement(c) PROVE Registering'
  BY <1>8 DEF RetrySettlement
<1>9. ASSUME NEW c \in Cores, BeginRecovery(c) PROVE Registering'
  BY <1>9 DEF BeginRecovery
<1>10. ASSUME NEW c \in Cores, NEW j \in Jobs, RecoverSkip(c, j) PROVE Registering'
  BY <1>10 DEF RecoverSkip
<1>11. ASSUME NEW c \in Cores, NEW j \in Jobs, RecoverLost(c, j) PROVE Registering'
  BY <1>11 DEF RecoverLost
<1>12. ASSUME NEW c \in Cores, RecoverUnknown(c) PROVE Registering'
  BY <1>12 DEF RecoverUnknown
<1>13. ASSUME NEW c \in Cores, NEW j \in Jobs, RecoverConflict(c, j) PROVE Registering'
  BY <1>13 DEF RecoverConflict
<1>14. ASSUME NEW c \in Cores, NEW j \in Jobs, RecoverQueued(c, j) PROVE Registering'
  BY <1>14 DEF RecoverQueued, Orphan, Scanning
<1>15. ASSUME NEW c \in Cores, EndRecovery(c) PROVE Registering'
  BY <1>15 DEF EndRecovery
<1>16. ASSUME NEW c \in Cores, RecoveryFault(c) PROVE Registering'
  BY <1>16 DEF RecoveryFault
<1>17. ASSUME NEW c \in Cores, ReconcileTarget(c) PROVE Registering'
  BY <1>17 DEF ReconcileTarget
<1>18. ASSUME NEW c \in Cores, NEW j \in Jobs, Cancel(c, j) PROVE Registering'
  BY <1>18 DEF Cancel
<1>19. ASSUME NEW c \in Cores, NEW j \in Jobs, CallReconcile(c, j) PROVE Registering'
  BY <1>19 DEF CallReconcile
<1>20. ASSUME NEW t \in Threads, AcquireExecution(t) PROVE Registering'
  BY <1>20 DEF AcquireExecution
<1>21. ASSUME NEW t \in Threads, ExecutorBusy(t) PROVE Registering'
  BY <1>21 DEF ExecutorBusy
<1>22. ASSUME NEW t \in Threads, PublishPrevious(t) PROVE Registering'
  BY <1>22 DEF PublishPrevious
<1>23. ASSUME NEW t \in Threads, RefuseQuarantined(t) PROVE Registering'
  BY <1>23 DEF RefuseQuarantined
<1>24. ASSUME NEW t \in Threads, CancelUndispatched(t) PROVE Registering'
  BY <1>24 DEF CancelUndispatched
<1>25. ASSUME NEW t \in Threads, WriteMarker(t) PROVE Registering'
  BY <1>25 DEF WriteMarker
<1>26. ASSUME NEW t \in Threads, WriteDispatch(t) PROVE Registering'
  BY <1>26 DEF WriteDispatch
<1>27. ASSUME NEW t \in Threads, CallBackend(t) PROVE Registering'
  BY <1>27 DEF CallBackend
<1>28. ASSUME NEW t \in Threads, BackendReturns(t) PROVE Registering'
  BY <1>28 DEF BackendReturns
<1>29. ASSUME NEW t \in Threads, BackendRaises(t) PROVE Registering'
  BY <1>29 DEF BackendRaises
<1>30. ASSUME NEW t \in Threads, NoReceipt(t) PROVE Registering'
  BY <1>30 DEF NoReceipt
<1>31. ASSUME NEW t \in Threads, ReconcileReturned(t) PROVE Registering'
  BY <1>31 DEF ReconcileReturned
<1>32. ASSUME NEW t \in Threads, QuarantineSuspect(t) PROVE Registering'
  BY <1>32 DEF QuarantineSuspect
<1>33. ASSUME NEW t \in Threads, ReleaseExecution(t) PROVE Registering'
  BY <1>33 DEF ReleaseExecution
<1>34. ASSUME NEW t \in Threads, FailUndispatched(t) PROVE Registering'
  BY <1>34 DEF FailUndispatched
<1>35. ASSUME NEW t \in Threads, QuarantineUncertain(t) PROVE Registering'
  BY <1>35 DEF QuarantineUncertain
<1>36. ASSUME NEW t \in Threads, SettleUncertain(t) PROVE Registering'
  BY <1>36 DEF SettleUncertain
<1>37. ASSUME NEW t \in Threads, WorkerFault(t) PROVE Registering'
  BY <1>37 DEF WorkerFault
<1>38. ASSUME NEW t \in Threads, BusyFault(t) PROVE Registering'
  BY <1>38 DEF BusyFault
<1>39. ASSUME NEW t \in Threads, FailureFault(t) PROVE Registering'
  BY <1>39 DEF FailureFault
<1>40. ASSUME NEW j \in Jobs, CommitReceipt(j) PROVE Registering'
  BY <1>40 DEF CommitReceipt
<1>41. ASSUME NEW j \in Jobs, SessionExits(j) PROVE Registering'
  BY <1>41 DEF SessionExits
<1>42. ASSUME ClearQuarantine PROVE Registering'
  BY <1>42 DEF ClearQuarantine
<1>43. ASSUME ClearFault PROVE Registering'
  BY <1>43 DEF ClearFault
<1>44. ASSUME NEW t \in Threads, FindNoQuarantine(t) PROVE Registering'
  BY <1>44 DEF FindNoQuarantine
<1> QED
  BY <1>1, <1>2, <1>3, <1>4, <1>5, <1>6, <1>7, <1>8, <1>9, <1>10,
     <1>11, <1>12, <1>13, <1>14, <1>15, <1>16, <1>17, <1>18, <1>19, <1>20,
     <1>21, <1>22, <1>23, <1>24, <1>25, <1>26, <1>27, <1>28, <1>29, <1>30,
     <1>31, <1>32, <1>33, <1>34, <1>35, <1>36, <1>37, <1>38, <1>39, <1>40,
     <1>41, <1>42, <1>43, <1>44
  DEF Next, Registration, Owned, Failure, Recovery

\* Only a commit writes the index, and only for a key that is free or names the job.
LEMMA IndexStep ==
  TypeOK /\ Registering /\ Next => \A k \in Keys : index[k] # NoJob => index'[k] = index[k]
<1> SUFFICES ASSUME TypeOK, Registering, Next, NEW i \in Keys, index[i] # NoJob
             PROVE  index'[i] = index[i]
  OBVIOUS
<1> USE ConstantsOK DEF TypeOK, Registering, rootVars
<1>1. ASSUME NEW c \in Cores, Start(c) PROVE index'[i] = index[i]
  BY <1>1 DEF Start
<1>2. ASSUME NEW c \in Cores, Close(c) PROVE index'[i] = index[i]
  BY <1>2 DEF Close
<1>3. ASSUME NEW c \in Cores, Crash(c) PROVE index'[i] = index[i]
  BY <1>3 DEF Crash
<1>4. ASSUME NEW c \in Cores, NEW j \in Jobs, NEW k \in Keys, Register(c, j, k)
      PROVE  index'[i] = index[i]
  BY <1>4 DEF Register
<1>5. ASSUME NEW c \in Cores, CommitIndex(c) PROVE index'[i] = index[i]
  BY <1>5 DEF CommitIndex
<1>6. ASSUME NEW c \in Cores, IndexFault(c) \/ IdleTime(c) PROVE index'[i] = index[i]
  BY <1>6 DEF IndexFault, IdleTime
<1>7. ASSUME NEW c \in Cores, TakeJob(c) PROVE index'[i] = index[i]
  BY <1>7 DEF TakeJob
<1>8. ASSUME NEW c \in Cores, RetrySettlement(c) PROVE index'[i] = index[i]
  BY <1>8 DEF RetrySettlement
<1>9. ASSUME NEW c \in Cores, BeginRecovery(c) PROVE index'[i] = index[i]
  BY <1>9 DEF BeginRecovery
<1>10. ASSUME NEW c \in Cores, NEW j \in Jobs, RecoverSkip(c, j) PROVE index'[i] = index[i]
  BY <1>10 DEF RecoverSkip
<1>11. ASSUME NEW c \in Cores, NEW j \in Jobs, RecoverLost(c, j) PROVE index'[i] = index[i]
  BY <1>11 DEF RecoverLost
<1>12. ASSUME NEW c \in Cores, RecoverUnknown(c) PROVE index'[i] = index[i]
  BY <1>12 DEF RecoverUnknown
<1>13. ASSUME NEW c \in Cores, NEW j \in Jobs, RecoverConflict(c, j)
      PROVE  index'[i] = index[i]
  BY <1>13 DEF RecoverConflict
<1>14. ASSUME NEW c \in Cores, NEW j \in Jobs, RecoverQueued(c, j) PROVE index'[i] = index[i]
  BY <1>14 DEF RecoverQueued
<1>15. ASSUME NEW c \in Cores, EndRecovery(c) PROVE index'[i] = index[i]
  BY <1>15 DEF EndRecovery
<1>16. ASSUME NEW c \in Cores, RecoveryFault(c) PROVE index'[i] = index[i]
  BY <1>16 DEF RecoveryFault
<1>17. ASSUME NEW c \in Cores, ReconcileTarget(c) PROVE index'[i] = index[i]
  BY <1>17 DEF ReconcileTarget
<1>18. ASSUME NEW c \in Cores, NEW j \in Jobs, Cancel(c, j) PROVE index'[i] = index[i]
  BY <1>18 DEF Cancel
<1>19. ASSUME NEW c \in Cores, NEW j \in Jobs, CallReconcile(c, j) PROVE index'[i] = index[i]
  BY <1>19 DEF CallReconcile
<1>20. ASSUME NEW t \in Threads, AcquireExecution(t) PROVE index'[i] = index[i]
  BY <1>20 DEF AcquireExecution
<1>21. ASSUME NEW t \in Threads, ExecutorBusy(t) PROVE index'[i] = index[i]
  BY <1>21 DEF ExecutorBusy
<1>22. ASSUME NEW t \in Threads, PublishPrevious(t) PROVE index'[i] = index[i]
  BY <1>22 DEF PublishPrevious
<1>23. ASSUME NEW t \in Threads, RefuseQuarantined(t) PROVE index'[i] = index[i]
  BY <1>23 DEF RefuseQuarantined
<1>24. ASSUME NEW t \in Threads, CancelUndispatched(t) PROVE index'[i] = index[i]
  BY <1>24 DEF CancelUndispatched
<1>25. ASSUME NEW t \in Threads, WriteMarker(t) PROVE index'[i] = index[i]
  BY <1>25 DEF WriteMarker
<1>26. ASSUME NEW t \in Threads, WriteDispatch(t) PROVE index'[i] = index[i]
  BY <1>26 DEF WriteDispatch
<1>27. ASSUME NEW t \in Threads, CallBackend(t) PROVE index'[i] = index[i]
  BY <1>27 DEF CallBackend
<1>28. ASSUME NEW t \in Threads, BackendReturns(t) PROVE index'[i] = index[i]
  BY <1>28 DEF BackendReturns
<1>29. ASSUME NEW t \in Threads, BackendRaises(t) PROVE index'[i] = index[i]
  BY <1>29 DEF BackendRaises
<1>30. ASSUME NEW t \in Threads, NoReceipt(t) PROVE index'[i] = index[i]
  BY <1>30 DEF NoReceipt
<1>31. ASSUME NEW t \in Threads, ReconcileReturned(t) PROVE index'[i] = index[i]
  BY <1>31 DEF ReconcileReturned
<1>32. ASSUME NEW t \in Threads, QuarantineSuspect(t) PROVE index'[i] = index[i]
  BY <1>32 DEF QuarantineSuspect
<1>33. ASSUME NEW t \in Threads, ReleaseExecution(t) PROVE index'[i] = index[i]
  BY <1>33 DEF ReleaseExecution
<1>34. ASSUME NEW t \in Threads, FailUndispatched(t) PROVE index'[i] = index[i]
  BY <1>34 DEF FailUndispatched
<1>35. ASSUME NEW t \in Threads, QuarantineUncertain(t) PROVE index'[i] = index[i]
  BY <1>35 DEF QuarantineUncertain
<1>36. ASSUME NEW t \in Threads, SettleUncertain(t) PROVE index'[i] = index[i]
  BY <1>36 DEF SettleUncertain
<1>37. ASSUME NEW t \in Threads, WorkerFault(t) PROVE index'[i] = index[i]
  BY <1>37 DEF WorkerFault
<1>38. ASSUME NEW t \in Threads, BusyFault(t) PROVE index'[i] = index[i]
  BY <1>38 DEF BusyFault
<1>39. ASSUME NEW t \in Threads, FailureFault(t) PROVE index'[i] = index[i]
  BY <1>39 DEF FailureFault
<1>40. ASSUME NEW j \in Jobs, CommitReceipt(j) PROVE index'[i] = index[i]
  BY <1>40 DEF CommitReceipt
<1>41. ASSUME NEW j \in Jobs, SessionExits(j) PROVE index'[i] = index[i]
  BY <1>41 DEF SessionExits
<1>42. ASSUME ClearQuarantine PROVE index'[i] = index[i]
  BY <1>42 DEF ClearQuarantine
<1>43. ASSUME ClearFault PROVE index'[i] = index[i]
  BY <1>43 DEF ClearFault
<1>44. ASSUME NEW t \in Threads, FindNoQuarantine(t) PROVE index'[i] = index[i]
  BY <1>44 DEF FindNoQuarantine
<1> QED
  BY <1>1, <1>2, <1>3, <1>4, <1>5, <1>6, <1>7, <1>8, <1>9, <1>10,
     <1>11, <1>12, <1>13, <1>14, <1>15, <1>16, <1>17, <1>18, <1>19, <1>20,
     <1>21, <1>22, <1>23, <1>24, <1>25, <1>26, <1>27, <1>28, <1>29, <1>30,
     <1>31, <1>32, <1>33, <1>34, <1>35, <1>36, <1>37, <1>38, <1>39, <1>40,
     <1>41, <1>42, <1>43, <1>44
  DEF Next, Registration, Owned, Failure, Recovery

-----------------------------------------------------------------------------
(* The active marker.                                                      *)

\* Every step keeps the marker with its owner while nothing died or failed.
LEMMA MarkerStep == TypeOK /\ Ownership /\ MarkerOwned /\ Next => MarkerOwned'
<1> SUFFICES ASSUME TypeOK, Ownership, MarkerOwned, Next PROVE MarkerOwned'
  OBVIOUS
<1> USE ConstantsOK, ThreadPairs
    DEF TypeOK, Ownership, MarkerOwned, Critical, jobVars, rootVars, threadVars, boundVars
<1>1. ASSUME NEW c \in Cores, Start(c) PROVE MarkerOwned'
  BY <1>1 DEF Start
<1>2. ASSUME NEW c \in Cores, Close(c) PROVE MarkerOwned'
  BY <1>2 DEF Close
<1>3. ASSUME NEW c \in Cores, Crash(c) PROVE MarkerOwned'
  BY <1>3 DEF Crash
<1>4. ASSUME NEW c \in Cores, NEW j \in Jobs, NEW k \in Keys, Register(c, j, k)
      PROVE  MarkerOwned'
  BY <1>4 DEF Register
<1>5. ASSUME NEW c \in Cores, CommitIndex(c) PROVE MarkerOwned'
  BY <1>5 DEF CommitIndex
<1>6. ASSUME NEW c \in Cores, IndexFault(c) \/ IdleTime(c) PROVE MarkerOwned'
  BY <1>6 DEF IndexFault, IdleTime, Fault
<1>7. ASSUME NEW c \in Cores, TakeJob(c) PROVE MarkerOwned'
  <2>1. pc[Worker(c)] = "idle" /\ execLock # Worker(c)
    BY <1>7 DEF TakeJob
  <2>2. /\ execLock # NoThread => pc'[execLock] = pc[execLock] /\ cur'[execLock] = cur[execLock]
        /\ UNCHANGED <<active, dispatch, execLock, crashes, faults>>
    BY <1>7, <2>1 DEF TakeJob
  <2> QED
    BY <2>2
<1>8. ASSUME NEW c \in Cores, RetrySettlement(c) PROVE MarkerOwned'
  BY <1>8 DEF RetrySettlement
<1>9. ASSUME NEW c \in Cores, BeginRecovery(c) PROVE MarkerOwned'
  BY <1>9 DEF BeginRecovery
<1>10. ASSUME NEW c \in Cores, NEW j \in Jobs, RecoverSkip(c, j) PROVE MarkerOwned'
  BY <1>10 DEF RecoverSkip
<1>11. ASSUME NEW c \in Cores, NEW j \in Jobs, RecoverLost(c, j) PROVE MarkerOwned'
  BY <1>11 DEF RecoverLost
<1>12. ASSUME NEW c \in Cores, RecoverUnknown(c) PROVE MarkerOwned'
  BY <1>12 DEF RecoverUnknown
<1>13. ASSUME NEW c \in Cores, NEW j \in Jobs, RecoverConflict(c, j) PROVE MarkerOwned'
  BY <1>13 DEF RecoverConflict
<1>14. ASSUME NEW c \in Cores, NEW j \in Jobs, RecoverQueued(c, j) PROVE MarkerOwned'
  BY <1>14 DEF RecoverQueued
<1>15. ASSUME NEW c \in Cores, EndRecovery(c) PROVE MarkerOwned'
  BY <1>15 DEF EndRecovery
<1>16. ASSUME NEW c \in Cores, RecoveryFault(c) PROVE MarkerOwned'
  BY <1>16 DEF RecoveryFault, Fault
<1>17. ASSUME NEW c \in Cores, ReconcileTarget(c) PROVE MarkerOwned'
  BY <1>17 DEF ReconcileTarget
<1>18. ASSUME NEW c \in Cores, NEW j \in Jobs, Cancel(c, j) PROVE MarkerOwned'
  BY <1>18 DEF Cancel
<1>19. ASSUME NEW c \in Cores, NEW j \in Jobs, CallReconcile(c, j) PROVE MarkerOwned'
  BY <1>19 DEF CallReconcile
<1>20. ASSUME NEW t \in Threads, AcquireExecution(t) PROVE MarkerOwned'
  BY <1>20 DEF AcquireExecution
<1>21. ASSUME NEW t \in Threads, ExecutorBusy(t) PROVE MarkerOwned'
  BY <1>21 DEF ExecutorBusy
<1>22. ASSUME NEW t \in Threads, PublishPrevious(t) PROVE MarkerOwned'
  BY <1>22 DEF PublishPrevious
<1>23. ASSUME NEW t \in Threads, RefuseQuarantined(t) PROVE MarkerOwned'
  BY <1>23 DEF RefuseQuarantined, Unlock
<1>24. ASSUME NEW t \in Threads, CancelUndispatched(t) PROVE MarkerOwned'
  BY <1>24 DEF CancelUndispatched, Unlock
<1>25. ASSUME NEW t \in Threads, WriteMarker(t) PROVE MarkerOwned'
  BY <1>25 DEF WriteMarker, Goto
<1>26. ASSUME NEW t \in Threads, WriteDispatch(t) PROVE MarkerOwned'
  BY <1>26 DEF WriteDispatch, Goto
<1>27. ASSUME NEW t \in Threads, CallBackend(t) PROVE MarkerOwned'
  BY <1>27 DEF CallBackend, Goto
<1>28. ASSUME NEW t \in Threads, BackendReturns(t) PROVE MarkerOwned'
  BY <1>28 DEF BackendReturns, Goto
<1>29. ASSUME NEW t \in Threads, BackendRaises(t) PROVE MarkerOwned'
  BY <1>29 DEF BackendRaises, Goto
<1>30. ASSUME NEW t \in Threads, NoReceipt(t) PROVE MarkerOwned'
  BY <1>30 DEF NoReceipt, Goto
<1>31. ASSUME NEW t \in Threads, ReconcileReturned(t) PROVE MarkerOwned'
  BY <1>31 DEF ReconcileReturned, Goto
<1>32. ASSUME NEW t \in Threads, QuarantineSuspect(t) PROVE MarkerOwned'
  BY <1>32 DEF QuarantineSuspect, Goto
<1>33. ASSUME NEW t \in Threads, ReleaseExecution(t) PROVE MarkerOwned'
  BY <1>33 DEF ReleaseExecution, ReleaseActive, Unlock
<1>34. ASSUME NEW t \in Threads, FailUndispatched(t) PROVE MarkerOwned'
  BY <1>34 DEF FailUndispatched, Unlock
<1>35. ASSUME NEW t \in Threads, QuarantineUncertain(t) PROVE MarkerOwned'
  BY <1>35 DEF QuarantineUncertain, Goto
<1>36. ASSUME NEW t \in Threads, SettleUncertain(t) PROVE MarkerOwned'
  BY <1>36 DEF SettleUncertain, Goto
<1>37. ASSUME NEW t \in Threads, WorkerFault(t) PROVE MarkerOwned'
  BY <1>37 DEF WorkerFault, Fault
<1>38. ASSUME NEW t \in Threads, BusyFault(t) PROVE MarkerOwned'
  BY <1>38 DEF BusyFault, Fault
<1>39. ASSUME NEW t \in Threads, FailureFault(t) PROVE MarkerOwned'
  BY <1>39 DEF FailureFault, Fault
<1>40. ASSUME NEW j \in Jobs, CommitReceipt(j) PROVE MarkerOwned'
  BY <1>40 DEF CommitReceipt
<1>41. ASSUME NEW j \in Jobs, SessionExits(j) PROVE MarkerOwned'
  BY <1>41 DEF SessionExits
<1>42. ASSUME ClearQuarantine PROVE MarkerOwned'
  BY <1>42 DEF ClearQuarantine
<1>43. ASSUME ClearFault PROVE MarkerOwned'
  BY <1>43 DEF ClearFault, Fault
<1>44. ASSUME NEW t \in Threads, FindNoQuarantine(t) PROVE MarkerOwned'
  BY <1>44 DEF FindNoQuarantine
<1> QED
  BY <1>1, <1>2, <1>3, <1>4, <1>5, <1>6, <1>7, <1>8, <1>9, <1>10,
     <1>11, <1>12, <1>13, <1>14, <1>15, <1>16, <1>17, <1>18, <1>19, <1>20,
     <1>21, <1>22, <1>23, <1>24, <1>25, <1>26, <1>27, <1>28, <1>29, <1>30,
     <1>31, <1>32, <1>33, <1>34, <1>35, <1>36, <1>37, <1>38, <1>39, <1>40,
     <1>41, <1>42, <1>43, <1>44
  DEF Next, Registration, Owned, Failure, Recovery

-----------------------------------------------------------------------------
(* Theorems of the specification.                                          *)

\* An idempotency key never moves to another job: the registration that stopped before its
\* index entry and the scan that completes it exclude each other, and each looks first.
THEOREM IndexNeverMoves == Spec => IndexStable
<1>1. Init => Registering
  BY ConstantsOK DEF Init, Registering
<1>2. TypeOK /\ Registering /\ [Next]_vars => Registering'
  <2>1. Registering /\ UNCHANGED vars => Registering'
    BY DEF vars, jobVars, rootVars, recVars, Registering
  <2> QED
    BY <2>1, RegisteringStep
<1>3. Spec => []TypeOK
  BY TypeCorrect
<1>4. /\ TypeOK /\ Registering /\ [Next]_vars
      => [\A k \in Keys : index[k] # NoJob => index'[k] = index[k]]_index
  <2>1. UNCHANGED vars => UNCHANGED index
    BY DEF vars, rootVars
  <2> QED
    BY <2>1, IndexStep
<1> QED
  BY <1>1, <1>2, <1>3, <1>4, PTL DEF Spec, IndexStable

\* The active marker stays behind only after a crash or a failing write.
THEOREM MarkerHasCause == Spec => []MarkerNeedsCause
<1>1. Init => MarkerOwned
  BY DEF Init, MarkerOwned
<1>2. TypeOK /\ Ownership /\ MarkerOwned /\ [Next]_vars => MarkerOwned'
  <2>1. MarkerOwned /\ UNCHANGED vars => MarkerOwned'
    BY DEF vars, jobVars, rootVars, threadVars, boundVars, MarkerOwned
  <2> QED
    BY <2>1, MarkerStep
<1>3. TypeOK /\ MarkerOwned => MarkerNeedsCause
  BY DEF TypeOK, MarkerOwned, MarkerNeedsCause
<1>4. Spec => [](TypeOK /\ Ownership)
  BY LockOwnership
<1> QED
  BY <1>1, <1>2, <1>3, <1>4, PTL DEF Spec

=============================================================================
