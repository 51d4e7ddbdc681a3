-------------------------- MODULE NativeSessionProofs --------------------------
(***************************************************************************)
(* What the record of a native session says is true, and a call of         *)
(* OfficialBackend.execute keeps the promise of module BackendCall, for    *)
(* every set of MATLAB processes and every receipt.                        *)
(***************************************************************************)
EXTENDS NativeSession, TLAPS

\* What is known of the host: it is the session started for this call or one the user had
\* open, it has lived, and only a host can have written a marker.
HostInv ==
  /\ host = NoProcess => life[own] = "unborn" /\ marker = "none"
  /\ host # NoProcess => life[host] # "unborn"
  /\ host = own => born[own] = "during"
  /\ born[users] = "before"

\* Who inherits an identifier lives after its holder.  One that is born before the marker is
\* written will never be named by one: nobody is left to write it.
HeirInv ==
  life[heir] # "unborn" =>
    /\ host # NoProcess /\ life[host] = "gone"
    /\ born[heir] = "during" => marker = "none"

\* The watcher holds the handle of the process it has named, and has seen that one end.
WatchInv ==
  /\ watcher = "watching" => identity # NoProcess
  /\ exited = "exited" => identity # NoProcess /\ life[identity] = "gone"

IInv == TypeOK /\ HostInv /\ HeirInv /\ IdentityTrue /\ WatchInv

LEMMA InitIInv == Init => IInv
BY SessionConstants
   DEF Init, IInv, TypeOK, HostInv, HeirInv, IdentityTrue, WatchInv, Processes, Body, Finishing,
       Over

\* What the coroutine does leaves the record and the machine alone.
LEMMA CoroutineStep ==
  ASSUME IInv, Coroutine
  PROVE  IInv' /\ UNCHANGED <<recordVars, machineVars>>
<1> USE DEF Coroutine, Begin, Prepare, Connect, Answer, Record, Leave, BodyFails, Finish, Awaited,
        Expire, CancelWatcher, Conclude, Step
<1>1. UNCHANGED <<recordVars, machineVars>>
  OBVIOUS
<1>2. /\ call' \in {"begin"} \cup Body \cup Finishing \cup Over
      /\ completed' \in BOOLEAN
  BY DEF IInv, TypeOK, Body, Finishing, Over
<1>3. watcher' \in {"none", "reading", "ended", "broken"} \/ watcher' = watcher
  OBVIOUS
<1>4. TypeOK'
  BY <1>1, <1>2, <1>3 DEF IInv, TypeOK, recordVars, machineVars
<1>5. (HostInv /\ HeirInv /\ IdentityTrue /\ WatchInv)'
  BY <1>1, <1>3 DEF IInv, HostInv, HeirInv, IdentityTrue, WatchInv, recordVars, machineVars
<1>6. QED
  BY <1>1, <1>4, <1>5 DEF IInv

\* A process that Identify accepts is the host, and the host is the session of this call: the
\* user's was born before it, and an heir of the identifier after the marker.
LEMMA IdentifyAccepts ==
  ASSUME IInv, Identify
  PROVE  Holder = own /\ host = own
<1>1. host # NoProcess
  BY DEF IInv, HostInv, Identify
<1>2. host \in {own, users}
  BY <1>1 DEF IInv, TypeOK
<1>3. Holder # heir
  <2>1. SUFFICES ASSUME Holder = heir PROVE FALSE
    OBVIOUS
  <2>2. life[heir] = "alive" /\ born[heir] = "during" /\ marker = "own"
    BY <2>1 DEF Identify, Validated
  <2>3. QED
    BY <2>2 DEF IInv, HeirInv
<1>4. Holder = host
  BY <1>3 DEF Holder
<1>5. host # users
  BY <1>4, SessionConstants DEF IInv, HostInv, Identify, Validated
<1>6. QED
  BY <1>2, <1>4, <1>5

LEMMA WatcherStep ==
  ASSUME IInv, Identify \/ Refuse \/ ObserveExit \/ WatcherFails
  PROVE  IInv'
<1> USE SessionConstants DEF IInv, TypeOK, HostInv, HeirInv, IdentityTrue, WatchInv, Watch,
        machineVars, recordVars
<1>1. CASE Identify
  <2>1. Holder = own /\ host = own
    BY <1>1, IdentifyAccepts
  <2>2. QED
    BY <1>1, <2>1 DEF Identify, Processes
<1>2. CASE Refuse
  BY <1>2 DEF Refuse
<1>3. CASE ObserveExit
  BY <1>3 DEF ObserveExit
<1>4. CASE WatcherFails
  BY <1>4 DEF WatcherFails
<1>5. QED
  BY <1>1, <1>2, <1>3, <1>4

LEMMA MachineStep ==
  ASSUME IInv, Launch \/ WriteMarker \/ CommitReceipt \/ Inherit \/ \E p \in Processes : Exit(p)
  PROVE  IInv'
<1> USE SessionConstants DEF IInv, TypeOK, HostInv, HeirInv, IdentityTrue, WatchInv, Machine,
        recordVars, Processes
<1>1. CASE Launch
  BY <1>1 DEF Launch
<1>2. CASE WriteMarker
  BY <1>2 DEF WriteMarker, HostWorks
<1>3. CASE CommitReceipt
  BY <1>3 DEF CommitReceipt, HostWorks
<1>4. CASE Inherit
  BY <1>4 DEF Inherit
<1>5. CASE \E p \in Processes : Exit(p)
  BY <1>5 DEF Exit
<1>6. QED
  BY <1>1, <1>2, <1>3, <1>4, <1>5

LEMMA NextIInv == IInv /\ [Next]_vars => IInv'
<1>1. ASSUME IInv, UNCHANGED vars PROVE IInv'
  BY <1>1 DEF vars, recordVars, machineVars, IInv, TypeOK, HostInv, HeirInv, IdentityTrue, WatchInv
<1>2. QED
  BY <1>1, CoroutineStep, WatcherStep, MachineStep DEF Next

LEMMA Invariant == Spec => []IInv
BY InitIInv, NextIInv, PTL DEF Spec

\* native-lifecycle.json, the marker and the processes hold the values the code gives them.
THEOREM SessionTypeCorrect == Spec => []TypeOK
BY Invariant, PTL DEF IInv

\* The process that native-lifecycle.json names is the one this call started, whichever session
\* ran the launcher and whoever has its identifier by now.
THEOREM IdentityIsOwn == Spec => []IdentityTrue
BY Invariant, PTL DEF IInv

\* An exit that is recorded as observed has happened, to the session of this call.
THEOREM ExitIsReal == Spec => []ExitTrue
<1>1. IInv => ExitTrue
  BY SessionConstants DEF IInv, TypeOK, IdentityTrue, WatchInv, ExitTrue
<1>2. QED
  BY <1>1, Invariant, PTL

-----------------------------------------------------------------------------
(* The refinement *)

LEMMA InitPromise == Init => Promise!Init
BY SessionConstants DEF Init, Promise!Init, Over

\* The call as its caller sees it, and whether a session may still write.
Abstract ==
  <<IF call \in Over THEN call ELSE "calling",
    IF host # NoProcess /\ life[host] = "gone" THEN "stopped" ELSE "running",
    receipt>>

LEMMA CoroutinePromise ==
  ASSUME IInv, Coroutine
  PROVE  [Promise!Next]_Abstract
<1>0. UNCHANGED <<recordVars, machineVars>>
  BY CoroutineStep
<1>1. UNCHANGED <<life, host, receipt>>
  BY <1>0 DEF machineVars
<1>2. CASE call \notin Over /\ call' = "returned"
  <2>1. Conclude /\ exited = "exited"
    BY <1>2 DEF Coroutine, Begin, Prepare, Connect, Answer, Record, Leave, BodyFails, Finish,
             Awaited, Expire, CancelWatcher, Conclude, Step
  <2>2. host # NoProcess /\ life[host] = "gone"
    BY <2>1, SessionConstants DEF IInv, IdentityTrue, WatchInv, TypeOK, Processes
  <2>3. Promise!Return
    BY <1>1, <1>2, <2>2 DEF Promise!Return, Over
  <2>4. QED
    BY <2>3 DEF Promise!Next
<1>3. CASE call \notin Over /\ call' = "raised"
  <2>1. Promise!Raise
    BY <1>1, <1>3 DEF Promise!Raise, Over
  <2>2. QED
    BY <2>1 DEF Promise!Next
<1>4. CASE call \notin Over /\ call' \notin Over
  BY <1>1, <1>4 DEF Abstract
<1>5. call \notin Over
  BY DEF Coroutine, Begin, Prepare, Connect, Answer, Record, Leave, BodyFails, Finish, Awaited,
         Expire, CancelWatcher, Conclude, Step, Over, Body
<1>6. QED
  BY <1>2, <1>3, <1>4, <1>5 DEF Over

LEMMA MachinePromise ==
  ASSUME IInv, Launch \/ WriteMarker \/ CommitReceipt \/ Inherit \/ \E p \in Processes : Exit(p)
  PROVE  [Promise!Next]_Abstract
<1> USE SessionConstants DEF IInv, TypeOK, HostInv, HeirInv, Machine, Processes
<1>1. CASE Launch
  BY <1>1 DEF Launch, Abstract
<1>2. CASE WriteMarker
  BY <1>2 DEF WriteMarker, Abstract
<1>3. CASE CommitReceipt
  <2>1. Promise!CommitReceipt
    BY <1>3 DEF CommitReceipt, HostWorks, Promise!CommitReceipt
  <2>2. QED
    BY <2>1 DEF Promise!Next
<1>4. CASE Inherit
  BY <1>4 DEF Inherit, Abstract
<1>5. ASSUME NEW p \in Processes, Exit(p) PROVE [Promise!Next]_Abstract
  <2>1. CASE host = p
    <3>1. Promise!SessionExits
      BY <1>5, <2>1 DEF Exit, Promise!SessionExits
    <3>2. QED
      BY <3>1 DEF Promise!Next
  <2>2. CASE host # p
    BY <1>5, <2>2 DEF Exit, Abstract
  <2>3. QED
    BY <2>1, <2>2
<1>6. QED
  BY <1>1, <1>2, <1>3, <1>4, <1>5

\* Every step of the call, the watcher and the machine is a step of BackendCall or none.
LEMMA NextPromise == IInv /\ [Next]_vars => [Promise!Next]_Abstract
<1>1. ASSUME IInv, UNCHANGED vars PROVE [Promise!Next]_Abstract
  BY <1>1 DEF vars, machineVars, Abstract
<1>2. ASSUME IInv, Identify \/ Refuse \/ ObserveExit \/ WatcherFails PROVE [Promise!Next]_Abstract
  BY <1>2 DEF Identify, Refuse, ObserveExit, WatcherFails, Watch, machineVars, Abstract
<1>3. QED
  BY <1>1, <1>2, CoroutinePromise, MachinePromise DEF Next

\* backend.execute keeps what Core builds on: it returns only when the session it started, or
\* the one it ran in, is gone, and a session writes one receipt and only while it lives.
THEOREM KeepsPromise == Spec => CallPromise
<1>1. IInv /\ [Next]_vars => [Promise!Next]_Abstract
  BY NextPromise
<1>2. QED
  BY <1>1, InitPromise, Invariant, PTL DEF Spec, CallPromise, Promise!Spec, Abstract
=============================================================================
