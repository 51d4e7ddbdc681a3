--------------------------- MODULE ServiceCountProofs ---------------------------
(***************************************************************************)
(* The counts of a service are those of its connections, so that its limit *)
(* holds, an idle exit is honest and every variable keeps its type, for    *)
(* every number of frontends and service processes.                        *)
(***************************************************************************)
EXTENDS ServiceProofs, FiniteSetTheorems

\* The connections that have a handler, and those in which it holds a wait slot.
Busy(p) == ConnectionsOf(p, Handled \cup {"closed"})
Waiters(p) == ConnectionsOf(p, {"waiting"})

CountInv ==
  /\ inflight \in [Procs -> 0..MaxClients] /\ waiting \in [Procs -> 0..WaitSlots]
  /\ \A p \in Procs : inflight[p] = Cardinality(Busy(p)) /\ waiting[p] = Cardinality(Waiters(p))

\* Handlers exist only in the loop of a service and until its pool is joined.
HandlerInv ==
  \A c \in Clients :
    conn[c] \in Handled \cup {"closed"} =>
      target[c] \in Procs /\ proc[target[c]] \in {"serving", "failing"}

IdleInv == \A p \in Procs : proc[p] = "idle" => work = {}

RestShape ==
  /\ startLock \in Clients \cup {NoClient}
  /\ work \subseteq Clients /\ mishaps \in 0..MaxMishaps

CInv == IInv /\ CountInv /\ HandlerInv /\ IdleInv /\ RestShape

-----------------------------------------------------------------------------
(* Counting *)

LEMMA FiniteConnections ==
  ASSUME NEW p, NEW states
  PROVE  IsFiniteSet(ConnectionsOf(p, states)) /\ Cardinality(ConnectionsOf(p, states)) \in Nat
<1>1. ConnectionsOf(p, states) \subseteq Clients
  BY DEF ConnectionsOf
<1>2. QED
  BY <1>1, ServiceConstants, FS_Subset, FS_CardinalityType

\* A step that changes no connection of the kind counted, of no process, keeps the counts.
LEMMA SameCounts ==
  ASSUME CountInv, UNCHANGED <<inflight, waiting>>,
         \A p \in Procs : Busy(p)' = Busy(p) /\ Waiters(p)' = Waiters(p)
  PROVE  CountInv'
BY DEF CountInv

LEMMA InitCInv == Init => CInv
<1>1. SUFFICES ASSUME Init PROVE CInv
  OBVIOUS
<1>2. ASSUME NEW p \in Procs PROVE Busy(p) = {} /\ Waiters(p) = {}
  BY <1>1 DEF Init, Busy, Waiters, ConnectionsOf, Handled
<1>3. CountInv
  <2>1. ASSUME NEW p \in Procs
        PROVE  inflight[p] = Cardinality(Busy(p)) /\ waiting[p] = Cardinality(Waiters(p))
    <3>1. inflight[p] = 0 /\ waiting[p] = 0 /\ Cardinality({}) = 0
      BY <1>1, FS_EmptySet DEF Init
    <3>2. QED
      BY <1>2, <3>1
  <2>2. QED
    BY <1>1, <2>1, ServiceConstants DEF Init, CountInv
<1>4. QED
  BY <1>1, <1>3, InitIInv, ServiceConstants
     DEF Init, CInv, HandlerInv, IdleInv, RestShape, Handled

-----------------------------------------------------------------------------
\* A frontend changes no connection that has a handler.
LEMMA CallCounts ==
  ASSUME CInv, NEW c \in Clients, Call(c)
  PROVE  CInv'
<1> USE ServiceConstants DEF CInv
<1>1. IInv'
  BY CallStep
<1>2. /\ UNCHANGED <<inflight, waiting, work, mishaps>>
      /\ startLock' \in Clients \cup {NoClient}
  BY DEF Call, Look, Start, Poll, Connect, Send, Answered, Unconfirmed, Found, Conflict, Finish,
         ClientFrame, connVars, procVars, RestShape
<1>3. /\ \A d \in Clients \ {c} : target'[d] = target[d] /\ conn'[d] = conn[d]
      /\ \/ target'[c] = target[c] /\ conn'[c] = conn[c]
         \/ conn[c] = "none" /\ conn'[c] \in {"none", "backlog"}
  BY DEF Call, Look, Start, Poll, Connect, Send, Answered, Unconfirmed, Found, Conflict, Finish,
         ClientFrame, connVars, procVars, IInv, ShapeInv, CallInv
<1>4. \A p \in Procs : proc'[p] = proc[p] \/ (proc[p] = "off" /\ proc'[p] = "spawned")
  <2>1. CASE Start(c)
    BY <2>1 DEF Start, Found, Conflict, Finish, ClientFrame, procVars, IInv, ShapeInv
  <2>2. CASE ~Start(c)
    <3>1. proc' = proc
      BY <2>2 DEF Call, Look, Poll, Connect, Send, Answered, Unconfirmed, Found, Conflict, Finish,
                  ClientFrame, procVars
    <3>2. QED
      BY <3>1
  <2>3. QED
    BY <2>1, <2>2
<1>5. ASSUME NEW p \in Procs PROVE Busy(p)' = Busy(p) /\ Waiters(p)' = Waiters(p)
  BY <1>3 DEF Busy, Waiters, ConnectionsOf, Handled
<1>6. CountInv'
  BY <1>2, <1>5, SameCounts
<1>7. HandlerInv'
  BY <1>3, <1>4 DEF HandlerInv, Handled
<1>8. QED
  BY <1>1, <1>2, <1>4, <1>6, <1>7 DEF IdleInv, RestShape

-----------------------------------------------------------------------------
\* A handler is counted in when it gets its connection and out when it leaves.
LEMMA AcceptCounts ==
  ASSUME CInv, NEW c \in Clients, Accept(c)
  PROVE  CountInv'
<1> USE DEF CInv, IInv, ShapeInv
<1>1. target[c] \in Procs /\ conn[c] = "backlog"
  BY DEF Accept, LoadedInv
<1> PICK p \in Procs : p = target[c]
  BY <1>1
<1>2. ASSUME NEW q \in Procs PROVE Waiters(q)' = Waiters(q)
  BY DEF Accept, HandlerFrame, callVars, Waiters, ConnectionsOf
<1>3. CASE inflight[p] >= MaxClients
  <2>1. ASSUME NEW q \in Procs PROVE Busy(q)' = Busy(q)
    BY <1>3 DEF Accept, HandlerFrame, callVars, Busy, ConnectionsOf, Handled
  <2>2. QED
    BY <1>2, <1>3, <2>1, SameCounts DEF Accept
<1>4. CASE ~(inflight[p] >= MaxClients)
  <2>1. conn' = [conn EXCEPT ![c] = "receiving"] /\ inflight' = [inflight EXCEPT ![p] = @ + 1]
    BY <1>4 DEF Accept
  <2>2. Busy(p)' = Busy(p) \cup {c} /\ c \notin Busy(p)
    BY <1>1, <2>1 DEF Accept, HandlerFrame, callVars, Busy, ConnectionsOf, Handled
  <2>3. ASSUME NEW q \in Procs, q # p PROVE Busy(q)' = Busy(q)
    BY <2>1, <2>3 DEF Accept, HandlerFrame, callVars, Busy, ConnectionsOf, Handled
  <2>4. IsFiniteSet(Busy(p))
    BY FiniteConnections DEF Busy
  <2>5. Cardinality(Busy(p)') = Cardinality(Busy(p)) + 1
    <3>1. Cardinality(Busy(p) \cup {c}) = Cardinality(Busy(p)) + 1
      BY ONLY <2>2, <2>4, FS_AddElement
    <3>2. QED
      BY ONLY <2>2, <3>1
  <2>6. inflight' \in [Procs -> 0..MaxClients]
    BY <1>1, <1>4, <2>1, ServiceConstants DEF CountInv
  <2>7. ASSUME NEW q \in Procs PROVE inflight'[q] = Cardinality(Busy(q)')
    <3>1. CASE q = p
      <4>1. inflight'[p] = inflight[p] + 1 /\ inflight[p] = Cardinality(Busy(p))
        BY <1>1, <2>1 DEF CountInv
      <4>2. QED
        BY <3>1, <4>1, <2>5
    <3>2. CASE q # p
      <4>1. inflight'[q] = inflight[q] /\ inflight[q] = Cardinality(Busy(q))
        BY <1>1, <2>1, <3>2 DEF CountInv
      <4>2. QED
        BY <2>3, <3>2, <4>1
    <3>3. QED
      BY <3>1, <3>2
  <2>8. ASSUME NEW q \in Procs PROVE waiting'[q] = Cardinality(Waiters(q)')
    BY <1>2 DEF CountInv, Accept
  <2>9. QED
    BY <2>6, <2>7, <2>8 DEF CountInv, Accept
<1>5. QED
  BY <1>3, <1>4

LEMMA WaitCounts ==
  ASSUME CInv, NEW c \in Clients, Wait(c)
  PROVE  CountInv'
<1> USE DEF CInv, IInv, ShapeInv
<1>1. target[c] \in Procs /\ conn[c] = "receiving"
  BY DEF Wait, LoadedInv
<1> PICK p \in Procs : p = target[c]
  BY <1>1
<1>2. ASSUME NEW q \in Procs PROVE Busy(q)' = Busy(q)
  BY DEF Wait, Respond, HandlerFrame, callVars, Busy, ConnectionsOf, Handled
<1>3. CASE waiting[p] >= WaitSlots
  <2>1. ASSUME NEW q \in Procs PROVE Waiters(q)' = Waiters(q)
    BY <1>1, <1>3, ServiceConstants
       DEF Wait, Respond, HandlerFrame, callVars, Waiters, ConnectionsOf, CountInv
  <2>2. UNCHANGED <<inflight, waiting>>
    BY <1>1, <1>3, ServiceConstants DEF Wait, CountInv
  <2>3. QED
    BY <1>2, <2>1, <2>2, SameCounts
<1>4. CASE waiting[p] < WaitSlots
  <2>1. conn' = [conn EXCEPT ![c] = "waiting"] /\ waiting' = [waiting EXCEPT ![p] = @ + 1]
    BY <1>4 DEF Wait
  <2>2. Waiters(p)' = Waiters(p) \cup {c} /\ c \notin Waiters(p)
    BY <1>1, <2>1 DEF Wait, HandlerFrame, callVars, Waiters, ConnectionsOf
  <2>3. ASSUME NEW q \in Procs, q # p PROVE Waiters(q)' = Waiters(q)
    BY <2>1, <2>3 DEF Wait, HandlerFrame, callVars, Waiters, ConnectionsOf
  <2>4. IsFiniteSet(Waiters(p))
    BY FiniteConnections DEF Waiters
  <2>5. Cardinality(Waiters(p)') = Cardinality(Waiters(p)) + 1
    <3>1. Cardinality(Waiters(p) \cup {c}) = Cardinality(Waiters(p)) + 1
      BY ONLY <2>2, <2>4, FS_AddElement
    <3>2. QED
      BY ONLY <2>2, <3>1
  <2>6. waiting' \in [Procs -> 0..WaitSlots]
    BY <1>1, <1>4, <2>1, ServiceConstants DEF CountInv
  <2>7. ASSUME NEW q \in Procs PROVE waiting'[q] = Cardinality(Waiters(q)')
    <3>1. CASE q = p
      <4>1. waiting'[p] = waiting[p] + 1 /\ waiting[p] = Cardinality(Waiters(p))
        BY <1>1, <2>1 DEF CountInv
      <4>2. QED
        BY <3>1, <4>1, <2>5
    <3>2. CASE q # p
      <4>1. waiting'[q] = waiting[q] /\ waiting[q] = Cardinality(Waiters(q))
        BY <1>1, <2>1, <3>2 DEF CountInv
      <4>2. QED
        BY <2>3, <3>2, <4>1
    <3>3. QED
      BY <3>1, <3>2
  <2>8. ASSUME NEW q \in Procs PROVE inflight'[q] = Cardinality(Busy(q)')
    BY <1>2 DEF CountInv, Wait
  <2>9. QED
    BY <2>6, <2>7, <2>8 DEF CountInv, Wait
<1>5. QED
  BY <1>1, <1>3, <1>4, ServiceConstants DEF CountInv

LEMMA EndWaitCounts ==
  ASSUME CInv, NEW c \in Clients, EndWait(c)
  PROVE  CountInv'
<1> USE DEF CInv, IInv, ShapeInv
<1>1. target[c] \in Procs /\ conn[c] = "waiting"
  BY DEF EndWait, LoadedInv
<1> PICK p \in Procs : p = target[c]
  BY <1>1
<1>2. conn' = [conn EXCEPT ![c] = "replying"] /\ waiting' = [waiting EXCEPT ![p] = @ - 1]
  BY DEF EndWait, Respond
<1>3. ASSUME NEW q \in Procs PROVE Busy(q)' = Busy(q)
  BY <1>1, <1>2 DEF EndWait, HandlerFrame, callVars, Busy, ConnectionsOf, Handled
<1>4. Waiters(p)' = Waiters(p) \ {c} /\ c \in Waiters(p)
  BY <1>1, <1>2 DEF EndWait, HandlerFrame, callVars, Waiters, ConnectionsOf
<1>5. ASSUME NEW q \in Procs, q # p PROVE Waiters(q)' = Waiters(q)
  BY <1>1, <1>2, <1>5 DEF EndWait, HandlerFrame, callVars, Waiters, ConnectionsOf
<1>6. IsFiniteSet(Waiters(p)) /\ Cardinality(Waiters(p)) \in Nat
  BY FiniteConnections DEF Waiters
<1>7. /\ IsFiniteSet(Waiters(p)') /\ Cardinality(Waiters(p)') \in Nat
      /\ Cardinality(Waiters(p)') = Cardinality(Waiters(p)) - 1
  <2>1. IsFiniteSet(Waiters(p) \ {c}) /\ Cardinality(Waiters(p) \ {c}) = Cardinality(Waiters(p)) - 1
    BY ONLY <1>4, <1>6, FS_RemoveElement
  <2>2. Cardinality(Waiters(p) \ {c}) \in Nat
    BY ONLY <2>1, FS_CardinalityType
  <2>3. QED
    BY ONLY <1>4, <2>1, <2>2
<1>8. waiting' \in [Procs -> 0..WaitSlots]
  BY <1>1, <1>2, <1>6, <1>7, ServiceConstants DEF CountInv
<1>9. ASSUME NEW q \in Procs PROVE waiting'[q] = Cardinality(Waiters(q)')
  <2>1. CASE q = p
    <3>1. waiting'[p] = waiting[p] - 1 /\ waiting[p] = Cardinality(Waiters(p))
      BY <1>1, <1>2 DEF CountInv
    <3>2. QED
      BY <1>7, <2>1, <3>1
  <2>2. CASE q # p
    <3>1. waiting'[q] = waiting[q] /\ waiting[q] = Cardinality(Waiters(q))
      BY <1>1, <1>2, <2>2 DEF CountInv
    <3>2. QED
      BY <1>5, <2>2, <3>1
  <2>3. QED
    BY <2>1, <2>2
<1>10. ASSUME NEW q \in Procs PROVE inflight'[q] = Cardinality(Busy(q)')
  BY <1>3 DEF CountInv, EndWait
<1>11. QED
  BY <1>8, <1>9, <1>10 DEF CountInv, EndWait

LEMMA LeaveCounts ==
  ASSUME CInv, NEW c \in Clients, Leave(c)
  PROVE  CountInv'
<1> USE DEF CInv, IInv, ShapeInv
<1>1. target[c] \in Procs /\ conn[c] = "closed"
  BY DEF Leave, LoadedInv
<1> PICK p \in Procs : p = target[c]
  BY <1>1
<1>2. conn' = [conn EXCEPT ![c] = "gone"] /\ inflight' = [inflight EXCEPT ![p] = @ - 1]
  BY DEF Leave
<1>3. ASSUME NEW q \in Procs PROVE Waiters(q)' = Waiters(q)
  BY <1>1, <1>2 DEF Leave, HandlerFrame, callVars, Waiters, ConnectionsOf
<1>4. Busy(p)' = Busy(p) \ {c} /\ c \in Busy(p)
  BY <1>1, <1>2 DEF Leave, HandlerFrame, callVars, Busy, ConnectionsOf, Handled
<1>5. ASSUME NEW q \in Procs, q # p PROVE Busy(q)' = Busy(q)
  BY <1>1, <1>2, <1>5 DEF Leave, HandlerFrame, callVars, Busy, ConnectionsOf, Handled
<1>6. IsFiniteSet(Busy(p)) /\ Cardinality(Busy(p)) \in Nat
  BY FiniteConnections DEF Busy
<1>7. /\ IsFiniteSet(Busy(p)') /\ Cardinality(Busy(p)') \in Nat
      /\ Cardinality(Busy(p)') = Cardinality(Busy(p)) - 1
  <2>1. IsFiniteSet(Busy(p) \ {c}) /\ Cardinality(Busy(p) \ {c}) = Cardinality(Busy(p)) - 1
    BY ONLY <1>4, <1>6, FS_RemoveElement
  <2>2. Cardinality(Busy(p) \ {c}) \in Nat
    BY ONLY <2>1, FS_CardinalityType
  <2>3. QED
    BY ONLY <1>4, <2>1, <2>2
<1>8. inflight' \in [Procs -> 0..MaxClients]
  BY <1>1, <1>2, <1>6, <1>7, ServiceConstants DEF CountInv
<1>9. ASSUME NEW q \in Procs PROVE inflight'[q] = Cardinality(Busy(q)')
  <2>1. CASE q = p
    <3>1. inflight'[p] = inflight[p] - 1 /\ inflight[p] = Cardinality(Busy(p))
      BY <1>1, <1>2 DEF CountInv
    <3>2. QED
      BY <1>7, <2>1, <3>1
  <2>2. CASE q # p
    <3>1. inflight'[q] = inflight[q] /\ inflight[q] = Cardinality(Busy(q))
      BY <1>1, <1>2, <2>2 DEF CountInv
    <3>2. QED
      BY <1>5, <2>2, <3>1
  <2>3. QED
    BY <2>1, <2>2
<1>10. ASSUME NEW q \in Procs PROVE waiting'[q] = Cardinality(Waiters(q)')
  BY <1>3 DEF CountInv, Leave
<1>11. QED
  BY <1>8, <1>9, <1>10 DEF CountInv, Leave

LEMMA HandleCounts ==
  ASSUME CInv, NEW c \in Clients, Handle(c) \/ EndWait(c) \/ Settle(c)
  PROVE  CInv'
<1> USE DEF CInv
<1>1. IInv'
  BY HandleStep
<1>2. CountInv'
  <2>1. CASE Dispatch(c) \/ ReceiveFails(c) \/ Reply(c) \/ Settle(c)
    <3>1. ASSUME NEW q \in Procs PROVE Busy(q)' = Busy(q) /\ Waiters(q)' = Waiters(q)
      BY <2>1 DEF Dispatch, CoreCall, ReceiveFails, Reply, Settle, Respond, HandlerFrame, callVars,
                  connVars, Busy, Waiters, ConnectionsOf, Handled, IInv, ShapeInv
    <3>2. QED
      BY <2>1, <3>1, SameCounts DEF Dispatch, ReceiveFails, Reply, Settle, procVars
  <2>2. QED
    BY <2>1, AcceptCounts, WaitCounts, EndWaitCounts, LeaveCounts DEF Handle
<1>3. UNCHANGED <<target, proc, startLock, mishaps>>
  BY DEF Handle, Accept, Dispatch, Wait, ReceiveFails, Reply, Leave, EndWait, Settle, HandlerFrame,
         callVars, procVars
<1>4. HandlerInv'
  BY <1>3 DEF Handle, Accept, Dispatch, CoreCall, Wait, ReceiveFails, Reply, Leave, EndWait, Settle,
              Respond, connVars, HandlerInv, Handled, IInv, ShapeInv, LoadedInv
<1>5. work' \subseteq work \/ (Dispatch(c) /\ work' \subseteq work \cup {c})
  BY DEF Handle, Accept, Dispatch, CoreCall, Wait, ReceiveFails, Reply, Leave, EndWait, Settle
<1>6. IdleInv'
  <2>1. SUFFICES ASSUME Dispatch(c) PROVE IdleInv'
    BY <1>3, <1>5 DEF IdleInv
  <2>2. target[c] \in Procs /\ proc[target[c]] \in {"serving", "failing"}
    BY <2>1 DEF Dispatch, HandlerInv, Handled
  <2>3. \A p \in Procs : proc[p] # "idle"
    BY <2>2 DEF IInv, OwnerInv, Owning, Cored
  <2>4. QED
    BY <1>3, <2>3 DEF IdleInv
<1>7. QED
  BY <1>1, <1>2, <1>3, <1>4, <1>5, <1>6 DEF RestShape

-----------------------------------------------------------------------------
\* A service leaves its loop by idleness only when nobody is counted, and joins its handlers.
LEMMA ProcCounts ==
  ASSUME CInv, NEW p \in Procs, Run(p) \/ LoopFails(p) \/ Crash(p)
  PROVE  CInv'
<1> USE DEF CInv
<1>1. IInv'
  BY ProcStep
<1>2. CASE Crash(p)
  <2>1. /\ \A c \in Clients : target'[c] = target[c]
        /\ \A c \in Clients : conn'[c] = IF c \in Busy(p) \cup ConnectionsOf(p, {"backlog"})
                                         THEN "gone" ELSE conn[c]
    BY <1>2 DEF Crash, Dropped, callVars, Busy, ConnectionsOf
  <2>2. Busy(p)' = {} /\ Waiters(p)' = {}
    BY <2>1 DEF Busy, Waiters, ConnectionsOf, Handled
  <2>3. ASSUME NEW q \in Procs, q # p PROVE Busy(q)' = Busy(q) /\ Waiters(q)' = Waiters(q)
    BY <2>1, <2>3 DEF Busy, Waiters, ConnectionsOf, Handled
  <2>4. CountInv'
    <3>1. /\ inflight' = [inflight EXCEPT ![p] = 0] /\ waiting' = [waiting EXCEPT ![p] = 0]
          /\ Cardinality({}) = 0
      BY <1>2, FS_EmptySet DEF Crash
    <3>2. ASSUME NEW q \in Procs
          PROVE  inflight'[q] = Cardinality(Busy(q)') /\ waiting'[q] = Cardinality(Waiters(q)')
      <4>1. CASE q = p
        <5>1. inflight'[q] = 0 /\ waiting'[q] = 0
          BY <3>1, <4>1 DEF CountInv
        <5>2. QED
          BY <2>2, <3>1, <4>1, <5>1
      <4>2. CASE q # p
        <5>1. /\ inflight'[q] = inflight[q] /\ inflight[q] = Cardinality(Busy(q))
              /\ waiting'[q] = waiting[q] /\ waiting[q] = Cardinality(Waiters(q))
          BY <3>1, <4>2 DEF CountInv
        <5>2. QED
          BY <2>3, <4>2, <5>1
      <4>3. QED
        BY <4>1, <4>2
    <3>3. QED
      BY <3>1, <3>2, ServiceConstants DEF CountInv
  <2>5. HandlerInv'
    BY <1>2, <2>1 DEF Crash, HandlerInv, Busy, ConnectionsOf, Handled, IInv, ShapeInv
  <2>6. RestShape'
    BY <1>2, ServiceConstants DEF Crash, RestShape
  <2>7. IdleInv'
    BY <1>2 DEF Crash, IdleInv, IInv, ShapeInv
  <2>8. QED
    BY <1>1, <2>4, <2>5, <2>6, <2>7
<1>3. CASE CloseListener(p)
  <2>1. ASSUME NEW q \in Procs PROVE Busy(q)' = Busy(q) /\ Waiters(q)' = Waiters(q)
    BY <1>3 DEF CloseListener, Dropped, callVars, Busy, Waiters, ConnectionsOf, Handled
  <2>2. CountInv'
    BY <1>3, <2>1, SameCounts DEF CloseListener
  <2>3. HandlerInv'
    BY <1>3 DEF CloseListener, Dropped, ConnectionsOf, callVars, HandlerInv, Handled, IInv, ShapeInv
  <2>4. QED
    BY <1>1, <1>3, <2>2, <2>3 DEF CloseListener, IdleInv, RestShape, IInv, ShapeInv
<1>4. CASE (Run(p) /\ ~CloseListener(p)) \/ LoopFails(p)
  <2>1. UNCHANGED <<callVars, startLock, connVars, inflight, waiting>>
    BY <1>4 DEF Run, Load, OwnRoot, OpenFails, Publish, IdleCheck, LoopFails, Join, CloseCore,
                Withdraw, Release, Step
  <2>2. work' \subseteq work /\ mishaps' \in 0..MaxMishaps
    BY <1>4, ServiceConstants
       DEF Run, Load, OwnRoot, OpenFails, Publish, IdleCheck, LoopFails, Join, CloseCore,
           Withdraw, Release, Step, RestShape
  <2>3. CountInv'
    <3>1. ASSUME NEW q \in Procs PROVE Busy(q)' = Busy(q) /\ Waiters(q)' = Waiters(q)
      BY <2>1 DEF callVars, connVars, Busy, Waiters, ConnectionsOf
    <3>2. QED
      BY <2>1, <3>1, SameCounts
  <2>4. \/ proc[p] \notin {"serving", "failing"} \/ proc'[p] \in {"serving", "failing"}
        \/ Busy(p) = {}
    <3>1. CASE proc[p] = "serving" /\ IdleCheck(p)
      <4>1. Cardinality(Busy(p)) = 0
        BY <3>1 DEF IdleCheck, Step, CountInv
      <4>2. QED
        BY <4>1, FiniteConnections, FS_EmptySet DEF Busy
    <3>2. CASE Join(p)
      BY <3>2 DEF Join, Busy
    <3>3. QED
      BY <1>4, <3>1, <3>2
         DEF Run, Load, OwnRoot, OpenFails, Publish, IdleCheck, LoopFails, CloseCore, Withdraw,
             Release, Step, IInv, ShapeInv
  <2>5. \A q \in Procs \ {p} : proc'[q] = proc[q]
    BY <1>4 DEF Run, Load, OwnRoot, OpenFails, Publish, IdleCheck, LoopFails, Join, CloseCore,
                Withdraw, Release, Step, IInv, ShapeInv
  <2>6. HandlerInv'
    BY <2>1, <2>4, <2>5 DEF callVars, connVars, HandlerInv, Busy, ConnectionsOf
  <2>7. proc'[p] = "idle" => work' = {}
    BY <1>4 DEF Run, Load, OwnRoot, OpenFails, Publish, IdleCheck, LoopFails, Join, CloseCore,
                Withdraw, Release, Step, IInv, ShapeInv
  <2>8. IdleInv'
    BY <2>2, <2>5, <2>7 DEF IdleInv
  <2>9. QED
    BY <1>1, <2>1, <2>2, <2>3, <2>6, <2>8 DEF RestShape
<1>5. QED
  BY <1>2, <1>3, <1>4

LEMMA NextCInv == CInv /\ [Next]_vars => CInv'
<1>1. ASSUME CInv, UNCHANGED vars \/ SaveSettings PROVE CInv'
  <2>1. UNCHANGED <<callVars, startLock, connVars, procVars, work, mishaps>>
    BY <1>1 DEF vars, SaveSettings
  <2>2. ASSUME NEW p \in Procs PROVE Busy(p)' = Busy(p) /\ Waiters(p)' = Waiters(p)
    BY <2>1 DEF callVars, connVars, Busy, Waiters, ConnectionsOf
  <2>3. CountInv'
    BY <1>1, <2>1, <2>2, SameCounts DEF CInv, procVars
  <2>4. QED
    BY <1>1, <2>1, <2>3, NextIInv
       DEF CInv, HandlerInv, IdleInv, RestShape, callVars, connVars, procVars, Next
<1>2. QED
  BY <1>1, CallCounts, HandleCounts, ProcCounts DEF Next

LEMMA CountInvariant == Spec => []CInv
BY InitCInv, NextCInv, PTL DEF Spec

\* Every variable of frontends, connections and services keeps its type: no count of a service
\* passes its limit or falls below zero.
THEOREM ServiceTypeCorrect == Spec => []TypeOK
<1>1. CInv => TypeOK
  BY DEF CInv, IInv, ShapeInv, CountInv, RestShape, TypeOK
<1>2. QED
  BY <1>1, CountInvariant, PTL

\* When a service decides to exit for idleness, nothing is unsettled and nobody can submit.
THEOREM IdleExitIsHonest == Spec => []IdleExitHonest
<1>1. CInv => IdleExitHonest
  <2>1. SUFFICES ASSUME CInv, NEW p \in Procs, proc[p] = "idle"
                 PROVE  work = {} /\ ConnectionsOf(p, Handled) = {}
    BY DEF IdleExitHonest
  <2>2. QED
    BY <2>1 DEF CInv, IdleInv, HandlerInv, ConnectionsOf
<1>2. QED
  BY <1>1, CountInvariant, PTL

-----------------------------------------------------------------------------
(* The promise of JobService.  Each step of a frontend, a connection or a  *)
(* service process is one step of the promise or leaves it as it is.       *)

Kept == <<Holders, settings, begun, executed, Ran, Heard, work>>

\* A request keeps the settings it ran under: its process has loaded them and is not replaced.
LEMMA SameRan ==
  ASSUME CInv, UNCHANGED executed,
         \A c \in Clients : executed[c] > 0 =>
           target'[c] = target[c] /\ loaded'[target[c]] = loaded[target[c]]
  PROVE  Ran' = Ran
BY DEF Ran

LEMMA SameHeard ==
  ASSUME UNCHANGED <<client, outcome>>
  PROVE  Heard' = Heard
BY DEF Heard

LEMMA SameHolders ==
  ASSUME \A p \in Procs : proc'[p] \in Cored \cup {"opening"} <=> proc[p] \in Cored \cup {"opening"}
  PROVE  Holders' = Holders
BY DEF Holders

\* A frontend's step begins its call, ends it with a true answer, or is not seen by its caller.
LEMMA CallPromise ==
  ASSUME CInv, NEW c \in Clients, Call(c)
  PROVE  Promise!Ask(c) \/ Promise!Tell(c) \/ UNCHANGED Kept
<1> USE DEF CInv, IInv
<1>1. UNCHANGED <<executed, loaded, settings, work>>
  BY DEF Call, Look, Start, Poll, Connect, Send, Answered, Unconfirmed, Found, Conflict, Finish,
         ClientFrame, connVars, procVars
<1>2. UNCHANGED Holders
  <2>1. \A p \in Procs : proc'[p] = proc[p] \/ (proc[p] = "off" /\ proc'[p] = "spawned")
    <3>1. CASE Start(c)
      BY <3>1 DEF Start, Found, Conflict, Finish, ClientFrame, procVars, ShapeInv
    <3>2. CASE ~Start(c)
      BY <3>2 DEF Call, Look, Poll, Connect, Send, Answered, Unconfirmed, Found, Conflict, Finish,
                  ClientFrame, procVars
    <3>3. QED
      BY <3>1, <3>2
  <2>2. QED
    BY <2>1, SameHolders DEF Cored
<1>3. UNCHANGED Ran
  <2>1. \A d \in Clients : executed[d] > 0 => target'[d] = target[d]
    BY DEF Call, Look, Start, Poll, Connect, Send, Answered, Unconfirmed, Found, Conflict, Finish,
           ClientFrame, ShapeInv, CallInv, ExecutedInv
  <2>2. QED
    BY <1>1, <2>1, SameRan
<1>4. /\ \A d \in Clients \ {c} : client'[d] = client[d] /\ outcome'[d] = outcome[d]
      /\ client'[c] # "new" /\ outcome[c] = "none" /\ client[c] # "done"
  BY DEF Call, Look, Start, Poll, Connect, Send, Answered, Unconfirmed, Found, Conflict, Finish,
         ShapeInv, CallInv
<1>5. /\ Heard' = [Heard EXCEPT ![c] = Heard'[c]]
      /\ client[c] = "new" => Heard[c] = "new"
      /\ client[c] # "new" => Heard[c] = "open"
      /\ Heard'[c] = Heard[c] => Heard' = Heard
  <2>1. ASSUME NEW d \in Clients \ {c} PROVE Heard'[d] = Heard[d]
    BY <1>4 DEF Heard
  <2>2. Heard' = [d \in Clients |-> Heard'[d]] /\ Heard = [d \in Clients |-> Heard[d]]
    BY DEF Heard
  <2>3. Heard' = [Heard EXCEPT ![c] = Heard'[c]]
    BY <2>1, <2>2
  <2>4. Heard[c] = IF client[c] = "new" THEN "new" ELSE "open"
    BY <1>4 DEF Heard
  <2>5. Heard'[c] = Heard[c] => Heard' = Heard
    BY <2>1, <2>2
  <2>6. QED
    BY <2>3, <2>4, <2>5
<1>6. CASE Look(c)
  <2>1. client[c] = "new" /\ begun' = [begun EXCEPT ![c] = settings]
    BY <1>6 DEF Look
  <2>2. outcome'[c] \in {"none", "conflict", "failed"}
    BY <1>4, <1>6 DEF Look, Found, Conflict, Finish, Told, ShapeInv
  <2>3. Heard'[c] \in {"open", "never", "unsure"}
    BY <1>4, <2>2 DEF Heard, Definite
  <2>4. QED
    BY <1>1, <1>2, <1>3, <1>5, <2>1, <2>3 DEF Promise!Ask
<1>7. CASE ~Look(c)
  <2>1. client[c] # "new" /\ UNCHANGED begun
    BY <1>7 DEF Call, Look, Start, Poll, Connect, Send, Answered, Unconfirmed
  <2>2. \/ outcome'[c] = "none"
        \/ outcome'[c] = "ok" /\ executed[c] = 1
        \/ outcome'[c] \in Definite /\ executed[c] = 0
        \/ outcome'[c] \in {"unconfirmed", "failed"}
    <3>1. CASE client[c] # "sent" /\ ~Unconfirmed(c)
      <4>1. executed[c] = 0
        BY <1>4, <2>1, <3>1 DEF ShapeInv, CallInv, ExecutedInv, CallStates
      <4>2. outcome'[c] \in Definite \cup {"none", "failed"}
        BY <1>4, <1>7, <3>1
           DEF Call, Start, Poll, Connect, Send, Answered, Found, Conflict, Finish, Told, ShapeInv,
               Definite
      <4>3. QED
        BY <4>1, <4>2
    <3>2. CASE Answered(c)
      BY <3>2 DEF Answered, Finish, Told, ShapeInv, ExecutedInv, Definite
    <3>3. CASE Unconfirmed(c)
      BY <3>3 DEF Unconfirmed, Finish, Told, ShapeInv
    <3>4. QED
      BY <1>7, <2>1, <3>1, <3>2, <3>3 DEF Call, Start, Poll, Connect, Send
  <2>3. \/ Heard'[c] = "open"
        \/ Heard'[c] = "done" /\ executed[c] = 1
        \/ Heard'[c] = "never" /\ executed[c] = 0
        \/ Heard'[c] = "unsure"
    BY <1>4, <2>2 DEF Heard, Definite
  <2>4. CASE Heard'[c] = "open"
    BY <1>1, <1>2, <1>3, <1>5, <2>1, <2>4 DEF Kept
  <2>5. CASE Heard'[c] # "open"
    BY <1>1, <1>2, <1>3, <1>5, <2>1, <2>3, <2>5 DEF Promise!Tell
  <2>6. QED
    BY <2>4, <2>5
<1>8. QED
  BY <1>6, <1>7

\* A handler lets the request take effect once, while a Core is held and its caller has not been
\* refused; everything else it does is not seen.
LEMMA HandlePromise ==
  ASSUME CInv, NEW c \in Clients, Handle(c) \/ EndWait(c)
  PROVE  Promise!Effect(c) \/ UNCHANGED Kept
<1> USE DEF CInv, IInv
<1>1. /\ UNCHANGED <<callVars, proc, loaded, settings>>
      /\ UNCHANGED <<Holders, Heard>>
  <2>1. UNCHANGED <<callVars, proc, loaded, settings>>
    BY DEF Handle, Accept, Dispatch, Wait, ReceiveFails, Reply, Leave, EndWait, HandlerFrame
  <2>2. QED
    BY <2>1, SameHolders, SameHeard DEF callVars
<1>2. CASE UNCHANGED <<executed, work>>
  <2>1. UNCHANGED Ran
    BY <1>1, <1>2, SameRan DEF callVars
  <2>2. QED
    BY <1>1, <1>2, <2>1 DEF Kept, callVars
<1>3. CASE ~UNCHANGED <<executed, work>>
  <2>1. /\ conn[c] = "receiving" /\ c \in requested
        /\ executed' = [executed EXCEPT ![c] = @ + 1] /\ work' \in {work, work \cup {c}}
    BY <1>3 DEF Handle, Accept, Dispatch, CoreCall, Wait, ReceiveFails, Reply, Leave, EndWait,
                ShapeInv
  <2>2. executed[c] = 0 /\ executed' = [executed EXCEPT ![c] = 1]
    <3>1. executed[c] = 0
      BY <2>1 DEF ExecutedInv
    <3>2. QED
      BY <2>1, <3>1 DEF ShapeInv
  <2>3. Heard[c] \in {"open", "unsure"}
    BY <2>1, <2>2 DEF Heard, CallInv, ExecutedInv
  <2>4. target[c] \in Procs /\ loaded[target[c]] \in begun[c]..settings
    BY <2>1 DEF ShapeInv, LoadedInv
  <2>5. Holders # {}
    BY <2>1 DEF HandlerInv, Handled, Holders, Cored
  <2>6. Ran' = [Ran EXCEPT ![c] = loaded[target[c]]]
    <3>1. ASSUME NEW d \in Clients \ {c} PROVE Ran'[d] = Ran[d]
      BY <1>1, <2>2 DEF Ran, callVars, ShapeInv
    <3>2. Ran'[c] = loaded[target[c]]
      BY <1>1, <2>2 DEF Ran, callVars, ShapeInv
    <3>3. Ran' = [d \in Clients |-> Ran'[d]] /\ Ran = [d \in Clients |-> Ran[d]]
      BY DEF Ran
    <3>4. QED
      BY <3>1, <3>2, <3>3
  <2>7. QED
    BY <1>1, <2>1, <2>2, <2>3, <2>4, <2>5, <2>6 DEF Promise!Effect, callVars
<1>4. QED
  BY <1>2, <1>3

\* A service process takes the root, leaves it, settles jobs while it holds it, or is not seen.
LEMMA ProcPromise ==
  ASSUME CInv, NEW p \in Procs, Run(p) \/ LoopFails(p) \/ Crash(p)
  PROVE  Promise!Take(p) \/ Promise!Leave(p) \/ Promise!Settle \/ UNCHANGED Kept
<1> USE DEF CInv, IInv
<1>1. /\ UNCHANGED <<callVars, executed, settings, Heard>>
      /\ \A q \in Procs \ {p} : proc'[q] = proc[q]
  <2>1. UNCHANGED <<callVars, executed, settings>>
    BY DEF Run, Load, OwnRoot, OpenFails, Publish, IdleCheck, LoopFails, Join, CloseListener,
           CloseCore, Withdraw, Release, Crash, Step, connVars
  <2>2. \A q \in Procs \ {p} : proc'[q] = proc[q]
    BY DEF Run, Load, OwnRoot, OpenFails, Publish, IdleCheck, LoopFails, Join, CloseListener,
           CloseCore, Withdraw, Release, Crash, Step, ShapeInv
  <2>3. QED
    BY <2>1, <2>2, SameHeard DEF callVars
<1>2. UNCHANGED Ran
  <2>1. CASE Load(p)
    <3>1. \A c \in Clients : executed[c] > 0 => target[c] # p
      BY <2>1 DEF Load, Step, ShapeInv, ExecutedInv, LoadedInv
    <3>2. QED
      BY <1>1, <2>1, <3>1, SameRan DEF Load, callVars, ShapeInv
  <2>2. CASE ~Load(p)
    <3>1. UNCHANGED loaded
      BY <2>2 DEF Run, OwnRoot, OpenFails, Publish, IdleCheck, LoopFails, Join, CloseListener,
                  CloseCore, Withdraw, Release, Crash
    <3>2. QED
      BY <1>1, <3>1, SameRan DEF callVars
  <2>3. QED
    BY <2>1, <2>2
<1>3. CASE Publish(p)
  <2>1. work' \in SUBSET work /\ proc[p] = "opening" /\ proc'[p] = "serving"
    BY <1>3 DEF Publish, Step, ShapeInv
  <2>2. p \in Holders /\ UNCHANGED Holders
    <3>1. UNCHANGED Holders
      BY <1>1, <2>1, SameHolders DEF Cored
    <3>2. QED
      BY <2>1, <3>1 DEF Holders
  <2>3. QED
    BY <1>1, <1>2, <2>1, <2>2 DEF Promise!Settle, callVars
<1>4. CASE ~Publish(p)
  <2>1. UNCHANGED work
    BY <1>4 DEF Run, Load, OwnRoot, OpenFails, IdleCheck, LoopFails, Join, CloseListener,
                CloseCore, Withdraw, Release, Crash
  <2>2. CASE p \notin Holders /\ p \in Holders'
    <3>1. owner = NoProc
      BY <1>4, <2>2 DEF Run, Load, OwnRoot, OpenFails, IdleCheck, LoopFails, Join, CloseListener,
                        CloseCore, Withdraw, Release, Crash, Step, ShapeInv, Holders, Cored
    <3>2. \A q \in Procs : q \notin Holders
      BY <3>1, ServiceConstants DEF Holders, OwnerInv, Owning
    <3>3. Holders = {} /\ Holders' = {p}
      BY <1>1, <2>2, <3>2 DEF Holders
    <3>4. QED
      BY <1>1, <1>2, <2>1, <3>3 DEF Promise!Take, callVars
  <2>3. CASE p \in Holders /\ p \notin Holders'
    <3>1. Holders' = Holders \ {p}
      BY <1>1, <2>3 DEF Holders
    <3>2. QED
      BY <1>1, <1>2, <2>1, <2>3, <3>1 DEF Promise!Leave, callVars
  <2>4. CASE p \in Holders <=> p \in Holders'
    <3>1. UNCHANGED Holders
      BY <1>1, <2>4 DEF Holders
    <3>2. QED
      BY <1>1, <1>2, <2>1, <3>1 DEF Kept, callVars
  <2>5. QED
    BY <2>2, <2>3, <2>4
<1>5. QED
  BY <1>3, <1>4

\* Frontends, connections and service processes together keep the promise of JobService.
THEOREM KeepsServicePromise == Spec => ServicePromise
<1>1. Init => Promise!Init
  BY ServiceConstants DEF Init, Promise!Init, Holders, Cored, Ran, Heard
<1>2. ASSUME CInv, NEW c \in Clients, Settle(c) PROVE Promise!Settle
  <2>1. Holders # {} /\ work' \in SUBSET work
    BY <1>2 DEF Settle, Holders
  <2>2. UNCHANGED <<callVars, connVars, procVars, settings>>
    BY <1>2 DEF Settle
  <2>3. UNCHANGED <<Holders, Ran, Heard>>
    BY <1>2, <2>2, SameHolders, SameRan, SameHeard DEF callVars, connVars, procVars
  <2>4. QED
    BY <2>1, <2>2, <2>3 DEF Promise!Settle, callVars, connVars
<1>3. ASSUME CInv, SaveSettings PROVE Promise!Save
  <2>1. UNCHANGED <<callVars, connVars, procVars, work>> /\ settings' = settings + 1
    BY <1>3 DEF SaveSettings
  <2>2. UNCHANGED <<Holders, Ran, Heard>>
    BY <1>3, <2>1, SameHolders, SameRan, SameHeard DEF callVars, connVars, procVars
  <2>3. QED
    BY <2>1, <2>2 DEF Promise!Save, callVars, connVars
<1>4. ASSUME CInv, UNCHANGED vars PROVE UNCHANGED Kept
  <2>1. UNCHANGED <<callVars, connVars, procVars, settings, work>>
    BY <1>4 DEF vars
  <2>2. UNCHANGED <<Holders, Ran, Heard>>
    BY <1>4, <2>1, SameHolders, SameRan, SameHeard DEF callVars, connVars, procVars
  <2>3. QED
    BY <2>1, <2>2 DEF Kept, callVars, connVars
<1>5. CInv /\ [Next]_vars => [Promise!Next]_Kept
  <2>1. ASSUME CInv, NEW c \in Clients, Call(c) \/ Handle(c) \/ EndWait(c) \/ Settle(c)
        PROVE  [Promise!Next]_Kept
    BY <1>2, <2>1, CallPromise, HandlePromise DEF Promise!Next
  <2>2. ASSUME CInv, NEW p \in Procs, Run(p) \/ LoopFails(p) \/ Crash(p)
        PROVE  [Promise!Next]_Kept
    BY <2>2, ProcPromise DEF Promise!Next
  <2>3. QED
    BY <1>3, <1>4, <2>1, <2>2 DEF Next, Promise!Next
<1>6. QED
  BY <1>1, <1>5, CountInvariant, PTL DEF Spec, ServicePromise, Promise!Spec, Kept
=============================================================================
