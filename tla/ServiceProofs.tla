----------------------------- MODULE ServiceProofs -----------------------------
(***************************************************************************)
(* For every number of frontends and service processes, of mishaps and of  *)
(* changed settings: one Core at a time, a truthful record, and callers    *)
(* that are told the truth and served under the settings they knew.        *)
(***************************************************************************)
EXTENDS Service, TLAPS

\* The part of TypeOK that the argument needs (ServiceCountProofs has the counts).
ShapeInv ==
  /\ client \in [Clients -> CallStates] /\ outcome \in [Clients -> Outcomes]
  /\ target \in [Clients -> Procs \cup {NoProc}] /\ begun \in [Clients -> 0..MaxSaves]
  /\ conn \in [Clients -> ConnStates] /\ requested \subseteq Clients
  /\ answer \in [Clients -> {"none", "ok", "refused", "failed"}]
  /\ executed \in [Clients -> Nat]
  /\ proc \in [Procs -> ProcStates] /\ loaded \in [Procs -> 0..MaxSaves]
  /\ owner \in Procs \cup {NoProc} /\ record \in Procs \cup {NoProc}
  /\ settings \in 0..MaxSaves

\* Who is past the lifetime lock holds it until it is dead.  The record is written under the
\* lock, and withdrawn before its release unless the process dies.
OwnerInv ==
  /\ \A p \in Procs : proc[p] \in Owning => owner = p
  /\ \A p \in Procs : proc[p] \in Cored => record = p
  /\ record # NoProc => proc[record] \in Cored \cup {"drained", "dead"}

\* A call connects before it sends, sends once, and has no outcome before it ends.
CallInv ==
  \A c \in Clients :
    /\ client[c] \in {"new", "starting", "polling", "found"} => conn[c] = "none"
    /\ c \in requested => client[c] \in {"sent", "done"}
    /\ client[c] = "sent" => c \in requested
    /\ client[c] # "done" => outcome[c] = "none"

\* A request takes effect when its handler leaves "receiving", to which no handler returns.
ExecutedInv ==
  \A c \in Clients :
    /\ executed[c] \in {0, 1}
    /\ executed[c] = 1 => c \in requested /\ conn[c] \in {"waiting", "replying", "closed", "gone"}
    /\ conn[c] = "waiting" => executed[c] = 1
    /\ answer[c] # "none" => conn[c] \in {"replying", "closed", "gone"}
    /\ answer[c] = "ok" => executed[c] = 1
    /\ answer[c] = "refused" => executed[c] = 0
    /\ outcome[c] = "ok" => executed[c] = 1
    /\ outcome[c] \in Definite =>
         executed[c] = 0 /\ (c \in requested => conn[c] \in {"closed", "gone"})

\* Processes load what is saved; a call only ever deals with a process that has loaded settings
\* not older than its own.
LoadedInv ==
  /\ \A p \in Procs : loaded[p] <= settings
  /\ \A c \in Clients :
       /\ begun[c] <= settings
       /\ client[c] \in {"found", "connected", "sent"} \/ conn[c] # "none" =>
            /\ target[c] \in Procs /\ proc[target[c]] \notin {"off", "spawned"}
            /\ begun[c] <= loaded[target[c]]

IInv == ShapeInv /\ OwnerInv /\ CallInv /\ ExecutedInv /\ LoadedInv

LEMMA InitIInv == Init => IInv
BY ServiceConstants
   DEF Init, IInv, ShapeInv, OwnerInv, CallInv, ExecutedInv, LoadedInv,
       CallStates, ConnStates, Handled, ProcStates, Owning, Cored, Outcomes, Definite

\* A frontend takes a step in its call.
LEMMA CallStep ==
  ASSUME IInv, NEW c \in Clients, Call(c)
  PROVE  IInv'
<1> USE ServiceConstants DEF IInv, ShapeInv, OwnerInv, CallInv, ExecutedInv, LoadedInv,
        callVars, connVars, procVars,
        CallStates, ConnStates, Handled, ProcStates, Owning, Cored, Outcomes, Definite
<1>1. CASE Look(c)
  BY <1>1 DEF Look, Found, Conflict, Finish, Told, Recorded, Living, ClientFrame
<1>2. CASE Start(c)
  BY <1>2 DEF Start, Found, Conflict, Finish, Told, Recorded, Living, ClientFrame
<1>3. CASE Poll(c)
  BY <1>3 DEF Poll, Found, Conflict, Finish, Told, Recorded, Living, ClientFrame
<1>4. CASE Connect(c)
  BY <1>4 DEF Connect
<1>5. CASE Send(c)
  BY <1>5 DEF Send, Finish, Told, Living
<1>6. CASE Answered(c)
  BY <1>6 DEF Answered, Finish, Told, ClientFrame
<1>7. CASE Unconfirmed(c)
  BY <1>7 DEF Unconfirmed, Finish, Told, ClientFrame
<1>8. QED
  BY <1>1, <1>2, <1>3, <1>4, <1>5, <1>6, <1>7 DEF Call

\* The handler of a connection, or the worker that settles its job, takes a step.
LEMMA HandleStep ==
  ASSUME IInv, NEW c \in Clients, Handle(c) \/ EndWait(c) \/ Settle(c)
  PROVE  IInv'
<1> USE ServiceConstants DEF IInv, ShapeInv, OwnerInv, CallInv, ExecutedInv, LoadedInv,
        callVars, connVars, procVars,
        CallStates, ConnStates, Handled, ProcStates, Owning, Cored, Outcomes, Definite
<1>1. CASE Accept(c)
  BY <1>1 DEF Accept, HandlerFrame
<1>2. CASE Dispatch(c)
  BY <1>2 DEF Dispatch, CoreCall, Respond, HandlerFrame
<1>3. CASE Wait(c)
  BY <1>3 DEF Wait, Respond, HandlerFrame
<1>4. CASE ReceiveFails(c)
  BY <1>4 DEF ReceiveFails, Respond, HandlerFrame
<1>5. CASE Reply(c)
  BY <1>5 DEF Reply, HandlerFrame
<1>6. CASE Leave(c)
  BY <1>6 DEF Leave, HandlerFrame
<1>7. CASE EndWait(c)
  BY <1>7 DEF EndWait, Respond, HandlerFrame
<1>8. CASE Settle(c)
  BY <1>8 DEF Settle
<1>9. QED
  BY <1>1, <1>2, <1>3, <1>4, <1>5, <1>6, <1>7, <1>8 DEF Handle

\* A service process takes a step, fails or dies.
LEMMA ProcStep ==
  ASSUME IInv, NEW p \in Procs, Run(p) \/ LoopFails(p) \/ Crash(p)
  PROVE  IInv'
<1> USE ServiceConstants DEF IInv, ShapeInv, OwnerInv, CallInv, ExecutedInv, LoadedInv,
        callVars, connVars, procVars,
        CallStates, ConnStates, Handled, ProcStates, Owning, Cored, Outcomes, Definite
<1>1. CASE Load(p)
  BY <1>1 DEF Load, Step
<1>2. CASE OwnRoot(p)
  BY <1>2 DEF OwnRoot, Step
<1>3. CASE OpenFails(p)
  BY <1>3 DEF OpenFails, Step
<1>4. CASE Publish(p)
  BY <1>4 DEF Publish, Step
<1>5. CASE IdleCheck(p)
  BY <1>5 DEF IdleCheck, Step
<1>6. CASE LoopFails(p)
  BY <1>6 DEF LoopFails, Step
<1>7. CASE Join(p)
  BY <1>7 DEF Join, Step
<1>8. CASE CloseListener(p)
  BY <1>8 DEF CloseListener, Dropped, ConnectionsOf
<1>9. CASE CloseCore(p)
  BY <1>9 DEF CloseCore, Step
<1>10. CASE Withdraw(p)
  BY <1>10 DEF Withdraw, Step
<1>11. CASE Release(p)
  BY <1>11 DEF Release, Step
<1>12. CASE Crash(p)
  BY <1>12 DEF Crash, Dropped, ConnectionsOf, Living
<1>13. QED
  BY <1>1, <1>2, <1>3, <1>4, <1>5, <1>6, <1>7, <1>8, <1>9, <1>10, <1>11, <1>12 DEF Run

LEMMA SaveStep ==
  ASSUME IInv, SaveSettings
  PROVE  IInv'
<1> USE ServiceConstants
        DEF SaveSettings, IInv, ShapeInv, OwnerInv, CallInv, ExecutedInv, LoadedInv, callVars,
            connVars, procVars
<1>1. settings' \in 0..MaxSaves /\ settings <= settings'
  OBVIOUS
<1>2. (ShapeInv /\ OwnerInv)'
  BY <1>1
<1>3. (CallInv /\ ExecutedInv)'
  OBVIOUS
<1>4. LoadedInv'
  BY <1>1
<1>5. QED
  BY <1>2, <1>3, <1>4

LEMMA NextIInv == IInv /\ [Next]_vars => IInv'
<1>1. ASSUME IInv, UNCHANGED vars PROVE IInv'
  BY <1>1 DEF vars, callVars, connVars, procVars, IInv, ShapeInv, OwnerInv, CallInv, ExecutedInv,
              LoadedInv
<1>2. QED
  BY <1>1, CallStep, HandleStep, ProcStep, SaveStep DEF Next

LEMMA Invariant == Spec => []IInv
BY InitIInv, NextIInv, PTL DEF Spec

-----------------------------------------------------------------------------
\* However many services are launched beside each other, and whoever dies, at most one holds a
\* Core of the root.
THEOREM SingleCore == Spec => []OneCore
<1>1. IInv => OneCore
  BY DEF IInv, OwnerInv, OneCore, Owning
<1>2. QED
  BY <1>1, Invariant, PTL

\* coordinator.json names the service that holds a Core, and a living process that it names is
\* the owner of the root.
THEOREM RecordIsTrue == Spec => []RecordTrue
<1>1. IInv => RecordTrue
  BY ServiceConstants
     DEF IInv, ShapeInv, OwnerInv, RecordTrue, Recorded, Living, Owning
<1>2. QED
  BY <1>1, Invariant, PTL

\* A request takes effect at most once, and what its caller is told of it is true for ever.
THEOREM OutcomeIsHonest == Spec => []HonestOutcome
<1>1. IInv => HonestOutcome
  BY DEF IInv, ExecutedInv, HonestOutcome
<1>2. QED
  BY <1>1, Invariant, PTL

\* No request runs under settings older than those saved when its call began.
THEOREM SettingsAreHonest == Spec => []SettingsHonest
<1>1. IInv => SettingsHonest
  BY ServiceConstants DEF IInv, ShapeInv, ExecutedInv, LoadedInv, SettingsHonest
<1>2. QED
  BY <1>1, Invariant, PTL
==============================================================================
