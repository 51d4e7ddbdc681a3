-------------------------------- MODULE Service --------------------------------
(***************************************************************************)
(* The on-demand job service: the frontends that find or start it          *)
(* (client.py), the processes that compete to own one root and serve it    *)
(* (coordinator.py), and the connections between them (ipc.py).            *)
(*                                                                         *)
(* Every deadline is a step that may come at any time its wait lasts.  A   *)
(* frame arrives whole or the connection is closed.  The durable jobs are  *)
(* the subject of module Executor: here a job is work that some Core has   *)
(* accepted and not yet settled.                                           *)
(***************************************************************************)
EXTENDS Naturals, FiniteSets

CONSTANTS
  Clients,      \* one request of one frontend each
  Kind,         \* what each asks for
  Procs,        \* service processes
  NoProc, NoClient,
  MaxClients,   \* coordinator.MAX_CLIENTS
  WaitSlots,    \* size of Coordinator.waiters
  MaxMishaps,   \* bound: process deaths, and errors that end the serving loop
  MaxSaves,     \* bound: changes of the saved settings
  Unverifiable, \* a living owner may have another version or an unobservable birth
  Malformed     \* a result may fail the frontend's validation

\* "run" submits a job, "wait" is matlab_job's wait, "cancel" stands for the calls that answer
\* at once.  Status and help never come here.
Kinds == {"run", "cancel", "wait"}

ASSUME ServiceConstants ==
  /\ IsFiniteSet(Clients)
  /\ Kind \in [Clients -> Kinds]
  /\ NoProc \notin Procs /\ NoClient \notin Clients
  /\ MaxClients \in Nat \ {0} /\ WaitSlots \in Nat
  /\ MaxMishaps \in Nat /\ MaxSaves \in Nat /\ Unverifiable \in BOOLEAN
  /\ Malformed \in BOOLEAN

VARIABLES
  \* frontends
  client,     \* where each call stands
  outcome,    \* what its caller is told
  target,     \* the process it found or spawned
  begun,      \* history: the settings when the call began
  startLock,  \* .coordinator-start.lock
  \* connections, by the client that opened each
  conn,       \* where the connection and its handler stand
  requested,  \* clients whose request is in the connection
  answer,     \* the response that will be, or was, sent
  executed,   \* history: times the request took effect
  \* service processes
  proc,       \* where each stands
  loaded,     \* the settings it was constructed with
  inflight,   \* handlers submitted and not ended
  waiting,    \* wait slots in use
  owner,      \* holder of .coordinator.lock
  \* durable
  record,     \* coordinator.json, by the process it names
  settings,   \* version of settings.json
  work,       \* clients whose job is accepted and not settled
  mishaps

callVars == <<client, outcome, target, begun>>
connVars == <<conn, requested, answer, executed>>
procVars == <<proc, loaded, inflight, waiting>>
vars == <<callVars, startLock, connVars, procVars, owner, record, settings, work, mishaps>>

\* "serving" is the loop of Coordinator.run, "quiet" the same after it saw no handler.
\* "idle" and "failing" have left the loop; then the listener closes, the Core drains, the
\* record is withdrawn and the lifetime lock is released.
Cored == {"serving", "quiet", "idle", "failing", "closing", "draining"}
Owning == Cored \cup {"opening", "drained", "withdrawn"}
ProcStates == Owning \cup {"off", "spawned", "ready", "dead"}
CallStates == {"new", "starting", "polling", "found", "connected", "sent", "done"}
Handled == {"receiving", "waiting", "replying"}   \* the listener counts the connection
ConnStates == Handled \cup {"none", "backlog", "closed", "gone"}

\* What tells a caller that the request took no effect.
Definite == {"start_blocked", "start_failed", "start_unconfirmed", "conflict",
             "identity_mismatch", "refused"}
Outcomes == Definite \cup {"none", "ok", "unconfirmed", "failed"}

Living(p) == proc[p] \notin {"off", "dead"}
ConnectionsOf(p, states) == {c \in Clients : target[c] = p /\ conn[c] \in states}

TypeOK ==
  /\ client \in [Clients -> CallStates] /\ outcome \in [Clients -> Outcomes]
  /\ target \in [Clients -> Procs \cup {NoProc}]
  /\ begun \in [Clients -> 0..MaxSaves]
  /\ startLock \in Clients \cup {NoClient}
  /\ conn \in [Clients -> ConnStates] /\ requested \subseteq Clients
  /\ answer \in [Clients -> {"none", "ok", "refused", "failed"}]
  /\ executed \in [Clients -> Nat]
  /\ proc \in [Procs -> ProcStates] /\ loaded \in [Procs -> 0..MaxSaves]
  /\ inflight \in [Procs -> 0..MaxClients] /\ waiting \in [Procs -> 0..WaitSlots]
  /\ owner \in Procs \cup {NoProc} /\ record \in Procs \cup {NoProc}
  /\ settings \in 0..MaxSaves /\ work \subseteq Clients /\ mishaps \in 0..MaxMishaps

Init ==
  /\ client = [c \in Clients |-> "new"] /\ outcome = [c \in Clients |-> "none"]
  /\ target = [c \in Clients |-> NoProc] /\ begun = [c \in Clients |-> 0]
  /\ startLock = NoClient
  /\ conn = [c \in Clients |-> "none"] /\ requested = {} /\ answer = [c \in Clients |-> "none"]
  /\ executed = [c \in Clients |-> 0]
  /\ proc = [p \in Procs |-> "off"] /\ loaded = [p \in Procs |-> 0]
  /\ inflight = [p \in Procs |-> 0] /\ waiting = [p \in Procs |-> 0]
  /\ owner = NoProc /\ record = NoProc /\ settings = 0 /\ work = {} /\ mishaps = 0

-----------------------------------------------------------------------------
(* Frontends: CoordinatorClient *)

\* What CoordinatorClient._record sees: a record of a process that lives.
Recorded == record # NoProc /\ Living(record)

\* What server.call_tool hands to the host: a result or an attachment that it cannot validate
\* or read becomes an error, whatever the request has done.
Told(result) == IF Malformed THEN {result, "failed"} ELSE {result}

\* The call returns or raises, releases the start lock and closes its connection.
Finish(c, result) ==
  /\ client' = [client EXCEPT ![c] = "done"]
  /\ \E told \in Told(result) : outcome' = [outcome EXCEPT ![c] = told]
  /\ answer' = IF conn[c] \in {"closed", "gone"} THEN [answer EXCEPT ![c] = "none"] ELSE answer
  /\ startLock' = IF startLock = c THEN NoClient ELSE startLock

\* Mutant: the fingerprint of the configuration is not compared.
FoundAnyConfiguration(c) ==
  /\ Recorded
  /\ target' = [target EXCEPT ![c] = record]
  /\ client' = [client EXCEPT ![c] = "found"]
  /\ startLock' = IF startLock = c THEN NoClient ELSE startLock
  /\ UNCHANGED <<outcome, answer>>

\* _record accepts only its own version and configuration ...
Found(c) ==
  /\ Recorded /\ loaded[record] = settings
  /\ target' = [target EXCEPT ![c] = record]
  /\ client' = [client EXCEPT ![c] = "found"]
  /\ startLock' = IF startLock = c THEN NoClient ELSE startLock
  /\ UNCHANGED <<outcome, answer>>
\* ... and refuses a living owner whose configuration, version or birth it cannot accept.
Conflict(c) ==
  /\ Recorded /\ (loaded[record] # settings \/ Unverifiable)
  /\ Finish(c, "conflict") /\ UNCHANGED target

ClientFrame ==
  UNCHANGED <<conn, requested, executed, procVars, owner, record, settings, work, mishaps>>

\* The call and the first look of _ensure.
Look(c) ==
  /\ client[c] = "new"
  /\ begun' = [begun EXCEPT ![c] = settings]
  /\ \/ Found(c)
     \/ Conflict(c)
     \/ /\ ~Recorded
        /\ client' = [client EXCEPT ![c] = "starting"]
        /\ UNCHANGED <<outcome, target, startLock, answer>>
  /\ ClientFrame

\* The second look, under the start lock, and the launch when there is still no service.
Start(c) ==
  /\ client[c] = "starting" /\ startLock = NoClient
  /\ UNCHANGED begun
  /\ \/ (Found(c) \/ Conflict(c)) /\ ClientFrame
     \/ ~Recorded /\ Finish(c, "start_blocked") /\ UNCHANGED target /\ ClientFrame
     \/ /\ ~Recorded
        /\ \E p \in Procs :
             /\ proc[p] = "off"
             /\ proc' = [proc EXCEPT ![p] = "spawned"]
             /\ target' = [target EXCEPT ![c] = p]
        /\ client' = [client EXCEPT ![c] = "polling"] /\ startLock' = c
        /\ UNCHANGED <<outcome, connVars, loaded, inflight, waiting, owner, record, settings,
                       work, mishaps>>

\* One round of the readiness loop that ends it: a record, an exit, or 15 seconds.
Poll(c) ==
  /\ client[c] = "polling"
  /\ \/ Found(c)
     \/ Conflict(c)
     \/ ~Recorded /\ ~Living(target[c]) /\ Finish(c, "start_failed") /\ UNCHANGED target
     \/ Finish(c, "start_unconfirmed") /\ UNCHANGED target
  /\ UNCHANGED begun /\ ClientFrame

\* A listener answers connect as long as it exists: the operating system queues the client.
Listening(p) == proc[p] \in (Cored \cup {"opening"}) \ {"draining"}

Connect(c) ==
  /\ client[c] = "found" /\ Listening(target[c])
  /\ client' = [client EXCEPT ![c] = "connected"]
  /\ conn' = [conn EXCEPT ![c] = "backlog"]
  /\ UNCHANGED <<outcome, target, begun, startLock, requested, answer, executed, procVars,
                 owner, record, settings, work, mishaps>>

\* The identity of the process is checked again before anything is sent.
Send(c) ==
  /\ client[c] = "connected"
  /\ \/ /\ Living(target[c])
        /\ client' = [client EXCEPT ![c] = "sent"] /\ requested' = requested \cup {c}
        /\ UNCHANGED <<outcome, startLock, answer>>
     \/ ~Living(target[c]) /\ Finish(c, "identity_mismatch") /\ UNCHANGED requested
  /\ UNCHANGED <<target, begun, conn, executed, procVars, owner, record, settings,
                 work, mishaps>>

Answered(c) ==
  /\ client[c] = "sent" /\ conn[c] \in {"closed", "gone"} /\ answer[c] # "none"
  /\ Finish(c, answer[c])
  /\ UNCHANGED <<target, begun>> /\ ClientFrame

\* Mutant: an unconfirmed request is sent once more.
RetriesUnconfirmed(c) ==
  /\ client[c] \notin {"new", "done"}
  /\ \/ Finish(c, "unconfirmed") /\ UNCHANGED conn
     \/ /\ client[c] = "sent" /\ conn[c] = "gone" /\ Listening(target[c])
        /\ conn' = [conn EXCEPT ![c] = "backlog"]
        /\ UNCHANGED <<client, outcome, startLock, answer>>
  /\ UNCHANGED <<target, begun, requested, executed, procVars, owner, record, settings,
                 work, mishaps>>

\* A lock, connection, send or response that fails or takes too long: never repeated.
Unconfirmed(c) ==
  /\ client[c] \notin {"new", "done"}
  /\ Finish(c, "unconfirmed")
  /\ UNCHANGED <<target, begun>> /\ ClientFrame

\* Setup saves other settings.
SaveSettings ==
  /\ settings < MaxSaves /\ settings' = settings + 1
  /\ UNCHANGED <<callVars, startLock, connVars, procVars, owner, record, work, mishaps>>

-----------------------------------------------------------------------------
(* Service processes: Coordinator *)

Step(p, from, to) ==
  /\ proc[p] = from
  /\ proc' = [proc EXCEPT ![p] = to]
  /\ UNCHANGED <<callVars, startLock, connVars, inflight, waiting, settings>>

\* The connections of p that no handler of p will serve any more.
Dropped(p, states) ==
  [c \in Clients |-> IF c \in ConnectionsOf(p, states) THEN "gone" ELSE conn[c]]

\* Coordinator.__init__ resolves the configuration on its own.
Load(p) ==
  /\ Step(p, "spawned", "ready")
  /\ loaded' = [loaded EXCEPT ![p] = settings]
  /\ UNCHANGED <<owner, record, work, mishaps>>

\* Mutant: a held lifetime lock does not stop the process.
TakesHeldRoot(p) ==
  /\ Step(p, "ready", "opening") /\ owner' = p /\ UNCHANGED <<loaded, record, work, mishaps>>

\* The lifetime lock is tried once; the loser exits.
OwnRoot(p) ==
  /\ \/ owner = NoProc /\ Step(p, "ready", "opening") /\ owner' = p
     \/ owner # NoProc /\ Step(p, "ready", "dead") /\ UNCHANGED owner
  /\ UNCHANGED <<loaded, record, work, mishaps>>

\* The listener or the Core cannot be constructed.
OpenFails(p) ==
  /\ Step(p, "opening", "drained") /\ mishaps < MaxMishaps /\ mishaps' = mishaps + 1
  /\ UNCHANGED <<loaded, owner, record, work>>

\* The Core is constructed: it takes up the queued jobs and settles the others as unknown.
Publish(p) ==
  /\ Step(p, "opening", "serving")
  /\ record' = p
  /\ work' \in SUBSET work
  /\ UNCHANGED <<loaded, owner, mishaps>>

\* Mutant: whether work is active is asked before the handlers are counted.
IdleCheckReversed(p) ==
  /\ \/ work = {} /\ Step(p, "serving", "quiet")
     \/ inflight[p] = 0 /\ Step(p, "quiet", "idle")
     \/ inflight[p] # 0 /\ Step(p, "quiet", "serving")
  /\ UNCHANGED <<loaded, owner, record, work, mishaps>>

\* The idle decision: no handler is in flight, and then no work is active.
IdleCheck(p) ==
  /\ \/ inflight[p] = 0 /\ Step(p, "serving", "quiet")
     \/ work = {} /\ Step(p, "quiet", "idle")
     \/ work # {} /\ Step(p, "quiet", "serving")
  /\ UNCHANGED <<loaded, owner, record, work, mishaps>>

\* has_active_work cannot read a state, or accept raises something else than a timeout.
LoopFails(p) ==
  /\ \E s \in {"serving", "quiet"} : Step(p, s, "failing")
  /\ mishaps < MaxMishaps /\ mishaps' = mishaps + 1
  /\ UNCHANGED <<loaded, owner, record, work>>

\* The pool of handlers is joined; only an idle exit writes coordinator-stopped.json.
Join(p) ==
  /\ \E s \in {"idle", "failing"} : Step(p, s, "closing")
  /\ ConnectionsOf(p, Handled \cup {"closed"}) = {}
  /\ UNCHANGED <<loaded, owner, record, work, mishaps>>

\* Mutant: the lifetime lock is released with the listener, before the Core drains.
CloseListenerUnlocked(p) ==
  /\ proc[p] = "closing" /\ proc' = [proc EXCEPT ![p] = "draining"]
  /\ conn' = Dropped(p, {"backlog"}) /\ owner' = NoProc
  /\ UNCHANGED <<callVars, startLock, requested, answer, executed, loaded, inflight, waiting,
                 record, settings, work, mishaps>>

CloseListener(p) ==
  /\ proc[p] = "closing" /\ proc' = [proc EXCEPT ![p] = "draining"]
  /\ conn' = Dropped(p, {"backlog"})
  /\ UNCHANGED <<callVars, startLock, requested, answer, executed, loaded, inflight, waiting,
                 owner, record, settings, work, mishaps>>

\* Core.close waits for what was submitted to its pool.  A job that nobody submitted, or whose
\* settlement failed, is left to the next Core, so that any of the work may remain.
CloseCore(p) ==
  /\ Step(p, "draining", "drained")
  /\ UNCHANGED <<loaded, owner, record, work, mishaps>>

\* Only its own record.
Withdraw(p) ==
  /\ Step(p, "drained", "withdrawn")
  /\ record' = IF record = p THEN NoProc ELSE record
  /\ UNCHANGED <<loaded, owner, work, mishaps>>

Release(p) ==
  /\ Step(p, "withdrawn", "dead")
  /\ owner' = NoProc
  /\ UNCHANGED <<loaded, record, work, mishaps>>

\* The process dies: its lock and its connections go, its record and its jobs stay.
Crash(p) ==
  /\ Living(p) /\ mishaps < MaxMishaps /\ mishaps' = mishaps + 1
  /\ proc' = [proc EXCEPT ![p] = "dead"]
  /\ conn' = Dropped(p, Handled \cup {"backlog", "closed"})
  /\ answer' = [c \in Clients |->
       IF c \in ConnectionsOf(p, {"replying"}) THEN "none" ELSE answer[c]]
  /\ inflight' = [inflight EXCEPT ![p] = 0] /\ waiting' = [waiting EXCEPT ![p] = 0]
  /\ owner' = IF owner = p THEN NoProc ELSE owner
  /\ UNCHANGED <<callVars, startLock, requested, executed, loaded, record, settings, work>>

\* The worker of a living Core settles a job.
Settle(c) ==
  /\ c \in work /\ \E p \in Procs : proc[p] \in Cored
  /\ work' = work \ {c}
  /\ UNCHANGED <<callVars, startLock, connVars, procVars, owner, record, settings, mishaps>>

-----------------------------------------------------------------------------
(* Connections and their handlers; p is the process that holds the connection. *)

HandlerFrame == UNCHANGED <<callVars, startLock, requested, proc, loaded, owner, record,
                            settings, mishaps>>

\* Mutant: only the listener's connections are counted, not the handlers.
AcceptUncounted(c) ==
  LET p == target[c] IN
  /\ conn[c] = "backlog" /\ proc[p] = "serving"
  /\ Cardinality(ConnectionsOf(p, Handled)) < MaxClients
  /\ conn' = [conn EXCEPT ![c] = "receiving"]
  /\ inflight' = [inflight EXCEPT ![p] = @ + 1]
  /\ UNCHANGED <<answer, executed, waiting, work>> /\ HandlerFrame

\* A slot of the listener is free when its connection is closed, a handler's a step later.
Accept(c) ==
  LET p == target[c] IN
  /\ conn[c] = "backlog" /\ proc[p] = "serving"
  /\ Cardinality(ConnectionsOf(p, Handled)) < MaxClients
  /\ IF inflight[p] >= MaxClients
     THEN conn' = [conn EXCEPT ![c] = "gone"] /\ UNCHANGED inflight
     ELSE /\ conn' = [conn EXCEPT ![c] = "receiving"]
          /\ inflight' = [inflight EXCEPT ![p] = @ + 1]
  /\ UNCHANGED <<answer, executed, waiting, work>> /\ HandlerFrame

\* The handler of c has its response.
Respond(c, response) ==
  /\ conn' = [conn EXCEPT ![c] = "replying"]
  /\ answer' = [answer EXCEPT ![c] = response]

\* Core.call: a handler that raises, before or after its effect, and a malformed result fail.
CoreCall(c, effect, response) ==
  /\ response = "ok" => effect
  /\ executed' = [executed EXCEPT ![c] = IF effect THEN @ + 1 ELSE @]
  /\ work' = IF effect /\ Kind[c] = "run" THEN work \cup {c} ELSE work

\* recv_json, the identity check and dispatch.
Dispatch(c) ==
  /\ conn[c] = "receiving" /\ c \in requested /\ Kind[c] # "wait"
  /\ \E effect \in BOOLEAN, response \in {"ok", "failed"} :
       CoreCall(c, effect, response) /\ Respond(c, response)
  /\ UNCHANGED <<inflight, waiting>> /\ HandlerFrame

\* Mutant: waits are not counted.
WaitUncounted(c) ==
  /\ conn[c] = "receiving" /\ c \in requested /\ Kind[c] = "wait"
  /\ conn' = [conn EXCEPT ![c] = "waiting"]
  /\ executed' = [executed EXCEPT ![c] = @ + 1]
  /\ UNCHANGED <<answer, inflight, waiting, work>> /\ HandlerFrame

\* A wait takes a slot or is refused with WAIT_BUSY.
Wait(c) ==
  LET p == target[c] IN
  /\ conn[c] = "receiving" /\ c \in requested /\ Kind[c] = "wait"
  /\ IF waiting[p] < WaitSlots
     THEN /\ waiting' = [waiting EXCEPT ![p] = @ + 1]
          /\ conn' = [conn EXCEPT ![c] = "waiting"]
          /\ executed' = [executed EXCEPT ![c] = @ + 1] /\ UNCHANGED answer
     ELSE Respond(c, "refused") /\ UNCHANGED <<waiting, executed>>
  /\ UNCHANGED <<inflight, work>> /\ HandlerFrame

EndWait(c) ==
  /\ conn[c] = "waiting" /\ Respond(c, "ok")
  /\ waiting' = [waiting EXCEPT ![target[c]] = @ - 1]
  /\ UNCHANGED <<executed, inflight, work>> /\ HandlerFrame

\* Nothing came within three seconds, or the client closed the connection.
ReceiveFails(c) ==
  /\ conn[c] = "receiving" /\ c \notin requested
  /\ Respond(c, "failed")
  /\ UNCHANGED <<executed, inflight, waiting, work>> /\ HandlerFrame

\* The response is sent, or sending fails, or recording an unexpected error raised and there
\* is none; the connection is closed in any case.
Reply(c) ==
  /\ conn[c] = "replying"
  /\ conn' = [conn EXCEPT ![c] = "closed"]
  /\ \E sent \in BOOLEAN :
       answer' = [answer EXCEPT ![c] = IF sent /\ client[c] # "done" THEN @ ELSE "none"]
  /\ UNCHANGED <<executed, inflight, waiting, work>> /\ HandlerFrame

\* Mutant: the handler of a client that disconnected is never counted out.
LeaveServed(c) ==
  /\ conn[c] = "closed"
  /\ conn' = [conn EXCEPT ![c] = "gone"]
  /\ inflight' = [inflight EXCEPT ![target[c]] = IF client[c] = "done" THEN @ ELSE @ - 1]
  /\ UNCHANGED <<answer, executed, waiting, work>> /\ HandlerFrame

Leave(c) ==
  /\ conn[c] = "closed"
  /\ conn' = [conn EXCEPT ![c] = "gone"]
  /\ inflight' = [inflight EXCEPT ![target[c]] = @ - 1]
  /\ UNCHANGED <<answer, executed, waiting, work>> /\ HandlerFrame

-----------------------------------------------------------------------------
\* The threads: a frontend in its call, the handler of a connection (the accept loop and the
\* pool take turns), and the main thread of a service.
Call(c) == Look(c) \/ Start(c) \/ Poll(c) \/ Connect(c) \/ Send(c) \/ Answered(c) \/ Unconfirmed(c)
Handle(c) == Accept(c) \/ Dispatch(c) \/ Wait(c) \/ ReceiveFails(c) \/ Reply(c) \/ Leave(c)
Run(p) ==
  \/ Load(p) \/ OwnRoot(p) \/ OpenFails(p) \/ Publish(p) \/ IdleCheck(p)
  \/ Join(p) \/ CloseListener(p) \/ CloseCore(p) \/ Withdraw(p) \/ Release(p)

Next ==
  \/ \E c \in Clients : Call(c) \/ Handle(c) \/ EndWait(c) \/ Settle(c)
  \/ \E p \in Procs : Run(p) \/ LoopFails(p) \/ Crash(p)
  \/ SaveSettings

Spec == Init /\ [][Next]_vars

\* The threads of a service go on; nothing is assumed of users and frontends, which may stop
\* anywhere.  Waits (EndWait) are left to the properties.  That a job is settled is Executor's
\* AcceptedSettles; a wait that never ends may prevent it (KeptBusy).
ServiceFairness ==
  /\ \A c \in Clients :
       /\ WF_vars(Accept(c)) /\ WF_vars(Dispatch(c)) /\ WF_vars(Wait(c))
       /\ WF_vars(ReceiveFails(c)) /\ WF_vars(Reply(c)) /\ WF_vars(Leave(c))
       /\ WF_vars(Settle(c))
  /\ \A p \in Procs : WF_vars(Run(p))

FairSpec == Spec /\ ServiceFairness

-----------------------------------------------------------------------------
(* Properties *)

\* At most one process holds a Core of the root, whatever is launched beside it, and it keeps
\* the lifetime lock until that Core has drained.  Executor's MaxLive = 1 rests on this.
OneCore ==
  LET Holding == Cored \cup {"opening"}
  IN  \A p, q \in Procs : proc[p] \in Holding /\ proc[q] \in Holding => p = q

\* A serving or leaving service can be found: the record names it and no other living process
\* was ever named instead, so that nobody is launched beside it in vain.
RecordTrue ==
  /\ \A p \in Procs : proc[p] \in Cored => record = p
  /\ Recorded => owner = record

\* What the caller is told is true, now and for the rest of time: a request takes effect at
\* most once, a definite refusal means never, and a result means it did.
HonestOutcome ==
  \A c \in Clients :
    /\ executed[c] <= 1
    /\ outcome[c] = "ok" => executed[c] = 1
    /\ outcome[c] \in Definite => executed[c] = 0

\* No request runs under authorized folders older than those saved when its call began, even
\* though the service loads them once and lives on.
SettingsHonest == \A c \in Clients : executed[c] > 0 => loaded[target[c]] >= begun[c]

\* The record of an idle exit ("active_jobs": 0) is true: no accepted job is unsettled and no
\* handler can still accept one, although both are observed at different moments.
IdleExitHonest ==
  \A p \in Procs : proc[p] = "idle" => work = {} /\ ConnectionsOf(p, Handled) = {}

\* Waits never keep other requests from the service, even waits that never end: a submission
\* or a cancel that was sent in time is taken up, unless its service stops.
RequestServed ==
  \A c \in {d \in Clients : Kind[d] # "wait"}, p \in Procs :
    /\ c \in requested /\ conn[c] \in {"backlog", "receiving"}
    /\ target[c] = p /\ proc[p] \in {"serving", "quiet"}
    ~> conn[c] \notin {"backlog", "receiving"} \/ proc[p] \notin {"serving", "quiet"}

\* A service in which no wait goes on for ever ends: the counts of handlers come back
\* whatever failed, the idle decision is reached, and every step of the exit after it.
ServiceEnds ==
  \A p \in Procs :
    []<>(proc[p] \in {"off", "dead"} \/ ConnectionsOf(p, {"waiting"}) # {})

-----------------------------------------------------------------------------
(* What it all comes to for a caller: the promise of JobService.           *)

Holders == {p \in Procs : proc[p] \in Cored \cup {"opening"}}

\* The settings under which a request took effect are those of the process it was sent to.
Ran == [c \in Clients |-> IF executed[c] > 0 THEN loaded[target[c]] ELSE 0]

Heard == [c \in Clients |->
  IF outcome[c] = "none" THEN IF client[c] = "new" THEN "new" ELSE "open"
  ELSE IF outcome[c] = "ok" THEN "done"
  ELSE IF outcome[c] \in Definite THEN "never" ELSE "unsure"]

Promise == INSTANCE JobService WITH
  holders <- Holders, saved <- settings, asked <- begun, effects <- executed, ran <- Ran,
  heard <- Heard, jobs <- work

\* Frontends, processes and connections together keep the promise of JobService: no step of
\* any of them takes the root twice, lets a request take effect again, after a refusal or
\* under outdated settings, settles a job without a Core, or takes an answer back.
ServicePromise == Promise!Spec
=============================================================================
