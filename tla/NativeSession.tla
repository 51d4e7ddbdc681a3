----------------------------- MODULE NativeSession -----------------------------
(***************************************************************************)
(* One call of OfficialBackend.execute (backend.py): the coroutine that    *)
(* drives the official server, the watcher task that observes the MATLAB   *)
(* process from outside (native_session.py), and the processes of the      *)
(* machine.  The two share one event loop, so each step below is what one  *)
(* of them does between two awaits; the processes move at any time.        *)
(*                                                                         *)
(* Nothing is assumed of the official server or of MATLAB: they may        *)
(* answer anything or nothing, hang, die, or run the launcher in a session *)
(* that the user had open.  Only the session that is to run the launcher   *)
(* is modelled, at most one in a call (Launch).  Every limit in seconds is *)
(* a step that may come at any time its wait lasts.                        *)
(***************************************************************************)
CONSTANTS
  own,       \* the MATLAB process that the server starts for this call
  users,     \* a MATLAB session the user has open
  heir,      \* a process that is given the identifier of one that ended
  NoProcess,
  Matlab,    \* processes that run MATLAB.exe of the selected installation
  Receipts   \* what a receipt may say

Processes == {own, users, heir}

ASSUME SessionConstants ==
  /\ own # users /\ own # heir /\ users # heir
  /\ NoProcess \notin Processes
  /\ Matlab \subseteq Processes
  /\ "none" \notin Receipts

VARIABLES
  call,      \* where the coroutine stands
  completed, \* the body of _execute ended normally
  watcher,   \* where the task _observe stands
  \* native-lifecycle.json
  identity,  \* native_identity: the process whose handle the watcher holds
  exited,    \* native_exited
  \* the machine
  life,      \* of each process
  born,      \* when: before the call, during it, or after the marker was written
  host,      \* the process in which the server runs the launcher
  marker,    \* native-session.json: "own" names the host, "foreign" cannot be accepted
  receipt    \* receipt.json

recordVars == <<identity, exited>>
machineVars == <<life, born, host, marker, receipt>>
vars == <<call, completed, watcher, recordVars, machineVars>>

Body == {"preparing", "connecting", "calling", "answered", "leaving"}
Finishing == {"ending", "waiting", "expired", "concluding"}
Over == {"returned", "raised"}

TypeOK ==
  /\ call \in {"begin"} \cup Body \cup Finishing \cup Over
  /\ completed \in BOOLEAN
  /\ watcher \in {"none", "reading", "watching", "ended", "broken"}
  /\ identity \in Processes \cup {NoProcess}
  /\ exited \in {"unobserved", "alive", "exited"}
  /\ life \in [Processes -> {"unborn", "alive", "gone"}]
  /\ born \in [Processes -> {"before", "during", "after"}]
  /\ host \in {own, users, NoProcess}
  /\ marker \in {"none", "own", "foreign"}
  /\ receipt \in Receipts \cup {"none"}

Init ==
  /\ call = "begin" /\ completed = FALSE /\ watcher = "none"
  /\ identity = NoProcess /\ exited = "unobserved"
  /\ life = [p \in Processes |-> IF p = users THEN "alive" ELSE "unborn"]
  /\ born = [p \in Processes |-> "before"]
  /\ host = NoProcess /\ marker = "none" /\ receipt = "none"

-----------------------------------------------------------------------------
(* OfficialBackend.execute *)

Step(from, to) == call = from /\ call' = to

\* watcher.begin writes the record; nothing catches its failure.
Begin ==
  /\ \/ Step("begin", "preparing")
     \/ Step("begin", "raised")
  /\ UNCHANGED <<completed, watcher, recordVars, machineVars>>

\* Binary, checksum and installation are there, the launcher is written, the server starts.
Prepare ==
  /\ Step("preparing", "connecting")
  /\ UNCHANGED <<completed, watcher, recordVars, machineVars>>

\* The server answered initialize; the watcher starts before the only native call.
Connect ==
  /\ Step("connecting", "calling")
  /\ watcher' = "reading"
  /\ UNCHANGED <<completed, recordVars, machineVars>>

Answer ==
  /\ Step("calling", "answered")
  /\ UNCHANGED <<completed, watcher, recordVars, machineVars>>

\* The answer is recorded; an error without a receipt is raised (BodyFails).
Record ==
  /\ Step("answered", "leaving")
  /\ UNCHANGED <<completed, watcher, recordVars, machineVars>>

\* The server is closed and its logs are archived.
Leave ==
  /\ Step("leaving", "ending")
  /\ completed' = TRUE
  /\ UNCHANGED <<watcher, recordVars, machineVars>>

\* Any step of the body raises: a check, a write, the transport, an error answer, or a limit
\* of 240 seconds, which bounds initialize and the native call.
BodyFails ==
  /\ call \in Body /\ call' = "ending"
  /\ UNCHANGED <<completed, watcher, recordVars, machineVars>>

\* finish records what the body did; if that fails the call raises.
Finish ==
  /\ \/ Step("ending", "waiting") /\ UNCHANGED watcher
     \/ Step("ending", "raised") /\ watcher' = IF watcher = "none" THEN "none" ELSE "ended"
  /\ UNCHANGED <<completed, recordVars, machineVars>>

\* The watcher ended by itself, or never began; an exception of its own ends the call.
Awaited ==
  /\ \/ watcher \in {"none", "ended"} /\ Step("waiting", "concluding")
     \/ watcher = "broken" /\ Step("waiting", "raised")
  /\ UNCHANGED <<completed, watcher, recordVars, machineVars>>

\* Mutant: the exit is awaited without a limit once the process is known.
ExpireUnidentified ==
  /\ watcher = "reading" /\ Step("waiting", "expired")
  /\ UNCHANGED <<completed, watcher, recordVars, machineVars>>

\* 20 seconds without the exit.
Expire ==
  /\ watcher \in {"reading", "watching"} /\ Step("waiting", "expired")
  /\ UNCHANGED <<completed, watcher, recordVars, machineVars>>

\* The watcher is cancelled, unless it came first in the same turn of the loop.
CancelWatcher ==
  /\ \/ watcher # "broken" /\ Step("expired", "concluding")
     \/ Step("expired", "raised")
  /\ watcher' = IF watcher = "broken" THEN "broken" ELSE "ended"
  /\ UNCHANGED <<completed, recordVars, machineVars>>

\* Mutant: a normal end of the body is enough.
ConcludeUnverified ==
  /\ call = "concluding"
  /\ call' = IF completed THEN "returned" ELSE "raised"
  /\ UNCHANGED <<completed, watcher, recordVars, machineVars>>

\* The call returns after a normal body and a verified exit, and raises otherwise.
Conclude ==
  /\ call = "concluding"
  /\ call' = IF completed /\ exited = "exited" THEN "returned" ELSE "raised"
  /\ UNCHANGED <<completed, watcher, recordVars, machineVars>>

-----------------------------------------------------------------------------
(* NativeSessionWatcher._observe *)

\* Who has the identifier in the marker now.
Holder == IF life[host] = "alive" THEN host ELSE heir

\* Mutant: the time of birth is not compared.
ValidatedByName(p) == p \in Matlab

\* The executable is the expected one, and the process was born between the construction of
\* the watcher and the writing of the marker.
Validated(p) == p \in Matlab /\ born[p] = "during"

Watch(to) ==
  /\ watcher' = to
  /\ UNCHANGED <<call, completed, machineVars>>

\* The marker is there and its process can be opened and validated.
Identify ==
  /\ watcher = "reading" /\ marker = "own"
  /\ life[Holder] = "alive" /\ Validated(Holder)
  /\ identity' = Holder /\ exited' = "alive"
  /\ Watch("watching")

\* Mutant: a rejection is recorded in the place of the exit.
RefuseRecorded ==
  /\ watcher = "reading" /\ marker # "none"
  /\ exited' = "rejected" /\ UNCHANGED identity
  /\ Watch("ended")

\* Mutant: a process that cannot be opened is taken for one that has ended.
RefuseAsExit ==
  /\ watcher = "reading" /\ marker = "own"
  /\ identity' = host /\ exited' = "exited"
  /\ Watch("ended")

\* The marker or the process is rejected, nobody has the identifier, or the system does not
\* let the process be opened, which it may do to any.
Refuse ==
  /\ watcher = "reading"
  /\ marker # "none"
  /\ UNCHANGED recordVars /\ Watch("ended")

\* Its handle stays bound to the process after the identifier has another holder.
ObserveExit ==
  /\ watcher = "watching" /\ life[identity] = "gone"
  /\ exited' = "exited" /\ UNCHANGED identity
  /\ Watch("ended")

\* The observation fails ("ended"), or a write of the record does ("broken").
WatcherFails ==
  /\ watcher \in {"reading", "watching"}
  /\ \E to \in {"ended", "broken"} : Watch(to)
  /\ UNCHANGED recordVars

-----------------------------------------------------------------------------
(* The official server, MATLAB and the rest of the machine *)

Machine == UNCHANGED <<call, completed, watcher, recordVars>>

\* The server is to start a session of its own; it may do so before the native call.  One per
\* call is modelled: what a server starts beside it, or after its answer, runs no launcher.
Launch ==
  /\ call \in {"connecting", "calling"} /\ host = NoProcess
  /\ \/ host' = own /\ life' = [life EXCEPT ![own] = "alive"]
        /\ born' = [born EXCEPT ![own] = "during"]
     \/ host' = users /\ life[users] = "alive" /\ UNCHANGED <<life, born>>
  /\ UNCHANGED <<marker, receipt>> /\ Machine

HostWorks == host # NoProcess /\ life[host] = "alive" /\ watcher # "none"

\* The launcher writes its marker, with an identifier that is not a number on an old release.
WriteMarker ==
  /\ HostWorks /\ marker = "none"
  /\ marker' \in {"own", "foreign"}
  /\ UNCHANGED <<life, born, host, receipt>> /\ Machine

\* Then it executes the request.
CommitReceipt ==
  /\ HostWorks /\ marker # "none" /\ receipt = "none"
  /\ receipt' \in Receipts
  /\ UNCHANGED <<life, born, host, marker>> /\ Machine

\* A process ends, for whatever reason.
Exit(p) ==
  /\ life[p] = "alive"
  /\ life' = [life EXCEPT ![p] = "gone"]
  /\ UNCHANGED <<born, host, marker, receipt>> /\ Machine

\* The identifier of the host is given to another process.
Inherit ==
  /\ host # NoProcess /\ life[host] = "gone" /\ life[heir] = "unborn"
  /\ life' = [life EXCEPT ![heir] = "alive"]
  /\ born' = [born EXCEPT ![heir] = IF marker = "none" THEN "during" ELSE "after"]
  /\ UNCHANGED <<host, marker, receipt>> /\ Machine

-----------------------------------------------------------------------------
Coroutine ==
  \/ Begin \/ Prepare \/ Connect \/ Answer \/ Record \/ Leave \/ BodyFails
  \/ Finish \/ Awaited \/ Expire \/ CancelWatcher \/ Conclude

Next ==
  \/ Coroutine
  \/ Identify \/ Refuse \/ ObserveExit \/ WatcherFails
  \/ Launch \/ WriteMarker \/ CommitReceipt \/ Inherit
  \/ \E p \in Processes : Exit(p)

Spec == Init /\ [][Next]_vars

\* The event loop runs the coroutine while it has something to do, and its limits see to it
\* that it has.  Nothing is assumed of the watcher, the server and the processes.
FairSpec == Spec /\ WF_vars(Coroutine)

-----------------------------------------------------------------------------
(* Properties *)

\* A process that the record names is the one this call launched: never a session that the user
\* had open, in which the server ran the launcher, nor one that was given the identifier of the
\* session after it ended.
IdentityTrue == identity # NoProcess => identity = own /\ host = own

\* "native_exited": true means that the session is gone and will never write again, however late
\* the watcher looked and whoever has its identifier now.
ExitTrue == exited = "exited" => host # NoProcess /\ life[host] = "gone"

\* The call keeps what Core builds on: it returns only when the session is gone, and the receipt
\* is written at most once and only while the session lives.
Promise == INSTANCE BackendCall WITH
  call <- IF call \in Over THEN call ELSE "calling",
  session <- IF host # NoProcess /\ life[host] = "gone" THEN "stopped" ELSE "running"

CallPromise == Promise!Spec

\* The call ends even if the server never answers and MATLAB never exits.  Executor's fairness of
\* BackendReturns and BackendRaises rests on this.
CallEnds == <>(call \in Over)
=============================================================================
