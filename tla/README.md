# MATLAB Companion: verification project

TLA+ models of the durable job service in `src/src/matlab_companion`, checked with TLC and
proved about with TLAPS. The paths below are relative to that directory unless they begin
with `src/`.

## The system

A stdio MCP server (`server.py`) hands each tool call to a client (`client.py`) which starts,
if needed, one *coordinator* process per installation root (`coordinator.py`). The coordinator
holds a `Core` (`core.py`): it registers jobs, executes them one at a time in a fresh MATLAB
session through the official backend (`backend.py`), and watches that session's process
(`native_session.py`). Everything that must survive a crash is a JSON file under the root,
written by `storage.atomic_json`; every exclusion between processes is an operating-system
lock taken by `storage.file_lock`, which disappears with its process. When the outcome of a
session is uncertain, a quarantine file blocks execution until a user clears it in the Setup
window (`setup_ui.py`).

| Component | State it keeps | Operations | Hard part | What makes it correct | Module |
| --- | --- | --- | --- | --- | --- |
| Core: queue and execution (`core.py`) | `jobs/<id>/{state,scheduler,dispatch}.json`, `cancel.flag`; `idempotency.json`; `executor-active.json`; `executor-quarantine.json`; one worker pool and its futures | register, execute, settle a failure, retry a settlement, cancel, reconcile, recover | a stop between any two writes; failing writes; several threads and processes on one root; late receipts | no replay, one dispatch per key, no session without a barrier, honest errors, settled jobs stay settled, accepted jobs settle | Executor |
| Core: files of a job (`core.py`) | `inputs/`, the staged copy, `receipt.json`, outputs, `artifacts.json`, `result.json`, delivery records | inspect, take in, reconcile, deliver | files the user may change between any two reads; two reconciliations at once | the job computes on what its signature names; completed jobs can be read; a revocation is final; a delivery is what was committed | Outcome |
| MATLAB session (`src/matlab/+companion`) | `receipt.json`, outputs | run a recipe, observe a cancellation, commit one receipt | outlives its caller | commits at most one receipt, cancelled only when asked | Executor, Outcome, NativeSession |
| Backend and watcher | `native-lifecycle.json`, `native-session.json` | launch, await the response, await the exit | time limits against a late exit; reuse of process ids | returns only after the observed exit of its own session | NativeSession, BackendCall |
| Coordinator service | `coordinator.json`, `coordinator-stopped.json`, in-flight count, wait slots | accept, handle, idle exit | a request during idle exit; unreadable state | one Core at a time; never exits idle with active work or a handler | Service |
| Client, MCP call | the start lock | find or start the service, one request, what its caller is told | unconfirmed readiness; lost responses; changed settings | a definite answer is true; no automatic repetition of a write | Service |
| IPC (`ipc.py`) | connections, pending accept | accept, frame, close | deadlines, slots | slots returned; no wait keeps others out | Service |
| Storage | temporary files, lock files | `atomic_json`, `read_json`, `file_lock` | a stop between write and replace | readers see the old or the new document | Setup, a variable elsewhere |
| Setup (`setup_ui.py`) | settings and their copies, connection record, the two executor markers | save, connect, roll back, clear the quarantine | external command fails midway; two windows; markers of different jobs | loses no folder; touches no foreign entry; clears only what was confirmed | Setup, Executor |
| Diagnostics, contracts, recipes | none | observation, validation, numerics | bounds | not state machines | none |

The components meet in the files and locks of the root; the client and the coordinator also in
one request and one response per connection; `Core` and MATLAB only through `request.json`,
`cancel.flag`, `receipt.json` and the process's exit.

## Modules

| Module | Subject |
| --- | --- |
| **Executor** | `Core`'s registration, worker, failure settlement, recovery, cancel and reconcile, with `clear_quarantine`, the sessions, and processes that start, fail in their constructor and die |
| **JobLifecycle** | the abstract promise of durable execution about a job: accepted within a limit, dispatched once, told the truth, settled for good; `Executor` implements it |
| **Outcome** | the files of one job: inspection, intake, receipt, reconciliations and deliveries at the grain of their reads and writes |
| **NativeSession** | one `OfficialBackend.execute`, its watcher, and the processes of the machine |
| **BackendCall** | the abstract promise of such a call; `NativeSession` implements it |
| **Service** | frontends that find or start a service, the processes that compete for a root, their connections and handlers |
| **JobService** | the abstract promise of the on-demand service to its callers: one Core at a time, an effect at most once and never after a refusal, settings not older than the call, jobs settled only by a Core; `Service` implements it |
| **Setup** | Setup windows: settings, Codex connection, quarantine, with `atomic_json` taken apart |
| **MCExecutor, MCOutcome, MCService, MCSetup** | symmetry and constant functions for TLC |
| **ExecutorProofs, ExecutorFileProofs, ExecutorJobProofs, OutcomeProofs, NativeSessionProofs, ServiceProofs, ServiceCountProofs, SetupProofs** | theorems |

How they fit together:

* `Executor` lets a backend call return only after its session is gone and raise at any time,
  and a session commit at most one receipt, also late. That is `BackendCall`, and
  `NativeSession` implements it (`CallPromise`, with the refinement mapping in the module).
  Its fairness of `BackendReturns` and `BackendRaises` is `CallEnds`.
* What clients read of a job in `Executor` evolves as `JobLifecycle` says (`JobPromise`). The mapping
  takes the three active states as "open", the existence of `dispatch.json` as the dispatch, and
  the errors that deny a dispatch as what the client is told.
* `Executor`'s runs with one living Core at a time rest on `Service`'s `OneCore`.
  `executor_faults` and `executor_queue` allow two at once as well, so that the files alone are
  seen to protect the jobs.
* `Executor` takes a reconciliation as one step with any outcome the files allow; `Outcome`
  splits it, and drops queue and dispatch instead. `JobLifecycle` is a promise at the grain of
  `Executor`: in `Outcome` a reconciliation that began before a revocation may complete the job
  once more, which the promise forbids.
* In `Service` a job is work that some Core accepted and has not settled.
* Frontends, connections and processes of `Service` together keep the promise of `JobService`
  (`ServicePromise`). The mapping takes the processes between construction and drain of a Core as
  the holders of the root, the settings its process has loaded as those a request ran under,
  and the outcomes as what the caller knows: "done", "never" or "unsure". After "unsure" the
  request may still take effect, after "never" it may not.
* `Setup` has only Core's side of the two markers; `Executor` has the whole, with one window.

### How Executor corresponds to the code

A step is one durable write (`atomic_json`, `write_text`, `unlink`) or the reads and the write
that a lock makes indivisible for every other reader. A `Core` is one process lifetime. Each
has two threads that can own execution: its single pool worker, and the service thread that
runs `has_active_work`. `pc` says where a thread stands: `checking` to `returned` is
`_execute_owned`, `failing` to `releasing` is `_execution_failed`.

* *Registration* (`_run`): `Register` and `CommitIndex` under the recovery and index locks, with
  a stop or a failing index write between `state.json` and `idempotency.json`. Recovery takes
  the same two locks in the same order, so one variable stands for both.
* *Execution* (`_execute`, `_execute_owned`): marker, `dispatch.json`, `running` state, backend
  call, reconcile, quarantine and release are separate steps; each guard is the code's early
  return. `CallBackend` merges the save of `running` with the call, which no other thread can
  tell apart except by a stop that leaves a dispatched job without a session; that stop is
  the one after `WriteDispatch`.
* *Failure* (`_execution_failed`, `has_active_work`): `WorkerFault`, `BusyFault` and
  `FailureFault` are persistence calls that raise; a future that failed is kept in `broken` and
  retried by the service thread. `QuarantineUncertain` merges the quarantine with `cancel.flag`:
  a failure between them is one before both, which the retry repeats, with the quarantine early.
  `BusyFault` is the one that raises without the lock, after a lock timeout.
* *Recovery* (`_recover_jobs`): `BeginRecovery` publishes an abandoned marker, the scan takes
  the known jobs in any order (the order of a directory listing), and the quarantine and the
  `unknown` state are two steps. `RecoverQueued` merges the index entry, the scheduler and the
  submission: a stop between them is repeated without effect by the next scan.
  `RecoveryFault` is a lock that stays busy or a write that raises. In a request the scan is
  given up; in the constructor the Core is `closing`: what its worker has not taken is
  cancelled, and `Close` ends the process when the worker is done.
* *Reconcile* (`_reconcile`): one step that may end in any outcome the receipt allows,
  including the ones of reads that fail. A manifest of an earlier, stopped reconcile may revoke
  any job with a completed receipt.
* *Cancel*: the flag, then the state under its lock, from a state that was read before.
* *Sessions*: `native` is `running` from the backend call until the session is gone; a session
  that never starts is one that stops without a receipt.
* *Idleness*: `idle` has the Cores whose service is idle; `IdleTime` is the passing of
  `idle_seconds`, and the request that only reads and ends it, as every other request does.
  `has_active_work` retries all failed futures in one call; in the model a request may come
  between two of them, which only postpones more.
* *Processes*: an idle exit of the coordinator is a `Crash` at a moment without work; it counts
  against `MaxCrashes`.
* *Setup*: `ClearQuarantine` under both locks. What the user established first is a constant:
  `ConfirmsEverySession` FALSE is what the window asks ("the displayed job's owned MATLAB
  session has stopped"), TRUE is a user who checks every session.

Left out because the modelled code cannot reach it: the early return and the `dispatch.json`
and `running` branches at the start of `_execute_owned`, the dispatched branch of a lock
timeout, and the `JOB_REGISTRATION_INCOMPLETE` branch for stores of older versions. `FreshWork`
states that all but the last are unreachable: a worker is never given a job that somebody else
settled, dispatched or runs. Signatures are left out because a job identifier in the index
determines its signature. A process identity is exact: reuse of process ids and unobservable
identities, which make `_owner_may_be_alive` answer yes, are not modelled here (`NativeSession`
has them for the watcher).

The test and the write of `_publish_quarantine` are two steps (`FindNoQuarantine`, then one of
`PublishPrevious`, `QuarantineSuspect`, `QuarantineUncertain` by a thread in `publishing`):
recovery's scan (`RecoverLost`, core.py:200), which holds other locks, may publish between
them and is then overwritten. Recovery's own use of it (core.py:182) is one step of
`BeginRecovery`: it holds all three locks.

### How Outcome corresponds to the code

Equal contents stand for equal sizes and hashes; `torn` is a file that holds parts of two.

* *Submission*: `Inspect` is `_inspect`, of a file at rest. `_run` checks the call (`CheckInput`),
  copies the file into the job (`Stage`), compares the copy (`CompareStaged`), then the source
  once more (`ConfirmSource`), and registers. `IntakeFault` is a read or write that raises. The
  user may change the source between any two of these (`EditSource`).
* *Reconcile*: `committed` is the manifest a thread read when it began and `seen` the content it
  hashed. Nothing in the code excludes one reconciliation from another, and `_save_state`
  alone is indivisible. A fault beside the manifest counts as a changed artifact, as
  core.py:712-721 has it; one after it as an invalid receipt.
* *Deliver*: state and manifest, hash of the source, destination, copy, readback, record. The
  destination is the user's: `Edit` removes or replaces it, or changes the output.
* `calm`, `late` and `baselines` are history: threads that nothing disturbed, reconciliations
  that began after a revocation, contents that some manifest recorded.
* One artifact stands for all of a receipt: the code revokes or rejects when any differs.

### How NativeSession corresponds to the code

The coroutine and the watcher share one event loop, so a step is what one of them does between
two awaits. Every limit (240 seconds for initialize and for the call, 20 for the exit) is a step
that may come at any time its wait lasts. The official server and MATLAB may answer anything,
hang, die, or run the launcher in a session the user had open (`host`). `heir` is a process that
is given the identifier of the host after its end; `born` is the moment of birth as the
watcher compares it with its own construction and the time of the marker.

### How Service corresponds to the code

* *Frontend*: `Look` is the first `_record` of `_ensure`, `Start` the second under the start lock
  with the launch, `Poll` the round of the readiness loop that ends it. `Found` accepts a record
  of its own configuration, `Conflict` refuses. `Send` follows the second check of the
  identity. `Unconfirmed` is every lock, connection, send or receive that fails or takes too
  long. `Told` is what `server.call_tool` makes of the result.
* *Service*: `Load`, `OwnRoot`, `Publish`, the loop (`IdleCheck` in its two reads), `Join`,
  `CloseListener`, `CloseCore`, `Withdraw`, `Release`; `OpenFails`, `LoopFails` and `Crash` are what
  can go wrong. A crash releases the lock and the connections and leaves the record.
* *Handlers*: the listener counts a connection until it is closed, the service a handler until
  it has left, one step later; `Accept` reads both. `Dispatch` is `Core.call` with any
  effect and response; `Wait` takes a slot or is refused.

### How Setup corresponds to the code

Every window runs one action at a time. `Save` reads under the settings lock, then a copy of the
old document, the temporary file, its content and the rename are steps. `Connect` to `Connected`
is `connect_codex`, `Undo` to `Removed` is `rollback_codex`; whether an external command takes
effect and what it answers are chosen apart. `Review` to `Clear` is `clear_quarantine`; what a
window displays (`shown`) may be stale. `Fail` is a call that raises, or a window that is closed,
in any step. The "Connect" button, which saves and then connects, is two actions here.

## Runs

| Run | Instance | Shows |
| --- | --- | --- |
| `executor_faults` | 2 jobs, 2 keys, 2 Cores that may be alive at once, 1 crash, 1 failing call anywhere, cancel | types, no replay, one dispatch per key, honest errors, the barrier, markers only after a cause, settled jobs and index entries stable |
| `executor_reconcile` | 2 jobs, 2 Cores one at a time, reconcile calls instead of cancel, 1 crash, 1 failing recovery | only fresh work reaches a worker; the jobs evolve as `JobLifecycle` promises although every request may recover |
| `executor_queue` | 3 jobs, 3 keys, 2 Cores at once, 1 crash, admission limit 2 | one session, mutual exclusion, no accepted job forgotten, the admission limit |
| `executor_live` | 2 jobs, 2 Cores, 1 crash or 1 failing call in the worker or the failure path, cancel | every accepted job settles, unless its settlement raised and clients never leave its service idle |
| `executor_overlap` | 3 jobs, the user confirms only the displayed job | violation: two sessions at once |
| `executor_stuck` | 2 jobs, 1 crash, a cancel | violation: a quarantine nobody can clear |
| `executor_orphan` | 1 job, 1 failing index write | violation: a queued job nobody runs |
| `outcome_races` | the worker, a request and a delivery on one job, 2 changes by the user, 1 fault or crash | the input is the signed one, completed jobs are backed by their files, outcomes and revocations are final, a calm reconciliation settles, a delivery is what was committed |
| `native_session` | 1 call, the user's own session, an heir of the identifier | the observed identity and exit are those of the call's own session; the call implements `BackendCall`; it ends |
| `service_faults` | 2 frontends (a submission, a cancel), 3 processes, 2 mishaps, 1 change of the settings | one Core, a truthful record, honest outcomes, current settings, an honest idle exit; all of it an implementation of `JobService` |
| `service_live` | 3 frontends (a submission, two waits), 1 process, 1 wait slot | waits never keep a submission out; a service whose waits end reaches its exit |
| `setup_windows` | 2 windows, 2 folders, 2 jobs, 3 actions, 1 failure, 2 changes by others | no folder lost, no foreign entry touched, only a confirmed quarantine cleared |

Operators whose comment begins with "Mutant" are no part of the specification: each
changes one definition the way a plausible bug would, and put in its place makes TLC find the
property violated that `PROJECT.json` pairs it with.

### Bounds

The bounds let the interesting cases happen.

* `Executor`: two incarnations are needed for a takeover, and a third would only repeat it. Two
  jobs are needed for markers that name different jobs and for two registrations of one key, a
  third for a calculation that starts beside two earlier ones. `MaxCrashes` and `MaxFaults` bound
  process deaths and failing calls, `MaxMishaps` their sum: the safety runs combine one of each at
  every pair of places, the liveness run has one of either. `FaultSites` and `ClientCalls` split
  the faults and the requests over the runs. `MaxActiveJobs` is 10 in the code and 2 or 3
  here, so that the limit is reached. The receipt kind `failed` is left out of the instances: it is
  handled like `cancelled`.
* `Outcome`: two reconciliations are what differs from one; `MaxEdits` 2 lets the user change a
  file and change it back, which a comparison at two moments cannot see; `MaxMishaps` 1.
* `Service`: `MaxClients` and `WaitSlots` are 8 and 4 in the code. In `service_faults` the limit is 1,
  so that two frontends reach it. Three processes allow a launch beside a service that ends
  and one beside that. `Unverifiable` lets a living owner be one whose version or birth cannot be
  confirmed, `Malformed` a result that the frontend cannot validate; both are off in the
  liveness run, where they only add refusals. `MaxMishaps` bounds deaths and errors that end the
  loop, `MaxSaves` changes of the settings.
* `Setup`: `MaxActions` 3 is connect, undo and a third that meets their leftovers, or saves of two
  windows; `MaxMishaps` failures and closed windows; `MaxEdits` changes by Codex's user or Core.
* `NativeSession` has no bound: its state space is finite.

Deadlock is not checked in any run: once the bounds are used up, a call is over, or no user asks
for anything, the system rests. Symmetry is used for safety only.

### What the violations say

* **Overlap** (`core.py:200`). Recovery overwrites the quarantine for each lost job, and counts a
  `cancel_requested` job that was never dispatched as lost after its dispatch. The marker then
  names a job without a session. A user who truthfully confirms that job's session releases
  the executor, and the next calculation starts while the earlier session may still run.
* **Stuck** (`setup_ui.py:386`). The same overwriting leaves `executor-active.json` and
  `executor-quarantine.json` naming different jobs. `clear_quarantine` refuses, the jobs are
  `unknown` so that recovery does not touch the files again, and the documented procedure can
  never succeed.
* **Orphan** (`core.py:557`). If the index write raises in a coordinator that lives on, the job is
  on disk as accepted, its owner is alive, it has no future, and `has_active_work` holds the
  service up for ever.

### What the passing models do not promise

The properties are worded so that they hold of the code. What they leave open was seen while
modelling, and no run refutes a statement about it:

* Two reconciliations that began before a manifest existed each commit one. If the user
  changes the output in between, the manifest that stays is of the changed file, although the
  comment at core.py:694 calls committed hashes evidence. `DeliveryTrue` speaks of some committed
  manifest for this reason.
* A reconciliation that began before a revocation can complete the job again; `RevokedForGood`
  speaks of those that begin later.
* A read beside the manifest that fails for a moment (core.py:712) revokes the job for good.
* A delivery hashes the destination once more for its record (core.py:963-970): if the user
  changes the destination after the readback, the record names the changed bytes as verified.
* `_inspect` reads size and header and then the hash (core.py:360-378), at different moments.
* `resource_content` (server.py:143) reads the file after its hash was checked, while
  `src/docs/ALPHA_REVIEW_2026-09-15.md:54-56` describes reads as hash-checked.
* The reason code of `native-lifecycle.json` may contradict `native_exited` when the exit is
  observed as the 20 seconds end (native_session.py:240-248); `ExitTrue` is about the latter.
* `rollback_codex` does not look at the state of its record: an identical entry that the user
  removed and added again is taken for its own. `EntryKept` compares fingerprints, too.
* Two Setup windows that install the official server write one `.download` file (backend.py:60).
  What they install is verified before it is renamed and before every execution.
* After `START_UNCONFIRMED` a second launch may run beside the first; `OneCore` holds, and the
  loser exits. Between the withdrawal of a record and the release of the lock a frontend
  spawns a process that finds the lock held and reports `START_FAILED`.

## Fairness

`Executor`'s `FairSpec` assumes weak fairness of what runs by itself: a thread that can go on goes
on (the wait for execution ends after 600 seconds and a backend call after 240, so some step is
always possible), the recovery scan and the submission of a registered job, the retry in
`has_active_work` of a service that stays idle, the exit of a MATLAB session, and the start of a
service by a client that needs it. That a service becomes idle is not assumed: the accept loop
calls `has_active_work` only with no request in flight and none for `idle_seconds`
(coordinator.py:342-347), every request starts that time anew (coordinator.py:295, 358), and
clients may poll for ever. `IdleTime` has no fairness, and `AcceptedSettles` excepts by name
(`KeptBusy`) the job whose settlement raised while its service is never left idle: without that
exception TLC refutes it by a failing write in `_execution_failed` and a service that is never idle. `ClearQuarantine` is
strongly fair: a user who was told that the executor is busy tries again. Requests, crashes
and faults are never required.

`Service`'s `FairSpec` assumes weak fairness of the threads of a service process: the main thread
and the handlers, each of whose steps is bounded by a deadline, and the worker that settles a job
(`AcceptedSettles` of `Executor`; its exception needs requests without end, and here each frontend
makes one call: only a wait that never ends keeps a service busy, and `ServiceEnds` excepts
those). Nothing is assumed of frontends or users, who may stop anywhere,
nor of a wait (`EndWait`): `RequestServed`, which does not depend on work being settled, holds even
if waits never end.

`NativeSession`'s `FairSpec` assumes that the event loop runs the coroutine: every await of it has a
time limit, so that some step is always possible. The watcher, the server and MATLAB may hang.

## Proofs

Every theorem holds for every value of the constants, from the named assumption on them.

`ExecutorProofs`, from `ConstantsOK`:

* `TypeCorrect`, `MutualExclusion`: `TypeOK` and `Ownership` are inductive together. `Ownership`
  says that the thread in the critical section holds the lock, that a busy thread has a job and
  a living process, and that no service thread or recovery runs in a process that began to
  close; without the last two parts the end of a process could strand an owner.
* `NeverReplayed`: `Dispatching` adds that the owner between marker and dispatch has no
  `dispatch.json`, and between dispatch and call has launched nothing; `NoReplay` alone does
  not forbid a second thread at the same place.
* `SessionBarrier` and `SingleSession`, assuming `ConfirmsEverySession`: `Barrier` says what the
  owner relies on at each place: that the active marker is its own up to the return, that no
  session runs before its call, that its own has stopped when the backend returned, that a
  quarantine is published before it releases after a failure. `CrashBarrier` is what makes
  `OneSession` inductive, because the next owner finds both files absent only when no session
  runs. `ClearQuarantine` is the only step that needs the assumption, and `executor_overlap`
  shows that the property fails without it.

`ExecutorFileProofs`, from the same types and ownership:

* `IndexNeverMoves`: `Registering` says that a registration or a scan holds the recovery lock,
  that the two exclude each other, and that the key of a job between its two files is free; the
  action property alone says nothing of that gap.
* `MarkerHasCause`: `MarkerOwned` says that without a crash or a fault a marker is the owner's own,
  which is past its checks and, past the marker, has a `dispatch.json`; the last part excludes
  that the failure path gives up execution without releasing the marker.

`ExecutorJobProofs`, from the same and from `Dispatching` and `Registering`:

* `WorkIsFresh`: no single queue, thread or file says why a worker never meets a job that somebody
  else has acted on. `Places` says that each job has one holder: the queue of a Core, its
  worker, its failed futures (with the service thread that retries them), or the registration
  under way, all of the Core in `scheduler.json`; and recovery gives up only jobs of dead Cores.
  `Fresh` says that what waits, is examined or is being registered has been touched by nobody.
* `ErrorsAreHonest`, `KeyDispatchedOnce`: `Files` relates the files of one job: a dispatched job is
  the one its key leads to and its dispatcher is its scheduler's Core; `Honest` makes "not
  dispatched" equivalent to having ended without a dispatch.
* `SettledIsStable`: `Verdicts` ties a settled state to the receipt or to the missing dispatch, so
  that a later reconciliation can only repeat or revoke it.
* `QueueIsBounded`: the active jobs are a finite set that only `Register` extends; neither recovery
  nor a retry makes a job active again (`Evolves`).
* `AcceptedIsHeld`: the safety half of `AcceptedSettles`. `Places` says that who has a job is unique,
  `WorkHeld` that an open job has somebody: a step that takes a job out of a queue, ends a
  worker's turn or drops a failed future either settles the job (`Concluded`: the step before
  it saved a settled state, and by `Verdicts` no later step reopens it) or hands it on.
* `KeepsJobPromise`: every step maps to a step of `JobLifecycle` or to none. `OneJob` shows that
  apart from a registration and a dispatch a step changes what is read of one job at most.

`OutcomeProofs`, from `OutcomeConstants`, for any number of reconciliations and deliveries:

* `InputIsTrue` needs `InputInv`: what the call has compared is what it registers, at each place.
* `CompletedIsBacked`, `SettledIsFinal`: `ReceiptInv` says which files each place of a
  reconciliation may rely on and that nobody takes them away; `StateInv` ties a settled state
  to its receipt. An interleaved thread can only write what the same receipt stands for.
* `RevokedIsFinal`: `LateInv` keeps a reconciliation that began late out of the places that write
  `completed`.
* `CalmSettles` and `DeliveryIsTrue`: `CalmInv` says that in an undisturbed call the output is still
  what was compared, `ReadbackInv` that past the readback the destination is what a committed
  manifest says, although other deliveries share the destination.

`NativeSessionProofs`, from `SessionConstants`:

* `IdentityIsOwn`, `ExitIsReal`: `HostInv` and `HeirInv` say that a process that inherits the
  identifier is born after its holder ended, and that one born before the marker will never be
  named by it; `WatchInv` that a handle outlives the identifier.
* `KeepsPromise`: every step maps to a step of `BackendCall` or to none.

`ServiceProofs` and `ServiceCountProofs`, from `ServiceConstants`, for any number of frontends and
processes:

* `SingleCore`, `RecordIsTrue`: `OwnerInv` says that who is past the lifetime lock holds it until it
  is dead, and that the record is written and withdrawn under it.
* `OutcomeIsHonest`, `SettingsAreHonest`: `CallInv`, `ExecutedInv` and `LoadedInv` follow one request
  through its connection: it takes effect when its handler leaves `receiving`, to which no
  handler returns, and the process it deals with has loaded settings at least as new.
* `ServiceTypeCorrect`, `IdleExitIsHonest`: `CountInv` equates the two counters with the cardinalities
  of the handlers and waits they count; `HandlerInv` and `IdleInv` bound where either can exist.
* `KeepsServicePromise`: every step of `Service` maps to a step of `JobService` or to none. It needs all
  of the above: `OwnerInv` for the root that is free when it is taken, `ExecutedInv` for the effect
  that is the first, `LoadedInv` for the settings it ran under, which `SameRan` shows never to
  change, and `HandlerInv` for the Core that exists whenever a request takes effect.

`SetupProofs`, from `SetupConstants`, for any number of windows: `SaveInv`, `CodexInv` and `ClearInv`
say for each place what its lock protects: the document that will be replaced and its copy,
the entry that was listed, the two markers that were confirmed.

The inductive parts were checked as invariants of the instances before they were proved. Only
model-checked: liveness (`AcceptedSettles`, `RequestServed`, `ServiceEnds`, `CallEnds`; out of the
prover's reach).

## Plan

Done: the modules above and their proofs. Left: `install_backend` as an action of `Setup`.

## Not modelled

* Pydantic contracts, MCP envelopes, passive diagnostics: they keep no state that another
  component reads. What validation yields is the value of a variable (a receipt, a result).
* Job waits (`Core._job` with `wait`): they read the state, with events and a poll every 0.1
  seconds, and change nothing. `Service` has the slot they occupy.
* Bytes within a frame, and the Windows and POSIX calls of `ipc.py` and `storage.py`: a frame arrives
  whole or the connection closes, a lock is a variable that a process death clears.
* `install_backend` and the discovery of MATLAB installations.
* Numerical recipes in MATLAB, packaging, benchmarks, recorded evidence and the acceptance
  harnesses: not part of the running system, or no state machines.
