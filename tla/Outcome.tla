-------------------------------- MODULE Outcome --------------------------------
(***************************************************************************)
(* The files of one job: the input it is submitted with (Core._inspect,    *)
(* Core._run), the receipt its MATLAB session commits, the threads that    *)
(* reconcile the receipt with the files it names (Core._reconcile), and    *)
(* the deliveries that hand a file out (Core._artifacts).  One artifact    *)
(* stands for the set of a receipt's artifacts.                            *)
(*                                                                         *)
(* Module Executor takes a reconciliation as one step.  Here every read    *)
(* and every durable write of it is a step of its own, nothing excludes    *)
(* one reconciliation from another, and the input, the outputs folder and  *)
(* the delivery folder are also the user's, who may change the files at    *)
(* any time.  Queue and dispatch are left to Executor.                     *)
(***************************************************************************)
EXTENDS Naturals

CONSTANTS
  Worker,      \* the thread of Core.pool that executes the job
  Requests,    \* request threads: reconcile calls and recovery
  Deliveries,  \* request threads: deliver calls, all to one destination
  MaxEdits,    \* bound: changes of files by the user
  MaxMishaps   \* bound: reads or writes that fail, and process deaths

Reconcilers == {Worker} \cup Requests

ASSUME OutcomeConstants ==
  /\ Worker \notin Requests /\ Reconcilers \cap Deliveries = {}
  /\ MaxEdits \in Nat /\ MaxMishaps \in Nat

VARIABLES
  \* the submission
  source,      \* the file the user selected
  inputs,      \* inputs/<id>.json: the contents that were inspected
  intake,      \* where the call of matlab_run stands
  signed,      \* the content that the call and its signature name
  staged,      \* the copy in jobs/<id>
  \* jobs/<id>
  state,       \* state.json: state and error code
  receipt,     \* receipt.json, by what validating it yields
  output,      \* the artifact in outputs/
  manifest,    \* artifacts.json: the content whose hash it records
  result,      \* result.json is there
  delivery,    \* delivery-<artifact>.json: the content whose hash it records
  destination, \* the file the user asked for
  \* threads
  pc, committed, seen,   \* _reconcile: the manifest it read, the content it hashed
  step, record,          \* _artifacts: the manifest it read
  calm,        \* history: threads in whose call nothing failed and nobody interfered
  late,        \* history: reconciliations that began after a revocation
  baselines,   \* history: contents a manifest recorded
  edits, mishaps

intakeVars == <<source, inputs, intake, signed, staged>>
jobVars == <<state, receipt, output, manifest, result>>
deliveryVars == <<delivery, destination, step, record>>
threadVars == <<pc, committed, seen>>
boundVars == <<edits, mishaps>>
vars == <<intakeVars, jobVars, deliveryVars, threadVars, calm, late, baselines, boundVars>>

\* What a file holds.  Equal contents stand for equal sizes and hashes.
Contents == {"native", "edited"}
Files == Contents \cup {"absent", "torn"}

ACTIVE == {"running", "cancel_requested"}
Settled == {"completed", "failed", "cancelled"}
Codes == {"none", "NATIVE", "NATIVE_VERIFY_FAILED", "REVISION_CONFLICT", "OUTCOME_UNKNOWN",
          "OUTPUT_CONTRACT_INVALID"}
Receipts == {"completed", "unverified", "failed", "cancelled", "invalid"}

PCs == {"idle", "comparing", "deciding", "revoking", "reading", "hashing", "result",
        "manifest", "completing", "rejecting"}
Steps == {"idle", "hashing", "checking", "copying", "readback", "recording"}

TypeOK ==
  /\ source \in Contents /\ inputs \subseteq Contents
  /\ intake \in {"idle", "staging", "comparing", "confirming", "registering", "accepted"}
  /\ signed \in Contents \cup {"absent"} /\ staged \in Files
  /\ state \in [name : {"absent"} \cup ACTIVE \cup Settled \cup {"unknown"}, code : Codes]
  /\ receipt \in Receipts \cup {"none"}
  /\ output \in Contents \cup {"absent"} /\ manifest \in Contents \cup {"absent"}
  /\ result \in BOOLEAN
  /\ delivery \in Files /\ destination \in Files
  /\ pc \in [Reconcilers -> PCs]
  /\ committed \in [Reconcilers -> Contents \cup {"absent"}]
  /\ seen \in [Reconcilers -> Contents \cup {"absent"}]
  /\ step \in [Deliveries -> Steps] /\ record \in [Deliveries -> Contents \cup {"absent"}]
  /\ calm \subseteq Reconcilers \cup Deliveries /\ late \subseteq Reconcilers
  /\ baselines \subseteq Contents
  /\ edits \in 0..MaxEdits /\ mishaps \in 0..MaxMishaps

Init ==
  /\ source = "native" /\ inputs = {} /\ intake = "idle"
  /\ signed = "absent" /\ staged = "absent"
  /\ state = [name |-> "absent", code |-> "none"]
  /\ receipt = "none" /\ output = "absent" /\ manifest = "absent" /\ result = FALSE
  /\ delivery = "absent" /\ destination = "absent"
  /\ pc = [r \in Reconcilers |-> "idle"]
  /\ committed = [r \in Reconcilers |-> "absent"] /\ seen = [r \in Reconcilers |-> "absent"]
  /\ step = [d \in Deliveries |-> "idle"] /\ record = [d \in Deliveries |-> "absent"]
  /\ calm = {} /\ late = {} /\ baselines = {}
  /\ edits = 0 /\ mishaps = 0

-----------------------------------------------------------------------------
\* _save_state, indivisible under .state.lock, with and without expected_states.
Save(name, code) == state' = [name |-> name, code |-> code]
SaveIf(expected, name, code) ==
  IF state.name \in expected THEN Save(name, code) ELSE UNCHANGED state

Revoked == state.code = "REVISION_CONFLICT"

\* A thread that leaves _reconcile forgets what it read.
Keep(f, r, label) == [f EXCEPT ![r] = IF label = "idle" THEN "absent" ELSE @]
Goto(r, label) ==
  /\ pc' = [pc EXCEPT ![r] = label]
  /\ committed' = Keep(committed, r, label) /\ seen' = Keep(seen, r, label)

-----------------------------------------------------------------------------
(* Core._inspect and Core._run: the input of the job *)

Submission == UNCHANGED <<jobVars, deliveryVars, threadVars, calm, late, baselines, boundVars>>

\* The record is named and identified by the content hashed last.
Inspect ==
  /\ intake # "accepted" /\ source \notin inputs
  /\ inputs' = inputs \cup {source}
  /\ UNCHANGED <<source, intake, signed, staged>> /\ Submission

\* A call names an inspected input, which must not have changed.
CheckInput ==
  /\ intake = "idle" /\ source \in inputs
  /\ signed' = source /\ intake' = "staging"
  /\ UNCHANGED <<source, inputs, staged>> /\ Submission

\* The file is copied into the job, under the locks of the registration; a change during the
\* copy leaves bytes of both.
Stage ==
  /\ intake = "staging" /\ intake' = "comparing"
  /\ staged' \in {source, "torn"}
  /\ UNCHANGED <<source, inputs, signed>> /\ Submission

\* The call ends without a job; the copy lies in a folder that nothing refers to.
GivesUp == intake' = "idle" /\ signed' = "absent" /\ staged' = "absent"

\* Mutant: only the source is compared, not the copy.
CompareSource ==
  /\ intake = "comparing"
  /\ intake' = "confirming" /\ UNCHANGED <<signed, staged>>
  /\ UNCHANGED <<source, inputs>> /\ Submission

\* The copy is compared with the inspected content ...
CompareStaged ==
  /\ intake = "comparing"
  /\ IF staged = signed THEN intake' = "confirming" /\ UNCHANGED <<signed, staged>>
                          ELSE GivesUp
  /\ UNCHANGED <<source, inputs>> /\ Submission

\* ... and then the source.
ConfirmSource ==
  /\ intake = "confirming"
  /\ IF source = signed THEN intake' = "registering" /\ UNCHANGED <<signed, staged>>
                          ELSE GivesUp
  /\ UNCHANGED <<source, inputs>> /\ Submission

\* Request and provenance are written, then the state; the job is dispatched from here on.
Register ==
  /\ intake = "registering" /\ intake' = "accepted"
  /\ state' = [name |-> "running", code |-> "none"]
  /\ UNCHANGED <<source, inputs, signed, staged, receipt, output, manifest, result, deliveryVars,
                 threadVars, calm, late, baselines, boundVars>>

\* A read or write of the submission raises.
IntakeFault ==
  /\ mishaps < MaxMishaps /\ mishaps' = mishaps + 1
  /\ intake \notin {"idle", "accepted"} /\ GivesUp
  /\ UNCHANGED <<source, inputs, jobVars, deliveryVars, threadVars, calm, late, baselines, edits>>

\* The user changes the file; after the registration nothing reads it.
EditSource ==
  /\ intake # "accepted" /\ edits < MaxEdits /\ edits' = edits + 1
  /\ source' \in Contents \ {source}
  /\ UNCHANGED <<inputs, intake, signed, staged, jobVars, deliveryVars, threadVars, calm, late,
                 baselines, mishaps>>

-----------------------------------------------------------------------------
(* The session and the ways its outcome is lost *)

\* execute.m renames its receipt into place as its last act, after the files it names.
CommitReceipt ==
  /\ state.name # "absent" /\ receipt = "none"
  /\ receipt' \in Receipts
  /\ output' \in
       IF receipt' \in {"completed", "unverified"} THEN {"native"} ELSE {"native", "absent"}
  /\ UNCHANGED <<state, manifest, result, deliveryVars, threadVars, calm, late, baselines,
                 intakeVars, boundVars>>

Cancel ==
  /\ SaveIf(ACTIVE, "cancel_requested", state.code)
  /\ UNCHANGED <<receipt, output, manifest, result, deliveryVars, threadVars, calm, late, baselines,
                 intakeVars, boundVars>>

\* The backend raised and there was no receipt, or recovery met the job of a dead owner.
LoseOutcome ==
  /\ pc[Worker] = "idle"
  /\ SaveIf(ACTIVE, "unknown", "OUTCOME_UNKNOWN")
  /\ UNCHANGED <<receipt, output, manifest, result, deliveryVars, threadVars, calm, late, baselines,
                 intakeVars, boundVars>>

-----------------------------------------------------------------------------
(* Core._reconcile by thread r *)

Work(r) == UNCHANGED <<receipt, output, deliveryVars, intakeVars, boundVars>>

\* The worker comes here once its backend call has ended, a request at any time.
Begin(r) ==
  /\ state.name # "absent" /\ pc[r] = "idle"
  /\ committed' = [committed EXCEPT ![r] = manifest]
  /\ pc' = [pc EXCEPT ![r] = IF manifest = "absent" THEN "reading" ELSE "comparing"]
  /\ calm' = calm \cup {r}
  /\ late' = IF Revoked THEN late \cup {r} ELSE late \ {r}
  /\ UNCHANGED <<state, manifest, result, seen, baselines>> /\ Work(r)

\* Once committed, old hashes are evidence.
Compare(r) ==
  /\ pc[r] = "comparing"
  /\ Goto(r, IF output = committed[r] THEN "deciding" ELSE "revoking")
  /\ UNCHANGED <<state, manifest, result, calm, late, baselines>> /\ Work(r)

\* Mutant: a lost outcome counts as a settled one.
DecideSettled(r) ==
  /\ pc[r] = "deciding"
  /\ Goto(r, IF state.name \notin ACTIVE THEN "idle" ELSE "reading")
  /\ UNCHANGED <<state, manifest, result, calm, late, baselines>> /\ Work(r)

\* Mutant: every job that is not completed is taken up again.
DecideReopens(r) ==
  /\ pc[r] = "deciding"
  /\ Goto(r, IF state.name = "completed" THEN "idle" ELSE "reading")
  /\ UNCHANGED <<state, manifest, result, calm, late, baselines>> /\ Work(r)

\* A settled job is done with; one whose outcome is in doubt is taken up again.
Decide(r) ==
  /\ pc[r] = "deciding"
  /\ Goto(r, IF \/ state.name = "completed"
                \/ /\ state.name \notin ACTIVE
                   /\ state.code \notin {"OUTCOME_UNKNOWN", "OUTPUT_CONTRACT_INVALID"}
             THEN "idle" ELSE "reading")
  /\ UNCHANGED <<state, manifest, result, calm, late, baselines>> /\ Work(r)

Revoke(r) ==
  /\ pc[r] = "revoking"
  /\ Save("failed", "REVISION_CONFLICT")
  /\ Goto(r, "idle")
  /\ UNCHANGED <<manifest, result, calm, late, baselines>> /\ Work(r)

\* A receipt of failure or cancellation decides at once; the phase "validating" that a
\* completed one sets first leaves the state as it is.
ReadReceipt(r) ==
  /\ pc[r] = "reading"
  /\ \/ receipt = "none" /\ Goto(r, "idle") /\ UNCHANGED state
     \/ receipt = "invalid" /\ Goto(r, "rejecting") /\ UNCHANGED state
     \/ receipt \in {"failed", "cancelled"} /\ Save(receipt, "NATIVE") /\ Goto(r, "idle")
     \/ receipt = "unverified" /\ Save("failed", "NATIVE_VERIFY_FAILED") /\ Goto(r, "idle")
     \/ receipt = "completed" /\ Goto(r, "hashing") /\ UNCHANGED state
  /\ UNCHANGED <<manifest, result, calm, late, baselines>> /\ Work(r)

\* Mutant: a missing file is not noticed.
HashMissing(r) ==
  /\ pc[r] = "hashing"
  /\ seen' = [seen EXCEPT ![r] = output]
  /\ pc' = [pc EXCEPT ![r] =
       IF committed[r] \notin {"absent", output} THEN "rejecting" ELSE "result"]
  /\ UNCHANGED <<state, manifest, result, committed, calm, late, baselines>> /\ Work(r)

Hash(r) ==
  /\ pc[r] = "hashing"
  /\ seen' = [seen EXCEPT ![r] = output]
  /\ pc' = [pc EXCEPT ![r] =
       IF output = "absent" \/ committed[r] \notin {"absent", output}
       THEN "rejecting" ELSE "result"]
  /\ UNCHANGED <<state, manifest, result, committed, calm, late, baselines>> /\ Work(r)

WriteResult(r) ==
  /\ pc[r] = "result"
  /\ result' = TRUE
  /\ Goto(r, IF committed[r] = "absent" THEN "manifest" ELSE "completing")
  /\ UNCHANGED <<state, manifest, calm, late, baselines>> /\ Work(r)

\* Mutant: the state is written before the manifest.
WriteManifestLast(r) ==
  /\ pc[r] = "manifest"
  /\ \/ /\ state.name # "completed" /\ Save("completed", "none")
        /\ UNCHANGED <<threadVars, manifest, baselines>>
     \/ /\ state.name = "completed" /\ manifest' = seen[r]
        /\ baselines' = baselines \cup {seen[r]}
        /\ Goto(r, "completing") /\ UNCHANGED state
  /\ UNCHANGED <<result, calm, late>> /\ Work(r)

\* The first reconciliation that saw none commits the manifest; so does another that began
\* before it was written.
WriteManifest(r) ==
  /\ pc[r] = "manifest"
  /\ manifest' = seen[r] /\ baselines' = baselines \cup {seen[r]}
  /\ Goto(r, "completing")
  /\ UNCHANGED <<state, result, calm, late>> /\ Work(r)

Complete(r) ==
  /\ pc[r] = "completing"
  /\ Save("completed", "none")
  /\ Goto(r, "idle")
  /\ UNCHANGED <<manifest, result, calm, late, baselines>> /\ Work(r)

\* Mutant: what another thread settled in the meantime is overwritten.
RejectAnyway(r) ==
  /\ pc[r] = "rejecting"
  /\ Save("unknown", "OUTPUT_CONTRACT_INVALID")
  /\ Goto(r, "idle")
  /\ UNCHANGED <<manifest, result, calm, late, baselines>> /\ Work(r)

Reject(r) ==
  /\ pc[r] = "rejecting"
  /\ SaveIf(ACTIVE \cup {"unknown"}, "unknown", "OUTPUT_CONTRACT_INVALID")
  /\ Goto(r, "idle")
  /\ UNCHANGED <<manifest, result, calm, late, baselines>> /\ Work(r)

Reconcile(r) ==
  \/ Begin(r) \/ Compare(r) \/ Decide(r) \/ Revoke(r)
  \/ ReadReceipt(r) \/ Hash(r) \/ WriteResult(r) \/ WriteManifest(r) \/ Complete(r) \/ Reject(r)

\* A read or write raises.  Beside the manifest that counts as a changed artifact, later as an
\* invalid receipt; out of the handlers themselves it leaves _reconcile.
ReconcileFault(r) ==
  /\ mishaps < MaxMishaps /\ mishaps' = mishaps + 1
  /\ calm' = calm \ {r}
  /\ \/ pc[r] \in {"comparing", "deciding"} /\ Goto(r, "revoking")
     \/ pc[r] \in {"reading", "hashing", "result", "manifest", "completing"} /\ receipt # "none"
        /\ Goto(r, "rejecting")
     \/ pc[r] \in {"revoking", "rejecting"} /\ Goto(r, "idle")
  /\ UNCHANGED <<intakeVars, jobVars, deliveryVars, late, baselines, edits>>

-----------------------------------------------------------------------------
(* Core._artifacts, action deliver, by thread d *)

Deliver(d, from, to) ==
  /\ step[d] = from
  /\ step' = [step EXCEPT ![d] = to] /\ record' = Keep(record, d, to)
  /\ UNCHANGED <<jobVars, threadVars, late, baselines,
                 intakeVars, boundVars>>

\* artifact_path reads the state and the manifest ...
ReadManifest(d) ==
  /\ state.name = "completed"
  /\ step[d] = "idle" /\ step' = [step EXCEPT ![d] = "hashing"]
  /\ record' = [record EXCEPT ![d] = manifest]
  /\ calm' = calm \cup {d}
  /\ UNCHANGED <<jobVars, delivery, destination, threadVars, late, baselines,
                 intakeVars, boundVars>>

\* ... and hashes the file.
HashSource(d) ==
  /\ Deliver(d, "hashing", IF output = record[d] THEN "checking" ELSE "idle")
  /\ UNCHANGED <<calm, delivery, destination>>

\* An existing destination is kept, and must hold the same bytes; another is created, only
\* when the source can be opened.
CheckDestination(d) ==
  /\ \/ destination = record[d] /\ Deliver(d, "checking", "readback")
        /\ UNCHANGED destination
     \/ destination \notin {"absent", record[d]} /\ Deliver(d, "checking", "idle")
        /\ UNCHANGED destination
     \/ destination = "absent" /\ output # "absent" /\ Deliver(d, "checking", "copying")
        /\ destination' = "torn"
     \/ destination = "absent" /\ output = "absent" /\ Deliver(d, "checking", "idle")
        /\ UNCHANGED destination
  /\ UNCHANGED <<calm, delivery>>

\* The source is read again for the copy, into the file that was created: one that the user put
\* in its place is another.
Copy(d) ==
  /\ Deliver(d, "copying", "readback")
  /\ destination' = IF destination = "torn" /\ output # "absent" THEN output ELSE destination
  /\ UNCHANGED <<calm, delivery>>

\* Mutant: the copy is taken for the original.
ReadbackSkipped(d) ==
  /\ Deliver(d, "readback", "recording")
  /\ UNCHANGED <<calm, delivery, destination>>

Readback(d) ==
  /\ Deliver(d, "readback", IF destination = record[d] THEN "recording" ELSE "idle")
  /\ UNCHANGED <<calm, delivery, destination>>

\* The delivery record takes its hash from the destination once more.
RecordDelivery(d) ==
  /\ Deliver(d, "recording", "idle")
  /\ delivery' = IF destination = "absent" THEN delivery ELSE destination
  /\ UNCHANGED <<calm, destination>>

\* A read or write of the delivery raises; an interrupted copy stays where it is.
DeliveryFault(d) ==
  /\ mishaps < MaxMishaps /\ mishaps' = mishaps + 1
  /\ step[d] # "idle" /\ step' = [step EXCEPT ![d] = "idle"]
  /\ record' = Keep(record, d, "idle")
  /\ UNCHANGED <<intakeVars, jobVars, delivery, destination, threadVars, calm, late, baselines,
                 edits>>

-----------------------------------------------------------------------------
(* The user and the process *)

\* Changing the destination interferes with deliveries, changing an output with
\* reconciliations; a delivery must cope with the latter.
Edit ==
  /\ edits < MaxEdits /\ edits' = edits + 1
  /\ receipt # "none"
  /\ \/ /\ output' \in (Contents \cup {"absent"}) \ {output} /\ UNCHANGED destination
        /\ calm' = calm \ Reconcilers
     \/ /\ destination' \in {"absent", "edited"} \ {destination} /\ UNCHANGED output
        /\ calm' = calm \ Deliveries
  /\ UNCHANGED <<intakeVars, state, receipt, manifest, result, delivery, step, record, threadVars,
                 late, baselines, mishaps>>

Crash ==
  /\ mishaps < MaxMishaps /\ mishaps' = mishaps + 1
  /\ pc' = [r \in Reconcilers |-> "idle"] /\ step' = [d \in Deliveries |-> "idle"]
  /\ calm' = {} /\ late' = {}
  /\ committed' = [r \in Reconcilers |-> "absent"] /\ seen' = [r \in Reconcilers |-> "absent"]
  /\ record' = [d \in Deliveries |-> "absent"]
  /\ intake' = IF intake = "accepted" THEN intake ELSE "idle"
  /\ signed' = IF intake = "accepted" THEN signed ELSE "absent"
  /\ staged' = IF intake = "accepted" THEN staged ELSE "absent"
  /\ UNCHANGED <<source, inputs, jobVars, delivery, destination, baselines, edits>>

Next ==
  \/ Inspect \/ CheckInput \/ Stage \/ CompareStaged \/ ConfirmSource \/ Register
  \/ IntakeFault \/ EditSource
  \/ CommitReceipt \/ Cancel \/ LoseOutcome \/ Edit \/ Crash
  \/ \E r \in Reconcilers : Reconcile(r) \/ ReconcileFault(r)
  \/ \E d \in Deliveries :
       \/ ReadManifest(d) \/ HashSource(d) \/ CheckDestination(d) \/ Copy(d)
       \/ Readback(d) \/ RecordDelivery(d) \/ DeliveryFault(d)

Spec == Init /\ [][Next]_vars

-----------------------------------------------------------------------------
(* Properties *)

\* A job computes on the bytes that its idempotency signature names, even if
\* the user changes the file after its inspection, after the check of the call, or during the copy.
InputTrue == state.name # "absent" => staged = signed /\ signed \in inputs

\* A completed job can be read: its manifest, its result and a receipt that says so are there,
\* whichever reconciliation wrote what, whatever failed between and whoever crashed.
CompletedBacked ==
  state.name = "completed" => receipt = "completed" /\ manifest # "absent" /\ result

\* A reported outcome stays: what the receipt decided is never turned, and a completed job is
\* only ever revoked because of its artifacts, not sent back to unknown by another thread.
SettledStays ==
  [][/\ state.name = "completed" => state'.name = "completed" \/ Revoked'
     /\ state.name \in {"failed", "cancelled"} /\ ~Revoked => state' = state]_vars

\* "This revision is no longer trusted": a reconciliation that begins after the revocation never
\* completes the job again, whatever the files hold by then.  (One that began before may.)
RevokedForGood ==
  [][\A r \in late : Revoked /\ pc'[r] # pc[r] => state'.name # "completed"]_vars

\* A reconciliation in which nothing fails or interferes leaves no doubt, whatever an earlier
\* one left half done: if there is a valid receipt and its artifact, the job is settled.
ReconcileSettles ==
  [][\A r \in Reconcilers :
       /\ r \in calm /\ r \in calm' /\ pc[r] # "idle" /\ pc'[r] = "idle"
       /\ receipt \notin {"none", "invalid"} /\ (receipt = "completed" => output # "absent")
       => state'.name \in Settled]_vars

\* A delivery that nobody disturbs at its destination records bytes of a committed manifest,
\* even if the artifact changes between its check and the copy.
DeliveryTrue ==
  [][\A d \in Deliveries :
       step[d] = "recording" /\ d \in calm /\ delivery' # delivery => delivery' \in baselines]_vars
=============================================================================
