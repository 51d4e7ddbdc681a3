----------------------------- MODULE OutcomeProofs -----------------------------
(***************************************************************************)
(* What a job reports is backed by its files, for every number of          *)
(* reconciling requests and deliveries, of edits and of mishaps: it        *)
(* computes on the input it names, a completed job can be read, a settled  *)
(* one stays settled and a revoked one stays revoked.                      *)
(***************************************************************************)
EXTENDS Outcome, TLAPS

\* A call past its check names an inspected content, and past the comparison of the copy the
\* copy holds it.  The state appears with the registration.
InputInv ==
  /\ intake # "idle" => signed \in inputs
  /\ intake \in {"confirming", "registering", "accepted"} => staged = signed
  /\ state.name # "absent" <=> intake = "accepted"

\* What a reconciliation relies on at each step is there, and nobody takes it away: a receipt is
\* final, and so is the existence of the manifest and of the result.
ReceiptInv ==
  /\ manifest # "absent" => receipt = "completed"
  /\ \A r \in Reconcilers :
       /\ committed[r] # "absent" => manifest # "absent"
       /\ pc[r] \in {"comparing", "deciding", "revoking"} => manifest # "absent"
       /\ pc[r] \in {"hashing", "result", "manifest", "completing"} => receipt = "completed"
       /\ pc[r] \in {"result", "manifest"} => seen[r] # "absent"
       /\ pc[r] \in {"manifest", "completing"} => result
       /\ pc[r] = "completing" => manifest # "absent"

\* A settled state is the one its receipt stands for, unless the job is revoked.
StateInv ==
  /\ state.name = "completed" => manifest # "absent" /\ result
  /\ state.name \in {"failed", "cancelled"} /\ ~Revoked =>
       \/ receipt \in {"failed", "cancelled"} /\ state = [name |-> receipt, code |-> "NATIVE"]
       \/ receipt = "unverified" /\ state = [name |-> "failed", code |-> "NATIVE_VERIFY_FAILED"]
  /\ Revoked => state.name = "failed" /\ manifest # "absent"
  /\ state.name = "absent" => receipt = "none" /\ \A r \in Reconcilers : pc[r] = "idle"

\* A reconciliation that began after a revocation never passes its decision: the job is revoked
\* or was completed by one that began before.
LateInv ==
  \A r \in late :
    /\ pc[r] \in {"idle", "comparing", "deciding", "revoking"}
    /\ state.name = "completed" \/ Revoked

IInv == TypeOK /\ InputInv /\ ReceiptInv /\ StateInv /\ LateInv

LEMMA InitIInv == Init => IInv
<1>1. SUFFICES ASSUME Init PROVE IInv
  OBVIOUS
<1>2. TypeOK
  <2>1. /\ pc \in [Reconcilers -> PCs] /\ step \in [Deliveries -> Steps]
        /\ committed \in [Reconcilers -> Contents \cup {"absent"}]
        /\ seen \in [Reconcilers -> Contents \cup {"absent"}]
        /\ record \in [Deliveries -> Contents \cup {"absent"}]
    BY <1>1 DEF Init, PCs, Steps
  <2>2. state \in [name : {"absent"} \cup ACTIVE \cup Settled \cup {"unknown"}, code : Codes]
    BY <1>1 DEF Init, Codes
  <2>3. edits \in 0..MaxEdits /\ mishaps \in 0..MaxMishaps
    BY <1>1, OutcomeConstants DEF Init
  <2>4. QED
    BY <1>1, <2>1, <2>2, <2>3 DEF Init, TypeOK, Contents, Files
<1>3. InputInv /\ ReceiptInv /\ StateInv /\ LateInv
  BY <1>1 DEF Init, InputInv, ReceiptInv, StateInv, LateInv, Revoked
<1>4. QED
  BY <1>2, <1>3 DEF IInv

\* The submission, or the user changing the selected file, takes a step.
LEMMA IntakeStep ==
  ASSUME IInv, Inspect \/ CheckInput \/ Stage \/ CompareStaged \/ ConfirmSource \/ Register
         \/ IntakeFault \/ EditSource
  PROVE  IInv'
<1> USE OutcomeConstants
        DEF IInv, Revoked, intakeVars, jobVars, deliveryVars, threadVars, boundVars,
            Contents, Files, ACTIVE, Settled, Codes, Receipts, PCs, Steps
<1>1. CASE Inspect
  BY <1>1 DEF Inspect, Submission, TypeOK, InputInv, ReceiptInv, StateInv, LateInv
<1>2. CASE CheckInput
  BY <1>2 DEF CheckInput, Submission, TypeOK, InputInv, ReceiptInv, StateInv, LateInv
<1>3. CASE Stage
  BY <1>3 DEF Stage, Submission, TypeOK, InputInv, ReceiptInv, StateInv, LateInv
<1>4. CASE CompareStaged
  BY <1>4 DEF CompareStaged, GivesUp, Submission, TypeOK, InputInv, ReceiptInv, StateInv,
          LateInv
<1>5. CASE ConfirmSource
  BY <1>5 DEF ConfirmSource, GivesUp, Submission, TypeOK, InputInv, ReceiptInv, StateInv,
          LateInv
<1>6. CASE Register
  BY <1>6 DEF Register, TypeOK, InputInv, ReceiptInv, StateInv, LateInv
<1>7. CASE IntakeFault
  BY <1>7 DEF IntakeFault, GivesUp, TypeOK, InputInv, ReceiptInv, StateInv, LateInv
<1>8. CASE EditSource
  BY <1>8 DEF EditSource, TypeOK, InputInv, ReceiptInv, StateInv, LateInv
<1>9. QED
  BY <1>1, <1>2, <1>3, <1>4, <1>5, <1>6, <1>7, <1>8

\* The session commits its receipt, the outcome is cancelled or lost, or the user or the
\* operating system interferes.
LEMMA OutcomeStep ==
  ASSUME IInv, CommitReceipt \/ Cancel \/ LoseOutcome \/ Edit \/ Crash
  PROVE  IInv'
<1> USE OutcomeConstants
        DEF IInv, Revoked, intakeVars, jobVars, deliveryVars, threadVars, boundVars,
            Contents, Files, ACTIVE, Settled, Codes, Receipts, PCs, Steps
<1>1. CASE CommitReceipt
  BY <1>1 DEF CommitReceipt, TypeOK, InputInv, ReceiptInv, StateInv, LateInv
<1>2. CASE Cancel
  BY <1>2 DEF Cancel, SaveIf, Save, TypeOK, InputInv, ReceiptInv, StateInv, LateInv
<1>3. CASE LoseOutcome
  BY <1>3 DEF LoseOutcome, SaveIf, Save, TypeOK, InputInv, ReceiptInv, StateInv, LateInv
<1>4. CASE Edit
  BY <1>4 DEF Edit, TypeOK, InputInv, ReceiptInv, StateInv, LateInv
<1>5. CASE Crash
  BY <1>5 DEF Crash, TypeOK, InputInv, ReceiptInv, StateInv, LateInv
<1>6. QED
  BY <1>1, <1>2, <1>3, <1>4, <1>5

\* A reconciliation takes a step or fails.
LEMMA ReconcileStep ==
  ASSUME IInv, NEW r \in Reconcilers,
         Reconcile(r) \/ ReconcileFault(r)
  PROVE  IInv'
<1> USE OutcomeConstants
        DEF IInv, Revoked, intakeVars, jobVars, deliveryVars, threadVars, boundVars,
            Contents, Files, ACTIVE, Settled, Codes, Receipts, PCs, Steps
<1>1. CASE Begin(r)
  BY <1>1 DEF Begin, Work, TypeOK, InputInv, ReceiptInv, StateInv, LateInv
<1>2. CASE Compare(r)
  BY <1>2 DEF Compare, Work, Goto, Keep, TypeOK, InputInv, ReceiptInv, StateInv, LateInv
<1>3. CASE Decide(r)
  BY <1>3 DEF Decide, Work, Goto, Keep, TypeOK, InputInv, ReceiptInv, StateInv, LateInv
<1>4. CASE Revoke(r)
  BY <1>4 DEF Revoke, Save, Work, Goto, Keep, TypeOK, InputInv, ReceiptInv, StateInv, LateInv
<1>5. CASE ReadReceipt(r)
  BY <1>5 DEF ReadReceipt, Save, Work, Goto, Keep, TypeOK, InputInv, ReceiptInv, StateInv,
          LateInv
<1>6. CASE Hash(r)
  BY <1>6 DEF Hash, Work, TypeOK, InputInv, ReceiptInv, StateInv, LateInv
<1>7. CASE WriteResult(r)
  BY <1>7 DEF WriteResult, Work, Goto, Keep, TypeOK, InputInv, ReceiptInv, StateInv, LateInv
<1>8. CASE WriteManifest(r)
  <2>1. TypeOK'
    <3>1. /\ pc' \in [Reconcilers -> PCs]
          /\ committed' = committed /\ seen' = seen
      BY <1>8 DEF WriteManifest, Goto, Keep, TypeOK
    <3>2. manifest' \in Contents /\ baselines' \subseteq Contents
      BY <1>8 DEF WriteManifest, TypeOK, ReceiptInv
    <3>3. UNCHANGED <<state, result, calm, late, receipt, output, deliveryVars, intakeVars,
                      boundVars>>
      BY <1>8 DEF WriteManifest, Work
    <3>4. QED
      BY <3>1, <3>2, <3>3 DEF TypeOK
  <2>2. InputInv'
    BY <1>8 DEF WriteManifest, Work, Goto, Keep, TypeOK, InputInv
  <2>3. ReceiptInv'
    BY <1>8 DEF WriteManifest, Work, Goto, Keep, TypeOK, ReceiptInv, StateInv
  <2>4. StateInv'
    BY <1>8 DEF WriteManifest, Work, Goto, Keep, TypeOK, InputInv, ReceiptInv, StateInv
  <2>5. LateInv'
    BY <1>8 DEF WriteManifest, Work, Goto, Keep, TypeOK, ReceiptInv, StateInv, LateInv
  <2>6. QED
    BY <2>1, <2>2, <2>3, <2>4, <2>5
<1>9. CASE Complete(r)
  BY <1>9 DEF Complete, Save, Work, Goto, Keep, TypeOK, InputInv, ReceiptInv, StateInv, LateInv
<1>10. CASE Reject(r)
  BY <1>10 DEF Reject, SaveIf, Save, Work, Goto, Keep, TypeOK, InputInv, ReceiptInv, StateInv,
          LateInv
<1>11. CASE ReconcileFault(r)
  BY <1>11 DEF ReconcileFault, Goto, Keep, TypeOK, InputInv, ReceiptInv, StateInv, LateInv
<1>12. QED
  BY <1>1, <1>2, <1>3, <1>4, <1>5, <1>6, <1>7, <1>8, <1>9, <1>10, <1>11 DEF Reconcile

\* A delivery takes a step or fails; it writes no file that a reconciliation reads.
LEMMA DeliveryStep ==
  ASSUME IInv, NEW d \in Deliveries,
         ReadManifest(d) \/ HashSource(d) \/ CheckDestination(d) \/ Copy(d)
         \/ Readback(d) \/ RecordDelivery(d) \/ DeliveryFault(d)
  PROVE  IInv'
<1> USE OutcomeConstants
        DEF IInv, Revoked, intakeVars, jobVars, deliveryVars, threadVars, boundVars,
            Contents, Files, ACTIVE, Settled, Codes, Receipts, PCs, Steps
<1>1. CASE ReadManifest(d)
  BY <1>1 DEF ReadManifest, TypeOK, InputInv, ReceiptInv, StateInv, LateInv
<1>2. CASE HashSource(d)
  BY <1>2 DEF HashSource, Deliver, Keep, TypeOK, InputInv, ReceiptInv, StateInv, LateInv
<1>3. CASE CheckDestination(d)
  <2>1. TypeOK'
    <3>1. /\ step' \in [Deliveries -> Steps]
          /\ record' \in [Deliveries -> Contents \cup {"absent"}]
      BY <1>3 DEF CheckDestination, Deliver, Keep, TypeOK
    <3>2. destination' \in Files
      BY <1>3 DEF CheckDestination, Deliver, TypeOK
    <3>3. UNCHANGED <<calm, delivery, jobVars, threadVars, late, baselines, intakeVars, boundVars>>
      BY <1>3 DEF CheckDestination, Deliver
    <3>4. QED
      BY <3>1, <3>2, <3>3 DEF TypeOK
  <2>2. InputInv'
    BY <1>3 DEF CheckDestination, Deliver, Keep, TypeOK, InputInv
  <2>3. ReceiptInv'
    BY <1>3 DEF CheckDestination, Deliver, Keep, TypeOK, ReceiptInv, StateInv
  <2>4. StateInv'
    BY <1>3 DEF CheckDestination, Deliver, Keep, TypeOK, InputInv, ReceiptInv, StateInv
  <2>5. LateInv'
    BY <1>3 DEF CheckDestination, Deliver, Keep, TypeOK, ReceiptInv, StateInv, LateInv
  <2>6. QED
    BY <2>1, <2>2, <2>3, <2>4, <2>5
<1>4. CASE Copy(d)
  BY <1>4 DEF Copy, Deliver, Keep, TypeOK, InputInv, ReceiptInv, StateInv, LateInv
<1>5. CASE Readback(d)
  BY <1>5 DEF Readback, Deliver, Keep, TypeOK, InputInv, ReceiptInv, StateInv, LateInv
<1>6. CASE RecordDelivery(d)
  BY <1>6 DEF RecordDelivery, Deliver, Keep, TypeOK, InputInv, ReceiptInv, StateInv, LateInv
<1>7. CASE DeliveryFault(d)
  BY <1>7 DEF DeliveryFault, Keep, TypeOK, InputInv, ReceiptInv, StateInv, LateInv
<1>8. QED
  BY <1>1, <1>2, <1>3, <1>4, <1>5, <1>6, <1>7

LEMMA NextIInv == IInv /\ [Next]_vars => IInv'
<1>1. ASSUME IInv, UNCHANGED vars PROVE IInv'
  BY <1>1 DEF IInv, TypeOK, InputInv, ReceiptInv, StateInv, LateInv, Revoked, vars,
              intakeVars, jobVars, deliveryVars, threadVars, boundVars
<1>2. QED
  BY <1>1, IntakeStep, OutcomeStep, ReconcileStep, DeliveryStep DEF Next

LEMMA Invariant == Spec => []IInv
BY InitIInv, NextIInv, PTL DEF Spec

-----------------------------------------------------------------------------
\* Every file of the job, every thread and every count holds one of the program's values.
THEOREM OutcomeTypeCorrect == Spec => []TypeOK
BY Invariant, PTL DEF IInv

\* A registered job computes on the bytes that its signature names, and they were inspected,
\* whenever the user changes the selected file.
THEOREM InputIsTrue == Spec => []InputTrue
<1>1. IInv => InputTrue
  BY DEF IInv, InputInv, InputTrue
<1>2. QED
  BY <1>1, Invariant, PTL

\* A completed job has its receipt, its manifest and its result, whoever wrote them.
THEOREM CompletedIsBacked == Spec => []CompletedBacked
<1>1. IInv => CompletedBacked
  BY DEF IInv, ReceiptInv, StateInv, CompletedBacked
<1>2. QED
  BY <1>1, Invariant, PTL

\* Who writes the state.
LEMMA StateWriters ==
  ASSUME [Next]_vars
  PROVE  \/ \E r \in Reconcilers : Reconcile(r)
         \/ Cancel \/ LoseOutcome \/ Register
         \/ UNCHANGED state
BY DEF Next, vars, jobVars, deliveryVars, Inspect, CheckInput, Stage, CompareStaged, ConfirmSource,
       IntakeFault, EditSource, Submission, CommitReceipt, Edit, Crash, ReconcileFault,
       ReadManifest, HashSource, CheckDestination, Copy, Readback, RecordDelivery, DeliveryFault,
       Deliver

\* The state after a step from a settled one: only Revoke and Complete write another.
LEMMA SettledStep ==
  ASSUME IInv, [Next]_vars
  PROVE  /\ state.name = "completed" => state'.name = "completed" \/ Revoked'
         /\ state.name \in {"failed", "cancelled"} /\ ~Revoked => state' = state
<1> USE DEF IInv, TypeOK, InputInv, ReceiptInv, StateInv, Revoked, ACTIVE, Settled
<1>1. CASE \E r \in Reconcilers : Reconcile(r)
  <2>1. PICK r \in Reconcilers : Reconcile(r)
    BY <1>1
  <2>2. CASE ReadReceipt(r)
    BY <2>2 DEF ReadReceipt, Save
  <2>3. CASE Complete(r)
    BY <2>3 DEF Complete, Save
  <2>4. CASE Revoke(r)
    BY <2>4 DEF Revoke, Save
  <2>5. CASE Reject(r)
    BY <2>5 DEF Reject, SaveIf
  <2>6. CASE Begin(r) \/ Compare(r) \/ Decide(r) \/ Hash(r) \/ WriteResult(r) \/ WriteManifest(r)
    BY <2>6 DEF Begin, Compare, Decide, Hash, WriteResult, WriteManifest
  <2>7. QED
    BY <2>1, <2>2, <2>3, <2>4, <2>5, <2>6 DEF Reconcile
<1>2. CASE Cancel \/ LoseOutcome \/ Register
  BY <1>2 DEF Cancel, LoseOutcome, Register, SaveIf
<1>3. CASE UNCHANGED state
  BY <1>3
<1>4. QED
  BY <1>1, <1>2, <1>3, StateWriters

\* A reported outcome stays, whichever threads reconcile, fail, cancel or recover.
THEOREM SettledIsFinal == Spec => SettledStays
<1>1. IInv /\ [Next]_vars =>
        [/\ state.name = "completed" => state'.name = "completed" \/ Revoked'
         /\ state.name \in {"failed", "cancelled"} /\ ~Revoked => state' = state]_vars
  BY SettledStep
<1>2. QED
  BY <1>1, Invariant, PTL DEF Spec, SettledStays

\* Only Complete writes "completed".
LEMMA SettledOrNot ==
  ASSUME IInv, [Next]_vars, ~\E q \in Reconcilers : Complete(q)
  PROVE  state' = state \/ state'.name # "completed"
<1>1. ASSUME NEW r \in Reconcilers, Reconcile(r) PROVE state' = state \/ state'.name # "completed"
  BY <1>1 DEF Reconcile, Begin, Compare, Decide, Revoke, ReadReceipt, Hash, WriteResult,
              WriteManifest, Reject, SaveIf, Save
<1>2. CASE Cancel \/ LoseOutcome \/ Register
  BY <1>2 DEF Cancel, LoseOutcome, Register, SaveIf, Save
<1>3. QED
  BY <1>1, <1>2, StateWriters

\* A reconciliation that begins after a revocation never completes the job again.
THEOREM RevokedIsFinal == Spec => RevokedForGood
<1>1. ASSUME IInv, [Next]_vars, NEW r \in late, Revoked, pc'[r] # pc[r]
      PROVE  state'.name # "completed"
  <2>1. r \in Reconcilers /\ pc[r] \in {"idle", "comparing", "deciding", "revoking"}
    BY <1>1 DEF IInv, TypeOK, LateInv
  <2>2. state.name = "failed"
    BY <1>1 DEF IInv, StateInv
  <2>3. CASE \E q \in Reconcilers : Complete(q)
    BY <1>1, <2>1, <2>3 DEF Complete, Goto, Keep, IInv, TypeOK
  <2>4. CASE ~\E q \in Reconcilers : Complete(q)
    <3>1. state' = state \/ state'.name # "completed"
      BY <1>1, <2>1, <2>4, SettledOrNot
    <3>2. QED
      BY <2>2, <3>1
  <2>5. QED
    BY <2>3, <2>4
<1>2. IInv /\ [Next]_vars =>
        [\A r \in late : Revoked /\ pc'[r] # pc[r] => state'.name # "completed"]_vars
  BY <1>1
<1>3. QED
  BY <1>2, Invariant, PTL DEF Spec, RevokedForGood

-----------------------------------------------------------------------------
(* What a thread can rely on in whose call nothing fails and nobody interferes *)

\* A lost outcome says so.
CodeInv ==
  /\ state.name = "unknown" => state.code \in {"OUTCOME_UNKNOWN", "OUTPUT_CONTRACT_INVALID"}
  /\ manifest # "absent" => manifest \in baselines

\* A reconciliation that found the artifact as the manifest has it will find it so again, and
\* rejects only what the receipt or the files do not hold.
CalmInv ==
  \A r \in Reconcilers \cap calm :
    /\ committed[r] # "absent" /\ pc[r] # "comparing" /\ pc[r] # "revoking" =>
         output = committed[r]
    /\ pc[r] = "rejecting" =>
         receipt = "invalid" \/ (receipt = "completed" /\ output = "absent")

\* A delivery compares with a manifest that was committed, and past the readback its destination
\* holds what the manifest says.
ReadbackInv ==
  \A d \in Deliveries :
    /\ step[d] # "idle" => record[d] \in baselines
    /\ d \in calm /\ step[d] = "recording" => destination = record[d]

JInv == CodeInv /\ CalmInv /\ ReadbackInv

LEMMA InitJInv == Init => JInv
BY DEF Init, JInv, CodeInv, CalmInv, ReadbackInv

LEMMA NextJInv == IInv /\ JInv /\ [Next]_vars => JInv'
<1> SUFFICES ASSUME IInv, JInv, [Next]_vars PROVE JInv'
  OBVIOUS
<1> USE OutcomeConstants
        DEF JInv, CodeInv, CalmInv, ReadbackInv, IInv, TypeOK, ReceiptInv, StateInv, Contents,
            intakeVars, jobVars, deliveryVars, threadVars, boundVars, ACTIVE, Settled, PCs, Steps
<1>1. CASE UNCHANGED vars
  BY <1>1 DEF vars
<1>2. CASE Inspect \/ CheckInput \/ Stage \/ CompareStaged \/ ConfirmSource \/ Register
           \/ IntakeFault \/ EditSource
  BY <1>2 DEF Inspect, CheckInput, Stage, CompareStaged, ConfirmSource, Register, IntakeFault,
              EditSource, Submission
<1>3. CASE CommitReceipt
  BY <1>3 DEF CommitReceipt
<1>4. CASE Cancel \/ LoseOutcome
  BY <1>4 DEF Cancel, LoseOutcome, SaveIf, Save
<1>5. CASE Edit
  BY <1>5 DEF Edit
<1>6. CASE Crash
  BY <1>6 DEF Crash
<1>7. ASSUME NEW r \in Reconcilers, Reconcile(r) \/ ReconcileFault(r) PROVE JInv'
  <2>1. CASE Begin(r)
    <3>1. CodeInv' /\ ReadbackInv'
      BY <2>1 DEF Begin, Work
    <3>2. ASSUME NEW q \in Reconcilers, q # r
          PROVE  pc'[q] = pc[q] /\ committed'[q] = committed[q] /\ (q \in calm' <=> q \in calm)
      BY <2>1, <3>2 DEF Begin
    <3>3. committed'[r] = "absent" \/ pc'[r] = "comparing"
      BY <2>1 DEF Begin
    <3>4. pc'[r] # "rejecting" /\ UNCHANGED <<output, receipt>>
      BY <2>1 DEF Begin, Work
    <3>5. CalmInv'
      BY <3>2, <3>3, <3>4
    <3>6. QED
      BY <3>1, <3>5
  <2>2. CASE Compare(r)
    BY <2>2 DEF Compare, Work, Goto, Keep
  <2>3. CASE Decide(r)
    BY <2>3 DEF Decide, Work, Goto, Keep
  <2>4. CASE Revoke(r)
    BY <2>4 DEF Revoke, Save, Work, Goto, Keep
  <2>5. CASE ReadReceipt(r)
    <3>1. CodeInv' /\ ReadbackInv'
      BY <2>5 DEF ReadReceipt, Save, Work, Goto, Keep
    <3>2. ASSUME NEW q \in Reconcilers, q # r
          PROVE  pc'[q] = pc[q] /\ committed'[q] = committed[q]
      BY <2>5, <3>2 DEF ReadReceipt, Goto, Keep
    <3>3. committed'[r] \in {"absent", committed[r]} /\ pc[r] = "reading"
      BY <2>5 DEF ReadReceipt, Goto, Keep
    <3>4. pc'[r] = "rejecting" => receipt = "invalid"
      BY <2>5 DEF ReadReceipt, Goto
    <3>5. UNCHANGED <<output, receipt, calm>>
      BY <2>5 DEF ReadReceipt, Work
    <3>6. CalmInv'
      BY <3>2, <3>3, <3>4, <3>5
    <3>7. QED
      BY <3>1, <3>6
  <2>6. CASE Hash(r)
    BY <2>6 DEF Hash, Work
  <2>7. CASE WriteResult(r)
    BY <2>7 DEF WriteResult, Work, Goto, Keep
  <2>8. CASE WriteManifest(r)
    BY <2>8 DEF WriteManifest, Work, Goto, Keep
  <2>9. CASE Complete(r)
    BY <2>9 DEF Complete, Save, Work, Goto, Keep
  <2>10. CASE Reject(r)
    BY <2>10 DEF Reject, SaveIf, Save, Work, Goto, Keep
  <2>11. CASE ReconcileFault(r)
    BY <2>11 DEF ReconcileFault, Goto, Keep
  <2>12. QED
    BY <1>7, <2>1, <2>2, <2>3, <2>4, <2>5, <2>6, <2>7, <2>8, <2>9, <2>10, <2>11 DEF Reconcile
<1>8. ASSUME NEW d \in Deliveries,
             ReadManifest(d) \/ HashSource(d) \/ CheckDestination(d) \/ Copy(d)
             \/ Readback(d) \/ RecordDelivery(d) \/ DeliveryFault(d)
      PROVE  JInv'
  <2>1. CASE ReadManifest(d)
    <3>1. CodeInv' /\ CalmInv'
      BY <2>1 DEF ReadManifest
    <3>2. ASSUME NEW e \in Deliveries, e # d
          PROVE  step'[e] = step[e] /\ record'[e] = record[e] /\ (e \in calm' <=> e \in calm)
      BY <2>1, <3>2 DEF ReadManifest
    <3>3. record'[d] \in baselines /\ step'[d] = "hashing"
      BY <2>1 DEF ReadManifest
    <3>4. UNCHANGED <<baselines, destination>>
      BY <2>1 DEF ReadManifest
    <3>5. ReadbackInv'
      BY <3>2, <3>3, <3>4
    <3>6. QED
      BY <3>1, <3>5
  <2>2. CASE HashSource(d)
    BY <2>2 DEF HashSource, Deliver, Keep
  <2>3. CASE CheckDestination(d)
    BY <2>3 DEF CheckDestination, Deliver, Keep
  <2>4. CASE Copy(d)
    BY <2>4 DEF Copy, Deliver, Keep
  <2>5. CASE Readback(d)
    BY <2>5 DEF Readback, Deliver, Keep
  <2>6. CASE RecordDelivery(d)
    BY <2>6 DEF RecordDelivery, Deliver, Keep
  <2>7. CASE DeliveryFault(d)
    BY <2>7 DEF DeliveryFault, Keep
  <2>8. QED
    BY <1>8, <2>1, <2>2, <2>3, <2>4, <2>5, <2>6, <2>7
<1>9. QED
  BY <1>1, <1>2, <1>3, <1>4, <1>5, <1>6, <1>7, <1>8 DEF Next

LEMMA CalmInvariant == Spec => [](IInv /\ JInv)
BY InitIInv, InitJInv, NextIInv, NextJInv, PTL DEF Spec

\* A reconciliation in which nothing fails or interferes settles a job that has a valid receipt
\* and its artifact.
THEOREM CalmSettles == Spec => ReconcileSettles
<1>1. ASSUME IInv, JInv, Next, NEW r \in Reconcilers, r \in calm, r \in calm',
             pc[r] # "idle", pc'[r] = "idle", receipt \notin {"none", "invalid"},
             receipt = "completed" => output # "absent"
      PROVE  state'.name \in Settled
  <2> USE DEF IInv, JInv, TypeOK, ReceiptInv, StateInv, CodeInv, CalmInv, Settled, ACTIVE, PCs
  <2>1. ASSUME NEW q \in Reconcilers, Reconcile(q) PROVE state'.name \in Settled
    <3>1. q = r
      BY <1>1, <2>1 DEF Reconcile, Begin, Compare, Decide, Revoke, ReadReceipt, Hash, WriteResult,
                        WriteManifest, Complete, Reject, Goto
    <3>2. CASE Decide(r)
      BY <1>1, <3>2 DEF Decide, Goto
    <3>3. CASE Revoke(r) \/ Complete(r)
      BY <1>1, <3>3 DEF Revoke, Complete, Save
    <3>4. CASE ReadReceipt(r)
      BY <1>1, <3>4 DEF ReadReceipt, Save, Goto
    <3>5. CASE Reject(r)
      BY <1>1, <3>5 DEF Reject
    <3>6. CASE Begin(r) \/ Compare(r) \/ Hash(r) \/ WriteResult(r) \/ WriteManifest(r)
      BY <1>1, <3>6 DEF Begin, Compare, Hash, WriteResult, WriteManifest, Goto
    <3>7. QED
      BY <2>1, <3>1, <3>2, <3>3, <3>4, <3>5, <3>6 DEF Reconcile
  <2>2. ASSUME NEW q \in Reconcilers, ReconcileFault(q) PROVE FALSE
    BY <1>1, <2>2 DEF ReconcileFault, Goto
  <2>3. CASE Crash
    BY <1>1, <2>3 DEF Crash
  <2>4. CASE UNCHANGED pc
    BY <1>1, <2>4
  <2>5. QED
    BY <1>1, <2>1, <2>2, <2>3, <2>4
       DEF Next, threadVars, Inspect, CheckInput, Stage, CompareStaged, ConfirmSource, Register,
           IntakeFault, EditSource, Submission, CommitReceipt, Cancel, LoseOutcome, Edit,
           ReadManifest, HashSource, CheckDestination, Copy, Readback, RecordDelivery,
           DeliveryFault, Deliver
<1>2. IInv /\ JInv /\ [Next]_vars =>
        [\A r \in Reconcilers :
           /\ r \in calm /\ r \in calm' /\ pc[r] # "idle" /\ pc'[r] = "idle"
           /\ receipt \notin {"none", "invalid"} /\ (receipt = "completed" => output # "absent")
           => state'.name \in Settled]_vars
  BY <1>1
<1>3. QED
  BY <1>2, CalmInvariant, PTL DEF Spec, ReconcileSettles

\* A delivery that nobody disturbs at its destination records bytes of a committed manifest,
\* however many deliveries share the destination.
THEOREM DeliveryIsTrue == Spec => DeliveryTrue
<1>1. ASSUME IInv, JInv, Next, NEW d \in Deliveries, step[d] = "recording", d \in calm,
             delivery' # delivery
      PROVE  delivery' \in baselines
  <2>1. ASSUME NEW e \in Deliveries, RecordDelivery(e) PROVE delivery' = destination
    BY <1>1, <2>1 DEF RecordDelivery
  <2>2. \E e \in Deliveries : RecordDelivery(e)
    BY <1>1 DEF Next, deliveryVars, jobVars, Inspect, CheckInput, Stage, CompareStaged,
                ConfirmSource, Register, IntakeFault, EditSource, Submission, CommitReceipt, Cancel,
                LoseOutcome, Edit, Crash, Reconcile, Begin, Compare, Decide, Revoke, ReadReceipt,
                Hash, WriteResult, WriteManifest, Complete, Reject, Work, ReconcileFault,
                ReadManifest, HashSource, CheckDestination, Copy, Readback, DeliveryFault
  <2>3. QED
    BY <1>1, <2>1, <2>2 DEF JInv, ReadbackInv
<1>2. IInv /\ JInv /\ [Next]_vars =>
        [\A d \in Deliveries :
           step[d] = "recording" /\ d \in calm /\ delivery' # delivery
           => delivery' \in baselines]_vars
  BY <1>1
<1>3. QED
  BY <1>2, CalmInvariant, PTL DEF Spec, DeliveryTrue
==============================================================================
