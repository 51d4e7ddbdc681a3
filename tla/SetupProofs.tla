------------------------------ MODULE SetupProofs ------------------------------
(***************************************************************************)
(* For every number of windows, folders and jobs, of actions, failures and *)
(* changes by others: windows lose no folder, touch no foreign entry and   *)
(* clear only the quarantine that their user confirmed.                    *)
(***************************************************************************)
EXTENDS Setup, TLAPS

\* A window that saves holds the lock, so that the document it read is still the one it will
\* replace, by a superset of its folders and after a copy.
SaveInv ==
  \A w \in Windows :
    /\ pc[w] \in Saving => settingsLock = w /\ settings.folders \subseteq selected[w]
    /\ pc[w] \in Saving \ {"backup"} /\ settings.whole => settings \in backups
    /\ pc[w] = "backup" => settings.whole
    /\ pc[w] = "replacing" => temp[w] = Document(selected[w])

\* A window that connects or undoes holds the lock, so that only others than Setup can have
\* changed the entry or the record since it looked.
CodexInv ==
  \A w \in Windows :
    /\ pc[w] \in Connecting \cup Undoing => codexLock = w
    /\ pc[w] \in {"planning", "adding"} /\ undisturbed => entry = "absent"
    /\ pc[w] = "removing" /\ undisturbed => entry = connection.fingerprint

\* A window that clears holds the locks of the executor, which keep Core from both markers.
ClearInv ==
  \A w \in Windows :
    /\ pc[w] \in Clearing =>
         executorLock = w /\ shown[w] = quarantine /\ active \in {NoJob, quarantine}
    /\ pc[w] = "clearing" => active = NoJob

IInv == TypeOK /\ SaveInv /\ CodexInv /\ ClearInv

LEMMA InitIInv == Init => IInv
<1>1. SUFFICES ASSUME Init PROVE IInv
  OBVIOUS
<1>2. TypeOK
  <2>1. /\ connection \in Connections /\ entry \in Entries
        /\ found \in [Windows -> Entries]
    BY <1>1 DEF Init, NoConnection, Connections, Entries
  <2>2. actions \in 0..MaxActions /\ mishaps \in 0..MaxMishaps /\ edits \in 0..MaxEdits
    BY <1>1, SetupConstants DEF Init
  <2>3. /\ quarantine \in Jobs \cup {NoJob} /\ active \in Jobs \cup {NoJob}
        /\ shown \in [Windows -> Jobs \cup {NoJob}]
    BY <1>1 DEF Init
  <2>4. /\ pc \in [Windows -> {"idle", "done", "closed"} \cup Working]
        /\ selected \in [Windows -> SUBSET Folders]
        /\ temp \in [Windows -> Documents \cup {Missing, Torn}]
    BY <1>1 DEF Init
  <2>5. QED
    BY <1>1, <2>1, <2>2, <2>3, <2>4 DEF Init, TypeOK
<1>3. SaveInv /\ CodexInv /\ ClearInv
  BY <1>1 DEF Init, SaveInv, CodexInv, ClearInv, Saving, Connecting, Undoing, Clearing, Working
<1>4. QED
  BY <1>2, <1>3 DEF IInv

\* An action of a window ends, by itself or by a failure.
LEMMA ActionStep ==
  ASSUME IInv, NEW w \in Windows,
         Poll(w) \/ Fail(w)
  PROVE  IInv'
<1> USE SetupConstants
        DEF IInv, settingsVars, codexVars, executorVars, boundVars,
            Saving, Connecting, Undoing, Clearing, Working
<1>1. CASE Poll(w)
  BY <1>1 DEF Poll, Step, Goto, TypeOK, SaveInv, CodexInv, ClearInv
<1>2. CASE Fail(w)
  BY <1>2 DEF Fail, Goto, Released, TypeOK, SaveInv, CodexInv, ClearInv
<1>3. QED
  BY <1>1, <1>2

\* A window saves folders.
LEMMA SettingsStep ==
  ASSUME IInv, NEW w \in Windows,
         \/ \E f \in Folders : Save(w, f)
         \/ Backup(w) \/ CreateTemporary(w) \/ FillTemporary(w) \/ ReplaceSettings(w)
  PROVE  IInv'
<1> USE SetupConstants
        DEF IInv, settingsVars, codexVars, executorVars, boundVars,
            Saving, Connecting, Undoing, Clearing, Working
<1>1. CASE \E f \in Folders : Save(w, f)
  <2>1. TypeOK'
    <3>1. PICK f \in Folders : Save(w, f)
      BY <1>1
    <3>2. settings.folders \subseteq Folders
      <4>1. settings \in Documents \/ settings = Missing
        BY DEF TypeOK
      <4>2. ASSUME settings \in Documents PROVE settings.folders \in SUBSET Folders
        BY <4>2 DEF Documents
      <4>3. ASSUME settings = Missing PROVE settings.folders = {}
        BY <4>3 DEF Missing
      <4>4. QED
        BY <4>1, <4>2, <4>3
    <3>3. /\ selected' \in [Windows -> SUBSET Folders]
          /\ settingsLock' \in Windows \cup {NoWindow}
          /\ pc' \in [Windows -> {"idle", "done", "closed"} \cup Working]
      BY <3>1, <3>2 DEF Save, Goto, TypeOK
    <3>4. actions' \in 0..MaxActions
      BY <3>1 DEF Save, Starts, TypeOK
    <3>5. UNCHANGED <<settings, temp, backups, codexVars, executorVars, mishaps, edits>>
      BY <3>1 DEF Save, Starts, SettingsFrame
    <3>6. QED
      BY <3>3, <3>4, <3>5 DEF TypeOK
  <2>2. SaveInv'
    BY <1>1 DEF Save, Starts, Goto, SettingsFrame, TypeOK, SaveInv
  <2>3. CodexInv'
    BY <1>1 DEF Save, Starts, Goto, SettingsFrame, TypeOK, CodexInv
  <2>4. ClearInv'
    BY <1>1 DEF Save, Starts, Goto, SettingsFrame, TypeOK, ClearInv
  <2>5. QED
    BY <2>1, <2>2, <2>3, <2>4
<1>2. CASE Backup(w)
  <2>1. TypeOK'
    <3>1. settings \in Documents
      BY <1>2 DEF Backup, Step, TypeOK, SaveInv, Missing
    <3>2. /\ backups' \subseteq Documents
          /\ pc' \in [Windows -> {"idle", "done", "closed"} \cup Working]
      BY <1>2, <3>1 DEF Backup, Step, Goto, TypeOK
    <3>3. UNCHANGED <<settings, temp, selected, settingsLock, codexVars, executorVars, boundVars>>
      BY <1>2 DEF Backup, Step, SettingsFrame
    <3>4. QED
      BY <3>2, <3>3 DEF TypeOK
  <2>2. SaveInv'
    BY <1>2 DEF Backup, Step, Goto, SettingsFrame, TypeOK, SaveInv
  <2>3. CodexInv'
    BY <1>2 DEF Backup, Step, Goto, SettingsFrame, TypeOK, CodexInv
  <2>4. ClearInv'
    BY <1>2 DEF Backup, Step, Goto, SettingsFrame, TypeOK, ClearInv
  <2>5. QED
    BY <2>1, <2>2, <2>3, <2>4
<1>3. CASE CreateTemporary(w)
  BY <1>3 DEF CreateTemporary, Step, Goto, SettingsFrame, Torn, TypeOK, SaveInv, CodexInv,
          ClearInv
<1>4. CASE FillTemporary(w)
  BY <1>4 DEF FillTemporary, Step, Goto, SettingsFrame, Document, Documents, TypeOK, SaveInv,
          CodexInv, ClearInv
<1>5. CASE ReplaceSettings(w)
  <2>1. TypeOK'
    <3>1. settings' \in Documents
      <4>1. settings' = Document(selected[w])
        BY <1>5 DEF ReplaceSettings, Step, SaveInv
      <4>2. selected[w] \in SUBSET Folders
        BY DEF TypeOK
      <4>3. QED
        BY <4>1, <4>2 DEF Document, Documents
    <3>2. /\ temp' \in [Windows -> Documents \cup {Missing, Torn}]
          /\ settingsLock' \in Windows \cup {NoWindow}
          /\ pc' \in [Windows -> {"idle", "done", "closed"} \cup Working]
      BY <1>5 DEF ReplaceSettings, Released, Step, Goto, TypeOK
    <3>3. UNCHANGED <<backups, selected, codexVars, executorVars, boundVars>>
      BY <1>5 DEF ReplaceSettings, Step, SettingsFrame
    <3>4. QED
      BY <3>1, <3>2, <3>3 DEF TypeOK
  <2>2. SaveInv'
    BY <1>5 DEF ReplaceSettings, Released, Step, Goto, SettingsFrame, Document, Documents,
             Missing, TypeOK, SaveInv
  <2>3. CodexInv'
    BY <1>5 DEF ReplaceSettings, Released, Step, Goto, SettingsFrame, Document, Documents,
             Missing, TypeOK, CodexInv
  <2>4. ClearInv'
    BY <1>5 DEF ReplaceSettings, Released, Step, Goto, SettingsFrame, Document, Documents,
             Missing, TypeOK, ClearInv
  <2>5. QED
    BY <2>1, <2>2, <2>3, <2>4
<1>6. QED
  BY <1>1, <1>2, <1>3, <1>4, <1>5

\* A window connects or removes the connection.
LEMMA CodexStep ==
  ASSUME IInv, NEW w \in Windows,
         \/ Connect(w) \/ Plan(w) \/ Add(w) \/ ReadBack(w) \/ Uncertain(w) \/ Connected(w)
         \/ Undo(w) \/ Remove(w) \/ Verify(w) \/ Removed(w)
  PROVE  IInv'
<1> USE SetupConstants
        DEF IInv, settingsVars, codexVars, executorVars, boundVars,
            Saving, Connecting, Undoing, Clearing, Working
<1>1. CASE Connect(w)
  BY <1>1 DEF Connect, Looks, Starts, Goto, CodexFrame, TypeOK, SaveInv, CodexInv, ClearInv
<1>2. CASE Plan(w)
  BY <1>2 DEF Plan, Step, Goto, CodexFrame, Connections, Entries, TypeOK, SaveInv, CodexInv,
          ClearInv
<1>3. CASE Add(w)
  BY <1>3 DEF Add, Step, Goto, CodexFrame, Entries, TypeOK, SaveInv, CodexInv, ClearInv
<1>4. CASE ReadBack(w)
  BY <1>4 DEF ReadBack, Step, Goto, CodexFrame, TypeOK, SaveInv, CodexInv, ClearInv
<1>5. CASE Uncertain(w)
  BY <1>5 DEF Uncertain, Conclude, Step, Goto, CodexFrame, Connections, TypeOK, SaveInv,
          CodexInv, ClearInv
<1>6. CASE Connected(w)
  BY <1>6 DEF Connected, Step, Goto, CodexFrame, Connections, TypeOK, SaveInv, CodexInv,
          ClearInv
<1>7. CASE Undo(w)
  BY <1>7 DEF Undo, Looks, Starts, Goto, CodexFrame, TypeOK, SaveInv, CodexInv, ClearInv
<1>8. CASE Remove(w)
  BY <1>8 DEF Remove, Step, Goto, CodexFrame, Entries, TypeOK, SaveInv, CodexInv, ClearInv
<1>9. CASE Verify(w)
  BY <1>9 DEF Verify, Step, Goto, CodexFrame, TypeOK, SaveInv, CodexInv, ClearInv
<1>10. CASE Removed(w)
  BY <1>10 DEF Removed, Conclude, Step, Goto, CodexFrame, Connections, TypeOK, SaveInv,
          CodexInv, ClearInv
<1>11. QED
  BY <1>1, <1>2, <1>3, <1>4, <1>5, <1>6, <1>7, <1>8, <1>9, <1>10

\* A window clears a quarantine.
LEMMA ClearStep ==
  ASSUME IInv, NEW w \in Windows,
         Review(w) \/ SaveReceipt(w) \/ Retire(w) \/ Clear(w)
  PROVE  IInv'
<1> USE SetupConstants
        DEF IInv, settingsVars, codexVars, executorVars, boundVars,
            Saving, Connecting, Undoing, Clearing, Working
<1>1. CASE Review(w)
  BY <1>1 DEF Review, Starts, Goto, ExecutorFrame, TypeOK, SaveInv, CodexInv, ClearInv
<1>2. CASE SaveReceipt(w)
  BY <1>2 DEF SaveReceipt, Step, Goto, ExecutorFrame, TypeOK, SaveInv, CodexInv, ClearInv
<1>3. CASE Retire(w)
  BY <1>3 DEF Retire, Step, Goto, ExecutorFrame, TypeOK, SaveInv, CodexInv, ClearInv
<1>4. CASE Clear(w)
  BY <1>4 DEF Clear, Step, Goto, ExecutorFrame, TypeOK, SaveInv, CodexInv, ClearInv
<1>5. QED
  BY <1>1, <1>2, <1>3, <1>4

\* Codex, its user or Core takes a step.
LEMMA OthersStep ==
  ASSUME IInv, Edit \/ CoreEnds \/ \E j \in Jobs : CoreRuns(j) \/ CoreRecovers(j)
  PROVE  IInv'
<1> USE SetupConstants
        DEF IInv, settingsVars, codexVars, executorVars, boundVars,
            Saving, Connecting, Undoing, Clearing, Working
<1>1. CASE Edit
  <2>1. TypeOK'
    <3>1. entry' \in Entries /\ undisturbed' \in BOOLEAN
      BY <1>1 DEF Edit
    <3>2. edits' \in 0..MaxEdits
      BY <1>1 DEF Edit, TypeOK
    <3>3. UNCHANGED <<pc, settingsVars, connection, found, codexLock, executorVars, actions,
                      mishaps>>
      BY <1>1 DEF Edit, CodexFrame
    <3>4. QED
      BY <3>1, <3>2, <3>3 DEF TypeOK
  <2>2. SaveInv'
    BY <1>1 DEF Edit, CodexFrame, TypeOK, SaveInv
  <2>3. CodexInv'
    BY <1>1 DEF Edit, CodexFrame, TypeOK, CodexInv
  <2>4. ClearInv'
    BY <1>1 DEF Edit, CodexFrame, TypeOK, ClearInv
  <2>5. QED
    BY <2>1, <2>2, <2>3, <2>4
<1>2. CASE CoreEnds
  BY <1>2 DEF CoreEnds, CoreFrame, TypeOK, SaveInv, CodexInv, ClearInv
<1>3. CASE \E j \in Jobs : CoreRuns(j)
  BY <1>3 DEF CoreRuns, CoreFrame, TypeOK, SaveInv, CodexInv, ClearInv
<1>4. CASE \E j \in Jobs : CoreRecovers(j)
  BY <1>4 DEF CoreRecovers, CoreFrame, TypeOK, SaveInv, CodexInv, ClearInv
<1>5. QED
  BY <1>1, <1>2, <1>3, <1>4

LEMMA NextIInv == IInv /\ [Next]_vars => IInv'
<1>1. ASSUME IInv, UNCHANGED vars PROVE IInv'
  BY <1>1 DEF IInv, TypeOK, SaveInv, CodexInv, ClearInv, vars,
              settingsVars, codexVars, executorVars, boundVars
<1>2. QED
  BY <1>1, ActionStep, SettingsStep, CodexStep, ClearStep, OthersStep DEF Next, Window

LEMMA Invariant == Spec => []IInv
BY InitIInv, NextIInv, PTL DEF Spec

-----------------------------------------------------------------------------
\* Settings, records, markers, locks and windows hold only the values the code gives them.
THEOREM SetupTypeCorrect == Spec => []TypeOK
BY Invariant, PTL DEF IInv

\* Only ReplaceSettings writes settings.json.
LEMMA SettingsWriter ==
  ASSUME [Next]_vars, settings' # settings
  PROVE  \E w \in Windows : ReplaceSettings(w)
<1>1. ASSUME NEW w \in Windows, Window(w), ~ReplaceSettings(w) PROVE settings' = settings
  BY <1>1 DEF Window, Poll, Fail, Save, Backup, CreateTemporary, FillTemporary, Connect, Plan, Add,
              ReadBack, Uncertain, Connected, Undo, Remove, Verify, Removed, Conclude, Looks,
              Review, SaveReceipt, Retire, Clear, CodexFrame, ExecutorFrame, settingsVars
<1>2. CASE UNCHANGED vars \/ Edit \/ CoreEnds \/ \E j \in Jobs : CoreRuns(j) \/ CoreRecovers(j)
  BY <1>2 DEF vars, Edit, CoreEnds, CoreRuns, CoreRecovers, CoreFrame, CodexFrame, settingsVars
<1>3. QED
  BY <1>1, <1>2 DEF Next

\* Windows that save at once lose no folder and keep a copy of every document they replace.
THEOREM SettingsOnlyGrow == Spec => SettingsGrow
<1>1. ASSUME IInv, [Next]_vars, settings' # settings
      PROVE  /\ settings.folders \subseteq settings'.folders
             /\ settings.whole => settings \in backups
  <2>1. PICK w \in Windows : ReplaceSettings(w)
    BY <1>1, SettingsWriter
  <2>2. settings' = Document(selected[w])
    BY <1>1, <2>1 DEF IInv, SaveInv, ReplaceSettings, Step
  <2>3. QED
    BY <1>1, <2>1, <2>2 DEF IInv, SaveInv, ReplaceSettings, Step, Saving, Document
<1>2. IInv /\ [Next]_vars =>
        [settings' # settings =>
           /\ settings.folders \subseteq settings'.folders
           /\ settings.whole => settings \in backups]_vars
  BY <1>1
<1>3. QED
  BY <1>2, Invariant, PTL DEF Spec, SettingsGrow

\* Others than Setup change the entry only in Edit, Setup in Add and Remove.
LEMMA EntryWriter ==
  ASSUME IInv, [Next]_vars, entry' # entry, edits' = edits
  PROVE  \E w \in Windows : Add(w) \/ Remove(w)
<1>1. ASSUME NEW w \in Windows, Window(w), ~Add(w), ~Remove(w) PROVE entry' = entry
  BY <1>1 DEF Window, Poll, Fail, Save, Backup, CreateTemporary, FillTemporary, ReplaceSettings,
              Connect, Plan, ReadBack, Uncertain, Connected, Undo, Verify, Removed, Conclude, Looks,
              Review, SaveReceipt, Retire, Clear, SettingsFrame, ExecutorFrame, codexVars
<1>2. CASE UNCHANGED vars \/ CoreEnds \/ \E j \in Jobs : CoreRuns(j) \/ CoreRecovers(j)
  BY <1>2 DEF vars, CoreEnds, CoreRuns, CoreRecovers, CoreFrame, codexVars
<1>3. CASE Edit
  BY <1>3, SetupConstants DEF Edit, IInv, TypeOK
<1>4. QED
  BY <1>1, <1>2, <1>3 DEF Next

\* Setup adds its entry only where none was and removes only the entry that it had read back, as
\* far as nobody changed the entry since it looked.
THEOREM ForeignEntryKept == Spec => EntryKept
<1>1. ASSUME IInv, [Next]_vars, entry' # entry, edits' = edits, undisturbed
      PROVE  entry = "absent" \/ (entry' = "absent" /\ entry = connection.fingerprint)
  <2>1. PICK w \in Windows : Add(w) \/ Remove(w)
    BY <1>1, EntryWriter
  <2>2. CASE Add(w)
    BY <1>1, <2>2 DEF Add, Step, IInv, CodexInv
  <2>3. CASE Remove(w)
    BY <1>1, <2>3 DEF Remove, Step, IInv, CodexInv
  <2>4. QED
    BY <2>1, <2>2, <2>3
<1>2. IInv /\ [Next]_vars =>
        [entry' # entry /\ edits' = edits /\ undisturbed =>
           \/ entry = "absent"
           \/ entry' = "absent" /\ entry = connection.fingerprint]_vars
  BY <1>1
<1>3. QED
  BY <1>2, Invariant, PTL DEF Spec, EntryKept

\* A window takes away only the markers of the quarantine that its user confirmed, the active
\* one first.
THEOREM ClearIsConfirmed == Spec => ClearConfirmed
<1>1. ASSUME IInv, [Next]_vars, edits' = edits
      PROVE  /\ active' # active => active = quarantine
             /\ quarantine' # quarantine =>
                  active = NoJob /\ executorLock \in Windows /\ shown[executorLock] = quarantine
  <2>1. CASE \E w \in Windows : Retire(w) \/ Clear(w)
    BY <1>1, <2>1 DEF Retire, Clear, Step, IInv, ClearInv, Clearing
  <2>2. ASSUME NEW w \in Windows, Window(w), ~Retire(w), ~Clear(w)
        PROVE  active' = active /\ quarantine' = quarantine
    BY <2>2 DEF Window, Poll, Fail, Save, Backup, CreateTemporary, FillTemporary, ReplaceSettings,
                Connect, Plan, Add, ReadBack, Uncertain, Connected, Undo, Remove, Verify, Removed,
                Conclude, Looks, Review, SaveReceipt, SettingsFrame, CodexFrame, executorVars
  <2>3. CASE UNCHANGED vars
    BY <2>3 DEF vars, executorVars
  <2>4. CASE Edit \/ CoreEnds \/ \E j \in Jobs : CoreRuns(j) \/ CoreRecovers(j)
    BY <1>1, <2>4, SetupConstants
       DEF Edit, CoreEnds, CoreRuns, CoreRecovers, CoreFrame, IInv, TypeOK
  <2>5. QED
    BY <1>1, <2>1, <2>2, <2>3, <2>4 DEF Next
<1>2. IInv /\ [Next]_vars =>
        [edits' = edits =>
           /\ active' # active => active = quarantine
           /\ quarantine' # quarantine =>
                active = NoJob /\ executorLock \in Windows /\ shown[executorLock] = quarantine]_vars
  BY <1>1
<1>3. QED
  BY <1>2, Invariant, PTL DEF Spec, ClearConfirmed
==============================================================================
