--------------------------------- MODULE Setup ---------------------------------
(***************************************************************************)
(* The setup window (setup_ui.py): it saves the folders a user authorizes, *)
(* adds and removes the Companion's entry in the Codex configuration, and  *)
(* clears an executor quarantine whose session the user has verified.      *)
(* Several windows may be open on one root.  Each runs one action at a     *)
(* time; locks of the root keep two windows apart, but nothing keeps Codex *)
(* and its user away from the entry, and a window may die in any action.   *)
(*                                                                         *)
(* atomic_json (storage.py) is taken apart where it writes settings.json:  *)
(* a temporary file is created, filled and renamed.                        *)
(***************************************************************************)
EXTENDS FiniteSets, Naturals

CONSTANTS
  Windows,
  Folders,     \* what users select
  Jobs,
  Core,        \* the Core that executes jobs of this root
  NoWindow, NoJob,
  MaxActions,  \* bound: actions users start
  MaxMishaps,  \* bound: writes and calls that fail, and windows that are closed
  MaxEdits     \* bound: changes by others, of the entry by its user and of the markers by Core

ASSUME SetupConstants ==
  /\ NoWindow \notin Windows /\ Core \notin Windows /\ Core # NoWindow /\ NoJob \notin Jobs
  /\ MaxActions \in Nat /\ MaxMishaps \in Nat /\ MaxEdits \in Nat

VARIABLES
  pc,           \* where each window's action stands
  \* settings.json, its .tmp files, and what a window is about to write
  settings, temp, backups, selected, settingsLock,
  \* the Codex configuration and codex-connection.json
  entry, connection,
  found,        \* the entry a window read back
  codexLock,
  undisturbed,  \* history: nobody else changed the entry since the owner of the lock looked
  \* executor-quarantine.json, executor-active.json, and what a window displays
  quarantine, active, shown,
  executorLock, \* .recovery.lock and .execution.lock
  actions, mishaps, edits

settingsVars == <<settings, temp, backups, selected, settingsLock>>
codexVars == <<entry, connection, found, codexLock, undisturbed>>
executorVars == <<quarantine, active, shown, executorLock>>
boundVars == <<actions, mishaps, edits>>
vars == <<pc, settingsVars, codexVars, executorVars, boundVars>>

\* A settings document is the set of its authorized folders; a file may be missing or cut off.
Missing == [whole |-> FALSE, folders |-> {}]
Torn == [whole |-> FALSE, folders |-> Folders]
Document(folders) == [whole |-> TRUE, folders |-> folders]
Documents == [whole : {TRUE}, folders : SUBSET Folders]

\* The named entry: none, as setup adds it, the same connection with other options, another one.
\* Only a fingerprint tells the second from the third.
Entries == {"absent", "added", "variant", "other"}
Matching == {"added", "variant"}

\* codex-connection.json: its state, and the entry whose fingerprint it holds.
NoConnection == [state |-> "none", fingerprint |-> "absent"]
Connections ==
  [state : {"none", "planned", "connected", "uncertain", "removed"}, fingerprint : Entries]

Saving == {"backup", "creating", "filling", "replacing"}
Connecting == {"planning", "adding", "readback", "connected", "uncertain"}
Undoing == {"removing", "verifying", "removed"}
Clearing == {"receipt", "retiring", "clearing"}
Working == Saving \cup Connecting \cup Undoing \cup Clearing

TypeOK ==
  /\ pc \in [Windows -> {"idle", "done", "closed"} \cup Working]
  /\ settings \in Documents \cup {Missing}
  /\ temp \in [Windows -> Documents \cup {Missing, Torn}]
  /\ backups \subseteq Documents
  /\ selected \in [Windows -> SUBSET Folders]
  /\ settingsLock \in Windows \cup {NoWindow}
  /\ entry \in Entries /\ connection \in Connections
  /\ found \in [Windows -> Entries]
  /\ codexLock \in Windows \cup {NoWindow} /\ undisturbed \in BOOLEAN
  /\ quarantine \in Jobs \cup {NoJob} /\ active \in Jobs \cup {NoJob}
  /\ shown \in [Windows -> Jobs \cup {NoJob}]
  /\ executorLock \in Windows \cup {NoWindow, Core}
  /\ actions \in 0..MaxActions /\ mishaps \in 0..MaxMishaps /\ edits \in 0..MaxEdits

\* The windows open on a root without settings or record; Codex may have an entry of the name,
\* and Core a quarantine.
Init ==
  /\ pc = [w \in Windows |-> "idle"]
  /\ settings = Missing /\ temp = [w \in Windows |-> Missing] /\ backups = {}
  /\ selected = [w \in Windows |-> {}] /\ settingsLock = NoWindow
  /\ entry \in {"absent", "other"} /\ connection = NoConnection
  /\ found = [w \in Windows |-> "absent"]
  /\ codexLock = NoWindow /\ undisturbed = FALSE
  /\ quarantine \in Jobs \cup {NoJob} /\ active \in {NoJob, quarantine}
  /\ shown = [w \in Windows |-> quarantine] /\ executorLock = NoWindow
  /\ actions = 0 /\ mishaps = 0 /\ edits = 0

-----------------------------------------------------------------------------
(* The window: one action at a time, in a thread of its own.               *)

\* A window whose buttons are enabled starts an action.  "Connect" saves the folders and then
\* connects, which is two actions here.
Starts(w) ==
  /\ pc[w] = "idle"
  /\ actions < MaxActions /\ actions' = actions + 1 /\ UNCHANGED <<mishaps, edits>>

Goto(w, to) == pc' = [pc EXCEPT ![w] = to]

Step(w, from, to) == pc[w] = from /\ Goto(w, to) /\ UNCHANGED boundVars

Released(lock, w) == IF lock = w THEN NoWindow ELSE lock

\* The action's result arrives: the buttons are enabled and the quarantine is displayed, unless
\* it cannot be read, which leaves the earlier display and its confirmation.
Poll(w) ==
  /\ Step(w, "done", "idle")
  /\ shown' \in {shown, [shown EXCEPT ![w] = quarantine]}
  /\ UNCHANGED <<settingsVars, codexVars, quarantine, active, executorLock>>

\* The action ends in the middle and its locks are released: a call raises, which removes the
\* temporary file, or the window is closed, which does not.
Fail(w) ==
  /\ pc[w] \in Working
  /\ mishaps < MaxMishaps /\ mishaps' = mishaps + 1
  /\ \/ Goto(w, "done") /\ temp' = [temp EXCEPT ![w] = Missing]
     \/ Goto(w, "closed") /\ UNCHANGED temp
  /\ settingsLock' = Released(settingsLock, w)
  /\ codexLock' = Released(codexLock, w)
  /\ executorLock' = Released(executorLock, w)
  /\ UNCHANGED <<settings, backups, selected, entry, connection, found, undisturbed,
                 quarantine, active, shown, actions, edits>>

-----------------------------------------------------------------------------
(* save_settings                                                           *)

SettingsFrame == UNCHANGED <<codexVars, executorVars>>

\* Mutant: the lock is not taken.
SaveUnlocked(w, f) ==
  /\ Starts(w)
  /\ selected' = [selected EXCEPT ![w] = settings.folders \cup {f}]
  /\ Goto(w, IF f \in settings.folders THEN "done"
             ELSE IF settings.whole THEN "backup" ELSE "creating")
  /\ UNCHANGED <<settings, temp, backups, settingsLock>> /\ SettingsFrame

\* Folders are only added; a document that has them already is left alone, and one that
\* exists is copied before it is replaced.
Save(w, f) ==
  /\ Starts(w) /\ settingsLock = NoWindow
  /\ selected' = [selected EXCEPT ![w] = settings.folders \cup {f}]
  /\ \/ f \in settings.folders /\ Goto(w, "done") /\ UNCHANGED settingsLock
     \/ /\ f \notin settings.folders /\ settingsLock' = w
        /\ Goto(w, IF settings.whole THEN "backup" ELSE "creating")
  /\ UNCHANGED <<settings, temp, backups>> /\ SettingsFrame

Backup(w) ==
  /\ Step(w, "backup", "creating")
  /\ backups' = backups \cup {settings}
  /\ UNCHANGED <<settings, temp, selected, settingsLock>> /\ SettingsFrame

\* Mutant: the target itself is opened for writing.
CreateInPlace(w) ==
  /\ Step(w, "creating", "filling")
  /\ settings' = Torn
  /\ UNCHANGED <<temp, backups, selected, settingsLock>> /\ SettingsFrame

CreateTemporary(w) ==
  /\ Step(w, "creating", "filling")
  /\ temp' = [temp EXCEPT ![w] = Torn]
  /\ UNCHANGED <<settings, backups, selected, settingsLock>> /\ SettingsFrame

FillTemporary(w) ==
  /\ Step(w, "filling", "replacing")
  /\ temp' = [temp EXCEPT ![w] = Document(selected[w])]
  /\ UNCHANGED <<settings, backups, selected, settingsLock>> /\ SettingsFrame

\* os.replace, and the lock is released.
ReplaceSettings(w) ==
  /\ Step(w, "replacing", "done")
  /\ settings' = temp[w] /\ temp' = [temp EXCEPT ![w] = Missing]
  /\ settingsLock' = Released(settingsLock, w)
  /\ UNCHANGED <<backups, selected>> /\ SettingsFrame

-----------------------------------------------------------------------------
(* connect_codex                                                           *)

CodexFrame == UNCHANGED <<settingsVars, executorVars>>

\* The owner of the lock lists the entries.
Looks(w) ==
  /\ Starts(w) /\ codexLock = NoWindow
  /\ codexLock' = w /\ undisturbed' = TRUE
  /\ UNCHANGED <<entry, connection, found>> /\ CodexFrame

\* Only an absent entry is added: one that is there, whatever it is, is kept.
Connect(w) == Looks(w) /\ entry = "absent" /\ Goto(w, "planning")

\* The record of an earlier connection is archived and a new one written.
Plan(w) ==
  /\ Step(w, "planning", "adding")
  /\ connection' = [state |-> "planned", fingerprint |-> "absent"]
  /\ UNCHANGED <<entry, found, codexLock, undisturbed>> /\ CodexFrame

\* "codex mcp add": whether it takes effect and what it answers are two things.
Add(w) ==
  /\ entry' \in {entry, "added"}
  /\ \E to \in {"readback", "uncertain"} : Step(w, "adding", to)
  /\ UNCHANGED <<connection, found, codexLock, undisturbed>> /\ CodexFrame

\* The entry is read back, or cannot be.
ReadBack(w) ==
  /\ \/ entry \in Matching /\ Step(w, "readback", "connected")
     \/ Step(w, "readback", "uncertain")
  /\ found' = [found EXCEPT ![w] = entry]
  /\ UNCHANGED <<entry, connection, codexLock, undisturbed>> /\ CodexFrame

\* The record is written for good and the lock released.
Conclude(w, state) ==
  /\ Step(w, state, "done")
  /\ connection' = [connection EXCEPT !.state = state]
  /\ codexLock' = NoWindow
  /\ UNCHANGED <<entry, found, undisturbed>> /\ CodexFrame

Uncertain(w) == Conclude(w, "uncertain")

\* The record authorizes the removal of what was read back, and of nothing else.
Connected(w) ==
  /\ Step(w, "connected", "done")
  /\ connection' = [state |-> "connected", fingerprint |-> found[w]]
  /\ codexLock' = NoWindow
  /\ UNCHANGED <<entry, found, undisturbed>> /\ CodexFrame

-----------------------------------------------------------------------------
(* rollback_codex                                                          *)

\* Mutant: an entry with the expected command and arguments is removed.
UndoMatching(w) ==
  /\ Looks(w)
  /\ connection.state # "none" /\ entry \in Matching
  /\ Goto(w, "removing")

\* The record's state is not asked, but only a connection that was read back has a fingerprint.
Undo(w) ==
  /\ Looks(w)
  /\ connection.state # "none" /\ entry \in Matching /\ entry = connection.fingerprint
  /\ Goto(w, "removing")

\* "codex mcp remove".
Remove(w) ==
  /\ entry' \in {entry, "absent"}
  /\ \/ Step(w, "removing", "verifying") /\ UNCHANGED codexLock
     \/ Step(w, "removing", "done") /\ codexLock' = NoWindow
  /\ UNCHANGED <<connection, found, undisturbed>> /\ CodexFrame

\* The entries are listed again: one of the name means that the removal is not confirmed.
Verify(w) ==
  /\ \/ entry = "absent" /\ Step(w, "verifying", "removed") /\ UNCHANGED codexLock
     \/ entry # "absent" /\ Step(w, "verifying", "done") /\ codexLock' = NoWindow
  /\ UNCHANGED <<entry, connection, found, undisturbed>> /\ CodexFrame

Removed(w) == Conclude(w, "removed")

\* Codex or its user changes the entry; nothing keeps them out.
Edit ==
  /\ edits < MaxEdits /\ edits' = edits + 1
  /\ entry' \in Entries \ {entry}
  /\ undisturbed' = FALSE
  /\ UNCHANGED <<pc, connection, found, codexLock, actions, mishaps>> /\ CodexFrame

-----------------------------------------------------------------------------
(* clear_quarantine                                                        *)

ExecutorFrame == UNCHANGED <<settingsVars, codexVars>>

\* Mutant: whatever is quarantined by now is cleared.
ReviewUnseen(w) ==
  /\ Starts(w) /\ executorLock = NoWindow
  /\ shown[w] # NoJob /\ quarantine # NoJob
  /\ active \in {NoJob, quarantine}
  /\ executorLock' = w /\ Goto(w, "receipt")
  /\ UNCHANGED <<quarantine, active, shown>> /\ ExecutorFrame

\* The user confirmed the quarantine on display.  It must still be there, and an active marker
\* must be of the same job.
Review(w) ==
  /\ Starts(w) /\ executorLock = NoWindow
  /\ quarantine # NoJob /\ shown[w] = quarantine
  /\ active \in {NoJob, quarantine}
  /\ executorLock' = w /\ Goto(w, "receipt")
  /\ UNCHANGED <<quarantine, active, shown>> /\ ExecutorFrame

\* The recovery receipt is written and both markers are looked at again.
SaveReceipt(w) ==
  /\ Step(w, "receipt", "retiring")
  /\ UNCHANGED executorVars /\ ExecutorFrame

\* The active marker goes first, so that the quarantine blocks if the rest fails.
Retire(w) ==
  /\ Step(w, "retiring", "clearing")
  /\ active' = NoJob
  /\ UNCHANGED <<quarantine, shown, executorLock>> /\ ExecutorFrame

Clear(w) ==
  /\ Step(w, "clearing", "done")
  /\ quarantine' = NoJob /\ executorLock' = NoWindow
  /\ UNCHANGED <<active, shown>> /\ ExecutorFrame

-----------------------------------------------------------------------------
(* Core's side of the two markers; module Executor has it in full.         *)

CoreFrame ==
  /\ edits < MaxEdits /\ edits' = edits + 1
  /\ UNCHANGED <<pc, settingsVars, codexVars, shown, actions, mishaps>>

CoreRuns(j) ==
  /\ executorLock = NoWindow /\ quarantine = NoJob /\ active = NoJob
  /\ active' = j /\ executorLock' = Core
  /\ UNCHANGED quarantine /\ CoreFrame

\* The job ends, or it fails and leaves a quarantine, or the process dies and leaves its marker.
CoreEnds ==
  /\ executorLock = Core /\ executorLock' = NoWindow
  /\ \/ active' = NoJob /\ UNCHANGED quarantine
     \/ active' = NoJob /\ quarantine' = IF quarantine = NoJob THEN active ELSE quarantine
     \/ UNCHANGED <<active, quarantine>>
  /\ CoreFrame

\* Recovery publishes an abandoned marker, or any lost job in the place of what was published.
CoreRecovers(j) ==
  /\ executorLock \notin Windows /\ quarantine # j
  /\ quarantine' = j
  /\ UNCHANGED <<active, executorLock>> /\ CoreFrame

-----------------------------------------------------------------------------
Window(w) ==
  \/ Poll(w) \/ Fail(w)
  \/ \E f \in Folders : Save(w, f)
  \/ Backup(w) \/ CreateTemporary(w) \/ FillTemporary(w) \/ ReplaceSettings(w)
  \/ Connect(w) \/ Plan(w) \/ Add(w) \/ ReadBack(w) \/ Uncertain(w) \/ Connected(w)
  \/ Undo(w) \/ Remove(w) \/ Verify(w) \/ Removed(w)
  \/ Review(w) \/ SaveReceipt(w) \/ Retire(w) \/ Clear(w)

Next ==
  \/ \E w \in Windows : Window(w)
  \/ Edit \/ CoreEnds
  \/ \E j \in Jobs : CoreRuns(j) \/ CoreRecovers(j)

Spec == Init /\ [][Next]_vars

-----------------------------------------------------------------------------
(* Properties                                                              *)

\* Two windows that save at once lose no folder, and a document that existed is kept as a copy
\* before another takes its place, wherever a window fails or is closed: save_settings reads and
\* replaces under one lock.
SettingsGrow ==
  [][settings' # settings =>
       /\ settings.folders \subseteq settings'.folders
       /\ settings.whole => settings \in backups]_vars

\* Setup puts its entry only where none was, and removes only the entry it had read back, however
\* its own records failed and whoever changed the entry between two actions.  A change between
\* the listing and the command of one action goes unseen: Codex has no conditional command.
EntryKept ==
  [][entry' # entry /\ edits' = edits /\ undisturbed =>
       \/ entry = "absent"
       \/ entry' = "absent" /\ entry = connection.fingerprint]_vars

\* A window takes away a quarantine only after its active marker, and only the one that it
\* displayed when its user confirmed, whatever Core or another window published since.
ClearConfirmed ==
  [][edits' = edits =>
       /\ active' # active => active = quarantine
       /\ quarantine' # quarantine =>
            active = NoJob /\ executorLock \in Windows /\ shown[executorLock] = quarantine]_vars
=============================================================================
