SPECIFICATION Spec
CONSTANTS
  Windows = {w1, w2}
  Folders = {f1, f2}
  Jobs = {j1, j2}
  Core = Core
  NoWindow = NoWindow
  NoJob = NoJob
  MaxActions = 3
  MaxMishaps = 1
  MaxEdits = 2
SYMMETRY WindowSymmetry
INVARIANTS TypeOK
PROPERTIES SettingsGrow EntryKept ClearConfirmed
CHECK_DEADLOCK FALSE
