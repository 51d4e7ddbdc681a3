SPECIFICATION Spec
CONSTANTS
  run = run
  cancel = cancel
  waitA = waitA
  waitB = waitB
  Clients = {run, cancel}
  Kind <- MCKind
  Procs = {p1, p2, p3}
  NoProc = NoProc
  NoClient = NoClient
  MaxClients = 1
  WaitSlots = 1
  MaxMishaps = 2
  Unverifiable = TRUE
  Malformed = TRUE
  MaxSaves = 1
SYMMETRY ProcSymmetry
INVARIANTS TypeOK OneCore RecordTrue HonestOutcome SettingsHonest IdleExitHonest
PROPERTY ServicePromise
CHECK_DEADLOCK FALSE
