SPECIFICATION Spec
CONSTANTS
  Jobs = {j1, j2}
  Cores = {c1, c2}
  Keys = {k1, k2}
  NoJob = NoJob
  NoCore = NoCore
  NoThread = NoThread
  NoKey = NoKey
  MaxActiveJobs = 2
  MaxLive = 2
  MaxCrashes = 1
  MaxFaults = 1
  MaxMishaps = 2
  FaultSites = {"worker", "failure", "index", "recovery", "clear"}
  ClientCalls = {"cancel"}
  ReceiptKinds = {"completed", "cancelled", "invalid"}
  ConfirmsEverySession = TRUE
SYMMETRY Symmetric
INVARIANTS
  TypeOK
  NoReplay
  OneDispatchPerKey
  HonestErrors
  CrashBarrier
  MarkerNeedsCause
PROPERTIES
  SettledStable
  IndexStable
CHECK_DEADLOCK FALSE
