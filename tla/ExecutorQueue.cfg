SPECIFICATION Spec
CONSTANTS
  Jobs = {j1, j2, j3}
  Cores = {c1, c2}
  Keys = {k1, k2, k3}
  NoJob = NoJob
  NoCore = NoCore
  NoThread = NoThread
  NoKey = NoKey
  MaxActiveJobs = 2
  MaxLive = 2
  MaxCrashes = 1
  MaxFaults = 0
  MaxMishaps = 1
  FaultSites = {}
  ClientCalls = {"cancel"}
  ReceiptKinds = {"completed"}
  ConfirmsEverySession = TRUE
SYMMETRY Symmetric
INVARIANTS
  WorkHeld
  OneSession
  ExecutionMutex
  QueueLimit
CHECK_DEADLOCK FALSE
