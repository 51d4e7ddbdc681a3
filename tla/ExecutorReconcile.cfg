SPECIFICATION Spec
CONSTANTS
  Jobs = {j1, j2}
  Cores = {c1, c2}
  Keys = {k1, k2}
  NoJob = NoJob
  NoCore = NoCore
  NoThread = NoThread
  NoKey = NoKey
  MaxActiveJobs = 2
  MaxLive = 1
  MaxCrashes = 1
  MaxFaults = 1
  MaxMishaps = 2
  FaultSites = {"recovery"}
  ClientCalls = {"reconcile"}
  ReceiptKinds = {"completed", "cancelled", "invalid"}
  ConfirmsEverySession = TRUE
SYMMETRY Symmetric
INVARIANTS
  FreshWork
PROPERTIES
  JobPromise
CHECK_DEADLOCK FALSE
