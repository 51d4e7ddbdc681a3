SPECIFICATION Spec
CONSTANTS
  Jobs = {j1, j2, j3}
  Cores = {c1, c2}
  Keys = {k1, k2, k3}
  NoJob = NoJob
  NoCore = NoCore
  NoThread = NoThread
  NoKey = NoKey
  MaxActiveJobs = 3
  MaxLive = 1
  MaxCrashes = 1
  MaxFaults = 0
  MaxMishaps = 2
  FaultSites = {}
  ClientCalls = {"cancel"}
  ReceiptKinds = {"completed"}
  ConfirmsEverySession = FALSE
SYMMETRY Symmetric
INVARIANTS
  OneSession
CHECK_DEADLOCK FALSE
