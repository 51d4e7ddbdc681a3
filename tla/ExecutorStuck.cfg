SPECIFICATION FairSpec
CONSTANTS
  Jobs = {j1, j2}
  Cores = {c1, c2}
  Keys = {k1, k2}
  NoJob = NoJob
  NoCore = NoCore
  NoThread = NoThread
  NoKey = NoKey
  MaxActiveJobs = 2
  MaxLive = 1
  MaxCrashes = 1
  MaxFaults = 0
  MaxMishaps = 2
  FaultSites = {}
  ClientCalls = {"cancel"}
  ReceiptKinds = {"completed"}
  ConfirmsEverySession = FALSE
PROPERTIES
  RecoveryPossible
CHECK_DEADLOCK FALSE
