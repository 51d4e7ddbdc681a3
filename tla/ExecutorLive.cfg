SPECIFICATION FairSpec
CONSTANTS
  Jobs = {j1, j2}
  Cores = {c1, c2}
  Keys = {k1, k2}
  NoJob = NoJob
  NoCore = NoCore
  NoThread = NoThread
  NoKey = NoKey
  MaxActiveJobs = 2
  MaxLive = 1
  MaxCrashes = 1
  MaxFaults = 1
  MaxMishaps = 1
  FaultSites = {"worker", "failure"}
  ClientCalls = {"cancel"}
  ReceiptKinds = {"completed"}
  ConfirmsEverySession = FALSE
PROPERTIES
  AcceptedSettles
CHECK_DEADLOCK FALSE
