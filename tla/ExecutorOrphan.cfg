SPECIFICATION FairSpec
CONSTANTS
  Jobs = {j1}
  Cores = {c1}
  Keys = {k1}
  NoJob = NoJob
  NoCore = NoCore
  NoThread = NoThread
  NoKey = NoKey
  MaxActiveJobs = 1
  MaxLive = 1
  MaxCrashes = 0
  MaxFaults = 1
  MaxMishaps = 2
  FaultSites = {"index"}
  ClientCalls = {"cancel"}
  ReceiptKinds = {"completed"}
  ConfirmsEverySession = FALSE
PROPERTIES
  AcceptedSettles
CHECK_DEADLOCK FALSE
