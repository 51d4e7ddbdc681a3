SPECIFICATION FairSpec
CONSTANTS
  run = run
  cancel = cancel
  waitA = waitA
  waitB = waitB
  Clients = {run, waitA, waitB}
  Kind <- MCKind
  Procs = {p1}
  NoProc = NoProc
  NoClient = NoClient
  MaxClients = 2
  WaitSlots = 1
  MaxMishaps = 0
  Unverifiable = FALSE
  Malformed = FALSE
  MaxSaves = 0
PROPERTIES RequestServed ServiceEnds
CHECK_DEADLOCK FALSE
