SPECIFICATION FairSpec
CONSTANTS
  own = own
  users = users
  heir = heir
  NoProcess = NoProcess
  Matlab = {own, users, heir}
  Receipts = {"completed", "failed"}
INVARIANTS TypeOK IdentityTrue ExitTrue
PROPERTIES CallPromise CallEnds
CHECK_DEADLOCK FALSE
