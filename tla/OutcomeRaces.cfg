SPECIFICATION Spec
CONSTANTS
  Worker = worker
  Requests = {request}
  Deliveries = {d1}
  MaxEdits = 2
  MaxMishaps = 1
INVARIANTS TypeOK InputTrue CompletedBacked
PROPERTIES SettledStays RevokedForGood ReconcileSettles DeliveryTrue
CHECK_DEADLOCK FALSE
