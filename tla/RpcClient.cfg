SPECIFICATION Spec
CONSTANTS
  Call = {c1, c2}
  Notify = {}
  Endpoint = {e1, e2}
  MaxPending = 2
  RetryOnce = TRUE
  IdMax = 4
  None = None
SYMMETRY Interchangeable
CHECK_DEADLOCK FALSE
INVARIANTS OwnAnswer PendingIsTrue OneReader
