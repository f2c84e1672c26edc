SPECIFICATION FairSpec
CONSTANTS
  Call = {c1, c2, n1}
  Notify = {n1}
  Endpoint = {e1}
  MaxPending = 1
  RetryOnce = FALSE
  IdMax = 2
  None = None
CHECK_DEADLOCK FALSE
INVARIANTS PendingBounded DisconnectFailsPending
PROPERTIES DisconnectEndsCalls
