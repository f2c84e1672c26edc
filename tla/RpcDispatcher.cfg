SPECIFICATION Spec
CONSTANTS
  Message <- MCMessage
  Request <- MCRequest
  Session <- MCSession
  Id <- MCId
  SessionOf <- MCSessionOf
  MsgOf <- MCMsgOf
  Position <- MCPosition
  IdOf <- MCIdOf
  Known = {1, 2, 3, 4}
  WantsReply = {1, 2, 3}
  Unencodable = {"a2"}
  SetsTimeout = {}
  DirectCalls = {}
  MaxActive = 1
  MaxQueued = 1
  RequestTimeout = NoTimeout
  NoTimeout = NoTimeout
  MaxNanos = 9
  Nanos = {}
  None = None
  MaxCanceled = 2
CHECK_DEADLOCK FALSE
INVARIANTS TypeOK WithinCapacity RequestsAccountedFor
PROPERTIES RequestsMoveOn ImplementsBoundedService
