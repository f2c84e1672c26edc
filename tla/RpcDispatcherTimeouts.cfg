SPECIFICATION FairSpec
CONSTANTS
  Message <- SmallMessage
  Request <- SmallRequest
  Session <- MCSession
  Id <- SmallId
  SessionOf <- SmallSessionOf
  MsgOf <- SmallMsgOf
  Position <- SmallPosition
  IdOf <- SmallIdOf
  Known = {1, 3, 4}
  WantsReply = {1, 2, 3}
  Unencodable = {"a1"}
  SetsTimeout = {1}
  DirectCalls = {"b1"}
  MaxActive = 1
  MaxQueued = 1
  RequestTimeout = 5
  NoTimeout = NoTimeout
  MaxNanos = 9
  Nanos = {0, 3, 5, 10}
  None = None
  MaxCanceled = 1
CHECK_DEADLOCK FALSE
INVARIANTS BooksBalance LimitsAndCounters
PROPERTIES MessagesEnd
