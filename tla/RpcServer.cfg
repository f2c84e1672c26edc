SPECIFICATION FairSpec
CONSTANTS
  c1 = c1  c2 = c2  r1 = r1  r2 = r2  q1 = q1
  Free = Free  Loop = Loop  Control = Control
  Conn <- MCConn
  Request <- MCRequest
  ConnOf <- MCConnOf
  IdOf <- MCIdOf
  WantsReply = {r1, r2, q1}
  Script <- MCScript
  MaxInflight = 1
CHECK_DEADLOCK FALSE
INVARIANTS RequestsServed NothingIsLeft
PROPERTIES OnlyOwnPeerStops ShutdownEnds ImplementsConnectionScope
