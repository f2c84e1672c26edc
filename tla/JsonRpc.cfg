SPECIFICATION Spec
CONSTANTS
  FieldId <- MCFieldId
  Methods <- MCMethods
  Calls <- MCCalls
  Foreign <- MCForeign
  Strays <- MCStrays
  Bound <- MCBound
  Outcomes <- MCOutcomes
  ClientMax = 20
  ServerMax = 16
CHECK_DEADLOCK FALSE
INVARIANTS CallsAreTheirOwn MessagesServed
