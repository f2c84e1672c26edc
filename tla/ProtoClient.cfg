SPECIFICATION Spec
CONSTANTS
  p = p  a = a  b = b  NoProto = NoProto
  Dictionary <- MCDictionary
  Reserved = 1
  Statics <- MCStatics
  Dynamics <- MCDynamics
  Specify <- MCSpecify
  Sizes = {1, 3}
  SliceUnits = 1
  MaxDatagram = 1
  MaxWire = 2
  MaxSends = 2
  MaxErrors = 2
CHECK_DEADLOCK FALSE
INVARIANTS MessagesIntact ReservedArrives NumbersMeanNames
PROPERTIES NumbersStay
