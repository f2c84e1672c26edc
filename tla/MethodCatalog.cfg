SPECIFICATION Spec
CONSTANTS
  Name = {"add", "sink"}
  NameOrder <- MCNameOrder
  Signature = {"int", "text"}
  HashOf <- MCHashOf
  Hash = {1, 2, 3}
  Call = {1, 2}
  NameOf <- MCNameOf
  NoMethod = "none"
  StartBindings <- MCStart
  Modes = {"Disable", "Auto", "Require"}
  MaxEntries = 8
  PeerMaxEntries = 4
  AutoBudget = 5
  RetryOnce = TRUE
  MaxChanges = 3
  None = None
CHECK_DEADLOCK FALSE
INVARIANTS HandlerAsNamed RetrySettles SameVersionSameTable
PROPERTIES IdsAreForever
