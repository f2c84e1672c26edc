SPECIFICATION Spec
CONSTANTS
  Name = {"add", "mul", "sink"}
  NameOrder <- ThreeNames
  Signature = {"int", "text"}
  HashOf <- ThreeHashOf
  Hash = {1, 2, 3}
  Call = {}
  NameOf <- NoCallNames
  NoMethod = "none"
  StartBindings <- ThreeStart
  Modes = {"Auto"}
  MaxEntries = 5
  PeerMaxEntries = 5
  AutoBudget = 3
  RetryOnce = TRUE
  MaxChanges = 2
  None = None
CHECK_DEADLOCK FALSE
INVARIANTS TableOfHandlers RefreshIsSteps
