SPECIFICATION LifecycleSpec
CONSTANTS
  Clients = {c1}
  Halters = {h1}
  RetryMax = 1
  MaxErrors = 2
  MaxOrders = 1
INVARIANTS
  NoUseAfterClose
  NoSequenceGap
  ResubscriptionSafe
PROPERTIES
  ErrorIsCleared
  HaltCompletes
CHECK_DEADLOCK FALSE
