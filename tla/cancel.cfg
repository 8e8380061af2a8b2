SPECIFICATION Spec
CONSTANTS
  Scenarios <- BlockingScenarios
  TransferMru = 3
  SendCapacity = 1
  ReceiveCapacity = 2
  MaxBuffer = 2
  MaxNested = 2
INVARIANT NoPanic
CHECK_DEADLOCK FALSE
