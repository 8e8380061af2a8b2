SPECIFICATION FairSpec
CONSTANTS
  Scenarios <- RegularScenarios
  TransferMru = 3
  SendCapacity = 1
  ReceiveCapacity = 2
  MaxBuffer = 2
  MaxNested = 1
INVARIANTS TypeOK NoPanic NoneRejected ExactlyOnce
PROPERTIES  CloseEnds
CHECK_DEADLOCK FALSE
