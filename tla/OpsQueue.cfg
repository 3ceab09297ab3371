CONSTANTS
  Op = {op1, op2}
  MaxAccepted = 4
SPECIFICATION FairSpec
INVARIANTS
  NoLostWakeup
  FlushedWhenDone
PROPERTIES
  ImplementsSerialExecutor
  StopReturns
CHECK_DEADLOCK FALSE
