CONSTANTS
  Track = {t1, t2}
  Caller = {c1}
  QueueSize = 1
  MaxSubs = 2
  MaxChanges = 1
SPECIFICATION Spec
INVARIANTS
  WorkerNeverLocksItself
CHECK_DEADLOCK FALSE
