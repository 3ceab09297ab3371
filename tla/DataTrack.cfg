CONSTANTS
  Track = {t1}
  Caller = {c1}
  QueueSize = 1
  MaxSubs = 2
  MaxChanges = 2
SPECIFICATION FairSpec
INVARIANTS
  HeldIsAttached
  HandlesAreLive
PROPERTIES
  Settles
CHECK_DEADLOCK FALSE
