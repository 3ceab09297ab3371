CONSTANTS
  Track = {t1, t2}
  Caller = {c1}
  SubscriptionLimits = {0, 1}
  QueueSize = 1
  MaxSubs = 2
  MaxDowns = 2
  MaxChanges = 0
SPECIFICATION Spec
INVARIANTS
  OpenWithinLimit
CHECK_DEADLOCK FALSE
