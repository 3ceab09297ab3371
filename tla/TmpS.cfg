CONSTANTS
  Track = {t1}
  Caller = {c1}
  SubscriptionLimits = {1, 2}
  QueueSize = 0
  MaxSubs = 2
  MaxDowns = 2
  MaxChanges = 1
SPECIFICATION FairSpec
INVARIANTS
  TypeOK
  OpenIsHeld
  NoneOnClosedTrack
PROPERTIES
  InstalledIsReleased
  UnsubscribedIsRemoved
  SubscribeIsHonoured
CHECK_DEADLOCK FALSE
