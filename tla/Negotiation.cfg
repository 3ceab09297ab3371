CONSTANTS
  MaxRequests = 2
  MaxRestarts = 1
  Errors = TRUE
SPECIFICATION FairSpec
INVARIANTS
  RequestNotLost
  SignallingAgrees
  DeferredRestartIsDue
PROPERTIES
  RequestIsOffered
  NegotiationEnds
CHECK_DEADLOCK FALSE
