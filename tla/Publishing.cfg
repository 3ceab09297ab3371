SPECIFICATION Spec
CONSTANTS
  MaxRequests = 2
  MaxMedia = 2
INVARIANTS
  TracksDoNotOverlap
  ClosedTrackIsLeft
PROPERTIES
  ClosedTrackEmpties
  QueueMovesOn
  GrantedMediaIsPublished
  TracksAreClosed
CHECK_DEADLOCK FALSE
