SPECIFICATION Spec
CONSTANTS
  MaxCalls = 2
  MaxRooms = 2
  MaxEvents = 1
CHECK_DEADLOCK FALSE
INVARIANT ActiveSessionIsFound
