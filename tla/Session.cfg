SPECIFICATION Spec
CONSTANTS
  MaxCalls = 2
  MaxRooms = 1
  MaxEvents = 1
CHECK_DEADLOCK FALSE
INVARIANTS
  TypeOK
  NoOrphanSession
PROPERTIES
  SettledSessionStays
  ClosedSessionLeaves
  ClosedRoomDrains
  IdleRoomCloses
