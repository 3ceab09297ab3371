SPECIFICATION Spec
CONSTANTS
  Kinds = {"audio", "simulcast", "svc", "vp9"}
  Width = 16
  Size = 2
  MungerRanges = 1
  FirstSN = 14
  DummySN = 13
  MaxSN = 16
  MaxPackets = 4
  MaxBursts = 2
  MaxBurst = 1
  MaxStops = 1
  MaxOvertake = 1
INVARIANTS
  NumbersAreUnique
  NoHoles
  LatePacketsFit
  NacksAreServed
CHECK_DEADLOCK FALSE
