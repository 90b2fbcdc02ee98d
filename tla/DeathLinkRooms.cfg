SPECIFICATION Spec
CONSTANTS
  roomA = roomA
  roomB = roomB
  NoRoom = NoRoom
  NoEvent = NoEvent
  Own = Own
  Events = {1, 2}
  Rooms = {roomA, roomB}
  Linked = {roomA}
  MaxQueue = 1
  SeenLimit = 2
  Total = 2
  Grace = 1
  Retry = 1
  Interval = 2
  MaxBounces = 3
  MaxDeaths = 2
  MaxStarts = 2
  MaxConnects = 2
  MaxMaps = 0
  MaxFaults = 0
CHECK_DEADLOCK FALSE
INVARIANTS TypeOK HidesOneDeath QueuedOnce GraceIsExact
