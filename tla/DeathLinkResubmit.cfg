SPECIFICATION Spec
CONSTANTS
  roomA = roomA
  roomB = roomB
  NoRoom = NoRoom
  NoEvent = NoEvent
  Own = Own
  Events = {1, 2}
  Rooms = {roomA}
  Linked = {roomA}
  MaxQueue = 2
  SeenLimit = 2
  Total = 2
  Grace = 1
  Retry = 1
  Interval = 1
  MaxBounces = 2
  MaxDeaths = 0
  MaxStarts = 1
  MaxConnects = 1
  MaxMaps = 0
  MaxFaults = 0
CHECK_DEADLOCK FALSE
INVARIANTS DispatchedOnce
