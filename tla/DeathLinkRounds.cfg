SPECIFICATION FairSpec
CONSTANTS
  roomA = roomA
  roomB = roomB
  NoRoom = NoRoom
  NoEvent = NoEvent
  Own = Own
  Events = {1, 2}
  Rooms = {roomA}
  Linked = {roomA}
  MaxQueue = 2
  SeenLimit = 2
  Total = 2
  Grace = 1
  Retry = 1
  Interval = 2
  MaxBounces = 2
  MaxDeaths = 0
  MaxStarts = 1
  MaxConnects = 1
  MaxMaps = 1
  MaxFaults = 1
CHECK_DEADLOCK FALSE
PROPERTIES NoEcho LinksEnd
