SPECIFICATION FairSpec
CONSTANTS
  roomA = roomA
  roomB = roomB
  NoRoom = NoRoom
  occ1 = occ1
  NoOccurrence = NoOccurrence
  NoLease = NoLease
  Absent = Absent
  l1 = l1
  l2 = l2
  Commands = {1}
  Rooms = {roomA}
  RoomOf <- AllRoomA
  OccurrenceOf <- Pairs
  DevJobs = {}
  MapSafe = {1}
  Leased = {1}
  Leases = {l1}
  MaxPublish = 2
  MaxNative = 2
  MaxBridge = 2
  MaxBinds = 2
  MaxLeases = 2
  MaxFaults = 1
CHECK_DEADLOCK FALSE
PROPERTIES ReceiptsSettle AppliedIsRemoved
