SPECIFICATION Spec
CONSTANTS
  roomA = roomA
  roomB = roomB
  NoRoom = NoRoom
  occ1 = occ1
  NoOccurrence = NoOccurrence
  NoLease = NoLease
  Absent = Absent
  l1 = l1
  l2 = l2
  Commands = {3, 4}
  Rooms = {roomA, roomB}
  RoomOf <- RoomBAndDev
  OccurrenceOf <- Pairs
  DevJobs = {4}
  MapSafe = {}
  Leased = {3}
  Leases = {l1}
  MaxPublish = 2
  MaxNative = 1
  MaxBridge = 2
  MaxBinds = 2
  MaxLeases = 1
  MaxFaults = 1
CHECK_DEADLOCK FALSE
INVARIANTS NoSilentLoss
