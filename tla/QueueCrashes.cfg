SPECIFICATION Spec
CONSTANTS
  roomA = roomA
  roomB = roomB
  NoRoom = NoRoom
  occ1 = occ1
  NoOccurrence = NoOccurrence
  NoLease = NoLease
  Absent = Absent
  l1 = l1
  l2 = l2
  Commands = {1, 2}
  Rooms = {roomA}
  RoomOf <- AllRoomA
  OccurrenceOf <- Pairs
  DevJobs = {}
  MapSafe = {}
  Leased = {}
  Leases = {}
  MaxPublish = 2
  MaxNative = 2
  MaxBridge = 2
  MaxBinds = 2
  MaxLeases = 0
  MaxFaults = 1
CHECK_DEADLOCK FALSE
INVARIANTS AtMostOncePerPublication UncertainNotResubmitted NoSilentLoss RestartRevokesAuthority
PROPERTIES NeverReplayed OccurrenceOrder ImplementsLedger
