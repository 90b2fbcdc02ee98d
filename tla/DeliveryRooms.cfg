SPECIFICATION Spec
CONSTANTS
  roomA = roomA
  roomB = roomB
  NoRoom = NoRoom
  gun = gun
  rune = rune
  key1 = key1
  base = base
  up = up
  here = here
  there = there
  Rooms = {roomA, roomB}
  Items = {base, key1}
  Locations = {here}
  Commands <- Cost
  Owned = {}
  Deferrable = {base}
  Waiting = {}
  FragBases = {base}
  FragUpgrades = {}
  MaxLen = 2
  MaxStarts = 1
  MaxConnects = 3
  MaxRollbacks = 1
  MaxFaults = 1
CHECK_DEADLOCK FALSE
INVARIANTS LedgerFollowsServer
PROPERTIES PublishedWhereItBelongs OnlyOntoMatchingHistory
