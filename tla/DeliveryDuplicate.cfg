SPECIFICATION Spec
CONSTANTS
  roomA = roomA
  roomB = roomB
  NoRoom = NoRoom
  gun = gun
  rune = rune
  key1 = key1
  base = base
  up = up
  here = here
  there = there
  Rooms = {roomA}
  Items = {gun}
  Locations = {here, there}
  Commands <- Cost
  Owned = {}
  Deferrable = {}
  Waiting = {gun}
  FragBases = {}
  FragUpgrades = {}
  MaxLen = 2
  MaxStarts = 1
  MaxConnects = 3
  MaxRollbacks = 1
  MaxFaults = 0
CHECK_DEADLOCK FALSE
INVARIANTS AcceptedStaysAccepted
