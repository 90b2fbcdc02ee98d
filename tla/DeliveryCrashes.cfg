SPECIFICATION FairSpec
CONSTANTS
  roomA = roomA
  roomB = roomB
  NoRoom = NoRoom
  gun = gun
  rune = rune
  key1 = key1
  base = base
  up = up
  here = here
  there = there
  Rooms = {roomA}
  Items = {gun, rune, base, up}
  Locations = {here}
  Commands <- Cost
  Owned = {rune}
  Deferrable = {gun, base, up}
  Waiting = {gun}
  FragBases = {base}
  FragUpgrades = {up}
  MaxLen = 3
  MaxStarts = 2
  MaxConnects = 2
  MaxRollbacks = 0
  MaxFaults = 1
CHECK_DEADLOCK FALSE
INVARIANTS TypeOK NothingSkipped PublishedInOrder ReplayNeedsRestart
PROPERTIES NotBehindLedger AllAcknowledged
