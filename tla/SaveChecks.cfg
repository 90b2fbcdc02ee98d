SPECIFICATION Spec
CONSTANTS
    roomA = roomA
    k = k
    m = m
    c = c
    g = g
    Rooms = {roomA}
    NoRoom = NoRoom
    Goal = Goal
    Locations = {k, m, c, g}
    Slot <- MCSlot
    Tasks = {"monitor"}
    Milestones = {k}
    Masteries = {m}
    Challenges = {c}
    Aggregates = {g}
    Threshold <- MCThreshold
    Children <- MCChildren
    Saves = {1, 2}
    NoSave = NoSave
    MaxDeeds = 3
    MaxStarts = 2
    MaxConnects = 2
    MaxFaults = 1
INVARIANTS TypeOK KillsAccounted OnlyEarned EarnedIsKept
CHECK_DEADLOCK FALSE
