SPECIFICATION FairSpec
CONSTANTS
    roomA = roomA
    roomB = roomB
    a = a
    e = e
    Rooms = {roomA, roomB}
    NoRoom = NoRoom
    Locations = {a, e}
    Goal = Goal
    Slot <- MCSlot
    Tasks = {"flush", "event", "goal"}
    MapEvents = {e}
    Objectives <- MCObjectives
    Completions <- MCCompletions
    ByItem = {roomA}
    MaxStarts = 3
    MaxConnects = 2
    MaxFaults = 1
    MaxCollects = 2
INVARIANTS OnlyOwnChecks Accounted GoalJustified
PROPERTIES PendingSurvives FilesSettle GoalReported
CHECK_DEADLOCK FALSE
