--------------------------- MODULE MCLocationChecks ---------------------------
(* Instances of LocationChecks for TLC: location e is reported by a map event and in the  *)
(* slots of both rooms, location a only in that of roomA, whose goal needs a after e or    *)
(* the access item.                                                                       *)
EXTENDS LocationChecks

CONSTANTS roomA, roomB, a, e

MCSlot        == [r \in Rooms |-> IF r = roomA THEN {a, e} ELSE {e}]
MCObjectives  == [r \in Rooms |-> IF r = roomA THEN {a} ELSE {e}]
MCCompletions == [r \in Rooms |-> IF r = roomA THEN {e} ELSE {}]
=============================================================================
