--------------------------- MODULE MCCommandQueue ---------------------------
(* Instances of CommandQueue for TLC.                                      *)
EXTENDS CommandQueue

CONSTANTS roomA, roomB, occ1, l1, l2

\* 1, 2: the two commands of one receipt of room A.
AllRoomA    == [c \in Commands |-> roomA]
Pairs       == [c \in Commands |-> IF c \in {1, 2} THEN occ1 ELSE NoOccurrence]
\* 3: a receipt of room B; 4: a job of the developer lab.
RoomBAndDev == [c \in Commands |-> IF c = 4 THEN NoRoom ELSE roomB]
=============================================================================
