----------------------------- MODULE MCSaveChecks -----------------------------
(* The instance of SaveChecks that TLC checks: a milestone of two kills, a mastery, a      *)
(* challenge and an aggregate of both records.                                             *)
EXTENDS SaveChecks

CONSTANTS roomA, k, m, c, g

MCSlot      == [r \in Rooms |-> Locations]
MCThreshold == [l \in Milestones |-> 2]
MCChildren  == [l \in Aggregates |-> Records]
=============================================================================
