---------------------------- MODULE MCDeathLink -----------------------------
(* Instances of DeathLink for TLC.                                         *)
EXTENDS DeathLink

CONSTANTS roomA, roomB
=============================================================================
