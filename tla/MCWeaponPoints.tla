---- MODULE MCWeaponPoints ----
(* The instance of WeaponPoints that TLC checks. *)
EXTENDS WeaponPoints
====
