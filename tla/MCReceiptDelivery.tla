-------------------------- MODULE MCReceiptDelivery --------------------------
(* Instances of ReceiptDelivery for TLC.                                   *)
EXTENDS ReceiptDelivery

CONSTANTS roomA, roomB, gun, rune, key1, base, up, here, there

\* gun, base, up: an effect and its notification; rune: confirmed by a native owner, only
\* notified; key1: acknowledged only.  base and up are the frag grenade and an upgrade.
Cost == [x \in Items |-> CASE x \in {gun, base, up} -> 2 [] x = rune -> 1 [] OTHER -> 0]
=============================================================================
