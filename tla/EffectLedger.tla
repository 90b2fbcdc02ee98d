---------------------------- MODULE EffectLedger ----------------------------
(***************************************************************************)
(* What the file spool promises about the game effects of its commands, as *)
(* a ledger.  Each publication of a command is one credit; an effect in    *)
(* the game consumes one credit; a credit may be lost (the publication is  *)
(* withdrawn, held, discarded or given up as ambiguous), but the consumer  *)
(* never creates one.                                                      *)
(***************************************************************************)
EXTENDS Naturals

CONSTANTS Commands,       \* command identities (the stem of a spool file name)
          MaxPublish      \* bound: publications of one command

VARIABLES credit,         \* [Commands -> Nat]: publications not yet consumed
          effects,        \* [Commands -> Nat]: effects the game saw
          created         \* [Commands -> Nat]: publications so far

vars == <<credit, effects, created>>

Init == /\ credit  = [c \in Commands |-> 0]
        /\ effects = [c \in Commands |-> 0]
        /\ created = [c \in Commands |-> 0]

\* The producer publishes the command once more.
Publish(c) == /\ created[c] < MaxPublish
              /\ created' = [created EXCEPT ![c] = @ + 1]
              /\ credit'  = [credit EXCEPT ![c] = @ + 1]
              /\ UNCHANGED effects

\* The game applies the command: one credit is gone, one effect is there.
Apply(c) == /\ credit[c] > 0
            /\ credit'  = [credit EXCEPT ![c] = @ - 1]
            /\ effects' = [effects EXCEPT ![c] = @ + 1]
            /\ UNCHANGED created

\* Publications disappear without an effect.
Lose == /\ credit' \in [Commands -> Nat]
        /\ \A c \in Commands : credit'[c] <= credit[c]
        /\ UNCHANGED <<effects, created>>

Next == (\E c \in Commands : Publish(c) \/ Apply(c)) \/ Lose

Spec == Init /\ [][Next]_vars
=============================================================================
