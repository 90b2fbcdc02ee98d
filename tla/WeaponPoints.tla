----------------------------- MODULE WeaponPoints -----------------------------
(***************************************************************************)
(* How a weapon upgrade point received from the multiworld becomes exactly *)
(* one point in the game: the ledger WeaponPointReceipts keeps in          *)
(* client_state.json, and the native owner, which knows only how many      *)
(* points the save has ever earned and adds one when it has as many as the *)
(* request expects.  The bridge records a receipt before it asks, a native *)
(* answer may be lost while the request is still carried out, the game may *)
(* go back to a checkpoint, and either program may stop anywhere.          *)
(*                                                                         *)
(* One room; only its weapon point receipts, counted from 1, and totals in *)
(* units of AMOUNT.                                                        *)
(***************************************************************************)
EXTENDS Naturals, Sequences

CONSTANTS
    Ids,               \* receipt identities (item, location, player, flags)
    NoLedger,          \* session_state has no "weapon_points"
    MaxLen,            \* bound: receipts of the room
    MaxStarts, MaxConnects, MaxRollbacks, MaxLosses, MaxLoads, MaxFaults
                       \* bounds on what the environment does

Entries == [index : Nat, receipt : Ids]

ASSUME LedgerAssumption == NoLedger \notin Seq(Entries)
ASSUME BoundsAssumption ==
    /\ MaxLen \in Nat /\ MaxStarts \in Nat /\ MaxConnects \in Nat
    /\ MaxRollbacks \in Nat /\ MaxLosses \in Nat /\ MaxLoads \in Nat /\ MaxFaults \in Nat

VARIABLES
    history,           \* the receipts the server has sent for the slot
    gained, checkpoint,\* points the running save has earned, and its last checkpoint
    late,              \* totals expected by requests whose answer nobody awaits any more
    saved,             \* client_state.json: the cursor and the ledger
    alive, connected,  \* the bridge process, its connection
    broken,            \* _item_state_error: sticky until the process ends
    items,             \* items_received
    mem,               \* the session's cursor and ledger in memory
    pc,                \* where process_pending_item_receipts is
    at,                \* the receipt being delivered; 0 while only reconciling
    authoritative,     \* the receipts it took from items_received
    expected,          \* the native total its next request expects
    stale,             \* room, connection or map changed since the run began
    used               \* how often each bounded thing has happened

native == <<gained, checkpoint, late>>
task   == <<pc, at, authoritative, expected>>
bridge == <<alive, connected, broken, items, mem>>
vars   == <<history, native, saved, bridge, task, stale, used>>

Empty   == [next |-> 0, ledger |-> NoLedger]
States  == [next : Nat, ledger : Seq(Entries) \union {NoLedger}]
Pcs     == {"none", "owner", "rebuild", "record", "observe", "grant", "next", "acknowledge"}
Waiting == {"owner", "rebuild", "observe", "grant"}
Bounded == {"start", "connect", "rollback", "loss", "load", "fault"}

Spend(what) == used' = [used EXCEPT ![what] = @ + 1]
MayFail     == used["fault"] < MaxFaults
NoTask      == pc' = "none" /\ at' = 0 /\ authoritative' = <<>> /\ expected' = 0

\* A request that is under way when its caller stops waiting may still be carried out.
Forsaken == IF pc = "grant" THEN late \union {expected} ELSE late

Init ==
    /\ history = <<>> /\ gained = 0 /\ checkpoint = 0 /\ late = {}
    /\ saved = Empty /\ mem = Empty
    /\ alive = FALSE /\ connected = FALSE /\ broken = FALSE /\ items = <<>>
    /\ pc = "none" /\ at = 0 /\ authoritative = <<>> /\ expected = 0 /\ stale = FALSE
    /\ used = [b \in Bounded |-> 0]

-----------------------------------------------------------------------------
(* The room, the game and the process *)

\* Other coroutines run only where the delivery awaits, or between two runs.
Interruptible == pc \in Waiting \union {"none"}

ServerSend(r) ==
    /\ Len(history) < MaxLen
    /\ history' = Append(history, r)
    /\ UNCHANGED <<native, saved, bridge, task, stale, used>>

Packet ==
    /\ connected /\ Interruptible /\ items # history
    /\ items' = history
    /\ UNCHANGED <<history, native, saved, alive, connected, broken, mem, task, stale, used>>

Disconnect ==
    /\ connected /\ Interruptible /\ used["connect"] < MaxConnects
    /\ connected' = FALSE /\ items' = <<>> /\ stale' = TRUE
    /\ UNCHANGED <<history, native, saved, alive, broken, mem, task, used>>

\* The server's save is restored from an earlier moment, which ends its connections.
ServerRollback(n) ==
    /\ used["rollback"] < MaxRollbacks /\ n < Len(history) /\ Interruptible
    /\ connected => used["connect"] < MaxConnects
    /\ history' = SubSeq(history, 1, n)
    /\ connected' = FALSE /\ items' = <<>> /\ stale' = TRUE
    /\ Spend("rollback")
    /\ UNCHANGED <<native, saved, alive, broken, mem, task>>

\* Connected: the session is bound again from the state file.
Connect ==
    /\ alive /\ ~connected /\ Interruptible /\ used["connect"] < MaxConnects
    /\ connected' = TRUE /\ items' = <<>> /\ stale' = TRUE
    /\ mem' = IF broken THEN mem ELSE saved
    /\ Spend("connect")
    /\ UNCHANGED <<history, native, saved, alive, broken, task>>

Start ==
    /\ ~alive /\ used["start"] < MaxStarts
    /\ alive' = TRUE
    /\ Spend("start")
    /\ UNCHANGED <<history, native, saved, connected, broken, items, mem, task, stale>>

Crash ==
    /\ alive /\ used["start"] < MaxStarts /\ used["connect"] < MaxConnects
    /\ alive' = FALSE /\ connected' = FALSE /\ broken' = FALSE /\ items' = <<>>
    /\ mem' = Empty /\ stale' = FALSE
    /\ late' = Forsaken
    /\ NoTask
    /\ UNCHANGED <<history, gained, checkpoint, saved, used>>

\* The state file is removed while no bridge runs.  A request lives for two seconds in
\* the native queue (the last field of its header), so none is left by then.
LoseState ==
    /\ ~alive /\ late = {} /\ saved # Empty /\ used["loss"] < MaxLosses
    /\ saved' = Empty
    /\ Spend("loss")
    /\ UNCHANGED <<history, native, bridge, task, stale>>

GameSaves ==
    /\ checkpoint # gained
    /\ checkpoint' = gained
    /\ UNCHANGED <<history, gained, late, saved, bridge, task, stale, used>>

\* The last checkpoint is loaded: a new gameplay epoch, work of the old one is stale.
GameLoads ==
    /\ used["load"] < MaxLoads
    /\ gained' = checkpoint
    /\ stale' = TRUE
    /\ Spend("load")
    /\ UNCHANGED <<history, checkpoint, late, saved, bridge, task>>

\* A request nobody awaits any more is carried out, refused by its expectation, or expires.
LateGrant(e) ==
    /\ e \in late
    /\ late' = late \ {e}
    /\ gained' \in {gained, IF gained = e THEN gained + 1 ELSE gained}
    /\ UNCHANGED <<history, checkpoint, saved, bridge, task, stale, used>>

-----------------------------------------------------------------------------
(* A run of process_pending_item_receipts *)

Total(ledger)     == Len(ledger)
Existing(l, i)    == {k \in 1..Len(l) : l[k].index = i}
OwnedBy(l, auth)  == \A k \in 1..Len(l) : /\ l[k].index <= Len(auth)
                                          /\ auth[l[k].index] = l[k].receipt

\* Mutant: a run only delivers what is new.
BeginRunDelivering ==
    /\ pc = "none" /\ connected /\ ~broken /\ mem.next <= Len(items)
    /\ pc' = "next" /\ stale' = FALSE
    /\ UNCHANGED <<history, native, saved, bridge, at, authoritative, expected, used>>

\* The history must extend the cursor; points recorded earlier are settled first.
BeginRun ==
    /\ pc = "none" /\ connected /\ ~broken /\ mem.next <= Len(items)
    /\ pc' = IF mem.ledger = NoLedger THEN "next" ELSE "owner"
    /\ stale' = FALSE
    /\ UNCHANGED <<history, native, saved, bridge, at, authoritative, expected, used>>

NextReceipt ==
    /\ pc = "next"
    /\ IF mem.next < Len(items)
          THEN pc' = "owner" /\ at' = mem.next + 1 /\ authoritative' = <<>> /\ expected' = 0
          ELSE NoTask
    /\ UNCHANGED <<history, native, saved, bridge, stale, used>>

\* weapon_points_receipt_owner: the process identity arrives, then items_received is read.
\* A ledger the history does not own ends the settling, not the run.
Owner ==
    /\ pc = "owner" /\ ~stale
    /\ authoritative' = items
    /\ pc' = IF at = 0 THEN IF OwnedBy(mem.ledger, items) THEN "observe" ELSE "next"
                       ELSE IF mem.ledger = NoLedger THEN "rebuild" ELSE "record"
    /\ UNCHANGED <<history, native, saved, bridge, at, expected, stale, used>>

Persist(state) == mem' = state /\ saved' = state

\* _block_item_state: the state file could not be written, the change is taken back.
Block ==
    /\ MayFail /\ Spend("fault")
    /\ broken' = TRUE /\ NoTask
    /\ UNCHANGED <<history, native, saved, alive, connected, items, mem, stale>>

Refused == NoTask /\ UNCHANGED <<history, native, saved, bridge, stale>>

\* _ledger: the points the game has earned belong to the first receipts of the history.
Rebuild ==
    /\ pc = "rebuild" /\ ~stale
    /\ gained <= Len(authoritative)
    /\ Persist([mem EXCEPT !.ledger =
                   [k \in 1..gained |-> [index |-> k, receipt |-> authoritative[k]]]])
    /\ pc' = "record"
    /\ UNCHANGED <<history, native, alive, connected, broken, items, at, authoritative,
                   expected, stale, used>>

RebuildRefused ==
    /\ pc = "rebuild" /\ ~stale /\ gained > Len(authoritative)
    /\ Refused /\ UNCHANGED used

Entry == [index |-> at, receipt |-> authoritative[at]]

\* A receipt is recorded once, and behind all earlier ones.
Recordable ==
    /\ at <= Len(authoritative)
    /\ \A k \in Existing(mem.ledger, at) : mem.ledger[k].receipt = authoritative[at]
    /\ Existing(mem.ledger, at) = {} => \A k \in 1..Len(mem.ledger) : mem.ledger[k].index < at

Recorded == IF Existing(mem.ledger, at) # {} THEN mem.ledger ELSE Append(mem.ledger, Entry)

\* Mutant: the receipt is recorded in memory, and written with the cursor.
RecordUnsaved ==
    /\ pc = "record" /\ Recordable
    /\ mem' = [mem EXCEPT !.ledger = Recorded] /\ UNCHANGED saved
    /\ pc' = "observe"
    /\ OwnedBy(Recorded, authoritative)
    /\ UNCHANGED <<history, native, alive, connected, broken, items, at, authoritative,
                   expected, stale, used>>

\* Mutant: whether the history owns the ledger is not looked at.
RecordUnowned ==
    /\ pc = "record" /\ Recordable
    /\ IF Recorded = mem.ledger THEN UNCHANGED <<mem, saved>>
                                ELSE Persist([mem EXCEPT !.ledger = Recorded])
    /\ pc' = "observe"
    /\ UNCHANGED <<history, native, alive, connected, broken, items, at, authoritative,
                   expected, stale, used>>

\* Mutant: a receipt delivered again is recorded again.
RecordTwice ==
    /\ pc = "record" /\ at <= Len(authoritative)
    /\ Persist([mem EXCEPT !.ledger = Append(@, Entry)])
    /\ OwnedBy(Append(mem.ledger, Entry), authoritative)
    /\ pc' = "observe"
    /\ UNCHANGED <<history, native, alive, connected, broken, items, at, authoritative,
                   expected, stale, used>>

\* _record_receipt, then the first test of reconcile_async.
Record ==
    /\ pc = "record" /\ Recordable
    /\ IF Recorded = mem.ledger THEN UNCHANGED <<mem, saved>>
                                ELSE Persist([mem EXCEPT !.ledger = Recorded])
    /\ IF OwnedBy(Recorded, authoritative)
          THEN pc' = "observe" /\ UNCHANGED <<at, authoritative, expected>>
          ELSE NoTask
    /\ UNCHANGED <<history, native, alive, connected, broken, items, stale, used>>

RecordRefused == pc = "record" /\ ~Recordable /\ Refused /\ UNCHANGED used

\* The first settled receipt, or the end of the settling.
Settled == pc' = (IF at = 0 THEN "next" ELSE "acknowledge") /\ UNCHANGED expected

\* A refusal ends the delivery; one while settling is logged and the run goes on.
GoOn == IF at = 0 THEN pc' = "next" /\ UNCHANGED <<at, authoritative, expected>> ELSE NoTask

\* A native total ahead of the ledger is refused (OwnedBeforeGranted: there is none).
Observe ==
    /\ pc = "observe" /\ ~stale
    /\ IF gained > Total(mem.ledger) THEN GoOn
       ELSE /\ IF gained = Total(mem.ledger) THEN Settled ELSE pc' = "grant" /\ expected' = gained
            /\ UNCHANGED <<at, authoritative>>
    /\ UNCHANGED <<history, native, saved, bridge, stale, used>>

\* The native owner adds one point if it has as many as expected; the answer arrives.
Grant ==
    /\ pc = "grant" /\ ~stale /\ gained = expected
    /\ gained' = gained + 1
    /\ IF expected + 1 = Total(mem.ledger) THEN Settled ELSE pc' = "grant" /\ expected' = expected + 1
    /\ UNCHANGED <<history, checkpoint, late, saved, bridge, at, authoritative, stale, used>>

GrantRefused ==
    /\ pc = "grant" /\ ~stale /\ gained # expected
    /\ GoOn
    /\ UNCHANGED <<history, native, saved, bridge, stale, used>>

\* No native answer in time, or the game is not in a map.
NoAnswer ==
    /\ pc \in Waiting /\ ~stale /\ MayFail /\ Spend("fault")
    /\ late' = Forsaken
    /\ GoOn
    /\ UNCHANGED <<history, gained, checkpoint, saved, bridge, stale>>

\* StaleNativeResult: the call is refused or its answer thrown away, and the run ends.
Stale ==
    /\ pc \in Waiting /\ stale
    /\ late' = Forsaken
    /\ NoTask
    /\ UNCHANGED <<history, gained, checkpoint, saved, bridge, stale, used>>

\* Mutant: a receipt whose point could not be confirmed is acknowledged all the same.
AcknowledgeBlocked ==
    /\ pc \in {"acknowledge", "record"}
    /\ Persist([mem EXCEPT !.next = @ + 1])
    /\ pc' = "next" /\ at' = 0 /\ UNCHANGED <<authoritative, expected>>
    /\ UNCHANGED <<history, native, alive, connected, broken, items, stale, used>>

\* The cursor passes a receipt whose point the game has confirmed.
Acknowledge ==
    /\ pc = "acknowledge"
    /\ Persist([mem EXCEPT !.next = @ + 1])
    /\ pc' = "next" /\ at' = 0 /\ UNCHANGED <<authoritative, expected>>
    /\ UNCHANGED <<history, native, alive, connected, broken, items, stale, used>>

\* The spool refuses the notification of a delivered receipt: it is delivered again.
NotifyRefused ==
    /\ pc = "acknowledge" /\ MayFail /\ Spend("fault")
    /\ Refused

\* Any of these writes may fail.
WriteFails ==
    /\ \/ pc = "rebuild" /\ ~stale /\ gained <= Len(authoritative)
       \/ pc = "record" /\ Recordable /\ Recorded # mem.ledger
       \/ pc = "acknowledge"
    /\ Block

Run == \/ BeginRun \/ NextReceipt \/ Owner \/ Rebuild \/ RebuildRefused \/ Record
       \/ RecordRefused \/ Observe \/ Grant \/ GrantRefused \/ Stale
       \/ Acknowledge

Next == \/ Run \/ NoAnswer \/ NotifyRefused \/ WriteFails
        \/ Packet \/ Disconnect \/ Connect \/ Start \/ Crash \/ LoseState
        \/ GameSaves \/ GameLoads
        \/ \E r \in Ids : ServerSend(r)
        \/ \E n \in 0..MaxLen : ServerRollback(n)
        \/ \E e \in late : LateGrant(e)

Spec == Init /\ [][Next]_vars

\* The process is started again, reconnects and receives what the server has: the event
\* loop gives a waiting packet its turn although it cannot interrupt a run everywhere
\* (hence SF).  A run is begun by every packet and by the bridge's regular work, and each
\* native call is answered or times out.
Fairness == /\ WF_vars(Start) /\ SF_vars(Connect) /\ SF_vars(Packet) /\ WF_vars(Run)
            /\ WF_vars(\E e \in late : LateGrant(e))

FairSpec == Spec /\ Fairness

-----------------------------------------------------------------------------
(* Correctness *)

TypeOK ==
    /\ history \in Seq(Ids) /\ items \in Seq(Ids) /\ authoritative \in Seq(Ids)
    /\ gained \in Nat /\ checkpoint \in Nat /\ late \subseteq Nat
    /\ saved \in States /\ mem \in States
    /\ alive \in BOOLEAN /\ connected \in BOOLEAN /\ broken \in BOOLEAN /\ stale \in BOOLEAN
    /\ pc \in Pcs /\ at \in Nat /\ expected \in Nat
    /\ used \in [Bounded -> Nat]

Points(state) == IF state.ledger = NoLedger THEN 0 ELSE Total(state.ledger)

\* The game never has more weapon points than the room has sent, whatever answers are
\* lost, however often a receipt is delivered again, also when the ledger was lost and
\* rebuilt from the native total (as long as the server's own save was not restored).
NeverOverpaid == used["rollback"] = 0 => gained <= Len(history) /\ checkpoint <= Len(history)

\* A point is in the game only after its receipt is in the file (persist ownership before
\* mutation): otherwise a crash would leave a total the ledger cannot explain, and every
\* later delivery would be refused.  A lost file is rebuilt from the total before that.
OwnedBeforeGranted == saved.ledger # NoLedger => gained <= Points(saved)

\* A receipt behind the cursor is in the ledger beside it, so that a checkpoint loaded
\* later, which takes its point away, is made up for.
AcknowledgedIsOwned ==
    \A i \in 1..saved.next : saved.ledger # NoLedger /\ Existing(saved.ledger, i) # {}

\* No point is asked for while the ledger names a receipt that the room's history does
\* not have at that place, as after the server's save was restored and went another way.
OnlyForOwnHistory ==
    [][pc' = "grant" /\ pc # "grant" => OwnedBy(mem.ledger, history)]_vars

\* In the end the game has a point for every receipt, over crashes, lost answers, loaded
\* checkpoints and a lost ledger, unless the state file could not be written, or the
\* server's save was restored.
AllPaid == <>[](gained = Len(history) \/ broken \/ used["rollback"] > 0)
=============================================================================
