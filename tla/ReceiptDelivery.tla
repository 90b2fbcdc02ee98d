--------------------------- MODULE ReceiptDelivery ---------------------------
(***************************************************************************)
(* How the bridge turns the ordered item history of an Archipelago room    *)
(* into spool publications: process_pending_item_receipts and the ledger   *)
(* it keeps in client_state.json.  The bridge is one thread of coroutines: *)
(* the delivery task gives way only where it awaits (a native answer, the  *)
(* materialization lease, the end of a batch), but the process may die     *)
(* between any publication and the write that records it, and a write may  *)
(* fail.  Packets, disconnections, a change of room and a rollback of the  *)
(* server's save happen at the awaits and between two runs of the task.    *)
(*                                                                         *)
(* An item the game cannot take where it is may be deferred: its           *)
(* notification is published alone and the receipt acknowledged; what the  *)
(* item does is left to the materialization of owned items, which is not   *)
(* modelled, or, for the frag grenade and its upgrades, remembered in the  *)
(* ledger and published behind the cursor by _flush_deferred_frag_upgrades.*)
(*                                                                         *)
(* Positions are counted from 1; `next' receipts have been processed.      *)
(***************************************************************************)
EXTENDS Integers, FiniteSets, Sequences

CONSTANTS
    Rooms, NoRoom,
    Items,             \* item ids
    Locations,         \* where an item was found: with the item, its identity
    Commands,          \* number of spool commands of an item (0: acknowledged only)
    Owned,             \* items confirmed by a native owner: one notification, own ledger
    Deferrable,        \* items whose receipt may be acknowledged with the notification alone
    Waiting,           \* items that may hold the cursor until the game can take them
    FragBases, FragUpgrades,   \* the frag grenade, and the upgrades that need it first
    MaxLen,            \* bound: receipts of a room
    MaxStarts, MaxConnects, MaxRollbacks, MaxFaults   \* bounds on the environment

ASSUME RoomsAssumption == NoRoom \notin Rooms
ASSUME ItemsAssumption == /\ Commands \in [Items -> Nat] /\ Locations # {}
                          /\ \E x \in Items : \A y \in Items : Commands[y] <= Commands[x]
                          /\ Owned \subseteq {x \in Items : Commands[x] = 1}
                          /\ Deferrable \subseteq {x \in Items \ Owned : Commands[x] > 0}
                          /\ FragBases \subseteq Deferrable /\ FragUpgrades \subseteq Deferrable
                          /\ FragBases \intersect FragUpgrades = {}
ASSUME BoundsAssumption == /\ MaxLen \in Nat /\ MaxStarts \in Nat /\ MaxConnects \in Nat
                           /\ MaxRollbacks \in Nat /\ MaxFaults \in Nat

Receipts == [item : Items, location : Locations]
MaxCommands == CHOOSE n \in {Commands[x] : x \in Items} : \A x \in Items : Commands[x] <= n

VARIABLES
    server,            \* [Rooms -> Seq(Receipts)]: the server's history of the slot
    saved,             \* [Rooms -> Ledger]: client_state.json
    alive,             \* the bridge process runs
    conn,              \* the room the socket is connected to, or NoRoom
    key,               \* state_key of the session in memory, or NoRoom
    ready,             \* item_state_ready
    authority,         \* _queue_session_authoritative
    broken,            \* _item_state_error: sticky until the process ends
    full,              \* _item_history_received: the history from index 0 has arrived
    items,             \* items_received
    mem,               \* the session's ledger in memory
    pc,                \* where the delivery task is
    at,                \* the position it is handling
    receipt,           \* the receipt it read there
    way,               \* what it publishes of it: all ("group"), the notification alone
                       \* ("notify"), the effects in the opening or closing flush
                       \* ("first", "last")
    dups,              \* positions its observation classified as duplicates
    stale,             \* what changed since it last looked: "no", "work" or "rebind"
    sent,              \* [Rooms -> position -> ordinal -> Nat]: accepted publications;
                       \* ordinal 0 is the notification published alone
    left,              \* for the properties only: [Rooms -> SUBSET positions], receipts
                       \* acknowledged with the notification alone and not remembered
    used               \* how often each bounded thing has happened

task  == <<pc, at, receipt, way, dups>>
link  == <<conn, key, ready, authority, full, items>>
vars  == <<server, saved, alive, link, broken, mem, task, stale, sent, left, used>>

NoGroup == [item |-> CHOOSE x \in Items : TRUE, done |-> 0]
Frags   == FragBases \union FragUpgrades

Empty   == [next |-> 0, ids |-> <<>>, counts |-> [x \in Receipts |-> 0],
            groups |-> [i \in 1..MaxLen |-> NoGroup], notified |-> {}, frags |-> {}]
Ledgers == [next : 0..MaxLen, ids : Seq(Items), counts : [Receipts -> Nat],
            groups : [1..MaxLen -> [item : Items, done : Nat]], notified : SUBSET (1..MaxLen),
            frags : SUBSET ((1..MaxLen) \X Items)]

Pcs     == {"none", "next", "await", "publish", "record", "acknowledge", "yield",
            "ready", "flush", "forget", "settle"}
Ways    == {"group", "notify", "first", "last"}
Bounded == {"start", "connect", "rollback", "fault"}
Spend(what) == used' = [used EXCEPT ![what] = @ + 1]
MayFail     == used["fault"] < MaxFaults

NoReceipt == CHOOSE x \in Receipts : TRUE
NoTask    == pc' = "none" /\ at' = 0 /\ receipt' = NoReceipt /\ way' = "group" /\ dups' = {}

Init ==
    /\ server = [r \in Rooms |-> <<>>] /\ saved = [r \in Rooms |-> Empty]
    /\ alive = FALSE /\ conn = NoRoom /\ key = NoRoom /\ ready = FALSE /\ authority = FALSE
    /\ broken = FALSE /\ full = FALSE /\ items = <<>> /\ mem = Empty
    /\ pc = "none" /\ at = 0 /\ receipt = NoReceipt /\ way = "group" /\ dups = {}
    /\ stale = "no"
    /\ sent = [r \in Rooms |-> [i \in 1..MaxLen |-> [k \in 0..MaxCommands |-> 0]]]
    /\ left = [r \in Rooms |-> {}]
    /\ used = [b \in Bounded |-> 0]

-----------------------------------------------------------------------------
(* The room *)

ServerSend(r, x) ==
    /\ Len(server[r]) < MaxLen
    /\ server' = [server EXCEPT ![r] = Append(@, x)]
    /\ UNCHANGED <<saved, alive, link, broken, mem, task, stale, sent, left, used>>

\* Nothing but the delivery task's own continuation runs between two awaits.
Interruptible == pc \in {"none", "await", "yield", "ready", "settle"}

LoseConnection ==
    /\ conn' = NoRoom /\ items' = <<>> /\ authority' = FALSE
    /\ stale' = IF stale = "no" THEN "work" ELSE stale
    /\ UNCHANGED <<key, ready, full>>

Disconnect ==
    /\ conn # NoRoom /\ Interruptible /\ used["connect"] < MaxConnects
    /\ LoseConnection
    /\ UNCHANGED <<server, saved, alive, broken, mem, task, sent, left, used>>

\* The server's save is restored from an earlier moment, which ends its connections.
ServerRollback(r, n) ==
    /\ used["rollback"] < MaxRollbacks /\ n < Len(server[r]) /\ Interruptible
    /\ conn = r => used["connect"] < MaxConnects
    /\ server' = [server EXCEPT ![r] = SubSeq(@, 1, n)]
    /\ Spend("rollback")
    /\ IF conn = r THEN LoseConnection ELSE UNCHANGED <<link, stale>>
    /\ UNCHANGED <<saved, alive, broken, mem, task, sent, left>>

\* Mutant: a history sent again is appended to the one that is there.
PacketAppends ==
    /\ conn # NoRoom /\ Interruptible
    /\ ~full \/ items # server[conn]
    /\ items' = items \o server[conn] /\ full' = TRUE
    /\ UNCHANGED <<server, saved, alive, conn, key, ready, authority, broken, mem, task,
                   stale, sent, left, used>>

\* A ReceivedItems packet: the whole history first, then what follows it.
Packet ==
    /\ conn # NoRoom /\ Interruptible
    /\ ~full \/ items # server[conn]
    /\ items' = server[conn] /\ full' = TRUE
    /\ UNCHANGED <<server, saved, alive, conn, key, ready, authority, broken, mem, task,
                   stale, sent, left, used>>

-----------------------------------------------------------------------------
(* The process and its session *)

Start ==
    /\ ~alive /\ used["start"] < MaxStarts
    /\ alive' = TRUE
    /\ Spend("start")
    /\ UNCHANGED <<server, saved, link, broken, mem, task, stale, sent, left>>

Crash ==
    /\ alive /\ used["start"] < MaxStarts /\ used["connect"] < MaxConnects
    /\ alive' = FALSE /\ conn' = NoRoom /\ key' = NoRoom /\ ready' = FALSE /\ authority' = FALSE
    /\ broken' = FALSE /\ full' = FALSE /\ items' = <<>> /\ mem' = Empty /\ stale' = "no"
    /\ NoTask
    /\ UNCHANGED <<server, saved, sent, left, used>>

\* _block_item_state: the state file could not be written; no delivery until a restart.
Block ==
    /\ MayFail /\ Spend("fault")
    /\ broken' = TRUE /\ ready' = FALSE /\ authority' = FALSE
    /\ NoTask /\ stale' = "no"
    /\ UNCHANGED <<server, saved, alive, conn, key, full, items, mem, sent, left>>

\* Connected: initialize_item_state withdraws authority, binds the ledger of the room
\* from the state file and writes it back.
Connect(r) ==
    /\ alive /\ conn = NoRoom /\ Interruptible /\ used["connect"] < MaxConnects
    /\ conn' = r /\ full' = FALSE /\ items' = <<>>
    /\ UNCHANGED <<server, saved, alive, task, sent, left>>
    /\ IF broken
          THEN /\ authority' = FALSE /\ stale' = IF stale = "no" THEN "work" ELSE stale
               /\ Spend("connect")
               /\ UNCHANGED <<key, ready, broken, mem>>
          ELSE /\ key' = r /\ mem' = saved[r] /\ stale' = "rebind"
               /\ \/ ready' = TRUE /\ authority' = TRUE /\ Spend("connect") /\ UNCHANGED broken
                  \/ /\ MayFail
                     /\ used' = [used EXCEPT !["connect"] = @ + 1, !["fault"] = @ + 1]
                     /\ ready' = FALSE /\ authority' = FALSE /\ broken' = TRUE

-----------------------------------------------------------------------------
(* The delivery task *)

ItemIds(s)       == [i \in 1..Len(s) |-> s[i].item]
Occurrences(x, i) == Cardinality({j \in 1..i : items[j] = x})

\* Mutant: only the lengths are compared.
CompatibleLength(ledger, s) == ledger.next <= Len(s)

\* validate_receipt_history_prefix: the stored items are the first items received.
Compatible(ledger, s) ==
    /\ ledger.next <= Len(s)
    /\ ledger.ids # <<>> => ledger.ids = ItemIds(SubSeq(s, 1, ledger.next))

\* observe_received_items: a receipt whose identity has been processed often enough.
IsDuplicate(ledger, i) == i > ledger.next /\ Occurrences(items[i], i) <= ledger.counts[items[i]]

\* What no step of the task changes; only a write that fails (Block) does.
outside == <<server, alive, link, broken>>

HasWork == mem.next < Len(items) \/ mem.frags # {}

\* A run observes the whole history, refuses one that does not extend the ledger, and
\* records what it saw.  A run that no packet started first looks after the receipts that
\* native owners hold, and after the frag items left behind.
Begin ==
    /\ pc = "none" /\ ready /\ full /\ HasWork /\ Compatible(mem, items)
    /\ \/ pc' = "next" /\ UNCHANGED way
       \/ pc' = (IF mem.frags = {} THEN "settle" ELSE "ready") /\ way' = "first"
    /\ stale' = "no"
    /\ dups' = {i \in 1..Len(items) : IsDuplicate(mem, i)}
    /\ saved' = [saved EXCEPT ![key] = mem]
    /\ UNCHANGED <<outside, mem, at, receipt, sent, left, used>>

BeginFails ==
    /\ pc = "none" /\ ready /\ full /\ HasWork /\ Compatible(mem, items)
    /\ Block

\* The receipt behind the cursor: nothing to publish, or something that has to be awaited.
NextReceipt ==
    /\ pc = "next" /\ mem.next < Len(items)
    /\ at' = mem.next + 1 /\ receipt' = items[at'] /\ way' = "group"
    /\ pc' = IF at' \in dups \/ Commands[receipt'.item] = 0 THEN "acknowledge" ELSE "await"
    /\ UNCHANGED <<outside, saved, mem, dups, stale, sent, left, used>>

\* The loop is over, at its end or held by a receipt: frag items left behind are looked at.
LeaveLoop ==
    IF mem.frags = {} THEN NoTask
    ELSE pc' = "ready" /\ way' = "last" /\ at' = 0 /\ receipt' = NoReceipt /\ UNCHANGED dups

EndRun ==
    /\ pc = "next" /\ mem.next >= Len(items)
    /\ LeaveLoop
    /\ UNCHANGED <<outside, saved, mem, stale, sent, left, used>>

\* _has_received_frag
HasFrag == /\ \E j \in 1..Len(items) : j <= mem.next /\ items[j].item \in FragBases
           /\ \A f \in mem.frags : f[2] \notin FragBases

\* Mutant: the answer is not checked for staleness.
ResumeAnyway ==
    /\ pc = "await"
    /\ receipt.item \in FragUpgrades => HasFrag
    /\ pc' = "publish" /\ way' = IF receipt.item \in Owned THEN "notify" ELSE "group"
    /\ UNCHANGED <<outside, saved, mem, at, receipt, dups, stale, sent, left, used>>

\* The native answer or the lease arrives, for a session that has not changed meanwhile,
\* and the game can take the item.
Resume ==
    /\ pc = "await" /\ stale = "no"
    /\ receipt.item \in FragUpgrades => HasFrag
    /\ pc' = "publish" /\ way' = IF receipt.item \in Owned THEN "notify" ELSE "group"
    /\ UNCHANGED <<outside, saved, mem, at, receipt, dups, stale, sent, left, used>>

\* There is no lease, the map is not one the item belongs to, or the frag grenade is
\* missing: only the notification is published.
Defer ==
    /\ pc = "await" /\ stale = "no" /\ receipt.item \in Deferrable
    /\ pc' = "publish" /\ way' = "notify"
    /\ UNCHANGED <<outside, saved, mem, at, receipt, dups, stale, sent, left, used>>

\* Mutant: a stale answer is dropped and the task waits on.
GiveWayNever == pc = "await" /\ stale # "no" /\ UNCHANGED vars

\* The answer comes to a session that has changed: the task ends.
GiveWay ==
    /\ pc = "await" /\ stale # "no"
    /\ NoTask
    /\ UNCHANGED <<outside, saved, mem, stale, sent, left, used>>

\* The owner does not confirm, or the game is not where the item can be given: the receipt
\* holds the cursor.
Hold ==
    /\ pc = "await" /\ stale = "no" /\ receipt.item \in Owned \union Waiting
    /\ MayFail /\ Spend("fault")
    /\ LeaveLoop
    /\ UNCHANGED <<outside, saved, mem, stale, sent, left>>

-----------------------------------------------------------------------------
(* Publication of one receipt *)

Flushing == way \in {"first", "last"}

\* How many commands are to be published: the last one of a group is its notification,
\* which the flush leaves out.
Due == CASE way = "notify" -> 1
         [] way = "group"  -> Commands[receipt.item]
         [] OTHER          -> Commands[receipt.item] - 1

\* Mutant: the notification already published is not looked up.
DoneUnnotified == IF way = "notify" THEN 0 ELSE mem.groups[at].done

\* How many of them the ledger holds as published.
Done == IF way = "notify" THEN IF at \in mem.notified THEN 1 ELSE 0 ELSE mem.groups[at].done

\* The next of them: the notification published alone has a number of its own.
Ordinal == IF way = "notify" THEN 0 ELSE Done + 1

\* A notification is published without the checks that precede a group of commands: the
\* session still has queue authority, and stored progress is that of the same item and
\* not beyond its last command.
Authorized == way = "notify" \/ ( /\ authority
                                  /\ Done > 0 => mem.groups[at].item = receipt.item
                                  /\ Done <= Due )

\* The next command goes to the spool.
Publish ==
    /\ pc = "publish" /\ Authorized /\ Done < Due
    /\ sent' = [sent EXCEPT ![key][at][Ordinal] = @ + 1]
    /\ pc' = "record"
    /\ UNCHANGED <<outside, saved, mem, at, receipt, way, dups, stale, left, used>>

\* The flush is over: an opening one is followed by other awaits of the run, a closing one
\* ends it.
AfterFlush == IF way = "first"
                 THEN pc' = "settle" /\ at' = 0 /\ receipt' = NoReceipt /\ UNCHANGED <<way, dups>>
                 ELSE NoTask

\* It is refused, or stored progress does not fit: the receipt waits for a later run.
Refuse ==
    /\ pc = "publish"
    /\ \/ ~Authorized /\ UNCHANGED used
       \/ MayFail /\ Done < Due /\ Spend("fault")
    /\ IF Flushing THEN AfterFlush ELSE LeaveLoop
    /\ UNCHANGED <<outside, saved, mem, stale, sent, left>>

Persist(ledger) == mem' = ledger /\ saved' = [saved EXCEPT ![key] = ledger]

\* The publication is recorded before the next one.
Record ==
    /\ pc = "record"
    /\ Persist(IF way = "notify"
                  THEN [mem EXCEPT !.notified = @ \union {at}]
                  ELSE [mem EXCEPT !.groups[at] = [item |-> receipt.item, done |-> Done + 1]])
    /\ pc' = "publish"
    /\ UNCHANGED <<outside, at, receipt, way, dups, stale, sent, left, used>>

\* All are: the progress record of the receipt is removed.
Completing == pc = "publish" /\ Authorized /\ Done >= Due

\* Mutant: completion moves the cursor as well.
CompleteAdvances ==
    /\ Completing
    /\ Persist([mem EXCEPT !.groups[at] = NoGroup, !.next = @ + 1])
    /\ pc' = IF Flushing THEN "forget" ELSE "acknowledge"
    /\ UNCHANGED <<outside, at, receipt, way, dups, stale, sent, left, used>>

Complete ==
    /\ Completing
    /\ IF way = "notify" THEN UNCHANGED <<mem, saved>>
                         ELSE Persist([mem EXCEPT !.groups[at] = NoGroup])
    /\ pc' = IF Flushing THEN "forget" ELSE "acknowledge"
    /\ UNCHANGED <<outside, at, receipt, way, dups, stale, sent, left, used>>

-----------------------------------------------------------------------------
(* Acknowledgement and the frag items left behind *)

Deferred == way = "notify" /\ receipt.item \notin Owned

\* Mutant: only the upgrades are remembered.
RememberedUpgrades == IF Deferred /\ receipt.item \in FragUpgrades
                         THEN {f \in mem.frags : f[1] # at} \union {<<at, receipt.item>>}
                         ELSE mem.frags

\* deferred_frag_items with the receipt at hand.
Remembered == IF Deferred /\ receipt.item \in Frags
                 THEN {f \in mem.frags : f[1] # at} \union {<<at, receipt.item>>} ELSE mem.frags

\* _acknowledge_receipt: the cursor moves; a duplicate is not recorded again.  A deferral
\* may then wait for the materialization it asks for, a batch may end.
Acknowledge ==
    /\ pc = "acknowledge"
    /\ Persist(IF at \in dups
                  THEN [mem EXCEPT !.next = @ + 1]
                  ELSE [mem EXCEPT !.next = @ + 1, !.ids = Append(@, receipt.item),
                                   !.counts[receipt] = @ + 1, !.frags = Remembered])
    /\ left' = IF Deferred /\ receipt.item \notin Frags THEN [left EXCEPT ![key] = @ \union {at}]
                                                        ELSE left
    /\ pc' \in (CASE Deferred -> {"next", "settle"} [] way = "notify" -> {"next"}
                  [] OTHER    -> {"next", "yield"})
    /\ UNCHANGED <<outside, at, receipt, way, dups, stale, sent, used>>

\* Mutant: a frag item is flushed whether or not the frag grenade is there.
EligibleAnyway(f) == f[1] <= mem.next /\ f[1] <= Len(items) /\ items[f[1]].item = f[2]

\* A remembered item can be published: the history has it there, and it needs no frag
\* grenade or there is one.
Eligible(f) ==
    /\ f[1] <= mem.next /\ f[1] <= Len(items) /\ items[f[1]].item = f[2]
    /\ f[2] \in FragUpgrades => HasFrag

Before(f, g) == \/ f[2] \in FragBases /\ g[2] \notin FragBases
                \/ (f[2] \in FragBases <=> g[2] \in FragBases) /\ f[1] <= g[1]

\* runtime_effects_ready and the lease, both awaited.
FlushStarts ==
    /\ pc = "ready" /\ stale = "no"
    /\ pc' = "flush"
    /\ UNCHANGED <<outside, saved, mem, at, receipt, way, dups, stale, sent, left, used>>

FlushIsPutOff ==
    /\ pc = "ready"
    /\ IF stale = "no" THEN AfterFlush ELSE NoTask
    /\ UNCHANGED <<outside, saved, mem, stale, sent, left, used>>

\* The frag grenade first, then the upgrades in the order they were received.
FlushNext ==
    /\ pc = "flush"
    /\ \E f \in mem.frags : /\ Eligible(f)
                            /\ \A g \in mem.frags : Eligible(g) => Before(f, g)
                            /\ at' = f[1] /\ receipt' = items[f[1]]
    /\ pc' = "publish"
    /\ UNCHANGED <<outside, saved, mem, way, dups, stale, sent, left, used>>

FlushEnds ==
    /\ pc = "flush" /\ \A f \in mem.frags : ~Eligible(f)
    /\ AfterFlush
    /\ UNCHANGED <<outside, saved, mem, stale, sent, left, used>>

\* The effects of a frag item are out: it is forgotten.
Forget ==
    /\ pc = "forget"
    /\ Persist([mem EXCEPT !.frags = {f \in @ : f[1] # at}])
    /\ pc' = "flush"
    /\ UNCHANGED <<outside, at, receipt, way, dups, stale, sent, left, used>>

\* Mutant: the task ends without blocking delivery.
WriteFailsQuietly ==
    /\ pc \in {"record", "acknowledge"} /\ MayFail /\ Spend("fault")
    /\ NoTask
    /\ UNCHANGED <<outside, saved, mem, stale, sent, left>>

\* Any of these writes may fail.
WriteFails == /\ \/ pc \in {"record", "acknowledge", "forget"}
                 \/ Completing /\ way # "notify"
              /\ Block

\* After a batch the other coroutines run; the task goes on unless the session was rebound.
Yield ==
    /\ pc = "yield"
    /\ IF stale = "rebind" THEN NoTask ELSE pc' = "next" /\ UNCHANGED <<at, receipt, way, dups>>
    /\ UNCHANGED <<outside, saved, mem, stale, sent, left, used>>

\* The run goes on after other native answers, unless one of them is stale.
Settle ==
    /\ pc = "settle"
    /\ IF stale = "no" THEN pc' = "next" /\ UNCHANGED <<at, receipt, way, dups>> ELSE NoTask
    /\ UNCHANGED <<outside, saved, mem, stale, sent, left, used>>

Delivery == \/ Begin \/ BeginFails \/ NextReceipt \/ EndRun \/ Resume \/ Defer \/ GiveWay \/ Hold
            \/ Publish \/ Refuse \/ Record \/ Complete \/ Acknowledge
            \/ FlushStarts \/ FlushIsPutOff \/ FlushNext \/ FlushEnds \/ Forget
            \/ WriteFails \/ Yield \/ Settle

Next == \/ Delivery \/ Start \/ Crash \/ Disconnect \/ Packet
        \/ \E r \in Rooms : \/ Connect(r)
                            \/ \E x \in Receipts : ServerSend(r, x)
                            \/ \E n \in 0..MaxLen : ServerRollback(r, n)

Spec == Init /\ [][Next]_vars
-----------------------------------------------------------------------------
(* Fairness: the process is started again, reconnects, receives what the server has and *)
(* runs its delivery task; what is awaited is answered, the spool accepts or refuses.    *)
(* A packet that has arrived is handled at an await, even if a run follows on a run.     *)
Fairness ==
    /\ WF_vars(Start) /\ WF_vars(\E r \in Rooms : Connect(r)) /\ SF_vars(Packet)
    /\ WF_vars(Begin) /\ WF_vars(NextReceipt) /\ WF_vars(EndRun)
    /\ WF_vars(Resume \/ Defer \/ GiveWay \/ Hold)
    /\ WF_vars(Publish \/ Refuse) /\ WF_vars(Record) /\ WF_vars(Complete)
    /\ WF_vars(Acknowledge) /\ WF_vars(Yield) /\ WF_vars(Settle)
    /\ WF_vars(FlushStarts \/ FlushIsPutOff) /\ WF_vars(FlushNext \/ FlushEnds) /\ WF_vars(Forget)

FairSpec == Spec /\ Fairness

-----------------------------------------------------------------------------
(* Correctness *)

TypeOK ==
    /\ server \in [Rooms -> Seq(Receipts)] /\ \A r \in Rooms : Len(server[r]) <= MaxLen
    /\ saved \in [Rooms -> Ledgers] /\ mem \in Ledgers
    /\ alive \in BOOLEAN /\ ready \in BOOLEAN /\ authority \in BOOLEAN
    /\ broken \in BOOLEAN /\ full \in BOOLEAN
    /\ conn \in Rooms \union {NoRoom} /\ key \in Rooms \union {NoRoom}
    /\ items \in Seq(Receipts)
    /\ pc \in Pcs /\ at \in 0..MaxLen /\ receipt \in Receipts /\ way \in Ways
    /\ dups \subseteq 1..MaxLen
    /\ stale \in {"no", "work", "rebind"}
    /\ sent \in [Rooms -> [1..MaxLen -> [0..MaxCommands -> Nat]]]
    /\ left \in [Rooms -> SUBSET (1..MaxLen)]
    /\ used \in [Bounded -> Nat]

Published(r, i, k) == sent'[r][i][k] # sent[r][i][k]
Owes(r, i) == IF i \in 1..Len(server[r]) THEN Commands[server[r][i].item] ELSE 0

\* The receipts whose effects the ledger on disk has put off: frag items it remembers, and
\* what is left to materialization.
PutOff(r) == left[r] \union {f[1] : f \in saved[r].frags}

\* Command k of the receipt at i has reached the spool; the last one, its notification, may
\* have done so alone, and then the others may have been put off.
Reached(r, i, k) == \/ sent[r][i][k] > 0
                    \/ k = Owes(r, i) /\ sent[r][i][0] > 0
                    \/ k < Owes(r, i) /\ i \in PutOff(r)
ReachedAll(r, i) == \A k \in 1..Owes(r, i) : Reached(r, i, k)

\* The cursor on disk never passes a command that has not reached the spool: whatever
\* crash, failed write or refusal intervenes, and wherever a receipt is deferred, nobody
\* loses an item or its notification, and a frag item whose effects are not out yet is
\* remembered until they are (as long as the server's save has not been restored from an
\* earlier moment, which may put another item there).
NothingSkipped ==
    used["rollback"] = 0 => \A r \in Rooms : \A i \in 1..saved[r].next : ReachedAll(r, i)

\* The frag grenade's effects have all been published.
FragIsOut(r) == \E j \in 1..Len(server[r]) : /\ server[r][j].item \in FragBases
                                             /\ \A k \in 1..(Owes(r, j) - 1) : sent[r][j][k] > 0

\* A command reaches the spool only when the earlier ones of its own receipt have (other
\* than a notification published alone), when the receipts before it have been published
\* or put off, and, for an upgrade of the frag grenade, when the grenade's effects have
\* (the last two as long as the server's save has not been restored).
PublishedInOrder ==
    \A r \in Rooms : \A i \in 1..MaxLen : \A k \in 0..MaxCommands :
        sent[r][i][k] > 0 =>
            /\ \A l \in 1..(k - 1) : sent[r][i][l] > 0
            /\ used["rollback"] = 0 =>
                  /\ \A j \in 1..(i - 1) : ReachedAll(r, j)
                  /\ k > 0 /\ server[r][i].item \in FragUpgrades => FragIsOut(r)

\* What the ledger on disk records as published is never published again, by this process
\* or by a later one, and behind its cursor only a frag item is that it remembers.
NotBehindLedger ==
    [][\A r \in Rooms, i \in 1..MaxLen, k \in 0..MaxCommands : Published(r, i, k) =>
          IF k = 0 THEN i > saved[r].next /\ i \notin saved[r].notified
          ELSE /\ k > saved[r].groups[i].done
               /\ i > saved[r].next \/ <<i, receipt.item>> \in saved[r].frags]_vars

\* A command is published twice only because a process ended between its publication
\* and the write that records it (or because, after the server's save was restored,
\* another item stands at its place).
ReplayNeedsRestart ==
    used["rollback"] = 0 =>
        \A r \in Rooms : \A i \in 1..MaxLen : \A k \in 0..MaxCommands :
            sent[r][i][k] <= used["start"]

\* A receipt read before an await is published only into the room it was read from, at
\* the position where that room's history has it.
PublishedWhereItBelongs ==
    [][\A r \in Rooms, i \in 1..MaxLen, k \in 0..MaxCommands : Published(r, i, k) =>
          /\ i <= Len(server[r]) /\ server[r][i] = receipt
          /\ conn = r]_vars

\* The processed items on disk are those the server sent first (as long as its save has
\* not been restored from an earlier moment).
LedgerFollowsServer ==
    used["rollback"] = 0 =>
        \A r \in Rooms : /\ saved[r].next <= Len(server[r])
                         /\ saved[r].ids = ItemIds(SubSeq(server[r], 1, saved[r].next))

\* Nothing is published unless the room's history begins with the items the ledger holds
\* as processed, also after the server's save was restored; except in a run that has passed
\* a duplicate, which the ledger does not hold.
OnlyOntoMatchingHistory ==
    [][\A r \in Rooms, i \in 1..MaxLen, k \in 0..MaxCommands : Published(r, i, k) =>
          /\ saved[r].next <= Len(server[r])
          /\ dups \intersect (1..saved[r].next) = {} =>
                saved[r].ids = ItemIds(SubSeq(server[r], 1, saved[r].next))]_vars

\* Every receipt of the room is eventually acknowledged, across crashes, lost connections,
\* refused publications and deferrals, unless a state file that could not be written has
\* blocked delivery until the player restarts the bridge.
AllAcknowledged ==
    \A r \in Rooms, n \in 1..MaxLen : Len(server[r]) >= n ~> (saved[r].next >= n \/ broken)

\* "accepts receipts only when the received list extends the stored history"
\* (docs/DEVELOPMENT.md): a list that was accepted, and one that extends it, stays
\* accepted whatever is delivered from it.
AcceptedStaysAccepted == pc # "none" => Compatible(mem, items)
=============================================================================
