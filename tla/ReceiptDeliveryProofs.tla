------------------------ MODULE ReceiptDeliveryProofs ------------------------
(***************************************************************************)
(* Receipt delivery for any rooms, items and ledgers and for any bounds:   *)
(* types; no command skipped by the cursor that is not put off in the      *)
(* ledger's sight, none published out of order, in the wrong room, behind  *)
(* the ledger or twice by one process; and a ledger that follows its room. *)
(***************************************************************************)
EXTENDS ReceiptDelivery, SequenceTheorems, FiniteSetTheorems, TLAPS

USE DEF vars, task, link, outside

-----------------------------------------------------------------------------
(* The inductive invariant *)

Prefix(a, h) == Len(a) <= Len(h) /\ \A k \in 1..Len(a) : a[k] = h[k]

Count(h, n, x) == Cardinality({j \in 1..n : h[j] = x})

NoRollback == used["rollback"] = 0

\* The task has a receipt in hand that it publishes or has published.
Handling == pc \in {"publish", "record", "acknowledge", "forget"}

\* What is in memory is what the file has; a session that is ready is that of the room the
\* bridge is connected to, and what was received is the beginning of its history.
SessionIsSaved ==
    /\ ~alive => pc = "none" /\ conn = NoRoom /\ key = NoRoom /\ ~ready /\ ~broken
    /\ alive => used["start"] > 0
    /\ key # NoRoom => mem = saved[key]
    /\ ready => key # NoRoom /\ ~broken
    /\ conn = NoRoom => items = <<>>
    /\ conn # NoRoom => Prefix(items, server[conn])
    /\ ready /\ conn # NoRoom => conn = key

\* Frag items are remembered behind the cursor.
FragsAreBehind == \A r \in Rooms : \A f \in saved[r].frags : f[1] <= saved[r].next

\* A run works on the session it began in, or it is stale: on the receipt behind the
\* cursor or, in a flush, on a frag item it remembers.
Running ==
    /\ Handling \/ pc = "flush" => stale = "no"
    /\ pc # "none" /\ stale = "no" => ready /\ conn # NoRoom /\ mem.next <= Len(items)
    /\ pc # "none" /\ stale = "work" => conn = NoRoom
    /\ pc # "none" /\ broken => stale = "rebind"
    /\ pc = "next" => stale # "rebind"
    /\ pc \in {"await", "acknowledge"} => ~Flushing
    /\ pc \in {"ready", "flush", "forget"} => Flushing
    /\ (Handling \/ pc = "await") /\ stale = "no" =>
           /\ at \in 1..Len(items) /\ receipt = items[at]
           /\ ~Flushing => at = mem.next + 1
           /\ Flushing => at <= mem.next /\ <<at, receipt.item>> \in mem.frags
    /\ pc = "record" => Done < Due /\ sent[key][at][Ordinal] > 0

\* Only what a ledger has counted is a duplicate; without one, a ledger holds the history.
Observed ==
    /\ \A r \in Rooms : saved[r].ids = <<>> =>
           saved[r].next = 0 /\ saved[r].counts = [x \in Receipts |-> 0]
    /\ pc # "none" /\ stale = "no" =>
           /\ dups # {} => mem.ids # <<>>
           /\ dups \intersect (1..mem.next) = {} =>
                  mem.ids = ItemIds(SubSeq(items, 1, mem.next))

\* What a ledger records as published has been, and what the task is done with.
ProgressIsPublished ==
    /\ \A r \in Rooms :
           /\ \A i \in 1..MaxLen : /\ saved[r].groups[i].done <= MaxCommands
                                   /\ \A k \in 1..saved[r].groups[i].done : sent[r][i][k] > 0
           /\ \A i \in saved[r].notified : sent[r][i][0] > 0
    /\ pc = "acknowledge" /\ at \notin dups =>
           IF way = "notify" THEN at \in mem.notified
                             ELSE \A k \in 1..Commands[receipt.item] : sent[key][at][k] > 0
    /\ pc = "forget" => \A k \in 1..(Commands[receipt.item] - 1) : sent[key][at][k] > 0

\* As long as the server's save was not restored: the counts are those of the history, and
\* nothing of it is taken for a duplicate.
HistoryIsCounted ==
    NoRollback =>
        /\ \A r \in Rooms, x \in Receipts :
               saved[r].counts[x] = Count(server[r], saved[r].next, x)
        /\ pc # "none" /\ stale = "no" => dups = {}

\* What is put off is what it is remembered as, and no frag item is left to others.
PutOffIsTheirs ==
    NoRollback =>
        \A r \in Rooms : /\ \A f \in saved[r].frags : server[r][f[1]].item = f[2]
                         /\ \A i \in left[r] : server[r][i].item \notin Frags
                                               /\ i <= saved[r].next

\* An upgrade of the frag grenade is in hand only when the grenade's effects are out.
UpgradesWait ==
    NoRollback /\ pc \in {"publish", "record"} /\ way # "notify"
               /\ receipt.item \in FragUpgrades => FragIsOut(key)

\* Nothing is published at a place without a receipt.
PublishedReceipts ==
    NoRollback => \A r \in Rooms : \A i \in 1..MaxLen : \A k \in 0..MaxCommands :
        sent[r][i][k] > 0 => i <= Len(server[r])

\* What the ledger of the room may still publish, has recorded, or is about to record.
Open(r, i, k) ==
    i > saved[r].next \/ (k > 0 /\ \E f \in saved[r].frags : f[1] = i)

Recorded(r, i, k) ==
    IF k = 0 THEN i \in saved[r].notified ELSE k <= saved[r].groups[i].done

UnderWay(r, i, k) ==
    /\ r = key /\ i = at
    /\ \/ pc = "record" /\ k = Ordinal
       \/ k > 0 /\ (pc = "forget" \/ (pc = "acknowledge" /\ way # "notify"))

\* This process has not published what it may still publish.
Unpublished ==
    NoRollback /\ alive /\ ~broken =>
        \A r \in Rooms : \A i \in 1..Len(server[r]) : \A k \in 0..MaxCommands :
            Open(r, i, k) /\ ~Recorded(r, i, k) /\ ~UnderWay(r, i, k) =>
                sent[r][i][k] < used["start"]

Inv == /\ TypeOK /\ SessionIsSaved /\ FragsAreBehind /\ Running /\ Observed
       /\ ProgressIsPublished /\ LedgerFollowsServer /\ HistoryIsCounted
       /\ PutOffIsTheirs /\ UpgradesWait
       /\ NothingSkipped /\ PublishedReceipts /\ PublishedInOrder
       /\ ReplayNeedsRestart /\ Unpublished


-----------------------------------------------------------------------------
(* Constants, histories and counts *)

LEMMA Constants ==
    /\ Receipts # {} /\ NoReceipt \in Receipts
    /\ MaxCommands \in Nat /\ \A x \in Items : Commands[x] \in Nat /\ Commands[x] <= MaxCommands
    /\ \A x \in Receipts : x.item \in Items
<1>1. PICK x \in Items : \A y \in Items : Commands[y] <= Commands[x]
  BY ItemsAssumption
<1>2. PICK l \in Locations : TRUE
  BY ItemsAssumption
<1>3. [item |-> x, location |-> l] \in Receipts
  BY DEF Receipts
<1>4. \E n \in {Commands[y] : y \in Items} : \A y \in Items : Commands[y] <= n
  BY <1>1
<1>5. MaxCommands \in {Commands[y] : y \in Items} /\ \A y \in Items : Commands[y] <= MaxCommands
  BY <1>4 DEF MaxCommands
<1>6. \A y \in Items : Commands[y] \in Nat
  BY ItemsAssumption
<1>7. NoReceipt \in Receipts
  BY <1>3 DEF NoReceipt
<1> QED BY <1>3, <1>5, <1>6, <1>7 DEF Receipts

LEMMA EmptyLedger ==
    /\ NoGroup.done = 0 /\ Empty \in Ledgers
    /\ Empty.next = 0 /\ Empty.ids = <<>> /\ Empty.frags = {} /\ Empty.notified = {}
    /\ \A i \in 1..MaxLen : Empty.groups[i].done = 0
<1>1. <<>> \in Seq(Items)
  BY EmptySeq
<1>2. NoGroup \in [item : Items, done : Nat]
  BY ItemsAssumption DEF NoGroup
<1> QED BY <1>1, <1>2, BoundsAssumption DEF NoGroup, Empty, Ledgers

\* What was received begins like the history of the room it was received from.
LEMMA SamePrefix ==
    ASSUME NEW a \in Seq(Receipts), NEW h \in Seq(Receipts), Prefix(a, h), NEW n \in 0..Len(a)
    PROVE  SubSeq(a, 1, n) = SubSeq(h, 1, n)
<1>1. n \in Int /\ n <= Len(h) /\ Len(a) \in Nat /\ Len(h) \in Nat
  BY DEF Prefix
<1>2. \A k \in 1..n : a[k] \in Receipts /\ h[k] \in Receipts /\ a[k] = h[k]
  BY <1>1, ElementOfSeq DEF Prefix
<1>3. /\ SubSeq(a, 1, n) \in Seq(Receipts) /\ SubSeq(h, 1, n) \in Seq(Receipts)
      /\ Len(SubSeq(a, 1, n)) = n /\ Len(SubSeq(h, 1, n)) = n
      /\ \A k \in 1..n : SubSeq(a, 1, n)[k] = a[k] /\ SubSeq(h, 1, n)[k] = h[k]
  BY <1>1, <1>2, SubSeqProperties
<1> QED BY <1>2, <1>3, SeqEqual

LEMMA Growing ==
    ASSUME NEW h \in Seq(Receipts), NEW x \in Receipts
    PROVE  /\ Prefix(h, Append(h, x)) /\ Append(h, x) \in Seq(Receipts)
           /\ Len(Append(h, x)) = Len(h) + 1
           /\ \A a \in Seq(Receipts) : Prefix(a, h) => Prefix(a, Append(h, x))
BY AppendProperties DEF Prefix

LEMMA OneMore ==
    ASSUME NEW h \in Seq(Receipts), NEW n \in Nat, n + 1 <= Len(h)
    PROVE  ItemIds(SubSeq(h, 1, n + 1)) = Append(ItemIds(SubSeq(h, 1, n)), h[n + 1].item)
<1>1. Len(h) \in Nat /\ \A k \in 1..(n + 1) : h[k] \in Receipts
  BY ElementOfSeq
<1>2. /\ SubSeq(h, 1, n) \in Seq(Receipts) /\ Len(SubSeq(h, 1, n)) = n
      /\ \A k \in 1..n : SubSeq(h, 1, n)[k] = h[k]
  BY <1>1, SubSeqProperties
<1>3. /\ SubSeq(h, 1, n + 1) \in Seq(Receipts) /\ Len(SubSeq(h, 1, n + 1)) = n + 1
      /\ \A k \in 1..(n + 1) : SubSeq(h, 1, n + 1)[k] = h[k]
  BY <1>1, SubSeqProperties
<1> DEFINE ids  == [k \in 1..n |-> h[k].item]
           more == [k \in 1..(n + 1) |-> h[k].item]
<1>4. ids \in Seq(Items) /\ Len(ids) = n /\ more \in Seq(Items) /\ Len(more) = n + 1
  BY <1>1, Constants
<1>5. ItemIds(SubSeq(h, 1, n)) = ids /\ ItemIds(SubSeq(h, 1, n + 1)) = more
  BY <1>2, <1>3 DEF ItemIds
<1>6. h[n + 1].item \in Items
  BY <1>1, Constants
<1>7. /\ Append(ids, h[n + 1].item) \in Seq(Items) /\ Len(Append(ids, h[n + 1].item)) = n + 1
      /\ \A k \in 1..n : Append(ids, h[n + 1].item)[k] = ids[k]
      /\ Append(ids, h[n + 1].item)[n + 1] = h[n + 1].item
  BY <1>4, <1>6, AppendProperties
<1>8. \A k \in 1..(n + 1) : more[k] = Append(ids, h[n + 1].item)[k]
  BY <1>7
<1>9. more = Append(ids, h[n + 1].item)
  BY <1>4, <1>7, <1>8, SeqEqual
<1> QED BY <1>5, <1>9

LEMMA NothingYet ==
    ASSUME NEW h \in Seq(Receipts)
    PROVE  ItemIds(SubSeq(h, 1, 0)) = <<>>
<1>1. SubSeq(h, 1, 0) = <<>>
  BY SubSeqEmpty
<1> QED BY <1>1 DEF ItemIds

LEMMA Counting ==
    ASSUME NEW h, NEW n \in Nat, NEW x
    PROVE  /\ Count(h, n, x) \in Nat
           /\ Count(h, n + 1, x) = Count(h, n, x) + (IF h[n + 1] = x THEN 1 ELSE 0)
<1> DEFINE S(m) == {j \in 1..m : h[j] = x}
<1>1. IsFiniteSet(S(n)) /\ Cardinality(S(n)) \in Nat
  <2>1. IsFiniteSet(1..n)
    BY FS_Interval
  <2>2. S(n) \in SUBSET (1..n)
    OBVIOUS
  <2> QED BY <2>1, <2>2, FS_Subset, FS_CardinalityType
<1>2. CASE h[n + 1] = x
  <2>1. S(n + 1) = S(n) \union {n + 1} /\ n + 1 \notin S(n)
    BY <1>2
  <2> QED BY <1>1, <1>2, <2>1, FS_AddElement DEF Count
<1>3. CASE h[n + 1] # x
  <2>1. S(n + 1) = S(n)
    BY <1>3
  <2> QED BY <1>1, <1>3, <2>1 DEF Count
<1> QED BY <1>2, <1>3

\* Whoever is at a place after n is counted there, and not among the first n.
LEMMA CountedLater ==
    ASSUME NEW h, NEW n \in Nat, NEW i \in Nat, i > n
    PROVE  Count(h, i, h[i]) > Count(h, n, h[i])
<1> DEFINE S(m) == {j \in 1..m : h[j] = h[i]}
<1>1. IsFiniteSet(S(n)) /\ IsFiniteSet(S(i))
  <2>1. IsFiniteSet(1..n) /\ IsFiniteSet(1..i)
    BY FS_Interval
  <2>2. S(n) \in SUBSET (1..n) /\ S(i) \in SUBSET (1..i)
    OBVIOUS
  <2> QED BY <2>1, <2>2, FS_Subset
<1>2. S(n) \in SUBSET S(i) /\ i \in S(i) /\ i \notin S(n)
  OBVIOUS
<1>3. /\ Cardinality(S(n)) \in Nat /\ Cardinality(S(i)) \in Nat
      /\ Cardinality(S(n)) <= Cardinality(S(i)) /\ Cardinality(S(n)) # Cardinality(S(i))
  BY <1>1, <1>2, FS_Subset, FS_CardinalityType
<1> QED BY <1>3 DEF Count

LEMMA SameCount ==
    ASSUME NEW a, NEW h, Prefix(a, h), NEW n \in Nat, n <= Len(a), Len(a) \in Nat, NEW x
    PROVE  Count(a, n, x) = Count(h, n, x)
<1>1. {j \in 1..n : a[j] = x} = {j \in 1..n : h[j] = x}
  BY DEF Prefix
<1> QED BY <1>1 DEF Count

-----------------------------------------------------------------------------
(* The steps of the task *)

\* What happens around the delivery task.
Environment == \/ Start \/ Crash \/ Disconnect \/ Packet
               \/ \E r \in Rooms : \/ Connect(r)
                                   \/ \E x \in Receipts : ServerSend(r, x)
                                   \/ \E n \in 0..MaxLen : ServerRollback(r, n)

\* Its steps that neither publish nor write.
Moves == \/ NextReceipt \/ EndRun \/ Resume \/ Defer \/ GiveWay \/ Hold \/ Refuse
         \/ FlushStarts \/ FlushIsPutOff \/ FlushNext \/ FlushEnds \/ Yield \/ Settle

\* Those that write the ledger.
Writes == Record \/ Complete \/ Acknowledge \/ Forget

LEMMA StepsOfTheTask == Delivery <=> Begin \/ BeginFails \/ WriteFails \/ Moves \/ Publish \/ Writes
BY Zenon DEF Delivery, Moves, Writes

LEMMA BlockEndsRun ==
    ASSUME BeginFails \/ WriteFails
    PROVE  /\ Block /\ pc' = "none" /\ ~ready' /\ broken'
           /\ UNCHANGED <<server, saved, alive, conn, key, full, items, mem, sent, left>>
<1>1. Block
  BY DEF BeginFails, WriteFails
<1> QED BY <1>1 DEF Block, NoTask

\* Where a run is when it leaves its loop or a flush.
LEMMA Leaving ==
    ASSUME LeaveLoop \/ AfterFlush \/ NoTask, way \in Ways
    PROVE  /\ pc' \in {"none", "ready", "settle"} /\ at' = 0 /\ receipt' = NoReceipt
           /\ way' \in Ways /\ dups' \in {dups, {}} /\ (pc' # "none" => dups' = dups)
           /\ pc' = "ready" => way' = "last"
BY DEF LeaveLoop, AfterFlush, NoTask, Ways

\* Every move is one of these.
LEMMA Moving ==
    ASSUME TypeOK, Moves
    PROVE  /\ UNCHANGED <<server, saved, alive, link, broken, mem, stale, sent, left>>
           /\ used'["start"] = used["start"] /\ used'["rollback"] = used["rollback"]
           /\ used' \in [Bounded -> Nat]
           /\ pc \notin {"none", "record", "acknowledge", "forget"}
           /\ dups' \in {dups, {}} /\ (pc' # "none" => dups' = dups)
           /\ \/ NextReceipt \/ Resume \/ Defer \/ FlushNext \/ FlushStarts
              \/ /\ pc' \in {"none", "ready", "settle"} /\ at' = 0 /\ receipt' = NoReceipt
                 /\ way' \in Ways /\ (pc' = "ready" => way' = "last")
              \/ pc' = "next" /\ (stale # "rebind") /\ UNCHANGED <<at, receipt, way>>
<1>0. way \in Ways /\ used \in [Bounded -> Nat]
  BY DEF TypeOK
<1>1. CASE NextReceipt \/ Resume \/ Defer \/ FlushNext \/ FlushStarts
  BY <1>0, <1>1 DEF NextReceipt, Resume, Defer, FlushNext, FlushStarts
<1>2. CASE EndRun \/ GiveWay \/ FlushIsPutOff \/ FlushEnds
  BY <1>0, <1>2, Leaving DEF EndRun, GiveWay, FlushIsPutOff, FlushEnds
<1>3. CASE Hold \/ Refuse
  <2>1. LeaveLoop \/ AfterFlush
    BY <1>3 DEF Hold, Refuse
  <2>2. /\ used' \in [Bounded -> Nat]
        /\ used'["start"] = used["start"] /\ used'["rollback"] = used["rollback"]
    BY <1>0, <1>3 DEF Hold, Refuse, Spend, Bounded
  <2> QED BY <1>0, <1>3, <2>1, <2>2, Leaving DEF Hold, Refuse
<1>4. CASE Yield \/ Settle
  BY <1>0, <1>4, Leaving DEF Yield, Settle
<1> QED BY <1>1, <1>2, <1>3, <1>4 DEF Moves

-----------------------------------------------------------------------------
(* The receipt in hand, and how far it is *)

LEMMA InHand ==
    ASSUME TypeOK, SessionIsSaved, Running, Handling
    PROVE  /\ ready /\ ~broken /\ alive /\ key \in Rooms /\ conn = key /\ mem = saved[key]
           /\ mem \in Ledgers /\ mem.next \in Nat /\ stale = "no"
           /\ at \in 1..MaxLen /\ at <= Len(items) /\ at <= Len(server[key])
           /\ receipt = items[at] /\ receipt = server[key][at] /\ receipt \in Receipts
           /\ ~Flushing => at = mem.next + 1
           /\ Flushing => at <= mem.next /\ <<at, receipt.item>> \in mem.frags
<1>1. /\ ready /\ ~broken /\ alive /\ key \in Rooms /\ conn = key /\ mem = saved[key]
      /\ stale = "no" /\ at \in 1..Len(items) /\ receipt = items[at] /\ Prefix(items, server[key])
      /\ ~Flushing => at = mem.next + 1
      /\ Flushing => at <= mem.next /\ <<at, receipt.item>> \in mem.frags
  BY DEF TypeOK, SessionIsSaved, Running, Handling
<1>2. mem \in Ledgers /\ mem.next \in Nat /\ at \in Nat /\ receipt \in Receipts
  BY DEF TypeOK, Ledgers
<1>3. Len(items) \in Nat /\ Len(server[key]) \in Nat /\ Len(server[key]) <= MaxLen
  BY <1>1, LenProperties DEF TypeOK
<1>4. at <= Len(server[key]) /\ items[at] = server[key][at]
  BY <1>1, <1>2, <1>3 DEF Prefix
<1> QED BY <1>1, <1>2, <1>3, <1>4, BoundsAssumption

LEMMA Progress ==
    ASSUME TypeOK, at \in 1..MaxLen
    PROVE  /\ Done \in Nat /\ Due \in Int /\ Due <= MaxCommands + 1
           /\ way = "notify" => /\ Due = 1 /\ Ordinal = 0 /\ ~Flushing
                                /\ Done = (IF at \in mem.notified THEN 1 ELSE 0)
           /\ way # "notify" => /\ Done = mem.groups[at].done /\ Ordinal = Done + 1
                                /\ Due <= Commands[receipt.item] /\ Due <= MaxCommands
           /\ way = "group" => Due = Commands[receipt.item]
           /\ Flushing => Due = Commands[receipt.item] - 1 /\ way # "notify"
           /\ ~Flushing /\ way # "notify" => way = "group"
           /\ Done < Due => Ordinal \in 0..MaxCommands
<1>1. /\ receipt.item \in Items /\ Commands[receipt.item] \in Nat
      /\ Commands[receipt.item] <= MaxCommands /\ MaxCommands \in Nat
  BY Constants DEF TypeOK
<1>2. mem.groups[at].done \in Nat /\ way \in Ways
  BY DEF TypeOK, Ledgers
<1> QED BY <1>1, <1>2, SMTT(30) DEF Done, Due, Ordinal, Flushing, Ways

LEMMA SentCounts ==
    ASSUME TypeOK, NEW r \in Rooms, NEW i \in 1..MaxLen, NEW k \in 0..MaxCommands
    PROVE  sent[r][i][k] \in Nat
<1>1. sent[r] \in [1..MaxLen -> [0..MaxCommands -> Nat]]
  BY DEF TypeOK
<1>2. sent[r][i] \in [0..MaxCommands -> Nat]
  BY <1>1
<1> QED BY <1>2

-----------------------------------------------------------------------------
(* Types *)

LEMMA NoTaskTypes ==
    ASSUME NoTask
    PROVE  /\ pc' \in Pcs /\ at' \in 0..MaxLen /\ receipt' \in Receipts /\ way' \in Ways
           /\ dups' \subseteq 1..MaxLen
BY Constants, BoundsAssumption DEF NoTask, Pcs, Ways

LEMMA BlockTypes ==
    ASSUME TypeOK, Block
    PROVE  TypeOK'
<1>1. NoTask
  BY DEF Block
<1>2. used' \in [Bounded -> Nat]
  BY DEF Block, Spend, Bounded, TypeOK
<1>3. stale' = "no" /\ broken' = TRUE /\ ready' = FALSE /\ authority' = FALSE
  BY DEF Block
<1>4. UNCHANGED <<server, saved, alive, conn, key, full, items, mem, sent, left>>
  BY DEF Block
<1> QED BY <1>1, <1>2, <1>3, <1>4, NoTaskTypes DEF TypeOK

LEMMA EnvironmentKeepsTypes ==
    ASSUME TypeOK, Environment
    PROVE  TypeOK'
<1> USE DEF TypeOK, Bounded, Spend, LoseConnection
<1>1. CASE Start
  BY <1>1 DEF Start
<1>2. CASE Crash
  BY <1>2, NoTaskTypes, EmptyLedger, EmptySeq DEF Crash
<1>3. CASE Disconnect
  BY <1>3, EmptySeq DEF Disconnect
<1>4. CASE Packet
  BY <1>4 DEF Packet
<1>5. ASSUME NEW r \in Rooms, Connect(r) PROVE TypeOK'
  <2>1. items' \in Seq(Receipts) /\ mem' \in Ledgers
    BY <1>5, EmptySeq DEF Connect
  <2>2. used' \in [Bounded -> Nat]
    BY <1>5 DEF Connect
  <2> QED BY <1>5, <2>1, <2>2 DEF Connect
<1>6. ASSUME NEW r \in Rooms, NEW x \in Receipts, ServerSend(r, x) PROVE TypeOK'
  <2>1. Append(server[r], x) \in Seq(Receipts) /\ Len(Append(server[r], x)) <= MaxLen
    BY <1>6, AppendProperties, BoundsAssumption DEF ServerSend
  <2> QED BY <1>6, <2>1 DEF ServerSend
<1>7. ASSUME NEW r \in Rooms, NEW n \in 0..MaxLen, ServerRollback(r, n) PROVE TypeOK'
  <2>1. Len(server[r]) \in Nat /\ n < Len(server[r]) /\ n \in Int
    BY <1>7, LenProperties DEF ServerRollback
  <2>2. \A k \in 1..n : server[r][k] \in Receipts
    BY <2>1, ElementOfSeq
  <2>3. SubSeq(server[r], 1, n) \in Seq(Receipts) /\ Len(SubSeq(server[r], 1, n)) <= MaxLen
    BY <2>1, <2>2, SubSeqProperties
  <2>4. items' \in Seq(Receipts)
    BY <1>7, EmptySeq DEF ServerRollback
  <2>5. server' \in [Rooms -> Seq(Receipts)] /\ \A q \in Rooms : Len(server'[q]) <= MaxLen
    BY <1>7, <2>3 DEF ServerRollback
  <2>6. used' \in [Bounded -> Nat]
    BY <1>7 DEF ServerRollback
  <2>7. /\ conn' \in Rooms \union {NoRoom} /\ authority' \in BOOLEAN
        /\ stale' \in {"no", "work", "rebind"}
    BY <1>7 DEF ServerRollback
  <2>8. UNCHANGED <<saved, alive, key, ready, full, broken, mem, task, sent, left>>
    BY <1>7 DEF ServerRollback
  <2> QED BY <2>4, <2>5, <2>6, <2>7, <2>8
<1> HIDE DEF TypeOK
<1> QED BY <1>1, <1>2, <1>3, <1>4, <1>5, <1>6, <1>7 DEF Environment

\* The ledgers the task writes.
LEMMA Writing ==
    ASSUME TypeOK, SessionIsSaved, Running, Handling
    PROVE  /\ [mem EXCEPT !.notified = @ \union {at}] \in Ledgers
           /\ [mem EXCEPT !.groups[at] = NoGroup] \in Ledgers
           /\ [mem EXCEPT !.groups[at] = [item |-> receipt.item, done |-> Done + 1]] \in Ledgers
           /\ [mem EXCEPT !.frags = {f \in @ : f[1] # at}] \in Ledgers
           /\ at = mem.next + 1 =>
                 /\ [mem EXCEPT !.next = @ + 1] \in Ledgers
                 /\ [mem EXCEPT !.next = @ + 1, !.ids = Append(@, receipt.item),
                                !.counts[receipt] = @ + 1, !.frags = Remembered] \in Ledgers
<1>1. mem \in Ledgers /\ at \in 1..MaxLen /\ receipt.item \in Items /\ receipt \in Receipts
  BY InHand, Constants
<1>2. NoGroup \in [item : Items, done : Nat]
  BY ItemsAssumption DEF NoGroup
<1>3. [item |-> receipt.item, done |-> Done + 1] \in [item : Items, done : Nat]
  BY <1>1, Progress
<1>4. \A g \in [item : Items, done : Nat] : [mem EXCEPT !.groups[at] = g] \in Ledgers
  BY <1>1 DEF Ledgers
<1>5. [mem EXCEPT !.notified = @ \union {at}] \in Ledgers
  BY <1>1 DEF Ledgers
<1>6. [mem EXCEPT !.frags = {f \in @ : f[1] # at}] \in Ledgers
  BY <1>1 DEF Ledgers
<1>7. ASSUME at = mem.next + 1
      PROVE  /\ [mem EXCEPT !.next = @ + 1] \in Ledgers
             /\ [mem EXCEPT !.next = @ + 1, !.ids = Append(@, receipt.item),
                            !.counts[receipt] = @ + 1, !.frags = Remembered] \in Ledgers
  <2>1. mem.next + 1 \in 0..MaxLen
    BY <1>1, <1>7, BoundsAssumption DEF Ledgers
  <2>2. Append(mem.ids, receipt.item) \in Seq(Items)
    BY <1>1, AppendProperties DEF Ledgers
  <2>3. [mem.counts EXCEPT ![receipt] = @ + 1] \in [Receipts -> Nat]
    BY <1>1 DEF Ledgers
  <2>4. Remembered \in SUBSET ((1..MaxLen) \X Items)
    BY <1>1 DEF Remembered, Ledgers
  <2>5. [mem EXCEPT !.next = @ + 1] \in Ledgers
    BY <1>1, <2>1 DEF Ledgers
  <2> DEFINE n == mem.next + 1
             s == Append(mem.ids, receipt.item)
             c == [mem.counts EXCEPT ![receipt] = @ + 1]
             f == Remembered
  <2>6. [mem EXCEPT !.next = @ + 1, !.ids = Append(@, receipt.item),
                    !.counts[receipt] = @ + 1, !.frags = Remembered]
        = [mem EXCEPT !.next = n, !.ids = s, !.counts = c, !.frags = f]
    BY <1>1 DEF Ledgers
  <2>7. n \in 0..MaxLen /\ s \in Seq(Items) /\ c \in [Receipts -> Nat]
        /\ f \in SUBSET ((1..MaxLen) \X Items)
    BY <2>1, <2>2, <2>3, <2>4
  <2> HIDE DEF n, s, c, f
  <2>8. [mem EXCEPT !.next = n, !.ids = s, !.counts = c, !.frags = f] \in Ledgers
    BY <1>1, <2>7 DEF Ledgers
  <2> QED BY <2>5, <2>6, <2>8
<1> QED BY <1>2, <1>3, <1>4, <1>5, <1>6, <1>7

\* A publication is one more at one place.
LEMMA Publishing ==
    ASSUME TypeOK, SessionIsSaved, Running, Publish
    PROVE  /\ key \in Rooms /\ at \in 1..MaxLen /\ Ordinal \in 0..MaxCommands /\ Done < Due
           /\ sent' \in [Rooms -> [1..MaxLen -> [0..MaxCommands -> Nat]]]
           /\ \A r \in Rooms : \A i \in 1..MaxLen : \A k \in 0..MaxCommands :
                 sent'[r][i][k] = IF r = key /\ i = at /\ k = Ordinal THEN sent[r][i][k] + 1
                                                                       ELSE sent[r][i][k]
<1>1. key \in Rooms /\ at \in 1..MaxLen
  BY InHand DEF Publish, Handling
<1>2. Done < Due /\ sent' = [sent EXCEPT ![key][at][Ordinal] = @ + 1]
  BY DEF Publish
<1>3. Ordinal \in 0..MaxCommands
  BY <1>1, <1>2, Progress
<1>4. sent \in [Rooms -> [1..MaxLen -> [0..MaxCommands -> Nat]]]
  BY DEF TypeOK
<1> DEFINE d     == Ordinal
           place == [sent[key][at] EXCEPT ![d] = @ + 1]
           room  == [sent[key] EXCEPT ![at] = place]
<1>5. sent[key] \in [1..MaxLen -> [0..MaxCommands -> Nat]] /\ sent[key][at][d] + 1 \in Nat
  BY <1>1, <1>3, <1>4, SentCounts
<1>6. d \in 0..MaxCommands /\ sent' = [sent EXCEPT ![key][at][d] = @ + 1]
  BY <1>2, <1>3
<1> HIDE DEF d
<1>7. sent' \in [Rooms -> [1..MaxLen -> [0..MaxCommands -> Nat]]]
  <2>1. sent[key][at] \in [0..MaxCommands -> Nat]
    BY <1>1, <1>5
  <2>2. place \in [0..MaxCommands -> Nat]
    BY <1>5, <2>1
  <2>3. sent' = [sent EXCEPT ![key] = room]
    BY <1>6
  <2> HIDE DEF place
  <2>4. room \in [1..MaxLen -> [0..MaxCommands -> Nat]]
    BY <1>5, <2>2
  <2> HIDE DEF room
  <2> QED BY <1>4, <2>3, <2>4
<1>8. \A r \in Rooms : \A i \in 1..MaxLen : \A k \in 0..MaxCommands :
         sent'[r][i][k] = IF r = key /\ i = at /\ k = d THEN sent[r][i][k] + 1
                                                         ELSE sent[r][i][k]
  BY <1>1, <1>4, <1>6
<1> QED BY <1>1, <1>2, <1>3, <1>7, <1>8 DEF d

\* A run begins in a session of the room the bridge is connected to.
LEMMA Beginning ==
    ASSUME TypeOK, SessionIsSaved, FragsAreBehind, Begin
    PROVE  /\ key \in Rooms /\ conn = key /\ ready /\ ~broken /\ mem = saved[key]
           /\ mem.next \in Nat /\ mem.next <= Len(items) /\ Prefix(items, server[key])
           /\ Len(items) \in Nat /\ Len(items) <= MaxLen /\ Compatible(mem, items)
           /\ pc = "none" /\ pc' \in {"next", "ready", "settle"} /\ way' \in Ways
           /\ pc' = "ready" => way' = "first"
           /\ UNCHANGED <<server, alive, link, broken, saved, mem, at, receipt, sent, left, used>>
<1>1. /\ pc = "none" /\ ready /\ HasWork /\ Compatible(mem, items)
      /\ saved' = [saved EXCEPT ![key] = mem]
      /\ UNCHANGED <<server, alive, link, broken, mem, at, receipt, sent, left, used>>
  BY DEF Begin
<1>2. key \in Rooms /\ mem = saved[key] /\ ~broken
  BY <1>1 DEF SessionIsSaved, TypeOK
<1>3. saved' = saved
  BY <1>1, <1>2 DEF TypeOK
<1>4. Len(items) \in Nat /\ mem.next \in Nat /\ mem.next <= Len(items)
  BY <1>1, LenProperties DEF TypeOK, Ledgers, Compatible
<1>5. Len(items) # 0
  <2>1. ASSUME NEW f \in mem.frags PROVE mem.next > 0
    <3>1. f[1] \in 1..MaxLen /\ f[1] <= mem.next
      BY <1>2 DEF TypeOK, Ledgers, FragsAreBehind
    <3> QED BY <1>4, <3>1, BoundsAssumption
  <2> QED BY <1>1, <1>4, <2>1 DEF HasWork
<1>6. conn \in Rooms /\ conn = key /\ Prefix(items, server[key])
  <2>1. items # <<>>
    BY <1>5, EmptySeq
  <2> QED BY <1>1, <2>1 DEF SessionIsSaved, TypeOK
<1>7. Len(items) <= MaxLen
  <2>1. Len(server[key]) \in Nat /\ Len(server[key]) <= MaxLen
    BY <1>2, LenProperties DEF TypeOK
  <2> QED BY <1>4, <1>6, <2>1, BoundsAssumption DEF Prefix
<1>8. /\ pc' \in {"next", "ready", "settle"} /\ way' \in Ways
      /\ pc' = "ready" => way' = "first"
  BY DEF Begin, TypeOK, Ways
<1> QED BY <1>1, <1>2, <1>3, <1>4, <1>6, <1>7, <1>8

\* The receipt behind the cursor is read in a run that nothing has disturbed.
LEMMA Reading ==
    ASSUME TypeOK, SessionIsSaved, Running, NextReceipt
    PROVE  /\ pc = "next" /\ stale = "no" /\ ready /\ conn # NoRoom /\ key \in Rooms /\ conn = key
           /\ at' = mem.next + 1 /\ at' \in 1..Len(items) /\ at' \in 1..MaxLen
           /\ receipt' = items[at'] /\ receipt' \in Receipts /\ way' = "group"
           /\ pc' \in {"acknowledge", "await"} /\ mem.next < Len(items)
           /\ receipt' = server[key][at'] /\ at' <= Len(server[key])
           /\ pc' = "acknowledge" /\ at' \notin dups' => Commands[receipt'.item] = 0
<1>1. /\ pc = "next" /\ mem.next < Len(items) /\ at' = mem.next + 1 /\ receipt' = items[at']
      /\ way' = "group" /\ pc' \in {"acknowledge", "await"}
      /\ pc' = "acknowledge" /\ at' \notin dups' => Commands[receipt'.item] = 0
  BY DEF NextReceipt
<1>2. Len(items) \in Nat /\ mem.next \in Nat
  BY LenProperties DEF TypeOK, Ledgers
<1>3. at' \in 1..Len(items) /\ receipt' \in Receipts
  BY <1>1, <1>2, ElementOfSeq DEF TypeOK
<1>4. conn \in Rooms
  <2>1. items # <<>>
    BY <1>1, <1>2, EmptySeq
  <2> QED BY <2>1 DEF SessionIsSaved, TypeOK
<1>5. stale = "no" /\ ready
  BY <1>1, <1>4, RoomsAssumption DEF Running, TypeOK
<1>6. conn # NoRoom /\ key \in Rooms /\ conn = key /\ Prefix(items, server[key])
  BY <1>4, <1>5, RoomsAssumption DEF SessionIsSaved
<1>7. Len(server[key]) \in Nat /\ Len(server[key]) <= MaxLen
  BY <1>6, LenProperties DEF TypeOK
<1> QED BY <1>1, <1>2, <1>3, <1>5, <1>6, <1>7, BoundsAssumption DEF Prefix

LEMMA MovesKeepTypes ==
    ASSUME TypeOK, SessionIsSaved, Running, Moves
    PROVE  TypeOK'
<1>1. pc' \in Pcs /\ at' \in 0..MaxLen /\ receipt' \in Receipts /\ way' \in Ways
  <2>0. at \in 0..MaxLen /\ receipt \in Receipts /\ way \in Ways
    BY DEF TypeOK
  <2>1. CASE NextReceipt
    BY <2>1, Reading, BoundsAssumption DEF Pcs, Ways
  <2>2. CASE Resume \/ Defer \/ FlushStarts
    BY <2>0, <2>2 DEF Resume, Defer, FlushStarts, Pcs, Ways
  <2>3. CASE FlushNext
    <3>1. PICK f \in mem.frags : Eligible(f) /\ at' = f[1] /\ receipt' = items[f[1]]
      BY <2>3 DEF FlushNext
    <3>2. f[1] \in 1..MaxLen /\ f[1] \in 1..Len(items)
      BY <3>1, LenProperties, BoundsAssumption DEF Eligible, TypeOK, Ledgers
    <3>3. receipt' \in Receipts
      BY <3>1, <3>2, ElementOfSeq DEF TypeOK
    <3> QED BY <2>0, <2>3, <3>1, <3>2, <3>3, BoundsAssumption DEF FlushNext, Pcs
  <2>4. CASE pc' \in {"none", "ready", "settle"} /\ at' = 0 /\ receipt' = NoReceipt /\ way' \in Ways
    BY <2>4, Constants, BoundsAssumption DEF Pcs
  <2>5. CASE pc' = "next" /\ UNCHANGED <<at, receipt, way>>
    BY <2>0, <2>5 DEF Pcs
  <2> QED BY <2>1, <2>2, <2>3, <2>4, <2>5, Moving
<1>2. dups' \subseteq 1..MaxLen
  BY Moving DEF TypeOK
<1> QED BY <1>1, <1>2, Moving DEF TypeOK

LEMMA WritesHandle ==
    ASSUME Writes
    PROVE  /\ Handling /\ pc' \in Pcs
           /\ UNCHANGED <<server, alive, link, broken, at, receipt, way, dups, stale, sent, used>>
<1>1. CASE Record
  BY <1>1 DEF Record, Handling, Pcs
<1>2. CASE Complete
  BY <1>2 DEF Complete, Completing, Handling, Pcs
<1>3. CASE Acknowledge
  BY <1>3 DEF Acknowledge, Handling, Pcs
<1>4. CASE Forget
  BY <1>4 DEF Forget, Handling, Pcs
<1> QED BY <1>1, <1>2, <1>3, <1>4 DEF Writes

LEMMA WritesKeepTypes ==
    ASSUME TypeOK, SessionIsSaved, Running, Writes
    PROVE  TypeOK'
<1>1. key \in Rooms /\ at \in 1..MaxLen /\ saved \in [Rooms -> Ledgers] /\ mem \in Ledgers
  BY InHand, WritesHandle DEF TypeOK
<1>2. mem' \in Ledgers /\ saved' \in [Rooms -> Ledgers]
  <2>1. CASE Record
    <3>1. \E l \in Ledgers : Persist(l)
      BY <2>1, WritesHandle, Writing DEF Record, Writes
    <3> QED BY <1>1, <3>1 DEF Persist
  <2>2. CASE Complete
    <3>1. (UNCHANGED <<mem, saved>>) \/ \E l \in Ledgers : Persist(l)
      BY <2>2, WritesHandle, Writing DEF Complete, Writes
    <3> QED BY <1>1, <3>1 DEF Persist
  <2>3. CASE Acknowledge
    <3>1. at = mem.next + 1
      BY <2>3, WritesHandle, InHand DEF Running, Acknowledge
    <3>2. \E l \in Ledgers : Persist(l)
      BY <2>3, <3>1, WritesHandle, Writing DEF Acknowledge, Writes
    <3> QED BY <1>1, <3>2 DEF Persist
  <2>4. CASE Forget
    <3>1. \E l \in Ledgers : Persist(l)
      BY <2>4, WritesHandle, Writing DEF Forget, Writes
    <3> QED BY <1>1, <3>1 DEF Persist
  <2> QED BY <2>1, <2>2, <2>3, <2>4 DEF Writes
<1>3. left' \in [Rooms -> SUBSET (1..MaxLen)]
  <2>1. CASE Acknowledge
    BY <1>1, <2>1 DEF Acknowledge, TypeOK
  <2>2. CASE ~Acknowledge
    BY <2>2 DEF Writes, Record, Complete, Forget, TypeOK
  <2> QED BY <2>1, <2>2
<1> QED BY <1>2, <1>3, WritesHandle DEF TypeOK

LEMMA DeliveryKeepsTypes ==
    ASSUME TypeOK, SessionIsSaved, FragsAreBehind, Running, Delivery
    PROVE  TypeOK'
<1>1. CASE Begin
  <2>1. dups' \subseteq 1..MaxLen
    <3>1. \A i \in 1..Len(items) : i \in 1..MaxLen
      BY <1>1, Beginning, BoundsAssumption
    <3> QED BY <1>1, <3>1 DEF Begin
  <2>2. stale' = "no" /\ pc' \in Pcs
    BY <1>1, Beginning DEF Begin, Pcs
  <2> QED BY <1>1, <2>1, <2>2, Beginning DEF TypeOK
<1>2. CASE BeginFails \/ WriteFails
  BY <1>2, BlockEndsRun, BlockTypes
<1>3. CASE Publish
  <2>1. pc' \in Pcs /\ UNCHANGED <<server, saved, alive, link, broken, mem, at, receipt, way, dups,
                                   stale, left, used>>
    BY <1>3 DEF Publish, Pcs
  <2> QED BY <1>3, <2>1, Publishing DEF TypeOK
<1> QED BY <1>1, <1>2, <1>3, StepsOfTheTask, MovesKeepTypes, WritesKeepTypes

-----------------------------------------------------------------------------
(* The session *)

LEMMA EnvironmentKeepsSession ==
    ASSUME TypeOK, SessionIsSaved, Running, Environment
    PROVE  SessionIsSaved'
<1> USE DEF SessionIsSaved, LoseConnection, Spend
<1>1. CASE Start
  BY <1>1 DEF Start, TypeOK, Bounded
<1>2. CASE Crash
  BY <1>2 DEF Crash, NoTask
<1>3. CASE Disconnect
  BY <1>3 DEF Disconnect
<1>4. CASE Packet
  BY <1>4 DEF Packet, Prefix, TypeOK
<1>5. ASSUME NEW r \in Rooms, Connect(r) PROVE SessionIsSaved'
  <2>1. Prefix(<<>>, server[r])
    BY EmptySeq, LenProperties DEF Prefix, TypeOK
  <2>2. alive /\ alive' = alive /\ conn' = r /\ items' = <<>> /\ UNCHANGED <<server, saved>>
    BY <1>5 DEF Connect
  <2>3. used'["start"] = used["start"] /\ r # NoRoom
    BY <1>5, RoomsAssumption DEF Connect, TypeOK, Bounded
  <2>4. ready' => key' = r /\ ~broken'
    BY <1>5 DEF Connect
  <2>5. key' # NoRoom => mem' = saved[key']
    BY <1>5 DEF Connect
  <2> QED BY <2>1, <2>2, <2>3, <2>4, <2>5
<1>6. ASSUME NEW r \in Rooms, NEW x \in Receipts, ServerSend(r, x) PROVE SessionIsSaved'
  <2>1. conn # NoRoom => Prefix(items, server'[conn])
    BY <1>6, Growing DEF ServerSend, TypeOK
  <2> QED BY <1>6, <2>1 DEF ServerSend
<1>7. ASSUME NEW r \in Rooms, NEW n \in 0..MaxLen, ServerRollback(r, n) PROVE SessionIsSaved'
  <2>1. conn' # NoRoom => Prefix(items', server'[conn'])
    BY <1>7 DEF ServerRollback, TypeOK
  <2>2. used'["start"] = used["start"]
    BY <1>7 DEF ServerRollback, TypeOK, Bounded
  <2> QED BY <1>7, <2>1, <2>2 DEF ServerRollback
<1> HIDE DEF SessionIsSaved
<1> QED BY <1>1, <1>2, <1>3, <1>4, <1>5, <1>6, <1>7 DEF Environment

\* What a write does to the ledger, which reaches the file of the session.
LEMMA Saving ==
    ASSUME TypeOK, SessionIsSaved, Running, Writes
    PROVE  /\ key \in Rooms /\ mem = saved[key] /\ mem' = saved'[key]
           /\ \A r \in Rooms : r # key => saved'[r] = saved[r]
<1>1. key \in Rooms /\ mem = saved[key] /\ key' = key
  BY InHand, WritesHandle
<1>2. (UNCHANGED <<mem, saved>>) \/ \E l : Persist(l)
  BY DEF Writes, Record, Complete, Acknowledge, Forget
<1> QED BY <1>1, <1>2 DEF TypeOK, Persist

LEMMA Recording ==
    ASSUME TypeOK, Record
    PROVE  /\ pc = "record" /\ pc' = "publish" /\ left' = left
           /\ UNCHANGED <<mem.next, mem.ids, mem.counts, mem.frags>>
           /\ way = "notify" => /\ mem'.groups = mem.groups
                                /\ mem'.notified = mem.notified \union {at}
           /\ way # "notify" => /\ mem'.groups = [mem.groups EXCEPT ![at] =
                                                    [item |-> receipt.item, done |-> Done + 1]]
                                /\ mem'.notified = mem.notified
<1>1. CASE way = "notify"
  BY <1>1 DEF Record, Persist, TypeOK, Ledgers
<1>2. CASE way # "notify"
  BY <1>2 DEF Record, Persist, TypeOK, Ledgers
<1> QED BY <1>1, <1>2

LEMMA Finishing ==
    ASSUME TypeOK, Complete
    PROVE  /\ pc = "publish" /\ Authorized /\ Done >= Due /\ left' = left
           /\ pc' = IF Flushing THEN "forget" ELSE "acknowledge"
           /\ UNCHANGED <<mem.next, mem.ids, mem.counts, mem.frags, mem.notified>>
           /\ mem'.groups = IF way = "notify" THEN mem.groups
                                              ELSE [mem.groups EXCEPT ![at] = NoGroup]
<1>1. CASE way = "notify"
  BY <1>1 DEF Complete, Completing
<1>2. CASE way # "notify"
  BY <1>2 DEF Complete, Completing, Persist, TypeOK, Ledgers
<1> QED BY <1>1, <1>2

LEMMA Acknowledging ==
    ASSUME TypeOK, Acknowledge
    PROVE  /\ pc = "acknowledge" /\ pc' \in {"next", "yield", "settle"}
           /\ mem'.next = mem.next + 1 /\ UNCHANGED <<mem.groups, mem.notified>>
           /\ at \in dups => UNCHANGED <<mem.ids, mem.counts, mem.frags>>
           /\ at \notin dups => /\ mem'.ids = Append(mem.ids, receipt.item)
                                /\ mem'.counts = [mem.counts EXCEPT ![receipt] = @ + 1]
                                /\ mem'.frags = Remembered
           /\ left' = IF Deferred /\ receipt.item \notin Frags
                         THEN [left EXCEPT ![key] = @ \union {at}] ELSE left
<1>1. pc = "acknowledge" /\ pc' \in {"next", "yield", "settle"}
  BY DEF Acknowledge
<1>2. left' = IF Deferred /\ receipt.item \notin Frags
                 THEN [left EXCEPT ![key] = @ \union {at}] ELSE left
  BY DEF Acknowledge
<1>3. CASE at \in dups
  BY <1>1, <1>2, <1>3 DEF Acknowledge, Persist, TypeOK, Ledgers
<1>4. CASE at \notin dups
  BY <1>1, <1>2, <1>4 DEF Acknowledge, Persist, TypeOK, Ledgers
<1> QED BY <1>3, <1>4

LEMMA Forgetting ==
    ASSUME TypeOK, Forget
    PROVE  /\ pc = "forget" /\ pc' = "flush" /\ left' = left
           /\ UNCHANGED <<mem.next, mem.ids, mem.counts, mem.groups, mem.notified>>
           /\ mem'.frags = {f \in mem.frags : f[1] # at}
BY DEF Forget, Persist, TypeOK, Ledgers

\* What every step of the task leaves alone.
LEMMA DeliveryKeepsLink ==
    ASSUME TypeOK, SessionIsSaved, FragsAreBehind, Running, Delivery
    PROVE  /\ UNCHANGED <<server, alive, conn, key, full, items>> /\ alive
           /\ (ready' = ready /\ broken' = broken) \/ (~ready' /\ broken' /\ pc' = "none")
           /\ used'["start"] = used["start"] /\ (NoRollback' <=> NoRollback)
           /\ ~Writes => UNCHANGED <<saved, mem, left>>
           /\ ~Publish => sent' = sent
           /\ ~Begin /\ pc' # "none" => UNCHANGED <<dups, stale>> /\ pc # "none"
<1>1. CASE Begin
  <2>1. ~Writes
    BY <1>1, WritesHandle DEF Begin, Handling
  <2> QED BY <1>1, <2>1, Beginning DEF NoRollback, SessionIsSaved
<1>2. CASE BeginFails \/ WriteFails
  <2>1. used'["start"] = used["start"] /\ used'["rollback"] = used["rollback"]
    BY <1>2, BlockEndsRun DEF Block, Spend, TypeOK, Bounded
  <2>2. alive
    BY <1>2 DEF SessionIsSaved, BeginFails, WriteFails, Completing
  <2> QED BY <1>2, <2>1, <2>2, BlockEndsRun DEF NoRollback
<1>3. CASE Moves
  BY <1>3, Moving DEF NoRollback, SessionIsSaved
<1>4. CASE Publish
  BY <1>4 DEF Publish, NoRollback, SessionIsSaved
<1>5. CASE Writes
  <2>1. ~Publish
    BY <1>5 DEF Publish, Writes, Record, Complete, Completing, Acknowledge, Forget
  <2> QED BY <1>5, <2>1, WritesHandle, InHand DEF NoRollback, Handling
<1> QED BY <1>1, <1>2, <1>3, <1>4, <1>5, StepsOfTheTask

LEMMA DeliveryKeepsSession ==
    ASSUME TypeOK, SessionIsSaved, FragsAreBehind, Running, Delivery
    PROVE  SessionIsSaved'
<1>1. key # NoRoom => mem' = saved'[key]
  BY DeliveryKeepsLink, Saving DEF SessionIsSaved
<1> QED BY <1>1, DeliveryKeepsLink DEF SessionIsSaved

-----------------------------------------------------------------------------
(* The run in it *)

LEMMA EnvironmentKeepsRunning ==
    ASSUME TypeOK, SessionIsSaved, Running, Environment
    PROVE  Running'
<1> USE DEF Running, LoseConnection, Interruptible, Handling
<1>1. CASE Start
  BY <1>1 DEF Start, SessionIsSaved
<1>2. CASE Crash
  BY <1>2 DEF Crash, NoTask
<1>3. CASE Disconnect
  BY <1>3 DEF Disconnect, Flushing
<1>4. CASE Packet
  <2>1. pc # "none" /\ stale = "no" => conn \in Rooms /\ Prefix(items, server[conn])
    BY DEF SessionIsSaved, TypeOK
  <2>2. mem.next \in Nat /\ Len(items) \in Nat
    BY LenProperties DEF TypeOK, Ledgers
  <2>3. pc # "none" /\ stale = "no" => Len(server[conn]) \in Nat
    BY <2>1, LenProperties DEF TypeOK
  <2> QED BY <1>4, <2>1, <2>2, <2>3 DEF Packet, Prefix, Flushing
<1>5. ASSUME NEW r \in Rooms, Connect(r) PROVE Running'
  <2>1. Interruptible /\ UNCHANGED <<pc, at, receipt, way, dups>>
    BY <1>5 DEF Connect
  <2>2. pc # "none" => stale' = "rebind"
    <3>1. CASE broken
      BY <1>5, <2>1, <3>1 DEF Connect, TypeOK
    <3>2. CASE ~broken
      BY <1>5, <3>2 DEF Connect
    <3> QED BY <3>1, <3>2
  <2> QED BY <2>1, <2>2 DEF Flushing
<1>6. ASSUME NEW r \in Rooms, NEW x \in Receipts, ServerSend(r, x) PROVE Running'
  BY <1>6 DEF ServerSend, Done, Due, Ordinal, Flushing
<1>7. ASSUME NEW r \in Rooms, NEW n \in 0..MaxLen, ServerRollback(r, n) PROVE Running'
  BY <1>7 DEF ServerRollback, TypeOK, Flushing
<1> HIDE DEF Running
<1> QED BY <1>1, <1>2, <1>3, <1>4, <1>5, <1>6, <1>7 DEF Environment

LEMMA MovesKeepRunning ==
    ASSUME TypeOK, SessionIsSaved, Running, Moves
    PROVE  Running'
<1>1. UNCHANGED <<link, broken, mem, stale, sent>> /\ pc # "none"
  BY Moving
<1> USE DEF Running, Handling
<1>2. CASE NextReceipt
  BY <1>1, <1>2, Reading DEF Flushing
<1>3. CASE Resume \/ Defer
  <2>1. /\ pc = "await" /\ stale = "no" /\ pc' = "publish" /\ way' \in {"group", "notify"}
        /\ UNCHANGED <<at, receipt>>
    BY <1>3 DEF Resume, Defer
  <2> QED BY <1>1, <2>1 DEF Flushing
<1>4. CASE FlushStarts
  BY <1>1, <1>4 DEF FlushStarts, Flushing
<1>5. CASE FlushNext
  <2>1. PICK f \in mem.frags : Eligible(f) /\ at' = f[1] /\ receipt' = items[f[1]]
    BY <1>5 DEF FlushNext
  <2>2. f \in (1..MaxLen) \X Items
    BY DEF TypeOK, Ledgers
  <2>3. f[1] \in 1..MaxLen /\ f = <<f[1], f[2]>>
    BY <2>2
  <2>4. /\ at' \in 1..Len(items) /\ at' <= mem.next /\ receipt' = items[at']
        /\ <<at', receipt'.item>> \in mem.frags
    <3>1. at' \in 1..Len(items) /\ at' <= mem.next /\ receipt' = items[at']
      BY <2>1, <2>3, LenProperties, BoundsAssumption DEF Eligible, TypeOK
    <3>2. f = <<at', receipt'.item>>
      BY <2>1, <2>3 DEF Eligible
    <3> QED BY <3>1, <3>2
  <2>5. pc = "flush" /\ pc' = "publish" /\ way' = way
    BY <1>5 DEF FlushNext
  <2> QED BY <1>1, <2>4, <2>5 DEF Flushing
<1>6. CASE pc' \in {"none", "ready", "settle"} /\ (pc' = "ready" => way' = "last")
  BY <1>1, <1>6 DEF Flushing
<1>7. CASE pc' = "next" /\ stale # "rebind" /\ UNCHANGED <<at, receipt, way>>
  BY <1>1, <1>7 DEF Flushing
<1> HIDE DEF Running
<1> QED BY <1>2, <1>3, <1>4, <1>5, <1>6, <1>7, Moving

LEMMA WritesKeepRunning ==
    ASSUME TypeOK, SessionIsSaved, Running, Writes
    PROVE  Running'
<1>1. /\ Handling /\ UNCHANGED <<link, broken, at, receipt, way, dups, stale, sent>>
  BY WritesHandle
<1>2. /\ stale = "no" /\ ready /\ conn # NoRoom /\ ~broken /\ at \in 1..Len(items)
      /\ receipt = items[at] /\ mem.next \in Nat /\ mem.next <= Len(items)
      /\ ~Flushing => at = mem.next + 1
      /\ Flushing => at <= mem.next /\ <<at, receipt.item>> \in mem.frags
  BY <1>1, InHand, RoomsAssumption DEF Running, Handling
<1>3. CASE Record
  <2>1. mem'.next = mem.next /\ mem'.frags = mem.frags /\ pc' = "publish"
    BY <1>3, Recording
  <2> QED BY <1>1, <1>2, <2>1 DEF Running, Handling, Flushing
<1>4. CASE Complete
  <2>1. /\ mem'.next = mem.next /\ mem'.frags = mem.frags
        /\ pc' = IF Flushing THEN "forget" ELSE "acknowledge"
    BY <1>4, Finishing
  <2> QED BY <1>1, <1>2, <2>1 DEF Running, Handling, Flushing
<1>5. CASE Acknowledge
  <2>1. mem'.next = mem.next + 1 /\ pc' \in {"next", "yield", "settle"} /\ pc = "acknowledge"
    BY <1>5, Acknowledging
  <2>2. mem'.next <= Len(items)
    BY <1>2, <2>1 DEF Running
  <2> QED BY <1>1, <1>2, <2>1, <2>2 DEF Running, Handling
<1>6. CASE Forget
  <2>1. mem'.next = mem.next /\ pc' = "flush" /\ pc = "forget"
    BY <1>6, Forgetting
  <2> QED BY <1>1, <1>2, <2>1 DEF Running, Handling, Flushing
<1> QED BY <1>3, <1>4, <1>5, <1>6 DEF Writes

LEMMA DeliveryKeepsRunning ==
    ASSUME TypeOK, SessionIsSaved, FragsAreBehind, Running, Delivery
    PROVE  Running'
<1>1. CASE Begin
  <2>1. stale' = "no"
    BY <1>1 DEF Begin
  <2> QED BY <1>1, <2>1, Beginning, RoomsAssumption DEF Running, Handling, Flushing
<1>2. CASE BeginFails \/ WriteFails
  BY <1>2, BlockEndsRun DEF Running, Handling
<1>3. CASE Publish
  <2>1. /\ pc = "publish" /\ pc' = "record"
        /\ UNCHANGED <<link, broken, mem, at, receipt, way, dups, stale>>
    BY <1>3 DEF Publish
  <2>2. Done' = Done /\ Due' = Due /\ Ordinal' = Ordinal /\ Done < Due
    BY <1>3, <2>1, Publishing DEF Done, Due, Ordinal
  <2>3. sent'[key][at][Ordinal] > 0
    <3>1. sent[key][at][Ordinal] \in Nat
      BY <1>3, Publishing, SentCounts
    <3>2. sent'[key][at][Ordinal] = sent[key][at][Ordinal] + 1
      BY <1>3, Publishing
    <3> QED BY <3>1, <3>2
  <2> QED BY <2>1, <2>2, <2>3 DEF Running, Handling, Flushing
<1> QED BY <1>1, <1>2, <1>3, StepsOfTheTask, MovesKeepRunning, WritesKeepRunning

-----------------------------------------------------------------------------
(* What happens around the task, and what a publication is *)

LEMMA PrefixIsReflexive ==
    ASSUME NEW h \in Seq(Receipts)
    PROVE  Prefix(h, h)
BY LenProperties DEF Prefix

\* The environment touches no ledger and publishes nothing; a run that goes on undisturbed
\* sees its receipts extended; and until a rollback histories only grow.
AroundTheTask ==
    /\ UNCHANGED <<saved, sent, left>>
    /\ pc' # "none" => UNCHANGED <<pc, at, receipt, way, dups>>
    /\ pc' # "none" /\ stale' = "no" =>
          stale = "no" /\ UNCHANGED <<mem, key>> /\ Prefix(items, items')
    /\ pc' # "none" /\ Handling => UNCHANGED <<mem, key>>
    /\ NoRollback' => NoRollback /\ \A r \in Rooms : Prefix(server[r], server'[r])

LEMMA Around ==
    ASSUME TypeOK, SessionIsSaved, Running, Environment
    PROVE  AroundTheTask
<1> USE PrefixIsReflexive
        DEF AroundTheTask, LoseConnection, Interruptible, Spend, NoRollback, Handling
<1>0. \A r \in Rooms : server[r] \in Seq(Receipts) /\ Prefix(server[r], server[r])
  BY DEF TypeOK
<1>1. CASE Start
  BY <1>0, <1>1 DEF Start, TypeOK, Bounded
<1>2. CASE Crash
  BY <1>0, <1>2 DEF Crash, NoTask
<1>3. CASE Disconnect
  BY <1>0, <1>3 DEF Disconnect
<1>4. CASE Packet
  <2>1. Prefix(items, items')
    BY <1>4 DEF Packet, SessionIsSaved
  <2> QED BY <1>0, <1>4, <2>1 DEF Packet
<1>5. ASSUME NEW r \in Rooms, Connect(r) PROVE AroundTheTask
  <2>1. /\ UNCHANGED <<server, saved, sent, left, pc, at, receipt, way, dups>>
        /\ Interruptible
    BY <1>5 DEF Connect
  <2>2. NoRollback' => NoRollback
    BY <1>5 DEF Connect, TypeOK, Bounded
  <2>3. pc # "none" => stale' # "no"
    BY <1>5 DEF Connect
  <2> QED BY <1>0, <2>1, <2>2, <2>3
<1>6. ASSUME NEW r \in Rooms, NEW x \in Receipts, ServerSend(r, x) PROVE AroundTheTask
  <2>1. \A q \in Rooms : Prefix(server[q], server'[q])
    BY <1>0, <1>6, Growing DEF ServerSend, TypeOK
  <2>2. Prefix(items, items)
    BY DEF TypeOK
  <2> QED BY <1>6, <2>1, <2>2 DEF ServerSend
<1>7. ASSUME NEW r \in Rooms, NEW n \in 0..MaxLen, ServerRollback(r, n) PROVE AroundTheTask
  <2>1. ~NoRollback'
    BY <1>7 DEF ServerRollback, TypeOK, Bounded
  <2>2. Prefix(items, items)
    BY DEF TypeOK
  <2>3. /\ UNCHANGED <<saved, sent, left, pc, at, receipt, way, dups, mem, key>>
        /\ Interruptible
    BY <1>7 DEF ServerRollback
  <2>4. stale' = "no" => stale = "no" /\ items' = items
    BY <1>7 DEF ServerRollback
  <2> QED BY <2>1, <2>2, <2>3, <2>4
<1> HIDE DEF AroundTheTask
<1> QED BY <1>1, <1>2, <1>3, <1>4, <1>5, <1>6, <1>7 DEF Environment

LEMMA SentGrows ==
    ASSUME TypeOK, SessionIsSaved, FragsAreBehind, Running, Delivery,
           NEW r \in Rooms, NEW i \in 1..MaxLen, NEW k \in 0..MaxCommands, sent[r][i][k] > 0
    PROVE  sent'[r][i][k] > 0
<1>1. sent[r][i][k] \in Nat
  BY SentCounts
<1>2. CASE Publish
  <2>1. sent'[r][i][k] \in {sent[r][i][k], sent[r][i][k] + 1}
    BY <1>2, Publishing, Zenon
  <2> QED BY <1>1, <2>1
<1>3. CASE ~Publish
  BY <1>3, DeliveryKeepsLink
<1> QED BY <1>2, <1>3

-----------------------------------------------------------------------------
(* What the task observed of the history *)

LEMMA EnvironmentKeepsObserved ==
    ASSUME TypeOK, SessionIsSaved, Running, Observed, Environment, TypeOK'
    PROVE  Observed'
<1>1. UNCHANGED saved
  BY Around DEF AroundTheTask
<1>2. ASSUME pc' # "none", stale' = "no"
      PROVE  /\ dups' # {} => mem'.ids # <<>>
             /\ dups' \intersect (1..mem'.next) = {} =>
                   mem'.ids = ItemIds(SubSeq(items', 1, mem'.next))
  <2>1. /\ UNCHANGED <<pc, dups, mem>> /\ stale = "no" /\ Prefix(items, items')
    BY <1>2, Around DEF AroundTheTask
  <2>2. mem.next \in 0..Len(items)
    BY <1>2, <2>1, LenProperties DEF Running, TypeOK, Ledgers
  <2>3. SubSeq(items, 1, mem.next) = SubSeq(items', 1, mem.next)
    BY <2>1, <2>2, SamePrefix DEF TypeOK
  <2> QED BY <1>2, <2>1, <2>3 DEF Observed
<1> QED BY <1>1, <1>2 DEF Observed

LEMMA BeginObserves ==
    ASSUME TypeOK, SessionIsSaved, FragsAreBehind, Observed, Begin
    PROVE  /\ dups' # {} => mem.ids # <<>>
           /\ mem.ids = ItemIds(SubSeq(items, 1, mem.next))
<1>1. key \in Rooms /\ mem = saved[key] /\ Compatible(mem, items)
  BY Beginning
<1>2. mem.ids = ItemIds(SubSeq(items, 1, mem.next))
  <2>1. CASE mem.ids = <<>>
    <3>1. mem.next = 0
      BY <1>1, <2>1 DEF Observed
    <3> QED BY <2>1, <3>1, NothingYet DEF TypeOK
  <2>2. CASE mem.ids # <<>>
    BY <1>1, <2>2 DEF Compatible
  <2> QED BY <2>1, <2>2
<1>3. ASSUME NEW i \in 1..Len(items), IsDuplicate(mem, i) PROVE mem.ids # <<>>
  <2>1. i \in Nat /\ items[i] \in Receipts
    BY ElementOfSeq DEF TypeOK
  <2>2. Count(items, i, items[i]) > Count(items, 0, items[i]) /\ Count(items, 0, items[i]) \in Nat
    BY <2>1, CountedLater, Counting
  <2>3. Count(items, i, items[i]) <= mem.counts[items[i]]
    BY <1>3 DEF IsDuplicate, Occurrences, Count
  <2>4. Count(items, i, items[i]) \in Nat /\ mem.counts[items[i]] \in Nat
    BY <2>1, Counting DEF TypeOK, Ledgers
  <2>5. mem.counts[items[i]] # 0
    BY <2>2, <2>3, <2>4
  <2>6. mem.counts # [x \in Receipts |-> 0]
    BY <2>1, <2>5
  <2> QED BY <1>1, <2>6 DEF Observed
<1> QED BY <1>2, <1>3 DEF Begin

LEMMA DeliveryKeepsObserved ==
    ASSUME TypeOK, SessionIsSaved, FragsAreBehind, Running, Observed, Delivery, TypeOK'
    PROVE  Observed'
<1> DEFINE Seen == /\ dups # {} => mem.ids # <<>>
                   /\ dups \intersect (1..mem.next) = {} =>
                         mem.ids = ItemIds(SubSeq(items, 1, mem.next))
           Bare(r) == saved[r].ids = <<>> =>
                         saved[r].next = 0 /\ saved[r].counts = [x \in Receipts |-> 0]
<1>1. Observed <=> (\A r \in Rooms : Bare(r)) /\ (pc # "none" /\ stale = "no" => Seen)
  BY DEF Observed
<1>2. Observed' <=> (\A r \in Rooms : Bare(r)') /\ (pc' # "none" /\ stale' = "no" => Seen')
  BY DEF Observed
<1>3. CASE Begin
  BY <1>1, <1>2, <1>3, Beginning, BeginObserves
<1>4. CASE ~Begin /\ ~Writes
  BY <1>1, <1>2, <1>4, DeliveryKeepsLink
<1>5. CASE Writes
  <2>0. UNCHANGED <<dups, stale, items, key>> /\ pc # "none"
    BY <1>5, WritesHandle DEF Handling
  <2>1. /\ key \in Rooms /\ mem = saved[key] /\ mem' = saved'[key]
        /\ \A r \in Rooms : r # key => saved'[r] = saved[r]
    BY <1>5, Saving
  <2>2. CASE UNCHANGED <<mem.next, mem.ids, mem.counts>>
    BY <1>1, <1>2, <2>0, <2>1, <2>2
  <2>3. CASE Acknowledge
    <3>2. /\ at = mem.next + 1 /\ at <= Len(items) /\ receipt = items[at] /\ stale = "no"
          /\ mem.next \in Nat
      BY <2>3, WritesHandle, InHand DEF Running, Acknowledge, Writes
    <3>3. mem.ids \in Seq(Items) /\ receipt.item \in Items
      BY Constants DEF TypeOK, Ledgers
    <3>4. Append(mem.ids, receipt.item) # <<>>
      BY <3>3, AppendProperties
    <3>5. mem'.ids # <<>> /\ mem'.next = mem.next + 1
      BY <1>1, <2>0, <2>3, <3>2, <3>4, Acknowledging
    <3>6. ASSUME dups \intersect (1..mem'.next) = {}
          PROVE  mem'.ids = ItemIds(SubSeq(items, 1, mem'.next))
      <4>1. at \notin dups /\ dups \intersect (1..mem.next) = {}
        BY <3>2, <3>5, <3>6
      <4>2. mem'.ids = Append(ItemIds(SubSeq(items, 1, mem.next)), items[mem.next + 1].item)
        BY <1>1, <2>0, <2>3, <3>2, <4>1, Acknowledging
      <4> QED BY <3>2, <3>5, <4>2, OneMore DEF TypeOK
    <3> QED BY <1>1, <1>2, <2>0, <2>1, <3>5, <3>6
  <2> QED BY <1>5, <2>2, <2>3, Recording, Finishing, Forgetting DEF Writes
<1> QED BY <1>3, <1>4, <1>5

-----------------------------------------------------------------------------
(* What the ledger records as published has been *)

Fine(l, out) == /\ \A i \in 1..MaxLen : /\ l.groups[i].done <= MaxCommands
                                        /\ \A k \in 1..l.groups[i].done : out[i][k] > 0
                /\ \A i \in l.notified : out[i][0] > 0
Whole == IF way = "notify" THEN at \in mem.notified
                           ELSE \A k \in 1..Commands[receipt.item] : sent[key][at][k] > 0
Effects == \A k \in 1..(Commands[receipt.item] - 1) : sent[key][at][k] > 0

LEMMA ProgressInParts ==
    /\ ProgressIsPublished <=> /\ \A r \in Rooms : Fine(saved[r], sent[r])
                               /\ pc = "acknowledge" /\ at \notin dups => Whole
                               /\ pc = "forget" => Effects
    /\ ProgressIsPublished' <=> /\ \A r \in Rooms : Fine(saved'[r], sent'[r])
                                /\ pc' = "acknowledge" /\ at' \notin dups' => Whole'
                                /\ pc' = "forget" => Effects'
BY DEF ProgressIsPublished, Fine, Whole, Effects

\* Publishing more does not undo it.
LEMMA StillFine ==
    ASSUME TypeOK, SessionIsSaved, FragsAreBehind, Running, Delivery,
           NEW r \in Rooms, Fine(saved[r], sent[r])
    PROVE  Fine(saved[r], sent'[r])
<1>1. /\ \A i \in 1..MaxLen : saved[r].groups[i].done \in Nat
      /\ saved[r].notified \subseteq 1..MaxLen
  BY DEF TypeOK, Ledgers
<1>2. ASSUME NEW i \in 1..MaxLen, NEW k \in 1..saved[r].groups[i].done
      PROVE  sent'[r][i][k] > 0
  <2>1. k \in 0..MaxCommands /\ sent[r][i][k] > 0
    BY <1>1, Constants DEF Fine
  <2> QED BY <2>1, SentGrows
<1>3. ASSUME NEW i \in saved[r].notified PROVE sent'[r][i][0] > 0
  <2>1. sent[r][i][0] > 0 /\ i \in 1..MaxLen /\ 0 \in 0..MaxCommands
    BY <1>1, Constants DEF Fine
  <2> QED BY <2>1, SentGrows
<1> QED BY <1>2, <1>3 DEF Fine

LEMMA EnvironmentKeepsProgress ==
    ASSUME TypeOK, SessionIsSaved, Running, ProgressIsPublished, Environment
    PROVE  ProgressIsPublished'
<1>1. UNCHANGED <<saved, sent>>
  BY Around DEF AroundTheTask
<1>2. pc' \in {"acknowledge", "forget"} => UNCHANGED <<pc, at, receipt, way, dups, key, mem>>
  BY Around DEF AroundTheTask, Handling
<1> QED BY <1>1, <1>2, ProgressInParts DEF Whole, Effects

LEMMA WritesKeepProgress ==
    ASSUME TypeOK, SessionIsSaved, FragsAreBehind, Running, ProgressIsPublished, Writes
    PROVE  ProgressIsPublished'
<1>1. /\ key \in Rooms /\ at \in 1..MaxLen /\ receipt.item \in Items
      /\ UNCHANGED <<key, at, receipt, way, dups, sent>>
  BY InHand, WritesHandle, Constants
<1>2. /\ mem = saved[key] /\ mem' = saved'[key] /\ \A r \in Rooms : r # key => saved'[r] = saved[r]
      /\ \A r \in Rooms : Fine(saved[r], sent[r])
  BY Saving, ProgressInParts
<1>3. mem \in Ledgers /\ Commands[receipt.item] \in Nat /\ MaxCommands \in Nat
  BY <1>1, Constants DEF TypeOK
<1>4. CASE Record
  <2>1. sent[key][at][Ordinal] > 0 /\ Done < Due /\ pc' = "publish"
    BY <1>4, Recording DEF Running
  <2>2. Fine(mem', sent[key])
    <3>1. CASE way = "notify"
      BY <1>1, <1>2, <1>4, <2>1, <3>1, Progress, Recording DEF Fine
    <3>2. CASE way # "notify"
      <4>1. /\ mem'.groups = [mem.groups EXCEPT ![at] = [item |-> receipt.item, done |-> Done + 1]]
            /\ mem'.notified = mem.notified /\ Done = mem.groups[at].done /\ Done \in Nat
            /\ Done + 1 <= MaxCommands /\ sent[key][at][Done + 1] > 0
        BY <1>1, <1>3, <1>4, <2>1, <3>2, Progress, Recording
      <4>2. mem.groups \in [1..MaxLen -> [item : Items, done : Nat]]
        BY <1>3 DEF Ledgers
      <4>3. ASSUME NEW i \in 1..MaxLen
            PROVE  /\ mem'.groups[i].done <= MaxCommands
                   /\ \A k \in 1..mem'.groups[i].done : sent[key][i][k] > 0
        <5>1. CASE i = at
          <6>1. mem'.groups[i].done = Done + 1
            <7>1. mem'.groups[at] = [item |-> receipt.item, done |-> Done + 1]
              BY <1>1, <4>1, <4>2
            <7> QED BY <5>1, <7>1
          <6>2. \A k \in 1..Done : sent[key][at][k] > 0
            BY <1>1, <1>2, <4>1 DEF Fine
          <6>3. \A k \in 1..(Done + 1) : k = Done + 1 \/ k \in 1..Done
            BY <4>1
          <6> QED BY <4>1, <5>1, <6>1, <6>2, <6>3
        <5>2. CASE i # at
          BY <1>1, <1>2, <4>1, <4>2, <5>2 DEF Fine
        <5> QED BY <5>1, <5>2
      <4> QED BY <1>1, <1>2, <4>1, <4>3 DEF Fine
    <3> QED BY <3>1, <3>2
  <2> QED BY <1>1, <1>2, <2>1, <2>2, ProgressInParts
<1>5. CASE Complete
  <2>1. /\ Done >= Due /\ mem'.notified = mem.notified
        /\ pc' = IF Flushing THEN "forget" ELSE "acknowledge"
        /\ mem'.groups = IF way = "notify" THEN mem.groups ELSE [mem.groups EXCEPT ![at] = NoGroup]
    BY <1>5, Finishing
  <2>2. Fine(mem', sent[key])
    <3>1. mem.groups \in [1..MaxLen -> [item : Items, done : Nat]] /\ NoGroup.done = 0
      BY <1>3, EmptyLedger DEF Ledgers
    <3> QED BY <1>1, <1>2, <1>3, <2>1, <3>1 DEF Fine
  <2>3. CASE way = "notify"
    <3>1. at \in mem'.notified /\ pc' = "acknowledge"
      BY <1>1, <2>1, <2>3, Progress
    <3>2. Whole'
      BY <1>1, <2>3, <3>1 DEF Whole
    <3> QED BY <1>1, <1>2, <2>2, <3>1, <3>2, ProgressInParts
  <2>4. CASE way # "notify"
    <3>1. Done = mem.groups[at].done /\ Done \in Nat
          /\ \A k \in 1..Done : sent[key][at][k] > 0
      BY <1>1, <1>2, <2>4, Progress DEF Fine
    <3>2. CASE Flushing
      <4>1. Commands[receipt.item] - 1 <= Done /\ pc' = "forget"
        BY <1>1, <1>3, <2>1, <3>1, <3>2, Progress
      <4>2. Effects'
        BY <1>1, <1>3, <3>1, <4>1 DEF Effects
      <4> QED BY <1>1, <1>2, <2>2, <4>1, <4>2, ProgressInParts
    <3>3. CASE ~Flushing
      <4>1. Commands[receipt.item] <= Done /\ pc' = "acknowledge"
        BY <1>1, <1>3, <2>1, <2>4, <3>1, <3>3, Progress
      <4>2. Whole'
        BY <1>1, <1>3, <2>4, <3>1, <4>1 DEF Whole
      <4> QED BY <1>1, <1>2, <2>2, <4>1, <4>2, ProgressInParts
    <3> QED BY <3>2, <3>3
  <2> QED BY <2>3, <2>4
<1>6. CASE Acknowledge
  <2>1. UNCHANGED <<mem.groups, mem.notified>> /\ pc' \in {"next", "yield", "settle"}
    BY <1>6, Acknowledging
  <2>2. Fine(mem', sent[key])
    BY <1>1, <1>2, <2>1 DEF Fine
  <2> QED BY <1>1, <1>2, <2>1, <2>2, ProgressInParts
<1>7. CASE Forget
  <2>1. UNCHANGED <<mem.groups, mem.notified>> /\ pc' = "flush"
    BY <1>7, Forgetting
  <2>2. Fine(mem', sent[key])
    BY <1>1, <1>2, <2>1 DEF Fine
  <2> QED BY <1>1, <1>2, <2>1, <2>2, ProgressInParts
<1> QED BY <1>4, <1>5, <1>6, <1>7 DEF Writes

LEMMA DeliveryKeepsProgress ==
    ASSUME TypeOK, SessionIsSaved, FragsAreBehind, Running, ProgressIsPublished, Delivery
    PROVE  ProgressIsPublished'
<1>1. CASE ~Writes
  <2>1. saved' = saved /\ \A r \in Rooms : Fine(saved[r], sent'[r])
    BY <1>1, DeliveryKeepsLink, ProgressInParts, StillFine
  <2>2. pc' # "forget" /\ (pc' = "acknowledge" /\ at' \notin dups' => Whole')
    <3>1. CASE NextReceipt
      <4>1. /\ pc' \in {"acknowledge", "await"} /\ way' = "group"
            /\ pc' = "acknowledge" /\ at' \notin dups' => Commands[receipt'.item] = 0
        BY <3>1, Reading
      <4> QED BY <4>1 DEF Whole
    <3>2. CASE ~NextReceipt
      <4>1. Begin \/ BeginFails \/ WriteFails \/ Publish => pc' \notin {"acknowledge", "forget"}
        BY Beginning, BlockEndsRun DEF Publish
      <4>2. Moves => pc' \notin {"acknowledge", "forget"}
        BY <3>2, Moving DEF Resume, Defer, FlushNext, FlushStarts
      <4> QED BY <1>1, <4>1, <4>2, StepsOfTheTask
    <3> QED BY <3>1, <3>2
  <2> QED BY <2>1, <2>2, ProgressInParts
<1> QED BY <1>1, WritesKeepProgress

-----------------------------------------------------------------------------
(* Frag items are remembered behind the cursor *)

LEMMA KeepsFragsBehind ==
    ASSUME TypeOK, SessionIsSaved, FragsAreBehind, Running, Delivery \/ Environment
    PROVE  FragsAreBehind'
<1>1. CASE Environment
  BY <1>1, Around DEF AroundTheTask, FragsAreBehind
<1>2. CASE Delivery /\ ~Writes
  BY <1>2, DeliveryKeepsLink DEF FragsAreBehind
<1>3. CASE Writes
  <2>1. /\ key \in Rooms /\ mem = saved[key] /\ mem' = saved'[key]
        /\ \A r \in Rooms : r # key => saved'[r] = saved[r]
    BY <1>3, Saving
  <2>2. mem.next \in Nat /\ mem.frags \subseteq (1..MaxLen) \X Items
    BY DEF TypeOK, Ledgers
  <2>4. \A f \in mem.frags : f[1] <= mem.next /\ f[1] \in Nat
    <3>1. \A f \in mem.frags : f[1] \in 1..MaxLen
      BY <2>2
    <3>2. \A f \in mem.frags : f[1] <= mem.next
      BY <2>1 DEF FragsAreBehind
    <3> QED BY <3>1, <3>2
  <2>3. \A f \in mem'.frags : f[1] <= mem'.next
    <3>1. CASE Record \/ Complete \/ Forget
      BY <2>4, <3>1, Recording, Finishing, Forgetting
    <3>2. CASE Acknowledge
      <4>1. at = mem.next + 1 /\ mem'.next = mem.next + 1
        BY <3>2, InHand, WritesHandle, Acknowledging DEF Running, Writes
      <4>2. mem'.frags \subseteq mem.frags \union {<<at, receipt.item>>}
        BY <3>2, Acknowledging DEF Remembered
      <4> QED BY <2>2, <2>4, <4>1, <4>2
    <3> QED BY <1>3, <3>1, <3>2 DEF Writes
  <2> QED BY <2>1, <2>3 DEF FragsAreBehind
<1> QED BY <1>1, <1>2, <1>3

-----------------------------------------------------------------------------
(* The ledger and the history *)

Followed(l, h) == l.next <= Len(h) /\ l.ids = ItemIds(SubSeq(h, 1, l.next))
Counted(l, h)  == \A x \in Receipts : l.counts[x] = Count(h, l.next, x)
Theirs(l, h, set) == /\ \A f \in l.frags : h[f[1]].item = f[2]
                     /\ \A i \in set : h[i].item \notin Frags /\ i <= l.next

History == LedgerFollowsServer /\ HistoryIsCounted /\ PutOffIsTheirs

LEMMA HistoryInParts ==
    /\ History <=>
          (NoRollback =>
              /\ \A r \in Rooms : /\ Followed(saved[r], server[r]) /\ Counted(saved[r], server[r])
                                  /\ Theirs(saved[r], server[r], left[r])
              /\ pc # "none" /\ stale = "no" => dups = {})
    /\ History' <=>
          (NoRollback' =>
              /\ \A r \in Rooms : /\ Followed(saved'[r], server'[r])
                                  /\ Counted(saved'[r], server'[r])
                                  /\ Theirs(saved'[r], server'[r], left'[r])
              /\ pc' # "none" /\ stale' = "no" => dups' = {})
BY DEF History, LedgerFollowsServer, HistoryIsCounted, PutOffIsTheirs, NoRollback, Followed,
       Counted, Theirs

LEMMA EnvironmentKeepsHistory ==
    ASSUME TypeOK, SessionIsSaved, FragsAreBehind, Running, History, Environment, TypeOK'
    PROVE  History'
<1> SUFFICES ASSUME NoRollback'
             PROVE  /\ \A r \in Rooms : /\ Followed(saved'[r], server'[r])
                                        /\ Counted(saved'[r], server'[r])
                                        /\ Theirs(saved'[r], server'[r], left'[r])
                    /\ pc' # "none" /\ stale' = "no" => dups' = {}
  BY HistoryInParts
<1>1. /\ NoRollback /\ UNCHANGED <<saved, left>> /\ \A r \in Rooms : Prefix(server[r], server'[r])
      /\ pc' # "none" => UNCHANGED <<pc, dups>>
      /\ pc' # "none" /\ stale' = "no" => stale = "no"
  BY Around DEF AroundTheTask
<1>2. ASSUME NEW r \in Rooms
      PROVE  /\ Followed(saved[r], server'[r]) /\ Counted(saved[r], server'[r])
             /\ Theirs(saved[r], server'[r], left[r])
  <2>1. /\ Followed(saved[r], server[r]) /\ Counted(saved[r], server[r])
        /\ Theirs(saved[r], server[r], left[r]) /\ Prefix(server[r], server'[r])
    BY <1>1, HistoryInParts
  <2>2. /\ server[r] \in Seq(Receipts) /\ server'[r] \in Seq(Receipts)
        /\ Len(server[r]) \in Nat /\ Len(server'[r]) \in Nat
        /\ saved[r].next \in Nat /\ saved[r].next <= Len(server[r])
    <3>1. server[r] \in Seq(Receipts) /\ server'[r] \in Seq(Receipts)
      BY DEF TypeOK
    <3>2. saved[r] \in Ledgers
      BY DEF TypeOK
    <3>3. Len(server[r]) \in Nat /\ Len(server'[r]) \in Nat
      BY <3>1, LenProperties
    <3> QED BY <2>1, <3>1, <3>2, <3>3 DEF Ledgers, Followed
  <2>3. SubSeq(server[r], 1, saved[r].next) = SubSeq(server'[r], 1, saved[r].next)
    <3>1. saved[r].next \in 0..Len(server[r])
      BY <2>2
    <3> QED BY <2>1, <2>2, <3>1, SamePrefix
  <2>4. \A x : Count(server[r], saved[r].next, x) = Count(server'[r], saved[r].next, x)
    BY <2>1, <2>2, SameCount
  <2>5. Followed(saved[r], server'[r])
    <3>1. saved[r].next <= Len(server'[r])
      BY <2>1, <2>2 DEF Prefix
    <3>2. saved[r].ids = ItemIds(SubSeq(server[r], 1, saved[r].next))
      BY <2>1 DEF Followed
    <3>3. saved[r].ids = ItemIds(SubSeq(server'[r], 1, saved[r].next))
      BY <2>3, <3>2, Zenon
    <3> QED BY <3>1, <3>3 DEF Followed
  <2>6. Counted(saved[r], server'[r])
    BY <2>1, <2>4 DEF Counted
  <2>7. \A i \in 1..saved[r].next : server'[r][i] = server[r][i]
    BY <2>1, <2>2 DEF Prefix
  <2>8. /\ \A f \in saved[r].frags : f[1] \in 1..saved[r].next
        /\ \A i \in left[r] : i \in 1..saved[r].next
    <3>1. saved[r].frags \subseteq (1..MaxLen) \X Items /\ left[r] \subseteq 1..MaxLen
      BY DEF TypeOK, Ledgers
    <3>2. \A f \in saved[r].frags : f[1] \in 1..MaxLen /\ f[1] <= saved[r].next
      BY <3>1 DEF FragsAreBehind
    <3> QED BY <2>1, <2>2, <3>1, <3>2, BoundsAssumption DEF Theirs
  <2>9. Theirs(saved[r], server'[r], left[r])
    BY <2>1, <2>7, <2>8 DEF Theirs
  <2> QED BY <2>5, <2>6, <2>9
<1>3. pc' # "none" /\ stale' = "no" => dups' = {}
  BY <1>1, HistoryInParts
<1> QED BY <1>1, <1>2, <1>3

\* A ledger that counts the history takes nothing of it for a duplicate.
LEMMA NothingTwice ==
    ASSUME TypeOK, SessionIsSaved, FragsAreBehind, History, NoRollback, Begin
    PROVE  dups' = {}
<1>1. key \in Rooms /\ mem = saved[key] /\ Counted(mem, server[key]) /\ mem.next \in Nat
  BY HistoryInParts, Beginning
<1>2. Len(items) \in Nat /\ mem.next <= Len(items) /\ Prefix(items, server[key])
  BY Beginning
<1>3. ASSUME NEW i \in 1..Len(items), IsDuplicate(mem, i) PROVE FALSE
  <2>1. i \in Nat /\ i > mem.next /\ items[i] \in Receipts
    BY <1>3, ElementOfSeq DEF IsDuplicate, TypeOK
  <2>2. Count(items, i, items[i]) <= mem.counts[items[i]]
    BY <1>3 DEF IsDuplicate, Occurrences, Count
  <2>3. mem.counts[items[i]] = Count(server[key], mem.next, items[i])
    BY <1>1, <2>1 DEF Counted
  <2>4. Count(server[key], mem.next, items[i]) = Count(items, mem.next, items[i])
    BY <1>1, <1>2, SameCount
  <2>5. Count(items, i, items[i]) > Count(items, mem.next, items[i])
    BY <1>1, <2>1, CountedLater
  <2>6. Count(items, i, items[i]) \in Nat /\ Count(items, mem.next, items[i]) \in Nat
    BY <1>1, <2>1, Counting
  <2> QED BY <2>2, <2>3, <2>4, <2>5, <2>6
<1> QED BY <1>3 DEF Begin

\* A write extends the ledger by the receipt in hand, or leaves what it says of the history.
LEMMA WritesKeepHistory ==
    ASSUME TypeOK, SessionIsSaved, FragsAreBehind, Running, History, NoRollback, Writes, TypeOK'
    PROVE  History'
<1>1. /\ key \in Rooms /\ mem = saved[key] /\ mem' = saved'[key]
      /\ \A r \in Rooms : r # key => saved'[r] = saved[r]
      /\ UNCHANGED <<server, dups, stale, key, at, receipt, way>> /\ pc # "none" /\ NoRollback'
  BY Saving, WritesHandle DEF Handling, NoRollback
<1>2. /\ Followed(mem, server[key]) /\ Counted(mem, server[key])
      /\ Theirs(mem, server[key], left[key])
      /\ at <= Len(server[key]) /\ receipt = server[key][at] /\ receipt \in Receipts
      /\ stale = "no" /\ dups = {} /\ at \in 1..MaxLen
      /\ server[key] \in Seq(Receipts) /\ mem.next \in Nat
  <2>1. Handling
    BY WritesHandle
  <2>2. stale = "no"
    BY <2>1, InHand
  <2>3. dups = {}
    BY <1>1, <2>2, HistoryInParts
  <2>4. server[key] \in Seq(Receipts)
    BY <1>1 DEF TypeOK
  <2> QED BY <1>1, <2>1, <2>2, <2>3, <2>4, InHand, HistoryInParts
<1>3. /\ Followed(mem', server[key]) /\ Counted(mem', server[key])
      /\ Theirs(mem', server[key], left'[key])
      /\ \A r \in Rooms : r # key => left'[r] = left[r]
  <2>1. CASE Record \/ Complete \/ Forget
    <3>1. /\ UNCHANGED <<mem.next, mem.ids, mem.counts, left>> /\ mem'.frags \subseteq mem.frags
      BY <2>1, Recording, Finishing, Forgetting
    <3> QED BY <1>2, <3>1 DEF Followed, Counted, Theirs
  <2>2. CASE Acknowledge
    <3>1. /\ at = mem.next + 1 /\ mem'.next = mem.next + 1
          /\ mem'.ids = Append(mem.ids, receipt.item)
          /\ mem'.counts = [mem.counts EXCEPT ![receipt] = @ + 1]
          /\ mem'.frags = Remembered
          /\ left' = IF Deferred /\ receipt.item \notin Frags
                        THEN [left EXCEPT ![key] = @ \union {at}] ELSE left
      BY <1>2, <2>2, InHand, WritesHandle, Acknowledging DEF Running, Writes
    <3>2. Followed(mem', server[key])
      <4>1. ItemIds(SubSeq(server[key], 1, mem.next + 1))
               = Append(ItemIds(SubSeq(server[key], 1, mem.next)), server[key][mem.next + 1].item)
        BY <1>2, <3>1, OneMore
      <4> QED BY <1>2, <3>1, <4>1 DEF Followed
    <3>3. ASSUME NEW x \in Receipts PROVE mem'.counts[x] = Count(server[key], mem'.next, x)
      <4>0. mem.counts \in [Receipts -> Nat]
        BY DEF TypeOK, Ledgers
      <4>1. mem'.counts[x] = mem.counts[x] + (IF receipt = x THEN 1 ELSE 0)
        BY <1>2, <3>1, <4>0
      <4>2. mem.counts[x] = Count(server[key], mem.next, x)
        BY <1>2 DEF Counted
      <4>3. Count(server[key], mem.next + 1, x)
               = Count(server[key], mem.next, x) + (IF receipt = x THEN 1 ELSE 0)
        <5>1. Count(server[key], mem.next + 1, x) = Count(server[key], mem.next, x)
                 + (IF server[key][mem.next + 1] = x THEN 1 ELSE 0)
          BY <1>2, Counting
        <5> QED BY <1>2, <3>1, <5>1
      <4> QED BY <3>1, <4>1, <4>2, <4>3
    <3>4. \A f \in mem'.frags : server[key][f[1]].item = f[2]
      BY <1>2, <3>1 DEF Remembered, Theirs
    <3>5. left[key] \subseteq 1..MaxLen /\ left \in [Rooms -> SUBSET (1..MaxLen)]
      BY <1>1 DEF TypeOK
    <3>6. \A i \in left'[key] : server[key][i].item \notin Frags /\ i <= mem'.next
      <4>1. \A i \in left[key] : server[key][i].item \notin Frags /\ i <= mem'.next
        BY <1>2, <3>1, <3>5, BoundsAssumption DEF Theirs
      <4> QED BY <1>1, <1>2, <3>1, <3>5, <4>1
    <3> QED BY <1>1, <3>1, <3>2, <3>3, <3>4, <3>5, <3>6 DEF Counted, Theirs
  <2> QED BY <2>1, <2>2 DEF Writes
<1>4. pc' # "none" /\ stale' = "no" => dups' = {}
  BY <1>1, <1>2
<1> QED BY <1>1, <1>3, <1>4, HistoryInParts

LEMMA DeliveryKeepsHistory ==
    ASSUME TypeOK, SessionIsSaved, FragsAreBehind, Running, History, Delivery, TypeOK'
    PROVE  History'
<1> SUFFICES ASSUME NoRollback
             PROVE  History'
  BY DeliveryKeepsLink, HistoryInParts
<1>1. CASE Begin
  BY <1>1, Beginning, NothingTwice, HistoryInParts
<1>2. CASE ~Begin /\ ~Writes
  BY <1>2, DeliveryKeepsLink, HistoryInParts
<1> QED BY <1>1, <1>2, WritesKeepHistory

-----------------------------------------------------------------------------
(* What is put off, and what has reached the spool *)

\* A receipt all of whose commands have reached the spool or are put off stays so: what is
\* forgotten has been published.
LEMMA StillReached ==
    ASSUME TypeOK, SessionIsSaved, FragsAreBehind, Running, ProgressIsPublished, Delivery,
           NEW r \in Rooms, NEW i \in 1..MaxLen, ReachedAll(r, i)
    PROVE  ReachedAll(r, i)'
<1>1. Owes(r, i)' = Owes(r, i) /\ Owes(r, i) \in 0..MaxCommands
  <2>1. server' = server
    BY DeliveryKeepsLink
  <2>2. Owes(r, i) \in 0..MaxCommands
    <3>1. i \in 1..Len(server[r]) => server[r][i].item \in Items
      BY ElementOfSeq, Constants DEF TypeOK
    <3> QED BY <3>1, Constants DEF Owes
  <2> QED BY <2>1, <2>2 DEF Owes
<1> SUFFICES ASSUME NEW k \in 1..Owes(r, i)
             PROVE  Reached(r, i, k)'
  BY <1>1 DEF ReachedAll
<1>2. k \in 0..MaxCommands /\ 0 \in 0..MaxCommands /\ Reached(r, i, k)
  BY <1>1, Constants DEF ReachedAll
<1>3. \A l \in 0..MaxCommands : sent[r][i][l] > 0 => sent'[r][i][l] > 0
  BY SentGrows
<1>4. CASE sent[r][i][k] > 0 \/ (k = Owes(r, i) /\ sent[r][i][0] > 0)
  BY <1>1, <1>2, <1>3, <1>4 DEF Reached
<1>5. CASE k < Owes(r, i) /\ i \in PutOff(r)
  <2>1. CASE i \in PutOff(r)'
    BY <1>1, <1>5, <2>1 DEF Reached
  <2>2. CASE i \notin PutOff(r)'
    <3>1. Forget /\ r = key /\ i = at
      <4>1. Writes
        BY <1>5, <2>2, DeliveryKeepsLink DEF PutOff
      <4>2. /\ key \in Rooms /\ mem = saved[key] /\ mem' = saved'[key]
            /\ \A q \in Rooms : q # key => saved'[q] = saved[q]
        BY <4>1, Saving
      <4>3. left[r] \subseteq left'[r]
        <5>1. CASE Acknowledge
          BY <4>2, <5>1, Acknowledging DEF TypeOK
        <5>2. CASE ~Acknowledge
          BY <4>1, <5>2, Recording, Finishing, Forgetting DEF Writes
        <5> QED BY <5>1, <5>2
      <4>4. PICK f \in saved[r].frags : i = f[1]
        BY <1>5, <2>2, <4>3 DEF PutOff
      <4>5. \A g \in saved'[r].frags : g[1] # i
        BY <2>2 DEF PutOff
      <4>6. r = key
        BY <4>2, <4>4, <4>5
      <4>7. CASE Record \/ Complete
        BY <4>2, <4>4, <4>5, <4>6, <4>7, Recording, Finishing
      <4>8. CASE Acknowledge
        <5>1. mem'.frags = mem.frags \/ mem'.frags = Remembered
          BY <4>8, Acknowledging
        <5>2. ASSUME NEW g \in mem.frags PROVE \E h \in mem'.frags : h[1] = g[1]
          <6>1. CASE mem'.frags = mem.frags
            BY <6>1
          <6>2. CASE mem'.frags = {h \in mem.frags : h[1] # at} \union {<<at, receipt.item>>}
            <7>1. CASE g[1] = at
              <8>1. <<at, receipt.item>> \in mem'.frags /\ <<at, receipt.item>>[1] = g[1]
                BY <6>2, <7>1
              <8> QED BY <8>1
            <7>2. CASE g[1] # at
              BY <6>2, <7>2
            <7> QED BY <7>1, <7>2
          <6> QED BY <5>1, <6>1, <6>2 DEF Remembered
        <5> QED BY <4>2, <4>4, <4>5, <4>6, <5>2
      <4>9. CASE Forget
        <5>1. f \in mem'.frags \/ f[1] = at
          BY <4>2, <4>4, <4>6, <4>9, Forgetting
        <5> QED BY <4>2, <4>4, <4>5, <4>6, <4>9, <5>1
      <4> QED BY <4>1, <4>7, <4>8, <4>9 DEF Writes
    <3>2. pc = "forget" /\ sent' = sent
      BY <3>1, Forgetting, WritesHandle DEF Writes
    <3>3. \A l \in 1..(Commands[receipt.item] - 1) : sent[key][at][l] > 0
      BY <3>2, ProgressInParts DEF Effects
    <3>4. Owes(r, i) = Commands[receipt.item]
      <4>1. receipt = server[key][at] /\ at \in 1..MaxLen /\ at <= Len(server[key])
        BY <3>2, InHand DEF Handling
      <4>2. Len(server[key]) \in Nat
        BY <3>1, LenProperties DEF TypeOK
      <4>3. at \in 1..Len(server[key])
        BY <4>1, <4>2, BoundsAssumption
      <4> QED BY <3>1, <4>1, <4>3 DEF Owes
    <3>5. k \in 1..(Commands[receipt.item] - 1)
      BY <1>1, <1>5, <3>4
    <3> QED BY <3>1, <3>2, <3>3, <3>5 DEF Reached
  <2> QED BY <2>1, <2>2
<1> QED BY <1>2, <1>4, <1>5 DEF Reached

LEMMA StillReachedAround ==
    ASSUME TypeOK, SessionIsSaved, Running, Environment, TypeOK', NoRollback',
           NEW r \in Rooms, NEW i \in 1..Len(server[r])
    PROVE  /\ ReachedAll(r, i)' <=> ReachedAll(r, i)
           /\ server'[r][i] = server[r][i] /\ i \in 1..Len(server'[r]) /\ Owes(r, i)' = Owes(r, i)
<1>1. Prefix(server[r], server'[r]) /\ UNCHANGED <<saved, sent, left>>
  BY Around DEF AroundTheTask
<1>2. Len(server[r]) \in Nat /\ Len(server'[r]) \in Nat
  BY LenProperties DEF TypeOK
<1>3. i \in 1..Len(server'[r]) /\ server'[r][i] = server[r][i]
  BY <1>1, <1>2 DEF Prefix
<1>4. Owes(r, i)' = Owes(r, i)
  BY <1>3 DEF Owes
<1> QED BY <1>1, <1>3, <1>4 DEF ReachedAll, Reached, PutOff

\* The frag grenade's effects stay out.
LEMMA FragStaysOut ==
    ASSUME TypeOK, SessionIsSaved, FragsAreBehind, Running, Delivery \/ Environment,
           TypeOK', NoRollback', NEW r \in Rooms, FragIsOut(r)
    PROVE  FragIsOut(r)'
<1>1. PICK j \in 1..Len(server[r]) : /\ server[r][j].item \in FragBases
                                     /\ \A k \in 1..(Owes(r, j) - 1) : sent[r][j][k] > 0
  BY DEF FragIsOut
<1>2. CASE Environment
  <2>1. /\ server'[r][j] = server[r][j] /\ j \in 1..Len(server'[r])
        /\ Owes(r, j)' = Owes(r, j) /\ sent' = sent
    BY <1>2, StillReachedAround, Around DEF AroundTheTask
  <2> QED BY <1>1, <2>1 DEF FragIsOut
<1>3. CASE Delivery
  <2>1. server' = server
    BY <1>3, DeliveryKeepsLink
  <2>2. Owes(r, j)' = Owes(r, j) /\ Owes(r, j) \in 0..MaxCommands
    <3>1. server[r][j].item \in Items
      BY ElementOfSeq, Constants DEF TypeOK
    <3> QED BY <2>1, <3>1, Constants DEF Owes
  <2>3. j \in 1..MaxLen
    <3>1. Len(server[r]) \in Nat /\ Len(server[r]) <= MaxLen
      BY LenProperties DEF TypeOK
    <3> QED BY <3>1, BoundsAssumption
  <2>4. \A k \in 1..(Owes(r, j) - 1) : sent'[r][j][k] > 0
    <3>1. \A k \in 1..(Owes(r, j) - 1) : k \in 0..MaxCommands
      BY <2>2, Constants
    <3> QED BY <1>1, <1>3, <2>3, <3>1, SentGrows
  <2> QED BY <1>1, <2>1, <2>2, <2>4 DEF FragIsOut
<1> QED BY <1>2, <1>3

\* Where a frag grenade has been received and is not remembered, its effects are out.
LEMMA ReceivedFragIsOut ==
    ASSUME TypeOK, SessionIsSaved, History, NothingSkipped, NoRollback,
           HasFrag, key \in Rooms, conn = key, mem = saved[key]
    PROVE  FragIsOut(key)
<1>1. PICK j \in 1..Len(items) : j <= mem.next /\ items[j].item \in FragBases
  BY DEF HasFrag
<1>2. \A f \in mem.frags : f[2] \notin FragBases
  BY DEF HasFrag
<1>3. Prefix(items, server[key])
  BY RoomsAssumption DEF SessionIsSaved
<1>4. Len(items) \in Nat /\ Len(server[key]) \in Nat /\ mem.next \in Nat
  BY LenProperties DEF TypeOK, Ledgers
<1>5. j \in 1..Len(server[key]) /\ server[key][j].item \in FragBases /\ j \in 1..saved[key].next
  BY <1>1, <1>3, <1>4 DEF Prefix
<1>6. j \notin PutOff(key)
  <2>1. Theirs(mem, server[key], left[key])
    BY HistoryInParts
  <2>2. j \notin left[key]
    BY <1>5, <2>1 DEF Theirs, Frags
  <2>3. \A f \in mem.frags : j # f[1]
    BY <1>2, <1>5, <2>1 DEF Theirs
  <2> QED BY <2>2, <2>3 DEF PutOff
<1>7. ReachedAll(key, j)
  BY <1>5 DEF NothingSkipped, NoRollback
<1>8. Owes(key, j) \in Nat
  <2>1. server[key][j].item \in Items
    BY <1>5, ElementOfSeq, Constants DEF TypeOK
  <2> QED BY <1>5, <2>1, Constants DEF Owes
<1>9. \A k \in 1..(Owes(key, j) - 1) : sent[key][j][k] > 0
  BY <1>6, <1>7, <1>8 DEF ReachedAll, Reached
<1> QED BY <1>5, <1>9 DEF FragIsOut

LEMMA KeepsUpgradesWait ==
    ASSUME TypeOK, SessionIsSaved, FragsAreBehind, Running, History, NothingSkipped, UpgradesWait,
           Delivery \/ Environment, TypeOK'
    PROVE  UpgradesWait'
<1> SUFFICES ASSUME NoRollback', pc' \in {"publish", "record"}, way' # "notify",
                    receipt'.item \in FragUpgrades
             PROVE  FragIsOut(key)'
  BY DEF UpgradesWait
<1>1. ASSUME pc \in {"publish", "record"}, UNCHANGED <<way, receipt, key>>, NoRollback
      PROVE  FragIsOut(key)'
  <2>1. key \in Rooms /\ FragIsOut(key)
    BY <1>1, InHand DEF UpgradesWait, Handling
  <2> QED BY <1>1, <2>1, FragStaysOut
<1>2. CASE Environment
  BY <1>1, <1>2, Around DEF AroundTheTask, Handling
<1>3. CASE Begin \/ BeginFails \/ WriteFails
  BY <1>3, Beginning, BlockEndsRun
<1>4. CASE Publish \/ Writes
  <2>1. pc \in {"publish", "record"}
    BY <1>4, Recording, Finishing, Acknowledging, Forgetting DEF Publish, Writes
  <2>2. UNCHANGED <<way, receipt, key>>
    BY <1>4, WritesHandle DEF Publish
  <2>3. NoRollback
    BY <1>4, StepsOfTheTask, DeliveryKeepsLink
  <2> QED BY <1>1, <2>1, <2>2, <2>3
<1>5. CASE Moves
  <2>1. Delivery /\ key' = key /\ server' = server /\ sent' = sent /\ NoRollback
    BY <1>5, StepsOfTheTask, DeliveryKeepsLink, Moving
  <2>2. HasFrag /\ stale = "no" /\ pc # "none"
    <3>1. Resume \/ Defer \/ FlushNext
      BY <1>5, Moving, Reading DEF FlushStarts
    <3>2. CASE Resume
      BY <3>2 DEF Resume
    <3>3. CASE Defer
      BY <3>3 DEF Defer
    <3>4. CASE FlushNext
      <4>1. PICK f \in mem.frags : Eligible(f) /\ receipt' = items[f[1]]
        BY <3>4 DEF FlushNext
      <4> QED BY <3>4, <4>1 DEF Eligible, FlushNext, Running
    <3> QED BY <3>1, <3>2, <3>3, <3>4
  <2>3. key \in Rooms /\ conn = key /\ mem = saved[key]
    BY <2>2 DEF Running, SessionIsSaved, TypeOK
  <2>4. FragIsOut(key)
    BY <2>1, <2>2, <2>3, ReceivedFragIsOut
  <2> QED BY <2>1, <2>4, <2>3, FragStaysOut
<1> QED BY <1>2, <1>3, <1>4, <1>5, StepsOfTheTask

LEMMA KeepsNothingSkipped ==
    ASSUME TypeOK, SessionIsSaved, FragsAreBehind, Running, ProgressIsPublished, History,
           NothingSkipped, Delivery \/ Environment, TypeOK'
    PROVE  NothingSkipped'
<1> SUFFICES ASSUME NoRollback', NEW r \in Rooms, NEW i \in 1..saved'[r].next
             PROVE  ReachedAll(r, i)'
  BY DEF NothingSkipped, NoRollback
<1>0. NoRollback
  BY DeliveryKeepsLink, Around DEF AroundTheTask
<1>1. /\ saved[r].next \in 0..MaxLen /\ saved'[r].next \in 0..MaxLen /\ Followed(saved[r], server[r])
      /\ Len(server[r]) \in Nat
  <2>1. saved[r] \in Ledgers /\ saved'[r] \in Ledgers /\ server[r] \in Seq(Receipts)
    BY DEF TypeOK
  <2> QED BY <1>0, <2>1, HistoryInParts, LenProperties DEF Ledgers
<1>2. CASE Environment
  <2>1. i \in 1..saved[r].next /\ i \in 1..Len(server[r])
    BY <1>1, <1>2, Around DEF AroundTheTask, Followed
  <2> QED BY <1>0, <1>2, <2>1, StillReachedAround DEF NothingSkipped, NoRollback
<1>3. CASE Delivery
  <2>1. i \in 1..MaxLen
    BY <1>1, BoundsAssumption
  <2>2. CASE i <= saved[r].next
    BY <1>0, <1>1, <1>3, <2>1, <2>2, StillReached DEF NothingSkipped, NoRollback
  <2>3. CASE i > saved[r].next
    <3>1. Writes /\ r = key /\ mem = saved[key] /\ mem' = saved'[key] /\ key \in Rooms
      BY <1>1, <1>3, <2>3, DeliveryKeepsLink, Saving
    <3>2. Acknowledge
      BY <1>1, <2>3, <3>1, Recording, Finishing, Forgetting DEF Writes
    <3>3. /\ pc = "acknowledge" /\ at = mem.next + 1 /\ at \in 1..MaxLen /\ receipt \in Receipts
          /\ at <= Len(server[key]) /\ receipt = server[key][at] /\ ~Flushing
          /\ UNCHANGED <<server, key, sent>>
      BY <3>1, <3>2, InHand, WritesHandle, Acknowledging DEF Running
    <3>4. i = at
      BY <1>1, <2>1, <2>3, <3>1, <3>2, <3>3, Acknowledging
    <3>5. at \notin dups
      <4>1. stale = "no"
        BY <3>3 DEF Running, Handling
      <4> QED BY <1>0, <3>3, <4>1, HistoryInParts
    <3>6. Whole
      BY <3>3, <3>5, ProgressInParts
    <3>7. Owes(r, i)' = Commands[receipt.item] /\ Commands[receipt.item] \in Nat
      <4>1. i \in 1..Len(server[r])
        BY <1>1, <2>1, <3>1, <3>3, <3>4
      <4> QED BY <3>1, <3>3, <3>4, <4>1, Constants DEF Owes
    <3>8. CASE way # "notify"
      BY <3>1, <3>3, <3>4, <3>6, <3>7, <3>8 DEF Whole, ReachedAll, Reached
    <3>9. CASE way = "notify"
      <4>1. sent[key][at][0] > 0
        <5>1. at \in saved[key].notified
          BY <3>1, <3>6, <3>9 DEF Whole
        <5> QED BY <3>1, <5>1, ProgressInParts DEF Fine
      <4>2. CASE receipt.item \in Owned
        <5>1. Commands[receipt.item] = 1
          BY <4>2, ItemsAssumption
        <5> QED BY <3>1, <3>3, <3>4, <3>7, <4>1, <5>1 DEF ReachedAll, Reached
      <4>3. CASE receipt.item \notin Owned
        <5>1. at \in PutOff(key)'
          <6>1. Deferred
            BY <3>9, <4>3 DEF Deferred
          <6>2. CASE receipt.item \in Frags
            <7>1. <<at, receipt.item>> \in saved'[key].frags
              BY <3>1, <3>2, <3>5, <6>1, <6>2, Acknowledging DEF Remembered
            <7> QED BY <3>1, <3>3, <7>1 DEF PutOff
          <6>3. CASE receipt.item \notin Frags
            <7>1. at \in left'[key]
              BY <3>1, <3>2, <6>1, <6>3, Acknowledging DEF TypeOK
            <7> QED BY <3>1, <3>3, <7>1 DEF PutOff
          <6> QED BY <6>2, <6>3
        <5> QED BY <3>1, <3>3, <3>4, <3>7, <4>1, <5>1 DEF ReachedAll, Reached
      <4> QED BY <4>2, <4>3
    <3> QED BY <3>8, <3>9
  <2> QED BY <1>1, <2>1, <2>2, <2>3
<1> QED BY <1>2, <1>3

-----------------------------------------------------------------------------
(* Publications *)

LEMMA KeepsPublishedReceipts ==
    ASSUME TypeOK, SessionIsSaved, FragsAreBehind, Running, PublishedReceipts,
           Delivery \/ Environment, TypeOK'
    PROVE  PublishedReceipts'
<1> SUFFICES ASSUME NoRollback', NEW r \in Rooms, NEW i \in 1..MaxLen, NEW k \in 0..MaxCommands,
                    sent'[r][i][k] > 0
             PROVE  i <= Len(server'[r])
  BY DEF PublishedReceipts
<1>1. CASE Environment
  <2>1. NoRollback /\ sent' = sent /\ Prefix(server[r], server'[r])
    BY <1>1, Around DEF AroundTheTask
  <2>2. server[r] \in Seq(Receipts) /\ server'[r] \in Seq(Receipts)
    BY DEF TypeOK
  <2>3. Len(server[r]) \in Nat /\ Len(server'[r]) \in Nat
    BY <2>2, LenProperties
  <2> QED BY <2>1, <2>3 DEF PublishedReceipts, Prefix
<1>2. CASE Publish
  <2>1. Delivery
    BY <1>2, StepsOfTheTask
  <2>2. NoRollback /\ server' = server
    BY <2>1, DeliveryKeepsLink
  <2>3. CASE r = key /\ i = at
    BY <1>2, <2>2, <2>3, InHand DEF Publish, Handling
  <2>4. CASE ~(r = key /\ i = at)
    BY <1>2, <2>2, <2>4, Publishing DEF PublishedReceipts
  <2> QED BY <2>3, <2>4
<1>3. CASE Delivery /\ ~Publish
  BY <1>3, DeliveryKeepsLink DEF PublishedReceipts
<1> QED BY <1>1, <1>2, <1>3

OwnOrder == \A r \in Rooms : \A i \in 1..MaxLen : \A k \in 0..MaxCommands :
                sent[r][i][k] > 0 => \A l \in 1..(k - 1) : sent[r][i][l] > 0
RoomOrder == NoRollback => \A r \in Rooms : \A i \in 1..MaxLen : \A k \in 0..MaxCommands :
                sent[r][i][k] > 0 => \A j \in 1..(i - 1) : ReachedAll(r, j)
FragOrder == NoRollback => \A r \in Rooms : \A i \in 1..MaxLen : \A k \in 0..MaxCommands :
                sent[r][i][k] > 0 /\ k > 0 /\ server[r][i].item \in FragUpgrades => FragIsOut(r)

LEMMA OrderInParts ==
    /\ PublishedInOrder <=> OwnOrder /\ RoomOrder /\ FragOrder
    /\ PublishedInOrder' <=> OwnOrder' /\ RoomOrder' /\ FragOrder'
BY DEF PublishedInOrder, OwnOrder, RoomOrder, FragOrder, NoRollback

LEMMA EnvironmentKeepsOrder ==
    ASSUME TypeOK, SessionIsSaved, FragsAreBehind, Running, PublishedReceipts, PublishedInOrder,
           Environment, TypeOK'
    PROVE  PublishedInOrder'
<1>1. sent' = sent /\ (NoRollback' => NoRollback)
  BY Around DEF AroundTheTask
<1>2. OwnOrder'
  BY <1>1, OrderInParts DEF OwnOrder
<1>3. ASSUME NoRollback', NEW r \in Rooms, NEW i \in 1..MaxLen, NEW k \in 0..MaxCommands,
             sent[r][i][k] > 0
      PROVE  /\ \A j \in 1..(i - 1) : ReachedAll(r, j)'
             /\ k > 0 /\ server'[r][i].item \in FragUpgrades => FragIsOut(r)'
  <2>1. Len(server[r]) \in Nat /\ i \in 1..Len(server[r])
    <3>1. i <= Len(server[r])
      BY <1>1, <1>3 DEF PublishedReceipts
    <3> QED BY <3>1, LenProperties, BoundsAssumption DEF TypeOK
  <2>2. \A j \in 1..(i - 1) : j \in 1..Len(server[r]) /\ ReachedAll(r, j)
    BY <1>1, <1>3, <2>1, BoundsAssumption, OrderInParts DEF RoomOrder
  <2>3. \A j \in 1..(i - 1) : ReachedAll(r, j)'
    BY <1>3, <2>2, StillReachedAround
  <2>4. server'[r][i] = server[r][i]
    BY <1>3, <2>1, StillReachedAround
  <2>5. k > 0 /\ server[r][i].item \in FragUpgrades => FragIsOut(r)
    BY <1>1, <1>3, OrderInParts DEF FragOrder
  <2> QED BY <1>3, <2>3, <2>4, <2>5, FragStaysOut
<1>4. RoomOrder' /\ FragOrder'
  BY <1>1, <1>3 DEF RoomOrder, FragOrder
<1> QED BY <1>2, <1>4, OrderInParts

LEMMA DeliveryKeepsOrder ==
    ASSUME TypeOK, SessionIsSaved, FragsAreBehind, Running, ProgressIsPublished, History,
           NothingSkipped, UpgradesWait, PublishedInOrder, Delivery, TypeOK'
    PROVE  PublishedInOrder'
<1>0. server' = server /\ (NoRollback' <=> NoRollback)
  BY DeliveryKeepsLink
\* A publication has what precedes it, and nothing is unpublished.
<1>1. ASSUME NEW r \in Rooms, NEW i \in 1..MaxLen, NEW k \in 0..MaxCommands, sent'[r][i][k] > 0
      PROVE  /\ \A l \in 1..(k - 1) : sent[r][i][l] > 0
             /\ NoRollback => /\ \A j \in 1..(i - 1) : ReachedAll(r, j)
                              /\ k > 0 /\ server[r][i].item \in FragUpgrades => FragIsOut(r)
  <2>1. CASE sent[r][i][k] > 0
    BY <2>1, OrderInParts DEF OwnOrder, RoomOrder, FragOrder
  <2>2. CASE ~(sent[r][i][k] > 0)
    <3>1. Publish /\ r = key /\ i = at /\ k = Ordinal
      <4>1. Publish
        BY <1>1, <2>2, DeliveryKeepsLink
      <4> QED BY <1>1, <2>2, <4>1, Publishing
    <3>2. /\ key \in Rooms /\ mem = saved[key] /\ at \in 1..MaxLen /\ mem.next \in Nat
          /\ receipt = server[key][at] /\ at <= mem.next + 1
      BY <3>1, InHand, BoundsAssumption DEF Publish, Handling
    <3>3. \A l \in 1..(k - 1) : sent[r][i][l] > 0
      <4>1. way # "notify" => k = Done + 1 /\ Done = mem.groups[at].done /\ Done \in Nat
        BY <3>1, <3>2, Progress
      <4>2. way = "notify" => k = 0
        BY <3>1, <3>2, Progress
      <4>3. \A l \in 1..mem.groups[at].done : sent[key][at][l] > 0
        BY <3>2, ProgressInParts DEF Fine
      <4> QED BY <3>1, <4>1, <4>2, <4>3
    <3>4. NoRollback => \A j \in 1..(i - 1) : ReachedAll(r, j)
      <4>1. \A j \in 1..(i - 1) : j \in 1..saved[r].next
        BY <3>1, <3>2, BoundsAssumption
      <4> QED BY <4>1 DEF NothingSkipped, NoRollback
    <3>5. NoRollback /\ k > 0 /\ server[r][i].item \in FragUpgrades => FragIsOut(r)
      <4>1. k > 0 => way # "notify"
        BY <3>1, <3>2, Progress
      <4> QED BY <3>1, <3>2, <4>1 DEF UpgradesWait, Publish
    <3> QED BY <3>3, <3>4, <3>5
  <2> QED BY <2>1, <2>2
<1>2. OwnOrder'
  <2> SUFFICES ASSUME NEW r \in Rooms, NEW i \in 1..MaxLen, NEW k \in 0..MaxCommands,
                      sent'[r][i][k] > 0, NEW l \in 1..(k - 1)
               PROVE  sent'[r][i][l] > 0
    BY DEF OwnOrder
  <2>1. l \in 0..MaxCommands /\ sent[r][i][l] > 0
    BY <1>1, Constants
  <2> QED BY <2>1, SentGrows
<1>3. RoomOrder'
  <2> SUFFICES ASSUME NoRollback', NEW r \in Rooms, NEW i \in 1..MaxLen, NEW k \in 0..MaxCommands,
                      sent'[r][i][k] > 0, NEW j \in 1..(i - 1)
               PROVE  ReachedAll(r, j)'
    BY DEF RoomOrder
  <2>1. j \in 1..MaxLen /\ ReachedAll(r, j)
    BY <1>0, <1>1, BoundsAssumption
  <2> QED BY <2>1, StillReached
<1>4. FragOrder'
  <2> SUFFICES ASSUME NoRollback', NEW r \in Rooms, NEW i \in 1..MaxLen, NEW k \in 0..MaxCommands,
                      sent'[r][i][k] > 0, k > 0, server[r][i].item \in FragUpgrades
               PROVE  FragIsOut(r)'
    BY <1>0 DEF FragOrder
  <2>1. FragIsOut(r)
    BY <1>0, <1>1
  <2> QED BY <2>1, FragStaysOut
<1> QED BY <1>2, <1>3, <1>4, OrderInParts

-----------------------------------------------------------------------------
(* Publications of one process *)

\* Before a publication the task's place has been published by earlier processes only.
LEMMA NotYet ==
    ASSUME TypeOK, SessionIsSaved, Running, Unpublished, NoRollback, Publish
    PROVE  sent[key][at][Ordinal] < used["start"]
<1>1. /\ key \in Rooms /\ mem = saved[key] /\ at \in 1..Len(server[key]) /\ at \in 1..MaxLen
      /\ ~Flushing => at = mem.next + 1
      /\ Flushing => <<at, receipt.item>> \in mem.frags
      /\ mem.next \in Nat /\ alive /\ ~broken
  <2>1. Handling
    BY DEF Publish, Handling
  <2>2. Len(server[key]) \in Nat
    BY <2>1, InHand, LenProperties DEF TypeOK
  <2> QED BY <2>1, <2>2, InHand, BoundsAssumption
<1>2. Ordinal \in 0..MaxCommands /\ Done < Due
  BY Publishing
<1>3. ~Recorded(key, at, Ordinal)
  <2>1. CASE way = "notify"
    <3>1. at \notin mem.notified /\ Ordinal = 0
      BY <1>1, <1>2, <2>1, Progress
    <3> QED BY <1>1, <3>1 DEF Recorded
  <2>2. CASE way # "notify"
    <3>1. Ordinal = mem.groups[at].done + 1 /\ mem.groups[at].done \in Nat
      BY <1>1, <2>2, Progress
    <3> QED BY <1>1, <3>1 DEF Recorded
  <2> QED BY <2>1, <2>2
<1>4. ~UnderWay(key, at, Ordinal)
  BY DEF UnderWay, Publish
<1>5. Open(key, at, Ordinal)
  <2>1. CASE ~Flushing
    BY <1>1, <2>1 DEF Open
  <2>2. CASE Flushing
    <3>1. Ordinal > 0
      BY <1>1, <2>2, Progress
    <3>2. \E f \in saved[key].frags : f[1] = at
      BY <1>1, <2>2
    <3> QED BY <3>1, <3>2 DEF Open
  <2> QED BY <2>1, <2>2
<1> QED BY <1>1, <1>2, <1>3, <1>4, <1>5 DEF Unpublished

LEMMA EnvironmentStarts ==
    ASSUME TypeOK, Environment, TypeOK'
    PROVE  /\ used["start"] \in Nat /\ used'["start"] \in Nat
           /\ used'["start"] >= used["start"]
           /\ Start => used'["start"] = used["start"] + 1
           /\ ~Start /\ ~Crash =>
                 /\ used'["start"] = used["start"] /\ alive' = alive /\ (broken => broken')
                 /\ UNCHANGED <<pc, at, way>>
                 /\ Interruptible \/ UNCHANGED <<key, mem, receipt>>
<1> USE DEF TypeOK, Bounded, Spend, LoseConnection
<1>0. used["start"] \in Nat /\ used'["start"] \in Nat
  OBVIOUS
<1>1. CASE Start
  <2>1. /\ used' = [used EXCEPT !["start"] = @ + 1]
        /\ used \in [{"start", "connect", "rollback", "fault"} -> Nat]
    BY <1>1 DEF Start
  <2>2. used'["start"] = used["start"] + 1
    BY <2>1
  <2> QED BY <1>0, <1>1, <2>2
<1>2. CASE Crash
  <2>1. used' = used /\ alive' = FALSE
    BY <1>2 DEF Crash
  <2>2. ~Start
    BY <2>1 DEF Start
  <2> QED BY <1>0, <1>2, <2>1, <2>2
<1>3. CASE Disconnect \/ Packet
  BY <1>3, <1>0 DEF Disconnect, Packet, Start
<1>4. ASSUME NEW q \in Rooms, Connect(q)
      PROVE  /\ used'["start"] = used["start"] /\ alive' = alive /\ (broken => broken')
             /\ UNCHANGED <<pc, at, way>> /\ Interruptible /\ ~Start
  BY <1>4 DEF Connect, Start
<1>5. ASSUME NEW q \in Rooms, NEW x \in Receipts, ServerSend(q, x)
      PROVE  /\ used' = used /\ alive' = alive /\ (broken => broken')
             /\ UNCHANGED <<pc, at, way, key, mem, receipt>> /\ ~Start
  <2>1. UNCHANGED <<used, alive, broken, pc, at, way, key, mem, receipt>>
    BY <1>5 DEF ServerSend
  <2>2. ~Start
    BY <1>0, <2>1 DEF Start
  <2> QED BY <2>1, <2>2
<1>6. ASSUME NEW q \in Rooms, NEW n \in 0..MaxLen, ServerRollback(q, n)
      PROVE  /\ used'["start"] = used["start"] /\ alive' = alive /\ (broken => broken')
             /\ UNCHANGED <<pc, at, way, key, mem, receipt>> /\ ~Start
  <2>1. used'["start"] = used["start"] /\ UNCHANGED <<alive, broken, pc, at, way, key, mem, receipt>>
    BY <1>6 DEF ServerRollback
  <2>2. ~Start
    BY <1>0, <2>1 DEF Start
  <2> QED BY <2>1, <2>2
<1> HIDE DEF TypeOK
<1> QED BY <1>0, <1>1, <1>2, <1>3, <1>4, <1>5, <1>6 DEF Environment

LEMMA KeepsReplay ==
    ASSUME TypeOK, SessionIsSaved, FragsAreBehind, Running, Unpublished, ReplayNeedsRestart,
           Delivery \/ Environment, TypeOK'
    PROVE  ReplayNeedsRestart'
<1> SUFFICES ASSUME NoRollback', NEW r \in Rooms, NEW i \in 1..MaxLen, NEW k \in 0..MaxCommands
             PROVE  sent'[r][i][k] <= used'["start"]
  BY DEF ReplayNeedsRestart, NoRollback
<1>1. sent[r][i][k] \in Nat /\ used["start"] \in Nat
  BY SentCounts DEF TypeOK, Bounded
<1>2. CASE Environment
  <2>1. NoRollback /\ sent' = sent
    BY <1>2, Around DEF AroundTheTask
  <2> QED BY <1>1, <1>2, <2>1, EnvironmentStarts DEF ReplayNeedsRestart, NoRollback
<1>3. CASE Delivery /\ ~Publish
  BY <1>3, DeliveryKeepsLink DEF ReplayNeedsRestart, NoRollback
<1>4. CASE Publish
  <2>1. Delivery
    BY <1>4, StepsOfTheTask
  <2>2. NoRollback /\ used'["start"] = used["start"]
    BY <2>1, DeliveryKeepsLink
  <2>3. sent[key][at][Ordinal] < used["start"]
    BY <1>4, <2>2, NotYet
  <2>4. sent[r][i][k] <= used["start"]
    BY <2>2 DEF ReplayNeedsRestart, NoRollback
  <2>5. sent'[r][i][k] = IF r = key /\ i = at /\ k = Ordinal THEN sent[r][i][k] + 1
                                                             ELSE sent[r][i][k]
    BY <1>4, Publishing
  <2> QED BY <1>1, <2>2, <2>3, <2>4, <2>5
<1> QED BY <1>2, <1>3, <1>4

LEMMA EnvironmentKeepsUnpublished ==
    ASSUME TypeOK, SessionIsSaved, Running, PublishedReceipts, ReplayNeedsRestart, Unpublished,
           Environment, TypeOK'
    PROVE  Unpublished'
<1> SUFFICES ASSUME NoRollback', alive', ~broken',
                    NEW r \in Rooms, NEW i \in 1..Len(server'[r]), NEW k \in 0..MaxCommands,
                    Open(r, i, k)', ~Recorded(r, i, k)', ~UnderWay(r, i, k)'
             PROVE  sent'[r][i][k] < used'["start"]
  BY DEF Unpublished
<1>1. NoRollback /\ UNCHANGED <<saved, sent>> /\ Prefix(server[r], server'[r])
  BY Around DEF AroundTheTask
<1>2. server[r] \in Seq(Receipts) /\ server'[r] \in Seq(Receipts) /\ Len(server'[r]) <= MaxLen
  BY DEF TypeOK
<1>3. Len(server[r]) \in Nat /\ Len(server'[r]) \in Nat
  BY <1>2, LenProperties
<1>4. i \in 1..MaxLen /\ used["start"] \in Nat
  BY <1>2, <1>3, BoundsAssumption DEF TypeOK, Bounded
<1>5. sent[r][i][k] \in Nat
  BY <1>4, SentCounts
<1>6. CASE Start
  <2>1. sent[r][i][k] <= used["start"]
    BY <1>1, <1>4 DEF ReplayNeedsRestart, NoRollback
  <2>2. used'["start"] = used["start"] + 1
    BY <1>6, EnvironmentStarts
  <2> QED BY <1>1, <1>4, <1>5, <2>1, <2>2
<1>7. CASE Crash
  BY <1>7 DEF Crash
<1>8. CASE ~Start /\ ~Crash
  <2>1. /\ used'["start"] = used["start"] /\ alive /\ ~broken
        /\ UNCHANGED <<pc, at, way>>
        /\ pc \in {"none", "await", "yield", "ready", "settle"} \/ UNCHANGED <<key, mem>>
    BY <1>8, EnvironmentStarts DEF Interruptible
  <2>2. UnderWay(r, i, k) => UnderWay(r, i, k)'
    BY <2>1 DEF UnderWay, Ordinal, Done
  <2>3. CASE i <= Len(server[r])
    <3>1. i \in 1..Len(server[r])
      BY <1>3, <2>3
    <3>2. Open(r, i, k) /\ ~Recorded(r, i, k) /\ ~UnderWay(r, i, k)
      BY <1>1, <2>2 DEF Open, Recorded
    <3> QED BY <1>1, <2>1, <3>1, <3>2 DEF Unpublished
  <2>4. CASE i > Len(server[r])
    <3>1. ~(sent[r][i][k] > 0)
      BY <1>1, <1>3, <1>4, <2>4 DEF PublishedReceipts
    <3>2. used["start"] > 0
      BY <2>1 DEF SessionIsSaved
    <3> QED BY <1>1, <1>4, <1>5, <2>1, <3>1, <3>2
  <2> QED BY <1>3, <2>3, <2>4
<1> QED BY <1>6, <1>7, <1>8

\* What is open and not recorded after a write was so before, and not under way.
LEMMA WritesClose ==
    ASSUME TypeOK, SessionIsSaved, FragsAreBehind, Running, Writes,
           NEW r \in Rooms, NEW i \in 1..MaxLen, NEW k \in 0..MaxCommands,
           Open(r, i, k)', ~Recorded(r, i, k)', ~UnderWay(r, i, k)'
    PROVE  Open(r, i, k) /\ ~Recorded(r, i, k) /\ ~UnderWay(r, i, k)
<1>1. /\ key \in Rooms /\ mem = saved[key] /\ mem' = saved'[key] /\ mem \in Ledgers
      /\ \A q \in Rooms : q # key => saved'[q] = saved[q]
      /\ UNCHANGED <<key, at, way, receipt>> /\ at \in 1..MaxLen /\ mem.next \in Nat
      /\ ~Flushing => at = mem.next + 1
      /\ Flushing => at <= mem.next /\ way # "notify"
  <2>1. Handling
    BY WritesHandle
  <2> QED BY <2>1, Saving, WritesHandle, InHand, Progress
<1>2. k \in Int /\ i \in Int /\ at \in Int /\ MaxCommands \in Nat
  BY <1>1, Constants, BoundsAssumption
<1>3. CASE r # key
  BY <1>1, <1>3 DEF Open, Recorded, UnderWay
<1>4. CASE r = key /\ Record
  <2>1. /\ pc = "record" /\ UNCHANGED <<mem.next, mem.frags>>
        /\ way = "notify" => /\ mem'.groups = mem.groups
                             /\ mem'.notified = mem.notified \union {at}
        /\ way # "notify" => /\ mem'.groups = [mem.groups EXCEPT ![at] =
                                                  [item |-> receipt.item, done |-> Done + 1]]
                             /\ mem'.notified = mem.notified
    BY <1>4, Recording
  <2>2. Open(r, i, k)
    BY <1>1, <1>4, <2>1 DEF Open
  <2>3. CASE way = "notify"
    <3>1. Ordinal = 0
      BY <1>1, <2>3, Progress
    <3>2. ~Recorded(r, i, k) /\ ~(i = at /\ k = 0)
      BY <1>1, <1>4, <2>1, <2>3 DEF Recorded
    <3> QED BY <2>1, <2>2, <3>1, <3>2 DEF UnderWay
  <2>4. CASE way # "notify"
    <3>1. Ordinal = Done + 1 /\ Done = mem.groups[at].done /\ Done \in Nat
      BY <1>1, <2>4, Progress
    <3>2. mem.groups \in [1..MaxLen -> [item : Items, done : Nat]]
      BY <1>1 DEF Ledgers
    <3>3. /\ mem'.groups[at].done = Done + 1
          /\ \A j \in 1..MaxLen : j # at => mem'.groups[j] = mem.groups[j]
      <4>1. mem'.groups[at] = [item |-> receipt.item, done |-> Done + 1]
        BY <1>1, <2>1, <2>4, <3>2
      <4>2. mem'.groups[at].done = Done + 1
        BY <4>1
      <4>3. \A j \in 1..MaxLen : j # at => mem'.groups[j] = mem.groups[j]
        BY <2>1, <2>4, <3>2
      <4> QED BY <4>2, <4>3
    <3>4. ~Recorded(r, i, k) /\ ~(i = at /\ k = Done + 1)
      BY <1>1, <1>2, <1>4, <2>1, <2>4, <3>1, <3>3 DEF Recorded
    <3> QED BY <2>1, <2>2, <3>1, <3>4 DEF UnderWay
  <2> QED BY <2>3, <2>4
<1>5. CASE r = key /\ Complete
  <2>1. /\ pc = "publish" /\ UNCHANGED <<mem.next, mem.frags, mem.notified>>
        /\ pc' = IF Flushing THEN "forget" ELSE "acknowledge"
        /\ mem'.groups = IF way = "notify" THEN mem.groups ELSE [mem.groups EXCEPT ![at] = NoGroup]
    BY <1>5, Finishing
  <2>2. Open(r, i, k) /\ ~UnderWay(r, i, k)
    BY <1>1, <1>5, <2>1 DEF Open, UnderWay
  <2>3. ~Recorded(r, i, k)
    <3>1. CASE k = 0 \/ way = "notify"
      BY <1>1, <1>5, <2>1, <3>1 DEF Recorded
    <3>2. CASE k > 0 /\ way # "notify"
      <4>1. i # at
        BY <1>1, <1>5, <2>1, <3>2 DEF UnderWay
      <4>2. mem'.groups[i] = mem.groups[i]
        BY <1>1, <2>1, <3>2, <4>1 DEF Ledgers
      <4> QED BY <1>1, <1>5, <3>2, <4>2 DEF Recorded
    <3> QED BY <1>2, <3>1, <3>2
  <2> QED BY <2>2, <2>3
<1>6. CASE r = key /\ Acknowledge
  <2>1. /\ pc = "acknowledge" /\ mem'.next = mem.next + 1 /\ UNCHANGED <<mem.groups, mem.notified>>
        /\ mem'.frags = mem.frags \/ mem'.frags = Remembered
        /\ way # "notify" => mem'.frags = mem.frags
        /\ at = mem.next + 1
    BY <1>1, <1>6, Acknowledging DEF Running, Remembered, Deferred
  <2>2. ~Recorded(r, i, k)
    BY <1>1, <1>6, <2>1 DEF Recorded
  <2>3. mem.frags \subseteq (1..MaxLen) \X Items /\ \A f \in mem.frags : f[1] <= mem.next
    BY <1>1 DEF FragsAreBehind, Ledgers
  <2>4. CASE i > mem.next + 1
    BY <1>1, <1>2, <1>6, <2>1, <2>2, <2>4 DEF Open, UnderWay
  <2>5. CASE i <= mem.next + 1
    <3>1. k > 0 /\ \E f \in mem'.frags : f[1] = i
      BY <1>1, <1>2, <1>6, <2>1, <2>5 DEF Open
    <3>2. CASE i = at
      <4>1. way = "notify"
        <5>1. ASSUME way # "notify" PROVE FALSE
          <6>1. \E f \in mem.frags : f[1] = at
            BY <2>1, <3>1, <3>2, <5>1
          <6> QED BY <1>1, <2>1, <2>3, <6>1
        <5> QED BY <5>1
      <4> QED BY <1>1, <1>2, <1>6, <2>1, <2>2, <3>2, <4>1 DEF Open, UnderWay
    <3>3. CASE i # at
      <4>1. \E f \in mem.frags : f[1] = i
        <5>1. PICK f \in mem'.frags : f[1] = i
          BY <3>1
        <5>2. <<at, receipt.item>>[1] = at
          OBVIOUS
        <5>3. f # <<at, receipt.item>>
          BY <3>3, <5>1, <5>2
        <5>4. f \in mem.frags
          BY <2>1, <5>1, <5>3 DEF Remembered
        <5> QED BY <5>1, <5>4
      <4> QED BY <1>1, <1>6, <2>2, <3>1, <3>3, <4>1 DEF Open, UnderWay
    <3> QED BY <3>2, <3>3
  <2> QED BY <1>1, <1>2, <2>4, <2>5
<1>7. CASE r = key /\ Forget
  <2>1. /\ pc = "forget" /\ UNCHANGED <<mem.next, mem.groups, mem.notified>>
        /\ mem'.frags = {f \in mem.frags : f[1] # at} /\ Flushing
    BY <1>7, Forgetting DEF Running
  <2>2. Open(r, i, k) /\ ~Recorded(r, i, k) /\ i # at
    BY <1>1, <1>2, <1>7, <2>1 DEF Open, Recorded
  <2> QED BY <2>2 DEF UnderWay
<1> QED BY <1>3, <1>4, <1>5, <1>6, <1>7 DEF Writes

LEMMA DeliveryKeepsUnpublished ==
    ASSUME TypeOK, SessionIsSaved, FragsAreBehind, Running, Unpublished, Delivery, TypeOK'
    PROVE  Unpublished'
<1> SUFFICES ASSUME NoRollback', alive', ~broken',
                    NEW r \in Rooms, NEW i \in 1..Len(server'[r]), NEW k \in 0..MaxCommands,
                    Open(r, i, k)', ~Recorded(r, i, k)', ~UnderWay(r, i, k)'
             PROVE  sent'[r][i][k] < used'["start"]
  BY DEF Unpublished
<1>1. /\ NoRollback /\ alive /\ ~broken /\ server' = server /\ used'["start"] = used["start"]
      /\ ~Publish => sent' = sent
      /\ ~Writes => UNCHANGED <<saved, mem>>
  BY DeliveryKeepsLink
<1>2. i \in 1..Len(server[r]) /\ i \in 1..MaxLen
  <2>1. server[r] \in Seq(Receipts) /\ Len(server[r]) <= MaxLen
    BY DEF TypeOK
  <2> QED BY <1>1, <2>1, LenProperties, BoundsAssumption
<1>3. Open(r, i, k) /\ ~Recorded(r, i, k) /\ ~UnderWay(r, i, k)
  <2>1. CASE Writes
    BY <1>2, <2>1, WritesClose
  <2>2. CASE ~Writes
    <3>1. Open(r, i, k) /\ ~Recorded(r, i, k)
      BY <1>1, <2>2 DEF Open, Recorded
    <3>2. pc \notin {"record", "acknowledge", "forget"}
      <4>1. ~BeginFails /\ ~WriteFails
        BY BlockEndsRun
      <4>2. Begin \/ Publish \/ Moves => pc \notin {"record", "acknowledge", "forget"}
        BY Moving DEF Begin, Publish
      <4> QED BY <2>2, <4>1, <4>2, StepsOfTheTask
    <3> QED BY <3>1, <3>2 DEF UnderWay
  <2> QED BY <2>1, <2>2
<1>4. sent[r][i][k] < used["start"]
  BY <1>1, <1>2, <1>3 DEF Unpublished
<1>5. CASE Publish
  <2>1. pc' = "record" /\ UNCHANGED <<key, at, way, mem>>
    BY <1>5 DEF Publish
  <2>2. ~(r = key /\ i = at /\ k = Ordinal)
    BY <2>1 DEF UnderWay, Ordinal, Done
  <2> QED BY <1>1, <1>2, <1>4, <1>5, <2>2, Publishing
<1> QED BY <1>1, <1>4, <1>5

-----------------------------------------------------------------------------
(* The invariant *)

LEMMA InitEstablishesInv ==
    ASSUME Init
    PROVE  Inv
<1> USE DEF Init
<1>1. TypeOK
  <2>1. <<>> \in Seq(Receipts) /\ Len(<<>>) = 0
    BY EmptySeq
  <2>2. sent \in [Rooms -> [1..MaxLen -> [0..MaxCommands -> Nat]]]
    OBVIOUS
  <2>3. used \in [Bounded -> Nat] /\ pc \in Pcs /\ way \in Ways /\ stale \in {"no", "work", "rebind"}
    BY DEF Pcs, Ways
  <2>4. server \in [Rooms -> Seq(Receipts)] /\ \A r \in Rooms : Len(server[r]) <= MaxLen
    BY <2>1, BoundsAssumption
  <2>5. saved \in [Rooms -> Ledgers] /\ mem \in Ledgers
    BY EmptyLedger
  <2>6. /\ at \in 0..MaxLen /\ receipt \in Receipts
        /\ dups \subseteq 1..MaxLen /\ items \in Seq(Receipts)
    BY <2>1, Constants, BoundsAssumption
  <2>7. /\ conn \in Rooms \union {NoRoom} /\ key \in Rooms \union {NoRoom}
        /\ left \in [Rooms -> SUBSET (1..MaxLen)]
    OBVIOUS
  <2>8. alive = FALSE /\ ready = FALSE /\ authority = FALSE /\ broken = FALSE /\ full = FALSE
    OBVIOUS
  <2> HIDE DEF Init
  <2> QED BY <2>2, <2>3, <2>4, <2>5, <2>6, <2>7, <2>8 DEF TypeOK
<1>2. SessionIsSaved /\ Running
  BY DEF SessionIsSaved, Running, Handling
<1>3. Observed /\ ProgressIsPublished /\ FragsAreBehind
  <2>1. \A r \in Rooms : saved[r] = Empty
    OBVIOUS
  <2>2. Observed
    BY <2>1, EmptyLedger DEF Observed, Empty
  <2>3. ProgressIsPublished
    BY <2>1, EmptyLedger, Constants DEF ProgressIsPublished
  <2>4. FragsAreBehind
    BY <2>1, EmptyLedger DEF FragsAreBehind
  <2> QED BY <2>2, <2>3, <2>4
<1>4. History
  <2>1. \A r \in Rooms : /\ saved[r] = Empty /\ server[r] = <<>> /\ <<>> \in Seq(Receipts)
                         /\ left[r] = {}
    BY EmptySeq
  <2>2. \A r \in Rooms : Followed(saved[r], server[r])
    <3>1. ItemIds(SubSeq(<<>>, 1, 0)) = <<>> /\ Len(<<>>) = 0
      BY EmptySeq, NothingYet
    <3>2. Followed(Empty, <<>>)
      BY <3>1, EmptyLedger DEF Followed
    <3> QED BY <2>1, <3>2
  <2>3. \A r \in Rooms : Counted(saved[r], server[r])
    <3>1. \A x : Count(<<>>, 0, x) = 0
      <4>1. \A x : {j \in 1..0 : <<>>[j] = x} = {}
        OBVIOUS
      <4> QED BY <4>1, FS_EmptySet DEF Count
    <3> QED BY <2>1, <3>1 DEF Counted, Empty
  <2>4. \A r \in Rooms : Theirs(saved[r], server[r], left[r])
    BY <2>1, EmptyLedger DEF Theirs
  <2> QED BY <2>2, <2>3, <2>4, HistoryInParts
<1>5. NothingSkipped
  BY EmptyLedger DEF NothingSkipped
<1>6. \A r \in Rooms : \A i \in 1..MaxLen : \A k \in 0..MaxCommands : sent[r][i][k] = 0
  OBVIOUS
<1>7. PublishedReceipts /\ PublishedInOrder
  BY <1>6 DEF PublishedReceipts, PublishedInOrder
<1>8. ReplayNeedsRestart
  BY <1>6 DEF ReplayNeedsRestart, Bounded
<1>9. Unpublished /\ UpgradesWait
  BY DEF Unpublished, UpgradesWait
<1> QED BY <1>1, <1>2, <1>3, <1>4, <1>5, <1>7, <1>8, <1>9 DEF Inv, History

LEMMA DeliveryKeepsInv ==
    ASSUME Inv, Delivery
    PROVE  Inv'
<1> USE DEF Inv, History
<1>1. TypeOK'
  BY DeliveryKeepsTypes
<1>2. SessionIsSaved' /\ FragsAreBehind' /\ Running'
  BY DeliveryKeepsSession, KeepsFragsBehind, DeliveryKeepsRunning
<1>3. Observed' /\ ProgressIsPublished'
  BY <1>1, DeliveryKeepsObserved, DeliveryKeepsProgress
<1>4. LedgerFollowsServer' /\ HistoryIsCounted' /\ PutOffIsTheirs'
  BY <1>1, DeliveryKeepsHistory
<1>5. UpgradesWait' /\ NothingSkipped' /\ PublishedReceipts' /\ PublishedInOrder'
  BY <1>1, KeepsUpgradesWait, KeepsNothingSkipped, KeepsPublishedReceipts, DeliveryKeepsOrder
<1>6. ReplayNeedsRestart' /\ Unpublished'
  BY <1>1, KeepsReplay, DeliveryKeepsUnpublished
<1> QED BY <1>1, <1>2, <1>3, <1>4, <1>5, <1>6

LEMMA EnvironmentKeepsInv ==
    ASSUME Inv, Environment
    PROVE  Inv'
<1> USE DEF Inv, History
<1>1. TypeOK'
  BY EnvironmentKeepsTypes
<1>2. SessionIsSaved' /\ FragsAreBehind' /\ Running'
  BY EnvironmentKeepsSession, KeepsFragsBehind, EnvironmentKeepsRunning
<1>3. Observed' /\ ProgressIsPublished'
  BY <1>1, EnvironmentKeepsObserved, EnvironmentKeepsProgress
<1>4. LedgerFollowsServer' /\ HistoryIsCounted' /\ PutOffIsTheirs'
  BY <1>1, EnvironmentKeepsHistory
<1>5. UpgradesWait' /\ NothingSkipped' /\ PublishedReceipts' /\ PublishedInOrder'
  BY <1>1, KeepsUpgradesWait, KeepsNothingSkipped, KeepsPublishedReceipts, EnvironmentKeepsOrder
<1>6. ReplayNeedsRestart' /\ Unpublished'
  BY <1>1, KeepsReplay, EnvironmentKeepsUnpublished
<1> QED BY <1>1, <1>2, <1>3, <1>4, <1>5, <1>6

LEMMA StepKeepsInv ==
    ASSUME Inv, [Next]_vars
    PROVE  Inv'
<1>1. CASE UNCHANGED vars
  BY <1>1 DEF Inv, TypeOK, SessionIsSaved, FragsAreBehind, Running, Handling, Flushing, Done, Due,
        Ordinal, Observed, ProgressIsPublished, LedgerFollowsServer, HistoryIsCounted,
        PutOffIsTheirs, UpgradesWait, FragIsOut, NothingSkipped, ReachedAll, Reached, PutOff, Owes,
        PublishedReceipts, PublishedInOrder, ReplayNeedsRestart, Unpublished, Open, Recorded,
        UnderWay, NoRollback
<1>2. CASE Next
  BY <1>2, DeliveryKeepsInv, EnvironmentKeepsInv DEF Next, Environment
<1> QED BY <1>1, <1>2

\* Everything below follows from one inductive invariant: what a session has in memory is
\* what its file has; a run that was not disturbed handles the receipt behind the cursor of
\* the room it is connected to, or a frag item its ledger remembers; and what the ledger
\* records has been published.
THEOREM DeliveryInvariant == Spec => []Inv
<1>1. Init => Inv
  BY InitEstablishesInv
<1>2. Inv /\ [Next]_vars => Inv'
  BY StepKeepsInv
<1> QED BY <1>1, <1>2, PTL DEF Spec

\* Types are kept.
THEOREM DeliveryTypes == Spec => []TypeOK
<1>1. Inv => TypeOK
  BY DEF Inv
<1> QED BY <1>1, DeliveryInvariant, PTL

\* No receipt is skipped: what the cursor on disk has passed has reached the spool, or its
\* notification has and the rest is put off where it will be found again, whatever crash,
\* failed write or deferral intervenes.
THEOREM NoReceiptIsSkipped == Spec => []NothingSkipped
<1>1. Inv => NothingSkipped
  BY DEF Inv
<1> QED BY <1>1, DeliveryInvariant, PTL

\* Commands reach the spool in the order of their receipt, after those of the receipts
\* before it that are not put off, and an upgrade's after the frag grenade's.
THEOREM PublicationsAreOrdered == Spec => []PublishedInOrder
<1>1. Inv => PublishedInOrder
  BY DEF Inv
<1> QED BY <1>1, DeliveryInvariant, PTL

\* One process publishes no command twice, neither in the loop nor in a flush.
THEOREM OneProcessPublishesOnce == Spec => []ReplayNeedsRestart
<1>1. Inv => ReplayNeedsRestart
  BY DEF Inv
<1> QED BY <1>1, DeliveryInvariant, PTL

\* The processed items on disk are those the server sent first.
THEOREM LedgerIsHistory == Spec => []LedgerFollowsServer
<1>1. Inv => LedgerFollowsServer
  BY DEF Inv
<1> QED BY <1>1, DeliveryInvariant, PTL

-----------------------------------------------------------------------------
(* What a publication may be *)

\* What is published is the next command of the receipt in hand.
LEMMA OnlyPublishPublishes ==
    ASSUME Inv, [Next]_vars, NEW r \in Rooms, NEW i \in 1..MaxLen, NEW k \in 0..MaxCommands,
           Published(r, i, k)
    PROVE  Publish /\ r = key /\ i = at /\ k = Ordinal
<1>1. Publish
  <2>1. sent' # sent
    BY DEF Published
  <2>2. CASE Environment
    BY <2>1, <2>2, Around DEF Inv, AroundTheTask
  <2>3. CASE Delivery
    BY <2>1, <2>3, DeliveryKeepsLink DEF Inv
  <2> QED BY <2>1, <2>2, <2>3 DEF Next, Environment
<1>2. sent'[r][i][k] = IF r = key /\ i = at /\ k = Ordinal THEN sent[r][i][k] + 1
                                                           ELSE sent[r][i][k]
  BY <1>1, Publishing DEF Inv
<1> QED BY <1>1, <1>2 DEF Published

\* Nothing is published again that the ledger on disk records as published, and behind its
\* cursor nothing but the frag items it remembers.
THEOREM LedgerIsRespected == Spec => NotBehindLedger
<1>1. ASSUME Inv, [Next]_vars, NEW r \in Rooms, NEW i \in 1..MaxLen, NEW k \in 0..MaxCommands,
             Published(r, i, k)
      PROVE  IF k = 0 THEN i > saved[r].next /\ i \notin saved[r].notified
             ELSE /\ k > saved[r].groups[i].done
                  /\ i > saved[r].next \/ <<i, receipt.item>> \in saved[r].frags
  <2>1. Publish /\ r = key /\ i = at /\ k = Ordinal
    BY <1>1, OnlyPublishPublishes
  <2>2. /\ mem = saved[key] /\ mem.next \in Nat /\ at \in 1..MaxLen
        /\ ~Flushing => at = mem.next + 1
        /\ Flushing => <<at, receipt.item>> \in mem.frags
    BY <1>1, <2>1, InHand DEF Inv, Publish, Handling
  <2>3. Done < Due /\ Done \in Nat
    BY <1>1, <2>1, <2>2, Publishing, Progress DEF Inv
  <2>4. CASE way = "notify"
    BY <1>1, <2>1, <2>2, <2>3, <2>4, Progress DEF Inv
  <2>5. CASE way # "notify"
    <3>1. k = mem.groups[at].done + 1 /\ mem.groups[at].done \in Nat
      BY <1>1, <2>1, <2>2, <2>3, <2>5, Progress DEF Inv
    <3> QED BY <2>1, <2>2, <3>1
  <2> QED BY <2>4, <2>5
<1>2. Inv /\ [Next]_vars =>
          [\A r \in Rooms, i \in 1..MaxLen, k \in 0..MaxCommands : Published(r, i, k) =>
              IF k = 0 THEN i > saved[r].next /\ i \notin saved[r].notified
              ELSE /\ k > saved[r].groups[i].done
                   /\ i > saved[r].next \/ <<i, receipt.item>> \in saved[r].frags]_vars
  BY <1>1
<1> QED BY <1>2, DeliveryInvariant, PTL DEF Spec, NotBehindLedger

\* A receipt is published into the room, and at the position, it was read from.
THEOREM PublicationsBelong == Spec => PublishedWhereItBelongs
<1>1. ASSUME Inv, [Next]_vars, NEW r \in Rooms, NEW i \in 1..MaxLen, NEW k \in 0..MaxCommands,
             Published(r, i, k)
      PROVE  i <= Len(server[r]) /\ server[r][i] = receipt /\ conn = r
  <2>1. Publish /\ r = key /\ i = at
    BY <1>1, OnlyPublishPublishes
  <2> QED BY <1>1, <2>1, InHand DEF Inv, Publish, Handling
<1>2. Inv /\ [Next]_vars =>
          [\A r \in Rooms, i \in 1..MaxLen, k \in 0..MaxCommands : Published(r, i, k) =>
              /\ i <= Len(server[r]) /\ server[r][i] = receipt
              /\ conn = r]_vars
  BY <1>1
<1> QED BY <1>2, DeliveryInvariant, PTL DEF Spec, PublishedWhereItBelongs

\* The room's history begins with the items the ledger holds as processed, whenever
\* something is published and no duplicate was passed.
THEOREM PublishedOntoMatchingHistory == Spec => OnlyOntoMatchingHistory
<1>1. ASSUME Inv, [Next]_vars, NEW r \in Rooms, NEW i \in 1..MaxLen, NEW k \in 0..MaxCommands,
             Published(r, i, k)
      PROVE  /\ saved[r].next <= Len(server[r])
             /\ dups \intersect (1..saved[r].next) = {} =>
                   saved[r].ids = ItemIds(SubSeq(server[r], 1, saved[r].next))
  <2>1. Publish /\ r = key
    BY <1>1, OnlyPublishPublishes
  <2>2. /\ mem = saved[key] /\ mem.next \in Nat /\ key \in Rooms /\ conn = key
        /\ pc = "publish" /\ stale = "no"
    BY <1>1, <2>1, InHand DEF Inv, Publish, Handling
  <2>3. /\ items \in Seq(Receipts) /\ server[key] \in Seq(Receipts)
        /\ Len(items) \in Nat /\ Len(server[key]) \in Nat
    BY <1>1, <2>2, LenProperties DEF Inv, TypeOK
  <2>4. Prefix(items, server[key]) /\ mem.next <= Len(items)
    BY <1>1, <2>2, RoomsAssumption DEF Inv, SessionIsSaved, Running
  <2>5. mem.next <= Len(server[key])
    BY <2>2, <2>3, <2>4 DEF Prefix
  <2>6. SubSeq(items, 1, mem.next) = SubSeq(server[key], 1, mem.next)
    <3>1. mem.next \in 0..Len(items)
      BY <2>2, <2>3, <2>4
    <3> QED BY <2>3, <2>4, <3>1, SamePrefix
  <2>7. dups \intersect (1..mem.next) = {} => mem.ids = ItemIds(SubSeq(items, 1, mem.next))
    BY <1>1, <2>2 DEF Inv, Observed
  <2>8. dups \intersect (1..mem.next) = {} => mem.ids = ItemIds(SubSeq(server[key], 1, mem.next))
    BY <2>6, <2>7, Zenon
  <2> QED BY <2>1, <2>2, <2>5, <2>8
<1>2. Inv /\ [Next]_vars =>
          [\A r \in Rooms, i \in 1..MaxLen, k \in 0..MaxCommands : Published(r, i, k) =>
              /\ saved[r].next <= Len(server[r])
              /\ dups \intersect (1..saved[r].next) = {} =>
                    saved[r].ids = ItemIds(SubSeq(server[r], 1, saved[r].next))]_vars
  BY <1>1
<1> QED BY <1>2, DeliveryInvariant, PTL DEF Spec, OnlyOntoMatchingHistory
=============================================================================
