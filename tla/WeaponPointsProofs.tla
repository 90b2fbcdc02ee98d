------------------------- MODULE WeaponPointsProofs -------------------------
(***************************************************************************)
(* Weapon upgrade points for any set of receipts and for any bounds: types,*)
(* that no point is paid twice or without its receipt on disk, and that    *)
(* the cursor passes only receipts the ledger holds.                       *)
(***************************************************************************)
EXTENDS WeaponPoints, SequenceTheorems, TLAPS

USE DEF vars, native, task, bridge

-----------------------------------------------------------------------------
(* The inductive invariant *)

Prefix(a, h) == Len(a) <= Len(h) /\ \A k \in 1..Len(a) : a[k] = h[k]

\* While it runs, and while connected unless blocked, the session is what is on disk.
SessionIsSaved ==
    /\ connected => alive
    /\ pc # "none" => alive /\ mem = saved
    /\ connected /\ ~broken => mem = saved

\* What the delivery has established where it is.
Progress ==
    /\ pc = "none" => at = 0 /\ authoritative = <<>>
    /\ pc = "next" => at = 0
    /\ at # 0 => at = mem.next + 1
    /\ pc \in {"rebuild", "record", "acknowledge"} => at # 0
    /\ pc = "rebuild" => mem.ledger = NoLedger
    /\ pc = "owner" /\ at = 0 => mem.ledger # NoLedger
    /\ pc \in {"record", "observe", "grant", "acknowledge"} => mem.ledger # NoLedger
    /\ pc \in {"observe", "grant", "acknowledge"} /\ at # 0 => Existing(mem.ledger, at) # {}
    /\ pc = "observe" => OwnedBy(mem.ledger, authoritative)
    /\ pc = "grant" => expected < Len(mem.ledger)

\* No request, awaited or not, expects as many points as the ledger has.
Requested ==
    /\ checkpoint <= gained
    /\ late # {} => saved.ledger # NoLedger
    /\ saved.ledger # NoLedger => \A e \in late : e < Len(saved.ledger)

\* What the bridge holds of the history is its beginning.
HistoryIsExtended ==
    /\ Prefix(items, history)
    /\ ~stale \/ used["rollback"] = 0 => Prefix(authoritative, history)

\* Every entry is a receipt of its own.
LedgerFits ==
    saved.ledger # NoLedger =>
        \A k \in 1..Len(saved.ledger) :
            /\ saved.ledger[k].index # 0
            /\ used["rollback"] = 0 => /\ k <= saved.ledger[k].index
                                       /\ saved.ledger[k].index <= Len(history)

Inv == /\ TypeOK /\ SessionIsSaved /\ Progress /\ Requested
       /\ OwnedBeforeGranted /\ AcknowledgedIsOwned
       /\ HistoryIsExtended /\ LedgerFits /\ NeverOverpaid

-----------------------------------------------------------------------------
(* The ledger *)

\* Recording adds at most the receipt that is delivered, at the end.
LEMMA Recording ==
    ASSUME Inv, pc = "record", Recordable
    PROVE  /\ Recorded \in Seq(Entries)
           /\ Existing(Recorded, at) # {}
           /\ Len(mem.ledger) <= Len(Recorded)
           /\ \A k \in 1..Len(mem.ledger) : Recorded[k] = mem.ledger[k]
           /\ \A k \in 1..Len(Recorded) : k > Len(mem.ledger) =>
                 /\ k = Len(mem.ledger) + 1 /\ Recorded[k].index = at /\ at <= Len(authoritative)
                 /\ \A j \in 1..Len(mem.ledger) : mem.ledger[j].index < at
<1>1. mem.ledger \in Seq(Entries)
  BY DEF Inv, TypeOK, Progress, States
<1>2. CASE Existing(mem.ledger, at) # {}
  BY <1>1, <1>2 DEF Recorded
<1>3. CASE Existing(mem.ledger, at) = {}
  <2>1. at \in 1..Len(authoritative)
    BY DEF Inv, TypeOK, Progress, Recordable
  <2>2. Entry \in Entries /\ Entry.index = at
    BY <2>1 DEF Entry, Entries, Inv, TypeOK
  <2>3. Recorded = Append(mem.ledger, Entry)
    BY <1>3 DEF Recorded
  <2>4. /\ Recorded \in Seq(Entries) /\ Len(Recorded) = Len(mem.ledger) + 1
        /\ \A k \in 1..Len(mem.ledger) : Recorded[k] = mem.ledger[k]
        /\ Recorded[Len(mem.ledger) + 1] = Entry
    BY <1>1, <2>2, <2>3, AppendProperties
  <2>5. Len(mem.ledger) \in Nat
    BY <1>1
  <2>6. Len(mem.ledger) + 1 \in Existing(Recorded, at)
    BY <2>2, <2>4, <2>5 DEF Existing
  <2>7. \A j \in 1..Len(mem.ledger) : mem.ledger[j].index < at
    BY <1>3 DEF Recordable
  <2> QED BY <2>1, <2>2, <2>4, <2>5, <2>6, <2>7
<1> QED BY <1>2, <1>3

LEMMA Indexes ==
    ASSUME NEW l \in Seq(Entries), NEW k \in 1..Len(l)
    PROVE  l[k].index \in Nat
<1>1. l[k] \in Entries
  OBVIOUS
<1> QED BY <1>1 DEF Entries

Rebuilt == [k \in 1..gained |-> [index |-> k, receipt |-> authoritative[k]]]

\* A rebuilt ledger has as many receipts as the game has points.
LEMMA Rebuilding ==
    ASSUME TypeOK, gained <= Len(authoritative)
    PROVE  /\ Rebuilt \in Seq(Entries) /\ Len(Rebuilt) = gained
           /\ \A k \in 1..gained : Rebuilt[k].index = k
<1>1. \A k \in 1..gained : [index |-> k, receipt |-> authoritative[k]] \in Entries
  BY DEF TypeOK, Entries
<1>2. Rebuilt \in [1..gained -> Entries] /\ gained \in Nat
  BY <1>1 DEF TypeOK, Rebuilt
<1> QED BY <1>2, IsASeq DEF Rebuilt

\* What happens around a run of the delivery.
Environment == \/ Packet \/ Disconnect \/ Connect \/ Start \/ Crash \/ LoseState
               \/ GameSaves \/ GameLoads
               \/ \E r \in Ids : ServerSend(r)
               \/ \E n \in 0..MaxLen : ServerRollback(n)
               \/ \E e \in late : LateGrant(e)

-----------------------------------------------------------------------------
(* Types *)

LEMMA NoReceipts == <<>> \in Seq(Ids)
OBVIOUS

LEMMA EnvironmentKeepsTypes ==
    ASSUME TypeOK, Environment
    PROVE  TypeOK'
<1> USE DEF TypeOK, Empty, States, Pcs, Bounded, Spend, NoTask
<1>1. CASE Packet
  BY <1>1 DEF Packet
<1>2. CASE Disconnect
  BY <1>2, NoReceipts DEF Disconnect
<1>3. CASE Connect
  BY <1>3 DEF Connect
<1>4. CASE Start
  BY <1>4 DEF Start
<1>5. CASE Crash
  BY <1>5, NoReceipts DEF Crash, Forsaken
<1>6. CASE LoseState
  BY <1>6 DEF LoseState
<1>7. CASE GameSaves
  BY <1>7 DEF GameSaves
<1>8. CASE GameLoads
  BY <1>8 DEF GameLoads
<1>9. ASSUME NEW r \in Ids, ServerSend(r) PROVE TypeOK'
  BY <1>9 DEF ServerSend
<1>10. ASSUME NEW n \in 0..MaxLen, ServerRollback(n) PROVE TypeOK'
  <2>1. history' \in Seq(Ids)
    BY <1>10, SubSeqProperties, BoundsAssumption DEF ServerRollback
  <2>2. items' \in Seq(Ids) /\ authoritative' \in Seq(Ids)
    BY <1>10, NoReceipts DEF ServerRollback
  <2>3. used' \in [Bounded -> Nat]
    BY <1>10 DEF ServerRollback
  <2> QED BY <1>10, <2>1, <2>2, <2>3 DEF ServerRollback
<1>11. ASSUME NEW e \in late, LateGrant(e) PROVE TypeOK'
  BY <1>11 DEF LateGrant
<1> QED BY <1>1, <1>2, <1>3, <1>4, <1>5, <1>6, <1>7, <1>8, <1>9, <1>10, <1>11 DEF Environment

\* A run that ends leaves nothing behind.
LEMMA EndOfRun ==
    ASSUME NoTask
    PROVE  authoritative' \in Seq(Ids) /\ pc' \in Pcs /\ at' \in Nat /\ expected' \in Nat
BY DEF NoTask, Pcs

LEMMA CursorMoves ==
    ASSUME NEW state \in States
    PROVE  [state EXCEPT !.next = @ + 1] \in States
BY DEF States

LEMMA DeliveryKeepsTypes ==
    ASSUME Inv, Run \/ NoAnswer \/ NotifyRefused \/ WriteFails
    PROVE  TypeOK'
<1> USE DEF Pcs, Waiting, Bounded, Spend, Refused, Block, Forsaken, GoOn, Settled
<1>0. TypeOK
  BY DEF Inv
<1> USE <1>0 DEF TypeOK
<1>1. CASE BeginRun
  BY <1>1 DEF BeginRun
<1>2. CASE NextReceipt
  <2>1. authoritative' \in Seq(Ids)
    BY <1>2, NoReceipts, EndOfRun DEF NextReceipt
  <2>2. pc' \in Pcs /\ at' \in Nat /\ expected' \in Nat
    BY <1>2, EndOfRun DEF NextReceipt, States
  <2> QED BY <1>2, <2>1, <2>2 DEF NextReceipt
<1>3. CASE Owner
  BY <1>3 DEF Owner
<1>4. CASE Rebuild
  <2>1. [mem EXCEPT !.ledger = Rebuilt] \in States
    BY <1>4, Rebuilding DEF Rebuild, States
  <2> QED BY <1>4, <2>1 DEF Rebuild, Rebuilt, Persist
<1>5. CASE Record
  <2>1. [mem EXCEPT !.ledger = Recorded] \in States
    BY <1>5, Recording DEF Record, States
  <2> QED BY <1>5, <2>1, EndOfRun DEF Record, Persist
<1>6. CASE RebuildRefused \/ RecordRefused
  BY <1>6, EndOfRun DEF RebuildRefused, RecordRefused
<1>14. CASE NotifyRefused
  BY <1>14, EndOfRun DEF NotifyRefused
<1>7. CASE WriteFails
  <2>1. used' \in [Bounded -> Nat]
    BY <1>7 DEF WriteFails
  <2> QED BY <1>7, <2>1, EndOfRun DEF WriteFails
<1>8. CASE Observe
  BY <1>8, EndOfRun DEF Observe
<1>9. CASE Grant
  BY <1>9 DEF Grant
<1>10. CASE GrantRefused
  BY <1>10, EndOfRun DEF GrantRefused
<1>11. CASE NoAnswer
  BY <1>11, EndOfRun DEF NoAnswer
<1>12. CASE Stale
  BY <1>12, EndOfRun DEF Stale
<1>13. CASE Acknowledge
  <2>1. [mem EXCEPT !.next = @ + 1] \in States
    BY CursorMoves
  <2> QED BY SMTT(60), <1>13, <2>1 DEF Acknowledge, Persist
<1> QED BY <1>1, <1>2, <1>3, <1>4, <1>5, <1>6, <1>7, <1>8, <1>9, <1>10, <1>11, <1>12, <1>13,
           <1>14 DEF Run
-----------------------------------------------------------------------------
(* The session in memory and on disk *)

LEMMA KeepsSession ==
    ASSUME Inv, Next
    PROVE  SessionIsSaved'
<1> USE DEF SessionIsSaved, Waiting, Refused, Block, GoOn, Settled, Persist, NoTask,
       Interruptible
<1>0. SessionIsSaved
  BY DEF Inv
<1>1. CASE Packet \/ Disconnect \/ Connect
  BY <1>0, <1>1 DEF Packet, Disconnect, Connect
<1>2. CASE Start \/ Crash \/ LoseState
  BY <1>0, <1>2 DEF Start, Crash, LoseState
<1>3. CASE \/ GameSaves \/ GameLoads \/ (\E e \in late : LateGrant(e))
           \/ (\E r \in Ids : ServerSend(r))
  BY <1>0, <1>3 DEF GameSaves, GameLoads, LateGrant, ServerSend
<1>4. CASE \E n \in 0..MaxLen : ServerRollback(n)
  BY <1>0, <1>4 DEF ServerRollback
<1>5. CASE BeginRun \/ NextReceipt \/ Owner
  BY <1>0, <1>5 DEF BeginRun, NextReceipt, Owner
<1>6. CASE Rebuild \/ Record \/ Acknowledge
  BY <1>0, <1>6 DEF Rebuild, Record, Acknowledge
<1>7. CASE RebuildRefused \/ RecordRefused \/ NotifyRefused \/ WriteFails
  BY <1>0, <1>7 DEF RebuildRefused, RecordRefused, NotifyRefused, WriteFails
<1>8. CASE Observe \/ Grant \/ GrantRefused \/ NoAnswer \/ Stale
  BY <1>0, <1>8 DEF Observe, Grant, GrantRefused, NoAnswer, Stale
<1> QED BY <1>1, <1>2, <1>3, <1>4, <1>5, <1>6, <1>7, <1>8 DEF Next, Run

-----------------------------------------------------------------------------
(* What a run has established *)

\* The native total is never ahead of the ledger when it is observed.
LEMMA NeverAhead ==
    ASSUME Inv, pc # "none", mem.ledger # NoLedger
    PROVE  ~(gained > Total(mem.ledger))
<1>1. mem = saved /\ gained \in Nat /\ Len(saved.ledger) \in Nat
  BY DEF Inv, SessionIsSaved, TypeOK, States
<1> QED BY <1>1 DEF Inv, OwnedBeforeGranted, Points, Total

LEMMA EnvironmentKeepsProgress ==
    ASSUME Inv, Environment
    PROVE  Progress'
<1>0. Progress /\ SessionIsSaved
  BY DEF Inv
<1>1. CASE UNCHANGED <<mem, pc, at, authoritative, expected>>
  BY <1>0, <1>1 DEF Progress, Existing, OwnedBy
<1>2. CASE Connect
  <2>1. pc = "none" \/ mem' = mem
    BY <1>0, <1>2 DEF Connect, SessionIsSaved
  <2>2. UNCHANGED <<pc, at, authoritative, expected>>
    BY <1>2 DEF Connect
  <2>3. CASE mem' = mem
    BY <1>0, <2>2, <2>3 DEF Progress, Existing, OwnedBy
  <2>4. CASE pc = "none"
    BY <1>0, <2>2, <2>4 DEF Progress
  <2> QED BY <2>1, <2>3, <2>4
<1>3. CASE Crash
  BY <1>3 DEF Crash, NoTask, Progress
<1> QED BY <1>1, <1>2, <1>3 DEF Environment, Packet, Disconnect, Start, LoseState,
           GameSaves, GameLoads, ServerSend, ServerRollback, LateGrant

LEMMA DeliveryKeepsProgress ==
    ASSUME Inv, Run \/ NoAnswer \/ NotifyRefused \/ WriteFails
    PROVE  Progress'
<1>0. Progress /\ TypeOK
  BY DEF Inv
<1>1. NoTask => Progress'
  BY DEF NoTask, Progress
<1>2. CASE BeginRun
  BY <1>0, <1>2 DEF BeginRun, Progress
<1>3. CASE NextReceipt
  BY <1>0, <1>1, <1>3 DEF NextReceipt, Progress, TypeOK, States
<1>4. CASE Owner
  BY <1>0, <1>4 DEF Owner, Progress, OwnedBy
<1>5. CASE Rebuild
  <2>1. mem'.ledger # NoLedger /\ mem'.next = mem.next
    BY <1>0, <1>5, Rebuilding, LedgerAssumption DEF Rebuild, Rebuilt, Persist, TypeOK, States
  <2> QED BY <1>0, <1>5, <2>1 DEF Rebuild, Progress
<1>6. CASE Record
  <2>1. /\ mem'.next = mem.next /\ mem'.ledger = Recorded
    BY <1>0, <1>6 DEF Record, Persist, TypeOK, States
  <2>2. Recorded # NoLedger /\ Existing(Recorded, at) # {}
    BY <1>6, Recording, LedgerAssumption DEF Record
  <2> QED BY <1>0, <1>1, <1>6, <2>1, <2>2 DEF Record, Progress
<1>7. CASE RebuildRefused \/ RecordRefused \/ NotifyRefused \/ WriteFails \/ Stale
  BY <1>1, <1>7 DEF RebuildRefused, RecordRefused, NotifyRefused, WriteFails, Stale,
         Refused, Block
<1>8. CASE Observe
  <2>1. ~(gained > Total(mem.ledger))
    BY <1>0, <1>8, NeverAhead DEF Observe, Progress
  <2>2. mem'.ledger = mem.ledger /\ mem'.next = mem.next /\ at' = at
    BY <1>8, <2>1 DEF Observe
  <2>3. CASE gained = Total(mem.ledger)
    BY <1>0, <1>8, <2>1, <2>2, <2>3 DEF Observe, Settled, Progress, Existing
  <2>4. CASE gained # Total(mem.ledger)
    BY <1>0, <1>8, <2>1, <2>2, <2>4 DEF Observe, Total, Progress, Existing, TypeOK, States
  <2> QED BY <2>3, <2>4
<1>9. CASE Grant
  <2>1. mem'.ledger = mem.ledger /\ mem'.next = mem.next /\ at' = at
    BY <1>9 DEF Grant
  <2>2. CASE expected + 1 = Total(mem.ledger)
    BY <1>0, <1>9, <2>1, <2>2 DEF Grant, Settled, Progress, Existing
  <2>3. CASE expected + 1 # Total(mem.ledger)
    BY <1>0, <1>9, <2>1, <2>3 DEF Grant, Total, Progress, Existing, TypeOK, States
  <2> QED BY <2>2, <2>3
<1>10. CASE GrantRefused \/ NoAnswer
  <2>1. GoOn /\ mem' = mem
    BY <1>10 DEF GrantRefused, NoAnswer
  <2> QED BY <1>0, <1>1, <2>1 DEF GoOn, Progress
<1>11. CASE Acknowledge
  BY <1>0, <1>11 DEF Acknowledge, Progress
<1> QED BY <1>2, <1>3, <1>4, <1>5, <1>6, <1>7, <1>8, <1>9, <1>10, <1>11 DEF Run
-----------------------------------------------------------------------------
(* Requests and points *)

\* The ledger on disk only grows, and no step of the bridge but a grant changes the points.
LEMMA EnvironmentKeepsRequests ==
    ASSUME Inv, Environment
    PROVE  Requested' /\ OwnedBeforeGranted'
<1> USE DEF Requested, OwnedBeforeGranted, Points, Total, SessionIsSaved, Progress,
       Interruptible, Waiting
<1>0. Requested /\ OwnedBeforeGranted /\ SessionIsSaved /\ Progress /\ TypeOK
  BY DEF Inv
<1>1. CASE UNCHANGED <<gained, checkpoint, late, saved>>
  BY <1>0, <1>1
<1>2. CASE Crash
  BY <1>0, <1>2 DEF Crash, Forsaken, TypeOK
<1>3. CASE LoseState
  BY <1>0, <1>3 DEF LoseState, Empty
<1>4. CASE GameSaves
  BY <1>0, <1>4 DEF GameSaves, TypeOK
<1>5. CASE GameLoads
  <2>1. saved.ledger # NoLedger => Len(saved.ledger) \in Nat
    BY <1>0 DEF TypeOK, States
  <2> QED BY <1>0, <1>5, <2>1 DEF GameLoads, TypeOK
<1>6. ASSUME NEW e \in late, LateGrant(e) PROVE Requested' /\ OwnedBeforeGranted'
  <2>1. saved.ledger # NoLedger /\ Len(saved.ledger) \in Nat /\ e < Len(saved.ledger)
    BY <1>0 DEF TypeOK, States
  <2> QED BY <1>0, <1>6, <2>1 DEF LateGrant, TypeOK
<1> QED BY <1>1, <1>2, <1>3, <1>4, <1>5, <1>6 DEF Environment, Packet, Disconnect, Connect,
           Start, ServerSend, ServerRollback

LEMMA DeliveryKeepsRequests ==
    ASSUME Inv, Run \/ NoAnswer \/ NotifyRefused \/ WriteFails
    PROVE  Requested' /\ OwnedBeforeGranted'
<1>0. Requested /\ OwnedBeforeGranted /\ SessionIsSaved /\ Progress /\ TypeOK
  BY DEF Inv
<1> USE DEF Requested, OwnedBeforeGranted, Points, Total
<1>1. CASE UNCHANGED <<gained, checkpoint, late, saved>>
  BY <1>0, <1>1
<1>2. CASE Rebuild
  <2>1. late = {} /\ gained' = gained /\ late' = late /\ checkpoint' = checkpoint
    BY <1>0, <1>2 DEF Rebuild, Progress, SessionIsSaved
  <2>2. saved'.ledger = Rebuilt
    BY <1>0, <1>2 DEF Rebuild, Rebuilt, Persist, TypeOK, States
  <2>3. Len(Rebuilt) = gained /\ gained \in Nat
    BY <1>0, <1>2, Rebuilding DEF Rebuild, TypeOK
  <2> QED BY <1>0, <2>1, <2>2, <2>3
<1>3. CASE Record
  <2>1. gained' = gained /\ late' = late /\ checkpoint' = checkpoint
    BY <1>3 DEF Record
  <2>2. mem = saved /\ saved.ledger # NoLedger
    BY <1>0, <1>3 DEF Record, Progress, SessionIsSaved
  <2>3. saved'.ledger = Recorded
    BY <1>0, <1>3, <2>2 DEF Record, Persist, TypeOK, States
  <2>4. Len(saved.ledger) <= Len(Recorded) /\ Len(saved.ledger) \in Nat /\ Len(Recorded) \in Nat
    BY <1>0, <1>3, <2>2, Recording DEF Record, TypeOK, States
  <2>5. gained \in Nat /\ late \subseteq Nat /\ Recorded # NoLedger
    BY <1>0, <1>3, Recording, LedgerAssumption DEF Record, TypeOK
  <2> QED BY <1>0, <2>1, <2>2, <2>3, <2>4, <2>5
<1>4. CASE Acknowledge
  <2>1. saved'.ledger = saved.ledger
    BY <1>0, <1>4 DEF Acknowledge, Persist, SessionIsSaved, TypeOK, States
  <2> QED BY <1>0, <1>4, <2>1 DEF Acknowledge
<1>5. CASE Grant
  <2>1. mem = saved /\ saved.ledger # NoLedger /\ expected < Len(saved.ledger)
    BY <1>0, <1>5 DEF Grant, Progress, SessionIsSaved
  <2>2. Len(saved.ledger) \in Nat
    BY <1>0, <2>1 DEF TypeOK, States
  <2> QED BY <1>0, <1>5, <2>1, <2>2 DEF Grant, TypeOK
<1>6. CASE NoAnswer \/ Stale
  <2>1. /\ UNCHANGED <<gained, checkpoint, saved>>
        /\ late' = late \/ (pc = "grant" /\ late' = late \union {expected})
    BY <1>6 DEF NoAnswer, Stale, Forsaken
  <2>2. pc = "grant" => saved.ledger # NoLedger /\ expected < Len(saved.ledger)
    BY <1>0 DEF Progress, SessionIsSaved
  <2> QED BY <1>0, <2>1, <2>2
<1> QED BY <1>1, <1>2, <1>3, <1>4, <1>5, <1>6 DEF Run, BeginRun, NextReceipt, Owner,
       RebuildRefused,
           RecordRefused, NotifyRefused, WriteFails, Observe, GrantRefused,
           Refused, Block

-----------------------------------------------------------------------------
(* The cursor *)

LEMMA KeepsAcknowledged ==
    ASSUME Inv, Next
    PROVE  AcknowledgedIsOwned'
<1>0. AcknowledgedIsOwned /\ SessionIsSaved /\ Progress /\ TypeOK
  BY DEF Inv
<1> USE DEF AcknowledgedIsOwned
<1>1. CASE UNCHANGED saved
  BY <1>0, <1>1 DEF Existing
<1>2. CASE LoseState
  BY <1>2 DEF LoseState, Empty
<1>3. CASE Rebuild
  <2>0. mem = saved /\ saved.ledger = NoLedger /\ saved.next \in Nat
    BY <1>0, <1>3 DEF Rebuild, Progress, SessionIsSaved, TypeOK, States
  <2>1. saved.next = 0
    <3> SUFFICES ASSUME saved.next # 0 PROVE FALSE
      OBVIOUS
    <3>1. 1 \in 1..saved.next
      BY <2>0
    <3> QED BY <1>0, <2>0, <3>1
  <2>2. saved'.next = saved.next
    BY <1>0, <1>3, <2>0 DEF Rebuild, Persist, TypeOK, States
  <2> QED BY <2>1, <2>2
<1>4. CASE Record
  <2>1. mem = saved /\ saved.ledger # NoLedger
    BY <1>0, <1>4 DEF Record, Progress, SessionIsSaved
  <2>2. saved'.ledger = Recorded /\ saved'.next = saved.next
    BY <1>0, <1>4, <2>1 DEF Record, Persist, TypeOK, States
  <2>3. /\ Recorded # NoLedger
        /\ \A k \in 1..Len(saved.ledger) : k \in 1..Len(Recorded) /\ Recorded[k] = saved.ledger[k]
    BY <1>0, <1>4, <2>1, Recording, LedgerAssumption DEF Record, TypeOK, States
  <2> QED BY <1>0, <2>1, <2>2, <2>3 DEF Existing
<1>5. CASE Acknowledge
  <2>1. /\ mem = saved /\ saved.ledger # NoLedger
        /\ Existing(saved.ledger, saved.next + 1) # {} /\ saved.next \in Nat
    BY <1>0, <1>5 DEF Acknowledge, Progress, SessionIsSaved, TypeOK, States
  <2>2. saved'.ledger = saved.ledger /\ saved'.next = saved.next + 1
    BY <1>0, <1>5, <2>1 DEF Acknowledge, Persist, TypeOK, States
  <2> QED BY <1>0, <2>1, <2>2 DEF Existing
<1> QED BY <1>1, <1>2, <1>3, <1>4, <1>5 DEF Next, Run, BeginRun, NextReceipt, Owner,
       RebuildRefused,
           RecordRefused, NotifyRefused, WriteFails, Observe, Grant, GrantRefused,
           NoAnswer, Stale, Refused, Block, Packet, Disconnect, Connect, Start, Crash, GameSaves,
           GameLoads, ServerSend, ServerRollback, LateGrant
-----------------------------------------------------------------------------
(* The history *)

LEMMA PrefixGrows ==
    ASSUME NEW a \in Seq(Ids), NEW h \in Seq(Ids), NEW r \in Ids, Prefix(a, h)
    PROVE  Prefix(a, Append(h, r))
BY AppendProperties DEF Prefix

LEMMA KeepsHistory ==
    ASSUME Inv, Next
    PROVE  HistoryIsExtended'
<1>0. HistoryIsExtended /\ Progress /\ TypeOK
  BY DEF Inv
<1>16. Prefix(<<>>, history) /\ Prefix(<<>>, history')
  BY DEF Prefix
<1> USE DEF HistoryIsExtended
<1>1. CASE UNCHANGED <<history, items, authoritative, stale>> /\ used'["rollback"] = used["rollback"]
  BY <1>0, <1>1 DEF Prefix
<1>2. CASE \E r \in Ids : ServerSend(r)
  BY <1>0, <1>2, PrefixGrows DEF ServerSend, TypeOK
<1>3. CASE Packet
  BY <1>0, <1>3 DEF Packet, Prefix, TypeOK
<1>4. CASE Disconnect \/ Connect \/ GameLoads
  BY <1>0, <1>16, <1>4 DEF Disconnect, Connect, GameLoads, Spend, TypeOK, Bounded, Prefix
<1>5. CASE \E n \in 0..MaxLen : ServerRollback(n)
  BY <1>0, <1>16, <1>5 DEF ServerRollback, Spend, TypeOK, Bounded
<1>6. CASE Crash
  BY <1>0, <1>16, <1>6 DEF Crash, NoTask
<1>7. CASE BeginRun
  BY <1>0, <1>16, <1>7 DEF BeginRun, Progress
<1>8. CASE Owner
  BY <1>0, <1>8 DEF Owner
<1>9. CASE NoTask /\ UNCHANGED <<history, items>>
  BY <1>0, <1>16, <1>9 DEF NoTask
<1>10. CASE NextReceipt
  BY <1>0, <1>16, <1>9, <1>10 DEF NextReceipt
<1>11. CASE Record
  BY <1>1, <1>9, <1>11 DEF Record
<1>12. CASE Observe \/ GrantRefused \/ NoAnswer
  BY <1>0, <1>1, <1>9, <1>12 DEF Observe, GrantRefused, NoAnswer, GoOn, Spend,
         TypeOK, Bounded
<1>13. CASE RebuildRefused \/ RecordRefused \/ NotifyRefused \/ WriteFails \/ Stale
  BY <1>9, <1>13 DEF RebuildRefused, RecordRefused, NotifyRefused, WriteFails, Stale,
         Refused, Block
<1>14. CASE Start \/ LoseState \/ GameSaves \/ \E e \in late : LateGrant(e)
  BY <1>0, <1>1, <1>14 DEF Start, LoseState, GameSaves, LateGrant, Spend, TypeOK, Bounded
<1>15. CASE Rebuild \/ Grant \/ Acknowledge
  BY <1>1, <1>15 DEF Rebuild, Grant, Acknowledge
<1> QED BY <1>2, <1>3, <1>4, <1>5, <1>6, <1>7, <1>8, <1>10, <1>11, <1>12, <1>13, <1>14,
       <1>15 DEF Next, Run

LEMMA KeepsLedgerFits ==
    ASSUME Inv, Next
    PROVE  LedgerFits'
<1>0. HistoryIsExtended /\ SessionIsSaved /\ Progress /\ LedgerFits /\ TypeOK
  BY DEF Inv
<1> USE DEF LedgerFits
<1>1. CASE UNCHANGED <<history, saved>> /\ used'["rollback"] = used["rollback"]
  BY <1>0, <1>1
<1>2. CASE \E r \in Ids : ServerSend(r)
  <2>1. Len(history') = Len(history) + 1 /\ Len(history) \in Nat
    BY <1>0, <1>2, AppendProperties DEF ServerSend, TypeOK
  <2>2. saved.ledger # NoLedger => \A k \in 1..Len(saved.ledger) : saved.ledger[k].index \in Nat
    BY <1>0, Indexes DEF TypeOK, States
  <2> QED BY <1>0, <1>2, <2>1, <2>2 DEF ServerSend
<1>3. CASE \E n \in 0..MaxLen : ServerRollback(n)
  BY <1>0, <1>3 DEF ServerRollback, Spend, TypeOK, Bounded
<1>4. CASE LoseState
  BY <1>4 DEF LoseState, Empty
<1>5. CASE Rebuild
  <2>1. saved'.ledger = Rebuilt /\ history' = history /\ used' = used
    BY <1>0, <1>5 DEF Rebuild, Rebuilt, Persist, TypeOK, States
  <2>2. Len(Rebuilt) = gained /\ \A k \in 1..gained : Rebuilt[k].index = k
    BY <1>0, <1>5, Rebuilding DEF Rebuild
  <2>3. used["rollback"] = 0 => gained <= Len(history)
    BY <1>0, <1>5 DEF Rebuild, HistoryIsExtended, Prefix, TypeOK
  <2>4. gained \in Nat /\ Len(history) \in Nat
    BY <1>0 DEF TypeOK
  <2> QED BY <2>1, <2>2, <2>3, <2>4
<1>6. CASE Record
  <2>1. /\ mem = saved /\ saved.ledger # NoLedger /\ saved.ledger \in Seq(Entries)
        /\ at \in Nat \ {0}
    BY <1>0, <1>6 DEF Record, Progress, SessionIsSaved, TypeOK, States
  <2>2. saved'.ledger = Recorded /\ history' = history /\ used' = used
    BY <1>0, <1>6, <2>1 DEF Record, Persist, TypeOK, States
  <2>3. used["rollback"] = 0 => Len(authoritative) <= Len(history)
    BY <1>0 DEF HistoryIsExtended, Prefix
  <2>4. ASSUME used["rollback"] = 0, NEW k \in 1..Len(Recorded)
        PROVE  k <= Recorded[k].index /\ Recorded[k].index <= Len(history)
    <3>1. CASE k <= Len(saved.ledger)
      BY <1>0, <1>6, <2>1, <2>4, <3>1, Recording DEF Record
    <3>2. CASE k > Len(saved.ledger)
      <4>1. /\ k = Len(saved.ledger) + 1 /\ Recorded[k].index = at /\ at <= Len(authoritative)
            /\ \A j \in 1..Len(saved.ledger) : saved.ledger[j].index < at
        BY <1>6, <2>1, <3>2, Recording DEF Record
      <4>2. Len(saved.ledger) \in Nat /\ Len(authoritative) \in Nat /\ Len(history) \in Nat
        BY <1>0, <2>1 DEF TypeOK
      <4>3. k <= at
        <5>1. CASE Len(saved.ledger) = 0
          BY <2>1, <4>1, <5>1
        <5>2. CASE Len(saved.ledger) # 0
          <6>1. Len(saved.ledger) \in 1..Len(saved.ledger)
            BY <4>2, <5>2
          <6>2. /\ Len(saved.ledger) <= saved.ledger[Len(saved.ledger)].index
                /\ saved.ledger[Len(saved.ledger)].index < at
                /\ saved.ledger[Len(saved.ledger)].index \in Nat
            BY <1>0, <2>1, <2>4, <4>1, <6>1, Indexes
          <6> QED BY <2>1, <4>1, <4>2, <6>2
        <5> QED BY <5>1, <5>2
      <4> QED BY <2>1, <2>3, <2>4, <4>1, <4>2, <4>3
    <3>3. k <= Len(saved.ledger) \/ k > Len(saved.ledger)
      BY <2>1
    <3> QED BY <3>1, <3>2, <3>3
  <2>5. ASSUME NEW k \in 1..Len(Recorded) PROVE Recorded[k].index # 0
    <3>1. CASE k <= Len(saved.ledger)
      BY <1>0, <1>6, <2>1, <3>1, Recording DEF Record
    <3>2. CASE k > Len(saved.ledger)
      BY <1>6, <2>1, <3>2, Recording DEF Record
    <3>3. k <= Len(saved.ledger) \/ k > Len(saved.ledger)
      BY <2>1
    <3> QED BY <3>1, <3>2, <3>3
  <2> QED BY <2>2, <2>4, <2>5
<1>7. CASE Acknowledge
  <2>1. saved'.ledger = saved.ledger /\ history' = history /\ used' = used
    BY <1>0, <1>7 DEF Acknowledge, Persist, SessionIsSaved, TypeOK, States
  <2> QED BY <1>0, <2>1
<1>8. CASE \/ Disconnect \/ Packet \/ Connect \/ Start \/ Crash \/ GameSaves \/ GameLoads
           \/ \E e \in late : LateGrant(e)
  BY <1>0, <1>1, <1>8 DEF Disconnect, Packet, Connect, Start, Crash, GameSaves,
         GameLoads, LateGrant,
           Spend, TypeOK, Bounded
<1>9. CASE \/ BeginRun \/ NextReceipt \/ Owner \/ RebuildRefused \/ RecordRefused
           \/ NotifyRefused \/ WriteFails
  BY <1>0, <1>1, <1>9 DEF BeginRun, NextReceipt, Owner, RebuildRefused, RecordRefused,
         NotifyRefused,
           WriteFails, Refused, Block, Spend, TypeOK, Bounded
<1>10. CASE Observe \/ Grant \/ GrantRefused \/ NoAnswer \/ Stale
  BY <1>0, <1>1, <1>10 DEF Observe, Grant, GrantRefused, NoAnswer, Stale,
           Spend, TypeOK, Bounded
<1> QED BY <1>2, <1>3, <1>4, <1>5, <1>6, <1>7, <1>8, <1>9, <1>10 DEF Next, Run
-----------------------------------------------------------------------------
(* Points and receipts *)

\* A ledger that fits the history is no longer than it.
LEMMA LedgerIsNoLonger ==
    ASSUME Inv, used["rollback"] = 0, saved.ledger # NoLedger
    PROVE  Len(saved.ledger) <= Len(history)
<1>1. Len(saved.ledger) \in Nat /\ Len(history) \in Nat /\ saved.ledger \in Seq(Entries)
  BY DEF Inv, TypeOK, States
<1>2. CASE Len(saved.ledger) # 0
  <2>1. Len(saved.ledger) \in 1..Len(saved.ledger)
    BY <1>1, <1>2
  <2>2. /\ Len(saved.ledger) <= saved.ledger[Len(saved.ledger)].index
        /\ saved.ledger[Len(saved.ledger)].index <= Len(history)
    BY <2>1 DEF Inv, LedgerFits
  <2> QED BY <1>1, <2>1, <2>2, Indexes
<1> QED BY <1>1, <1>2

LEMMA KeepsNeverOverpaid ==
    ASSUME Inv, Next
    PROVE  NeverOverpaid'
<1>0. NeverOverpaid /\ Requested /\ SessionIsSaved /\ Progress /\ TypeOK
  BY DEF Inv
<1> USE DEF NeverOverpaid
<1>1. CASE UNCHANGED <<history, gained, checkpoint>> /\ used'["rollback"] = used["rollback"]
  BY <1>0, <1>1
<1>2. CASE \E r \in Ids : ServerSend(r)
  <2>1. Len(history') = Len(history) + 1 /\ Len(history) \in Nat
    BY <1>0, <1>2, AppendProperties DEF ServerSend, TypeOK
  <2> QED BY <1>0, <1>2, <2>1 DEF ServerSend, TypeOK
<1>3. CASE \E n \in 0..MaxLen : ServerRollback(n)
  BY <1>0, <1>3 DEF ServerRollback, Spend, TypeOK, Bounded
<1>4. CASE GameSaves \/ GameLoads
  BY <1>0, <1>4 DEF GameSaves, GameLoads, Spend, TypeOK, Bounded
<1>5. ASSUME NEW e \in late, LateGrant(e) PROVE NeverOverpaid'
  <2>1. saved.ledger # NoLedger /\ e < Len(saved.ledger) /\ Len(saved.ledger) \in Nat
    BY <1>0 DEF Requested, TypeOK, States
  <2>2. used["rollback"] = 0 => Len(saved.ledger) <= Len(history)
    BY <2>1, LedgerIsNoLonger
  <2> QED BY <1>0, <1>5, <2>1, <2>2 DEF LateGrant, TypeOK
<1>6. CASE Grant
  <2>1. saved.ledger # NoLedger /\ expected < Len(saved.ledger) /\ Len(saved.ledger) \in Nat
    BY <1>0, <1>6 DEF Grant, SessionIsSaved, Progress, TypeOK, States
  <2>2. used["rollback"] = 0 => Len(saved.ledger) <= Len(history)
    BY <2>1, LedgerIsNoLonger
  <2> QED BY <1>0, <1>6, <2>1, <2>2 DEF Grant, TypeOK
<1>7. CASE Disconnect \/ Packet \/ Connect \/ Start \/ Crash \/ LoseState
  BY <1>0, <1>1, <1>7 DEF Disconnect, Packet, Connect, Start, Crash, LoseState, Spend,
         TypeOK, Bounded
<1>8. CASE \/ BeginRun \/ NextReceipt \/ Owner \/ RebuildRefused \/ RecordRefused
           \/ NotifyRefused \/ WriteFails
  BY <1>0, <1>1, <1>8 DEF BeginRun, NextReceipt, Owner, RebuildRefused, RecordRefused,
         NotifyRefused,
           WriteFails, Refused, Block, Spend, TypeOK, Bounded
<1>9. CASE \/ Rebuild \/ Record \/ Acknowledge \/ Observe \/ GrantRefused
           \/ NoAnswer \/ Stale
  BY <1>0, <1>1, <1>9 DEF Rebuild, Record, Acknowledge, Observe,
         GrantRefused, NoAnswer,
           Stale, Spend, TypeOK, Bounded
<1> QED BY <1>2, <1>3, <1>4, <1>5, <1>6, <1>7, <1>8, <1>9 DEF Next, Run

LEMMA InitEstablishesInv == Init => Inv
<1> SUFFICES ASSUME Init PROVE Inv
  OBVIOUS
<1>1. TypeOK
  BY NoReceipts DEF Init, TypeOK, Empty, States, Pcs, Bounded
<1>2. SessionIsSaved /\ Progress /\ Requested /\ OwnedBeforeGranted
  BY DEF Init, Empty, SessionIsSaved, Progress, Requested, OwnedBeforeGranted
<1>3. AcknowledgedIsOwned /\ HistoryIsExtended /\ LedgerFits /\ NeverOverpaid
  BY DEF Init, Empty, AcknowledgedIsOwned, HistoryIsExtended, Prefix, LedgerFits, NeverOverpaid
<1> QED BY <1>1, <1>2, <1>3 DEF Inv

LEMMA StepKeepsInv == Inv /\ [Next]_vars => Inv'
<1> SUFFICES ASSUME Inv, [Next]_vars PROVE Inv'
  OBVIOUS
<1>1. CASE Next
  <2>1. Environment \/ Run \/ NoAnswer \/ NotifyRefused \/ WriteFails
    BY <1>1 DEF Next, Environment
  <2>2. TypeOK' /\ Progress' /\ Requested' /\ OwnedBeforeGranted'
    BY <2>1, EnvironmentKeepsTypes, DeliveryKeepsTypes, EnvironmentKeepsProgress,
       DeliveryKeepsProgress, EnvironmentKeepsRequests, DeliveryKeepsRequests DEF Inv
  <2> QED BY <1>1, <2>2, KeepsSession, KeepsAcknowledged, KeepsHistory, KeepsLedgerFits,
             KeepsNeverOverpaid DEF Inv
<1>2. CASE UNCHANGED vars
  BY <1>2 DEF Inv, TypeOK, SessionIsSaved, Progress, Requested, OwnedBeforeGranted,
         Points, Total,
     AcknowledgedIsOwned, HistoryIsExtended, Prefix, LedgerFits, NeverOverpaid, Existing, OwnedBy
<1> QED BY <1>1, <1>2

\* The whole invariant, which the theorems below read off.
THEOREM DeliveryInvariant == Spec => []Inv
BY InitEstablishesInv, StepKeepsInv, PTL DEF Spec

\* Every variable keeps to its type, for any receipts and any bounds.
THEOREM PointTypes == Spec => []TypeOK
<1>1. Inv => TypeOK
  BY DEF Inv
<1> QED BY <1>1, DeliveryInvariant, PTL

\* The game never has more points than the room has sent.
THEOREM PointsAreNotOverpaid == Spec => []NeverOverpaid
<1>1. Inv => NeverOverpaid
  BY DEF Inv
<1> QED BY <1>1, DeliveryInvariant, PTL

\* A point is in the game only after its receipt is in the file.
THEOREM PointsAreOwned == Spec => []OwnedBeforeGranted
<1>1. Inv => OwnedBeforeGranted
  BY DEF Inv
<1> QED BY <1>1, DeliveryInvariant, PTL

\* The cursor passes only receipts that the ledger beside it holds.
THEOREM AcknowledgedPointsAreOwned == Spec => []AcknowledgedIsOwned
<1>1. Inv => AcknowledgedIsOwned
  BY DEF Inv
<1> QED BY <1>1, DeliveryInvariant, PTL

\* No point is asked for on behalf of a history the ledger does not belong to.
THEOREM PointsAreOfThisHistory == Spec => OnlyForOwnHistory
<1>1. Inv /\ [Next]_vars
      => [pc' = "grant" /\ pc # "grant" => OwnedBy(mem.ledger, history)]_vars
  <2> SUFFICES ASSUME Inv, Next, pc' = "grant", pc # "grant"
               PROVE  OwnedBy(mem.ledger, history)
    OBVIOUS
  <2>1. Observe
    BY DEF Next, Run, BeginRun, NextReceipt, Owner, Rebuild, RebuildRefused, Record,
           RecordRefused,
       Observe, Grant, GrantRefused, NoAnswer, Stale, Acknowledge, NotifyRefused,
       WriteFails, Refused, Block, GoOn, NoTask, Packet, Disconnect, Connect, Start, Crash,
       LoseState, GameSaves, GameLoads, ServerSend, ServerRollback, LateGrant
  <2>2. OwnedBy(mem.ledger, authoritative) /\ Prefix(authoritative, history)
    BY <2>1 DEF Observe, Inv, Progress, HistoryIsExtended
  <2>3. /\ mem.ledger \in Seq(Entries) /\ Len(authoritative) \in Nat /\ Len(history) \in Nat
        /\ mem = saved /\ saved.ledger # NoLedger
    BY <2>1 DEF Observe, Inv, Progress, SessionIsSaved, TypeOK, States
  <2>4. \A k \in 1..Len(mem.ledger) : mem.ledger[k].index \in Nat \ {0}
    BY <2>3, Indexes DEF Inv, LedgerFits
  <2> QED BY <2>2, <2>3, <2>4 DEF OwnedBy, Prefix
<1> QED BY <1>1, DeliveryInvariant, PTL DEF Spec, OnlyForOwnHistory
=============================================================================
