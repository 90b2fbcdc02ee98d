------------------------- MODULE CommandQueueProofs -------------------------
(***************************************************************************)
(* Safety of the spool for any set of commands, rooms and leases and for   *)
(* any bounds: types, and the invariant by which a publication has at most *)
(* one effect.                                                             *)
(***************************************************************************)
EXTENDS CommandQueue, SequenceTheorems, TLAPS

-----------------------------------------------------------------------------
(* Removing a job from the memory queue *)

\* What is left when the job at position i goes: the others, in their order.
LEMMA RemoveAtElements ==
    ASSUME NEW S, NEW s \in Seq(S), NEW i \in 1..Len(s)
    PROVE  /\ RemoveAt(s, i) \in Seq(S)
           /\ Len(RemoveAt(s, i)) = Len(s) - 1
           /\ \A j \in 1..(Len(s) - 1) :
                 RemoveAt(s, i)[j] = IF j < i THEN s[j] ELSE s[j + 1]
<1> DEFINE a == SubSeq(s, 1, i - 1)
           b == SubSeq(s, i + 1, Len(s))
<1>0. Len(s) \in Nat /\ i \in Nat /\ \A j \in 1..Len(s) : s[j] \in S
  OBVIOUS
<1>1. a \in Seq(S) /\ Len(a) = i - 1 /\ \A j \in 1..(i - 1) : a[j] = s[j]
  BY <1>0, SubSeqProperties
<1>2. b \in Seq(S) /\ Len(b) = Len(s) - i /\ \A j \in 1..(Len(s) - i) : b[j] = s[i + j]
  BY <1>0, SubSeqProperties
<1> HIDE DEF a, b
<1>3. /\ a \o b \in Seq(S)
      /\ Len(a \o b) = Len(a) + Len(b)
      /\ \A j \in 1..(Len(a) + Len(b)) :
            (a \o b)[j] = IF j <= Len(a) THEN a[j] ELSE b[j - Len(a)]
  BY <1>1, <1>2, ConcatProperties
<1>4. ASSUME NEW j \in 1..(Len(s) - 1)
      PROVE  (a \o b)[j] = IF j < i THEN s[j] ELSE s[j + 1]
  <2>1. CASE j < i
    BY <2>1, <1>0, <1>1, <1>2, <1>3
  <2>2. CASE j >= i
    <3>1. (a \o b)[j] = b[j - (i - 1)]
      BY <2>2, <1>0, <1>1, <1>2, <1>3
    <3>2. j - (i - 1) \in 1..(Len(s) - i) /\ i + (j - (i - 1)) = j + 1
      BY <2>2, <1>0
    <3> QED BY <2>2, <3>1, <3>2, <1>0, <1>2
  <2>3. j < i \/ j >= i
    BY <1>0
  <2> QED BY <2>1, <2>2, <2>3
<1>5. RemoveAt(s, i) = a \o b
  BY DEF RemoveAt, a, b
<1>6. Len(a \o b) = Len(s) - 1
  BY <1>0, <1>1, <1>2, <1>3
<1> QED BY <1>3, <1>4, <1>5, <1>6
-----------------------------------------------------------------------------
(* Types *)

USE DEF vars, disk, bridge, native, history

LEMMA BridgeKeepsTypes ==
    ASSUME TypeOK, Selection, BridgeStep
    PROVE  TypeOK' /\ Selection'
<1> USE DEF TypeOK, Payload, BridgePc, Bounded, CmdFiles, ClaimFiles, Returned, Spend, Selection, Job
<1>1. ASSUME BridgeStart PROVE TypeOK' /\ Selection'
  BY SMTT(60), <1>1, ClassAssumption DEF BridgeStart
<1>2. ASSUME BridgeReady PROVE TypeOK' /\ Selection'
  BY <1>2 DEF BridgeReady, ClearMarker
<1>3. ASSUME BridgeCrash PROVE TypeOK' /\ Selection'
  BY <1>3 DEF BridgeCrash
<1>4. ASSUME ResetAuthority PROVE TypeOK' /\ Selection'
  BY SMTT(60), <1>4 DEF ResetAuthority, ClearMarker
<1>5. ASSUME PublishMarker PROVE TypeOK' /\ Selection'
  BY SMTT(60), <1>5 DEF PublishMarker
<1>6. ASSUME EndBind PROVE TypeOK' /\ Selection'
  BY <1>6 DEF EndBind
<1>7. ASSUME EnsureMarker PROVE TypeOK' /\ Selection'
  BY <1>7 DEF EnsureMarker
<1>8. ASSUME NEW r \in Rooms, BeginBind(r) PROVE TypeOK' /\ Selection'
  BY SMTT(60), <1>8 DEF BeginBind, ClearMarker
<1>9. ASSUME NEW l \in Leases \union {NoLease}, PublishLease(l) PROVE TypeOK' /\ Selection'
  BY SMTT(60), <1>9 DEF PublishLease
<1>10. ASSUME NEW c \in Commands, HoldDev(c) PROVE TypeOK' /\ Selection'
  <2>1. cmd' \in [Commands -> Payload] /\ processing' \in [Commands -> Payload]
    BY <1>10 DEF HoldDev
  <2>2. held' \subseteq Commands
    BY <1>10 DEF HoldDev
  <2>3. used' \in [Bounded -> Nat]
    BY <1>10 DEF HoldDev
  <2> QED BY <1>10, <2>1, <2>2, <2>3 DEF HoldDev
<1>11. ASSUME NEW c \in Commands, HoldForeign(c) PROVE TypeOK' /\ Selection'
  <2>1. cmd' \in [Commands -> Payload]
    BY <1>11 DEF HoldForeign
  <2>2. held' \subseteq Commands
    BY <1>11 DEF HoldForeign
  <2>3. used' \in [Bounded -> Nat]
    BY <1>11 DEF HoldForeign
  <2> QED BY <1>11, <2>1, <2>2, <2>3 DEF HoldForeign
<1>12. ASSUME NEW c \in Commands, BeginPublish(c) PROVE TypeOK' /\ Selection'
  BY <1>12 DEF BeginPublish
<1>13. ASSUME NEW c \in Commands, Probe(c) PROVE TypeOK' /\ Selection'
  BY <1>13 DEF Probe
<1>14. ASSUME NEW c \in Commands, Link(c) PROVE TypeOK' /\ Selection'
  <2>1. CASE c \in CmdFiles
    BY <1>14, <2>1 DEF Link
  <2>2. CASE c \notin CmdFiles
    <3>1. cmd' \in [Commands -> Payload]
      BY SMTT(60), <1>14, <2>2 DEF Link
    <3>2. created' \in [Commands -> Nat]
      BY SMTT(60), <1>14, <2>2 DEF Link
    <3> QED BY <1>14, <2>2, <3>1, <3>2 DEF Link
  <2> QED BY <2>1, <2>2
<1>15. ASSUME NEW c \in Commands, VerifyFailed(c) PROVE TypeOK' /\ Selection'
  BY <1>15 DEF VerifyFailed
<1>16. ASSUME NEW c \in Commands, VerifyProcessing(c) PROVE TypeOK' /\ Selection'
  BY <1>16 DEF VerifyProcessing
<1>17. ASSUME NEW c \in Commands, Withdraw(c) PROVE TypeOK' /\ Selection'
  BY <1>17 DEF Withdraw
<1>18. ASSUME NEW c \in Commands, ResumeDev(c) PROVE TypeOK' /\ Selection'
  BY SMTT(60), <1>18 DEF ResumeDev
<1>19. ASSUME BindFails PROVE TypeOK' /\ Selection'
  BY SMTT(60), <1>19 DEF BindFails
<1>20. ASSUME NEW c \in Commands, PublishFails(c) PROVE TypeOK' /\ Selection'
  <2>1. used' \in [Bounded -> Nat]
    BY <1>20 DEF PublishFails
  <2>2. bpc' = "idle" /\ bcmd' = {} /\ accepted' = accepted
    BY <1>20 DEF PublishFails
  <2> QED BY <1>20, <2>1, <2>2 DEF PublishFails
<1> QED BY <1>1, <1>2, <1>3, <1>4, <1>5, <1>6, <1>7, <1>8, <1>9, <1>10, <1>11, <1>12, <1>13, <1>14, <1>15, <1>16, <1>17, <1>18, <1>19, <1>20 DEF BridgeStep

\* Whatever job leaves the memory queue, what is left is a queue of commands.
LEMMA QueueOfCommands ==
    ASSUME TypeOK, NEW i \in 1..Len(queue)
    PROVE  RemoveAt(queue, i) \in Seq(Commands) /\ queue[i] \in Commands
BY RemoveAtElements DEF TypeOK

\* The selected job leaves: the queue shrinks and nothing is selected.
LEMMA LeavingTypes ==
    ASSUME TypeOK, sel \in 1..Len(queue), LeaveQueue
    PROVE  /\ queue' \in Seq(Commands) /\ cleanup' \subseteq Commands
           /\ sel' = 0 /\ sel' \in 0..Len(queue') /\ npc' = "idle"
<1>1. RemoveAt(queue, sel) \in Seq(Commands)
  BY QueueOfCommands
<1> QED BY <1>1 DEF LeaveQueue, TypeOK

\* Counting an event keeps the counters natural.
LEMMA Counting ==
    ASSUME TypeOK, NEW b \in Bounded, NEW d \in Bounded
    PROVE  /\ [used EXCEPT ![b] = @ + 1] \in [Bounded -> Nat]
           /\ [used EXCEPT ![b] = @ + 1, ![d] = @ + 1] \in [Bounded -> Nat]
<1>1. used \in [Bounded -> Nat]
  BY DEF TypeOK
<1> QED BY <1>1

LEMMA ConsumerKeepsTypes ==
    ASSUME TypeOK, Selection, NativeStep
    PROVE  TypeOK' /\ Selection'
<1> USE DEF TypeOK, Payload, NativePc, Bounded, CmdFiles, ClaimFiles, Spend, Selection, Busy, Job
<1>1. ASSUME NativeStart PROVE TypeOK' /\ Selection'
  <2>1. used' \in [Bounded -> Nat] /\ marker' \in Rooms \union {NoRoom} /\ cleared' \in BOOLEAN
    BY <1>1, Counting DEF NativeStart
  <2>2. listing' \subseteq Commands
    BY <1>1 DEF NativeStart
  <2> QED BY <1>1, <2>1, <2>2 DEF NativeStart
<1>2. ASSUME NativeCrash PROVE TypeOK' /\ Selection'
  <2>1. queue' \in Seq(Commands) /\ sel' \in 0..Len(queue')
    BY <1>2 DEF NativeCrash
  <2>2. inflight' \subseteq Commands
    BY <1>2 DEF NativeCrash
  <2> QED BY <1>2, <2>1, <2>2 DEF NativeCrash
<1>3. ASSUME BeginImport PROVE TypeOK' /\ Selection'
  <2>1. used' \in [Bounded -> Nat] /\ marker' \in Rooms \union {NoRoom} /\ cleared' \in BOOLEAN
    BY <1>3, Counting DEF BeginImport
  <2>2. listing' \subseteq Commands /\ ns' \in Rooms \union {NoRoom}
    BY <1>3 DEF BeginImport
  <2> QED BY <1>3, <2>1, <2>2 DEF BeginImport
<1>4. ASSUME EndRecover PROVE TypeOK' /\ Selection'
  BY <1>4 DEF EndRecover
<1>5. ASSUME EndImport PROVE TypeOK' /\ Selection'
  BY <1>5 DEF EndImport
<1>6. ASSUME EndDiscard PROVE TypeOK' /\ Selection'
  BY <1>6, RemoveAtElements DEF EndDiscard
<1>7. ASSUME SelectNone PROVE TypeOK' /\ Selection'
  BY <1>7 DEF SelectNone
<1>8. ASSUME CheckForgets PROVE TypeOK' /\ Selection'
  <2>1. sel \in 1..Len(queue) /\ Job \in Commands
    BY <1>8, QueueOfCommands DEF CheckForgets
  <2>2. /\ queue' \in Seq(Commands) /\ cleanup' \subseteq Commands
        /\ sel' = 0 /\ sel' \in 0..Len(queue') /\ npc' = "idle"
    BY <1>8, <2>1, LeavingTypes DEF CheckForgets, Forget
  <2>3. known' \subseteq Commands
    BY <1>8, <2>1 DEF CheckForgets, Forget
  <2> QED BY <1>8, <2>1, <2>2, <2>3 DEF CheckForgets, Forget
<1>9. ASSUME CheckStale PROVE TypeOK' /\ Selection'
  <2>1. sel \in 1..Len(queue) /\ Job \in Commands
    BY <1>9, QueueOfCommands DEF CheckStale
  <2>2. CASE Job \in MapSafe
    <3>1. /\ queue' \in Seq(Commands) /\ cleanup' \subseteq Commands
          /\ sel' = 0 /\ sel' \in 0..Len(queue') /\ npc' = "idle"
      BY <1>9, <2>1, <2>2, LeavingTypes DEF CheckStale, Forget
    <3>2. known' \subseteq Commands /\ dropped' \subseteq Commands
      BY <1>9, <2>1, <2>2 DEF CheckStale, Forget, Drop
    <3>3. used' \in [Bounded -> Nat] /\ processing' \in [Commands -> Payload]
      BY <1>9, <2>1, <2>2, Counting DEF CheckStale, Drop
    <3> QED BY <1>9, <3>1, <3>2, <3>3 DEF CheckStale
  <2>3. CASE Job \notin MapSafe
    BY SMTT(60), <1>9, <2>1, <2>3 DEF CheckStale, Retry
  <2> QED BY <2>2, <2>3
<1>10. ASSUME CheckPasses PROVE TypeOK' /\ Selection'
  BY <1>10 DEF CheckPasses
<1>11. ASSUME CleanAttempt PROVE TypeOK' /\ Selection'
  BY <1>11 DEF CleanAttempt
<1>12. ASSUME PersistAttempt PROVE TypeOK' /\ Selection'
  BY <1>12 DEF PersistAttempt
<1>13. ASSUME PersistRefused PROVE TypeOK' /\ Selection'
  BY SMTT(60), <1>13 DEF PersistRefused, Retry
<1>14. ASSUME PersistFails PROVE TypeOK' /\ Selection'
  BY SMTT(60), <1>14 DEF PersistFails, Retry, MayFail
<1>15. ASSUME RpcDelivered PROVE TypeOK' /\ Selection'
  BY SMTT(60), <1>15 DEF RpcDelivered, Effect
<1>16. ASSUME RpcRejected PROVE TypeOK' /\ Selection'
  <2>1. Job \in Commands /\ attempt' \subseteq Commands /\ cleanup' \subseteq Commands
    BY <1>16, QueueOfCommands DEF RpcRejected
  <2>2. sel' = 0 /\ sel' \in 0..Len(queue') /\ npc' = "idle"
    BY <1>16 DEF RpcRejected, Retry
  <2>3. used' \in [Bounded -> Nat]
    BY <1>16, Counting DEF RpcRejected
  <2> QED BY <1>16, <2>1, <2>2, <2>3 DEF RpcRejected
<1>17. ASSUME RpcAmbiguous PROVE TypeOK' /\ Selection'
  BY SMTT(60), <1>17 DEF RpcAmbiguous
<1>18. ASSUME RemoveClaim PROVE TypeOK' /\ Selection'
  BY <1>18 DEF RemoveClaim
<1>19. ASSUME RemoveAttempt PROVE TypeOK' /\ Selection'
  <2>1. sel \in 1..Len(queue) /\ Job \in Commands
    BY <1>19, QueueOfCommands DEF RemoveAttempt
  <2>2. /\ queue' \in Seq(Commands) /\ cleanup' \subseteq Commands
        /\ sel' = 0 /\ sel' \in 0..Len(queue') /\ npc' = "idle"
    BY <1>19, <2>1, LeavingTypes DEF RemoveAttempt, Forget
  <2>3. known' \subseteq Commands /\ attempt' \subseteq Commands
    BY <1>19, <2>1 DEF RemoveAttempt, Forget
  <2> QED BY <1>19, <2>1, <2>2, <2>3 DEF RemoveAttempt, Forget
<1>20. ASSUME RemovalFails PROVE TypeOK' /\ Selection'
  <2>1. sel \in 1..Len(queue) /\ Job \in Commands
    BY <1>20, QueueOfCommands DEF RemovalFails
  <2>2. /\ queue' \in Seq(Commands) /\ cleanup' \subseteq Commands
        /\ sel' = 0 /\ sel' \in 0..Len(queue') /\ npc' = "idle"
    BY <1>20, <2>1, LeavingTypes DEF RemovalFails
  <2>3. used' \in [Bounded -> Nat] /\ delivered' \subseteq Commands
    BY SMTT(60), <1>20, <2>1 DEF RemovalFails
  <2> QED BY <1>20, <2>1, <2>2, <2>3 DEF RemovalFails
<1>21. ASSUME Quarantine PROVE TypeOK' /\ Selection'
  <2>1. sel \in 1..Len(queue) /\ Job \in Commands
    BY <1>21, QueueOfCommands DEF Quarantine
  <2>2. /\ queue' \in Seq(Commands) /\ cleanup' \subseteq Commands
        /\ sel' = 0 /\ sel' \in 0..Len(queue') /\ npc' = "idle"
    BY <1>21, <2>1, LeavingTypes DEF Quarantine, Forget
  <2>3. known' \subseteq Commands /\ failed' \subseteq Commands
    BY <1>21, <2>1 DEF Quarantine, Forget
  <2>4. used' \in [Bounded -> Nat] /\ processing' \in [Commands -> Payload]
    BY <1>21, <2>1, Counting DEF Quarantine
  <2> QED BY <1>21, <2>1, <2>2, <2>3, <2>4 DEF Quarantine, Forget
<1>22. ASSUME NEW c \in Commands, RetryRemoval(c) PROVE TypeOK' /\ Selection'
  BY <1>22 DEF RetryRemoval
<1>23. ASSUME NEW c \in Commands, Requeue(c) PROVE TypeOK' /\ Selection'
  BY <1>23 DEF Requeue, Recovering
<1>24. ASSUME NEW c \in Commands, GiveUpInterrupted(c) PROVE TypeOK' /\ Selection'
  BY <1>24 DEF GiveUpInterrupted, Recovering
<1>25. ASSUME NEW c \in Commands, LeaveClaim(c) PROVE TypeOK' /\ Selection'
  BY <1>25 DEF LeaveClaim, Recovering
<1>26. ASSUME NEW c \in Commands, SkipQueued(c) PROVE TypeOK' /\ Selection'
  BY <1>26 DEF SkipQueued, Importing
<1>27. ASSUME NEW c \in Commands, DeleteDuplicate(c) PROVE TypeOK' /\ Selection'
  BY <1>27 DEF DeleteDuplicate, Importing
<1>28. ASSUME NEW c \in Commands, Claim(c) PROVE TypeOK' /\ Selection'
  BY <1>28 DEF Claim, Importing
<1>29. ASSUME NEW c \in Commands, Unreadable(c) PROVE TypeOK' /\ Selection'
  BY <1>29 DEF Unreadable, Importing
<1>30. ASSUME NEW c \in Commands, LateEffect(c) PROVE TypeOK' /\ Selection'
  BY SMTT(60), <1>30 DEF LateEffect, Effect
<1>31. ASSUME NEW i \in 1..Len(queue), DiscardStale(i) PROVE TypeOK' /\ Selection'
  <2>1. RemoveAt(queue, i) \in Seq(Commands) /\ queue[i] \in Commands
    BY QueueOfCommands
  <2>2. /\ queue' \in Seq(Commands) /\ known' \subseteq Commands /\ cleanup' \subseteq Commands
        /\ dropped' \subseteq Commands
    BY <1>31, <2>1 DEF DiscardStale, Drop
  <2>3. used' \in [Bounded -> Nat] /\ processing' \in [Commands -> Payload]
    BY <1>31, <2>1, Counting DEF DiscardStale, Drop
  <2>4. npc' = "discard" /\ sel' = 0 /\ sel' \in 0..Len(queue')
    BY <1>31, <2>2 DEF DiscardStale
  <2> QED BY <1>31, <2>2, <2>3, <2>4 DEF DiscardStale
<1>32. ASSUME NEW i \in 1..Len(queue), Select(i) PROVE TypeOK' /\ Selection'
  BY SMTT(60), <1>32 DEF Select
<1> QED BY <1>1, <1>2, <1>3, <1>4, <1>5, <1>6, <1>7, <1>8, <1>9, <1>10, <1>11, <1>12, <1>13, <1>14, <1>15, <1>16, <1>17, <1>18, <1>19, <1>20, <1>21, <1>22, <1>23, <1>24, <1>25, <1>26, <1>27, <1>28, <1>29, <1>30, <1>31, <1>32 DEF NativeStep

-----------------------------------------------------------------------------
(* The memory queue *)

\* What the other jobs of the queue are is not changed by the removal of one.
LEMMA RemovalKeepsOthers ==
    ASSUME TypeOK, QueueIsDeduplicated, NEW i \in 1..Len(queue),
           NEW q, q = RemoveAt(queue, i)
    PROVE  /\ \A j \in 1..Len(q) : q[j] \in (known \ delivered) \ {queue[i]}
           /\ \A j, k \in 1..Len(q) : q[j] = q[k] => j = k
<1>1. queue \in Seq(Commands) /\ Len(queue) \in Nat
  BY DEF TypeOK
<1>2. /\ Len(q) = Len(queue) - 1
      /\ \A j \in 1..Len(q) : q[j] = IF j < i THEN queue[j] ELSE queue[j + 1]
  BY <1>1, RemoveAtElements
<1>3. \A j \in 1..Len(q) : \E m \in 1..Len(queue) :
          q[j] = queue[m] /\ m # i /\ m = (IF j < i THEN j ELSE j + 1)
  BY <1>1, <1>2
<1> QED BY <1>1, <1>2, <1>3 DEF QueueIsDeduplicated

LEMMA BridgeKeepsMemory ==
    ASSUME Memory, BridgeStep
    PROVE  Memory'
<1>1. UNCHANGED <<native, failed>>
  BY ZenonT(60) DEF BridgeStep, BridgeStart, BridgeReady, BridgeCrash, ResetAuthority, PublishMarker,
       BindFails, EndBind, EnsureMarker, BeginBind, PublishLease, HoldDev, HoldForeign, BeginPublish,
       Probe, Link, VerifyFailed, VerifyProcessing, Withdraw, PublishFails, ResumeDev
<1> QED BY <1>1 DEF Memory, QueueIsDeduplicated

LEMMA ConsumerKeepsMemory ==
    ASSUME TypeOK, Selection, Memory, NativeStep
    PROVE  Memory'
<1> USE DEF Memory
<1>1. ASSUME NativeStart PROVE Memory'
  BY <1>1 DEF NativeStart, QueueIsDeduplicated
<1>2. ASSUME NativeCrash PROVE Memory'
  BY <1>2 DEF NativeCrash, QueueIsDeduplicated
<1>3. ASSUME BeginImport PROVE Memory'
  BY <1>3 DEF BeginImport, QueueIsDeduplicated
<1>4. ASSUME EndRecover PROVE Memory'
  BY <1>4 DEF EndRecover, QueueIsDeduplicated
<1>5. ASSUME EndImport PROVE Memory'
  BY <1>5 DEF EndImport, QueueIsDeduplicated
<1>6. ASSUME EndDiscard PROVE Memory'
  BY <1>6 DEF EndDiscard, QueueIsDeduplicated
<1>7. ASSUME SelectNone PROVE Memory'
  BY <1>7 DEF SelectNone, QueueIsDeduplicated
<1>8. ASSUME CheckPasses PROVE Memory'
  BY <1>8 DEF CheckPasses, QueueIsDeduplicated
<1>9. ASSUME CleanAttempt PROVE Memory'
  BY <1>9 DEF CleanAttempt, QueueIsDeduplicated
<1>10. ASSUME PersistAttempt PROVE Memory'
  BY <1>10 DEF PersistAttempt, QueueIsDeduplicated
<1>11. ASSUME PersistRefused PROVE Memory'
  BY <1>11 DEF PersistRefused, QueueIsDeduplicated, Retry
<1>12. ASSUME PersistFails PROVE Memory'
  BY <1>12 DEF PersistFails, QueueIsDeduplicated, Retry
<1>13. ASSUME RpcDelivered PROVE Memory'
  BY <1>13 DEF RpcDelivered, QueueIsDeduplicated
<1>14. ASSUME RpcRejected PROVE Memory'
  BY <1>14 DEF RpcRejected, QueueIsDeduplicated, Retry
<1>15. ASSUME RpcAmbiguous PROVE Memory'
  BY <1>15 DEF RpcAmbiguous, QueueIsDeduplicated
<1>16. ASSUME RemoveClaim PROVE Memory'
  BY <1>16 DEF RemoveClaim, QueueIsDeduplicated
<1>17. ASSUME NEW c \in Commands, Requeue(c) PROVE Memory'
  BY <1>17 DEF Requeue, QueueIsDeduplicated, Recovering
<1>18. ASSUME NEW c \in Commands, GiveUpInterrupted(c) PROVE Memory'
  BY <1>18 DEF GiveUpInterrupted, QueueIsDeduplicated, Recovering
<1>19. ASSUME NEW c \in Commands, LeaveClaim(c) PROVE Memory'
  BY <1>19 DEF LeaveClaim, QueueIsDeduplicated, Recovering
<1>20. ASSUME NEW c \in Commands, SkipQueued(c) PROVE Memory'
  BY <1>20 DEF SkipQueued, QueueIsDeduplicated, Importing
<1>21. ASSUME NEW c \in Commands, DeleteDuplicate(c) PROVE Memory'
  BY <1>21 DEF DeleteDuplicate, QueueIsDeduplicated, Importing
<1>22. ASSUME NEW c \in Commands, Unreadable(c) PROVE Memory'
  BY <1>22 DEF Unreadable, QueueIsDeduplicated, Importing
<1>23. ASSUME NEW c \in Commands, LateEffect(c) PROVE Memory'
  BY <1>23 DEF LateEffect, QueueIsDeduplicated
<1>24. ASSUME NEW i \in 1..Len(queue), Select(i) PROVE Memory'
  BY <1>24 DEF Select, QueueIsDeduplicated
<1>25. ASSUME NEW c \in Commands, RetryRemoval(c) PROVE Memory'
  BY <1>25 DEF RetryRemoval, QueueIsDeduplicated
<1>26. ASSUME NEW c \in Commands, Claim(c) PROVE Memory'
  BY <1>26 DEF Claim, QueueIsDeduplicated, Importing, Importable, TypeOK
<1>27. ASSUME CheckForgets PROVE Memory'
  <2>1. sel \in 1..Len(queue) /\ Job \in known \ delivered
    BY <1>27 DEF CheckForgets, Selection, Busy, QueueIsDeduplicated, Job
  <2>2. /\ \A j \in 1..Len(RemoveAt(queue, sel)) :
               RemoveAt(queue, sel)[j] \in (known \ delivered) \ {Job}
        /\ \A j, k \in 1..Len(RemoveAt(queue, sel)) :
               RemoveAt(queue, sel)[j] = RemoveAt(queue, sel)[k] => j = k
    BY <2>1, RemovalKeepsOthers DEF Job
  <2> QED BY <1>27, <2>1, <2>2 DEF CheckForgets, Forget, LeaveQueue, QueueIsDeduplicated
<1>28. ASSUME RemoveAttempt PROVE Memory'
  <2>1. sel \in 1..Len(queue) /\ Job \in known \ delivered
    BY <1>28 DEF RemoveAttempt, Selection, Busy, QueueIsDeduplicated, Job
  <2>2. /\ \A j \in 1..Len(RemoveAt(queue, sel)) :
               RemoveAt(queue, sel)[j] \in (known \ delivered) \ {Job}
        /\ \A j, k \in 1..Len(RemoveAt(queue, sel)) :
               RemoveAt(queue, sel)[j] = RemoveAt(queue, sel)[k] => j = k
    BY <2>1, RemovalKeepsOthers DEF Job
  <2> QED BY <1>28, <2>1, <2>2 DEF RemoveAttempt, Forget, LeaveQueue, QueueIsDeduplicated
<1>29. ASSUME RemovalFails PROVE Memory'
  <2>1. sel \in 1..Len(queue) /\ Job \in known \ delivered
    BY <1>29 DEF RemovalFails, Selection, Busy, QueueIsDeduplicated, Job
  <2>2. /\ \A j \in 1..Len(RemoveAt(queue, sel)) :
               RemoveAt(queue, sel)[j] \in (known \ delivered) \ {Job}
        /\ \A j, k \in 1..Len(RemoveAt(queue, sel)) :
               RemoveAt(queue, sel)[j] = RemoveAt(queue, sel)[k] => j = k
    BY <2>1, RemovalKeepsOthers DEF Job
  <2> QED BY <1>29, <2>1, <2>2 DEF RemovalFails, LeaveQueue, QueueIsDeduplicated
<1>30. ASSUME Quarantine PROVE Memory'
  <2>1. sel \in 1..Len(queue) /\ Job \in known \ delivered
    BY <1>30 DEF Quarantine, Selection, Busy, QueueIsDeduplicated, Job
  <2>2. /\ \A j \in 1..Len(RemoveAt(queue, sel)) :
               RemoveAt(queue, sel)[j] \in (known \ delivered) \ {Job}
        /\ \A j, k \in 1..Len(RemoveAt(queue, sel)) :
               RemoveAt(queue, sel)[j] = RemoveAt(queue, sel)[k] => j = k
    BY <2>1, RemovalKeepsOthers DEF Job
  <2> QED BY <1>30, <2>1, <2>2 DEF Quarantine, Forget, LeaveQueue, QueueIsDeduplicated
<1>31. ASSUME CheckStale PROVE Memory'
  <2>1. sel \in 1..Len(queue) /\ Job \in known \ delivered
    BY <1>31 DEF CheckStale, Selection, Busy, QueueIsDeduplicated, Job
  <2>2. /\ \A j \in 1..Len(RemoveAt(queue, sel)) :
               RemoveAt(queue, sel)[j] \in (known \ delivered) \ {Job}
        /\ \A j, k \in 1..Len(RemoveAt(queue, sel)) :
               RemoveAt(queue, sel)[j] = RemoveAt(queue, sel)[k] => j = k
    BY <2>1, RemovalKeepsOthers DEF Job
  <2> QED BY <1>31, <2>1, <2>2 DEF CheckStale, Forget, LeaveQueue, Retry, QueueIsDeduplicated
<1>32. ASSUME NEW i \in 1..Len(queue), DiscardStale(i) PROVE Memory'
  <2>1. /\ \A j \in 1..Len(RemoveAt(queue, i)) :
               RemoveAt(queue, i)[j] \in (known \ delivered) \ {queue[i]}
        /\ \A j, k \in 1..Len(RemoveAt(queue, i)) :
               RemoveAt(queue, i)[j] = RemoveAt(queue, i)[k] => j = k
    BY RemovalKeepsOthers
  <2> QED BY <1>32, <2>1 DEF DiscardStale, QueueIsDeduplicated
<1> QED BY <1>1, <1>2, <1>3, <1>4, <1>5, <1>6, <1>7, <1>8, <1>9, <1>10, <1>11, <1>12, <1>13, <1>14, <1>15, <1>16, <1>17, <1>18, <1>19, <1>20, <1>21, <1>22, <1>23, <1>24, <1>25, <1>26, <1>27, <1>28, <1>29, <1>30, <1>31, <1>32 DEF NativeStep

-----------------------------------------------------------------------------
(* The attempts *)

LEMMA BridgeKeepsAttempts ==
    ASSUME TypeOK, Attempts, BridgeStep
    PROVE  Attempts'
<1> USE DEF Attempts, UncertainNotResubmitted, Job, ClaimFiles
<1>1. ASSUME NEW c \in Commands, HoldDev(c) PROVE Attempts'
  BY <1>1 DEF HoldDev, TypeOK
<1>2. ASSUME UNCHANGED <<native, processing, attempt>> PROVE Attempts'
  BY <1>2
<1> QED BY <1>1, <1>2 DEF BridgeStep, BridgeStart, BridgeReady, BridgeCrash, ResetAuthority,
       PublishMarker, BindFails, EndBind, EnsureMarker, BeginBind, PublishLease, HoldForeign, BeginPublish,
       Probe, Link, VerifyFailed, VerifyProcessing, Withdraw, PublishFails,
       ResumeDev

LEMMA ConsumerKeepsAttempts ==
    ASSUME TypeOK, Selection, Memory, Attempts, NativeStep
    PROVE  Attempts'
<1> USE DEF Attempts, UncertainNotResubmitted, Job, ClaimFiles
<1>0. npc \in Busy => Job \in known \ delivered
  BY DEF Selection, Memory, QueueIsDeduplicated
<1>1. ASSUME NativeStart PROVE Attempts'
  BY <1>0, <1>1 DEF NativeStart, Busy
<1>2. ASSUME NativeCrash PROVE Attempts'
  BY <1>0, <1>2 DEF NativeCrash, Busy
<1>3. ASSUME BeginImport PROVE Attempts'
  BY <1>0, <1>3 DEF BeginImport, Busy
<1>4. ASSUME EndRecover PROVE Attempts'
  BY <1>0, <1>4 DEF EndRecover, Busy
<1>5. ASSUME EndImport PROVE Attempts'
  BY <1>0, <1>5 DEF EndImport, Busy
<1>6. ASSUME EndDiscard PROVE Attempts'
  BY <1>0, <1>6 DEF EndDiscard, Busy
<1>7. ASSUME SelectNone PROVE Attempts'
  BY <1>0, <1>7 DEF SelectNone, Busy
<1>8. ASSUME CheckForgets PROVE Attempts'
  BY <1>0, <1>8 DEF CheckForgets, Forget, LeaveQueue, Busy
<1>9. ASSUME CheckStale PROVE Attempts'
  BY <1>0, <1>9 DEF CheckStale, Forget, LeaveQueue, Retry, Busy
<1>10. ASSUME CheckPasses PROVE Attempts'
  BY <1>0, <1>10 DEF CheckPasses, Busy
<1>11. ASSUME CleanAttempt PROVE Attempts'
  BY <1>0, <1>11 DEF CleanAttempt, Busy
<1>12. ASSUME PersistAttempt PROVE Attempts'
  BY <1>0, <1>12 DEF PersistAttempt, Busy
<1>13. ASSUME PersistRefused PROVE Attempts'
  BY <1>0, <1>13 DEF PersistRefused, Retry, Busy
<1>14. ASSUME PersistFails PROVE Attempts'
  BY <1>0, <1>14 DEF PersistFails, Retry, Busy
<1>15. ASSUME RpcDelivered PROVE Attempts'
  BY <1>0, <1>15 DEF RpcDelivered, Effect, Busy
<1>16. ASSUME RpcRejected PROVE Attempts'
  BY <1>0, <1>16 DEF RpcRejected, Retry, Busy
<1>17. ASSUME RpcAmbiguous PROVE Attempts'
  BY <1>0, <1>17 DEF RpcAmbiguous, Busy
<1>18. ASSUME RemoveClaim PROVE Attempts'
  <2>1. Job \in Commands /\ processing \in [Commands -> Payload]
    BY <1>18, QueueOfCommands DEF RemoveClaim, Selection, Busy, TypeOK
  <2> QED BY <1>0, <1>18, <2>1 DEF RemoveClaim, Busy
<1>19. ASSUME RemoveAttempt PROVE Attempts'
  BY <1>0, <1>19 DEF RemoveAttempt, Forget, LeaveQueue, Busy
<1>20. ASSUME RemovalFails PROVE Attempts'
  BY <1>0, <1>20 DEF RemovalFails, LeaveQueue, Busy
<1>21. ASSUME Quarantine PROVE Attempts'
  BY <1>0, <1>21 DEF Quarantine, Forget, LeaveQueue, Busy
<1>22. ASSUME NEW c \in Commands, RetryRemoval(c) PROVE Attempts'
  BY <1>0, <1>22 DEF RetryRemoval, Busy
<1>23. ASSUME NEW c \in Commands, Requeue(c) PROVE Attempts'
  BY <1>0, <1>23 DEF Requeue, Recovering, Busy
<1>24. ASSUME NEW c \in Commands, GiveUpInterrupted(c) PROVE Attempts'
  BY <1>0, <1>24 DEF GiveUpInterrupted, Recovering, Busy
<1>25. ASSUME NEW c \in Commands, LeaveClaim(c) PROVE Attempts'
  BY <1>0, <1>25 DEF LeaveClaim, Recovering, Busy
<1>26. ASSUME NEW c \in Commands, SkipQueued(c) PROVE Attempts'
  BY <1>0, <1>26 DEF SkipQueued, Importing, Busy
<1>27. ASSUME NEW c \in Commands, DeleteDuplicate(c) PROVE Attempts'
  BY <1>0, <1>27 DEF DeleteDuplicate, Importing, Busy
<1>28. ASSUME NEW c \in Commands, Claim(c) PROVE Attempts'
  BY <1>0, <1>28 DEF Claim, Importing, Busy
<1>29. ASSUME NEW c \in Commands, Unreadable(c) PROVE Attempts'
  BY <1>0, <1>29 DEF Unreadable, Importing, Busy
<1>30. ASSUME NEW c \in Commands, LateEffect(c) PROVE Attempts'
  BY <1>0, <1>30 DEF LateEffect, Effect, Busy
<1>31. ASSUME NEW i \in 1..Len(queue), DiscardStale(i) PROVE Attempts'
  BY <1>0, <1>31 DEF DiscardStale, Drop, Busy
<1>32. ASSUME NEW i \in 1..Len(queue), Select(i) PROVE Attempts'
  BY <1>0, <1>32 DEF Select, Busy
<1> QED BY <1>1, <1>2, <1>3, <1>4, <1>5, <1>6, <1>7, <1>8, <1>9, <1>10, <1>11, <1>12, <1>13, <1>14, <1>15, <1>16, <1>17, <1>18, <1>19, <1>20, <1>21, <1>22, <1>23, <1>24, <1>25, <1>26, <1>27, <1>28, <1>29, <1>30, <1>31, <1>32 DEF NativeStep

-----------------------------------------------------------------------------
(* Credits: every step is a step of the ledger *)

\* The publication the bridge is in the middle of is within its bound.
Pending == bpc \in {"probe", "link"} => \A c \in bcmd : created[c] < MaxPublish

\* Nothing is run from a step after which no command has more to be run from.
LEMMA NoMoreCredit ==
    ASSUME UNCHANGED <<created, effects>>,
           \A c \in Commands : /\ c \in CmdFiles' => c \in CmdFiles
                               /\ Claimed(c)' => Claimed(c)
    PROVE  Ledger!Lose
BY DEF Ledger!Lose, Credit

\* A file that appears is one credit more.
LEMMA OnePublished ==
    ASSUME NEW c \in Commands, created[c] < MaxPublish,
           created' = [created EXCEPT ![c] = @ + 1], effects' = effects,
           c \notin CmdFiles, c \in CmdFiles',
           \A d \in Commands : /\ d # c => (d \in CmdFiles' <=> d \in CmdFiles)
                               /\ Claimed(d)' <=> Claimed(d)
    PROVE  Ledger!Publish(c)
<1>1. ASSUME NEW d \in Commands
      PROVE  Credit'[d] = IF d = c THEN Credit[d] + 1 ELSE Credit[d]
  BY DEF Credit
<1>2. /\ Credit = [d \in Commands |-> Credit[d]]
      /\ Credit' = [d \in Commands |-> Credit'[d]]
  BY DEF Credit
<1>3. Credit' = [Credit EXCEPT ![c] = @ + 1]
  BY <1>1, <1>2
<1> QED BY <1>3 DEF Ledger!Publish

\* An effect takes the credit of the claim it was run from.
LEMMA OneApplied ==
    ASSUME NEW c \in Commands,
           effects' = [effects EXCEPT ![c] = @ + 1], UNCHANGED <<created, cmd>>,
           Claimed(c), ~Claimed(c)',
           \A d \in Commands : d # c => (Claimed(d)' <=> Claimed(d))
    PROVE  Ledger!Apply(c)
<1>1. ASSUME NEW d \in Commands
      PROVE  Credit'[d] = IF d = c THEN Credit[d] - 1 ELSE Credit[d]
  BY DEF Credit, CmdFiles
<1>2. /\ Credit = [d \in Commands |-> Credit[d]]
      /\ Credit' = [d \in Commands |-> Credit'[d]]
  BY DEF Credit
<1>3. Credit' = [Credit EXCEPT ![c] = @ - 1]
  BY <1>1, <1>2
<1>4. Credit[c] > 0
  BY DEF Credit
<1> QED BY <1>3, <1>4 DEF Ledger!Apply

LEMMA BridgeStepsTheLedger ==
    ASSUME TypeOK, Pending, BridgeStep
    PROVE  Ledger!Next
<1> USE DEF Claimed, ClaimFiles, CmdFiles, Job, Ledger!Next
<1>1. ASSUME NEW c \in Commands, HoldDev(c) PROVE Ledger!Next
  BY <1>1, NoMoreCredit DEF HoldDev, TypeOK
<1>2. ASSUME NEW c \in Commands, HoldForeign(c) PROVE Ledger!Next
  BY <1>2, NoMoreCredit DEF HoldForeign, TypeOK
<1>3. ASSUME NEW c \in Commands, Withdraw(c) PROVE Ledger!Next
  BY <1>3, NoMoreCredit DEF Withdraw, Returned, TypeOK
<1>4. ASSUME NEW c \in Commands, Link(c) PROVE Ledger!Next
  <2>1. CASE c \in CmdFiles
    BY <1>4, <2>1, NoMoreCredit DEF Link
  <2>2. CASE c \notin CmdFiles
    <3>1. created[c] < MaxPublish
      BY <1>4 DEF Link, Pending
    <3>2. /\ c \in CmdFiles'
          /\ \A d \in Commands : d # c => (d \in CmdFiles' <=> d \in CmdFiles)
      BY <1>4, <2>2, LeasesAssumption DEF Link, TypeOK
    <3>3. /\ created' = [created EXCEPT ![c] = @ + 1] /\ effects' = effects
          /\ UNCHANGED <<processing, attempt, native>>
      BY <1>4, <2>2 DEF Link
    <3>4. \A d \in Commands : Claimed(d)' <=> Claimed(d)
      BY <3>3
    <3> HIDE DEF Claimed, CmdFiles
    <3> QED BY <2>2, <3>1, <3>2, <3>3, <3>4, OnePublished
  <2> QED BY <2>1, <2>2
<1>5. ASSUME NEW c \in Commands, ResumeDev(c) PROVE Ledger!Next
  BY <1>5, OnePublished, LeasesAssumption DEF ResumeDev, TypeOK
<1>6. ASSUME UNCHANGED <<native, cmd, processing, attempt, created, effects>> PROVE Ledger!Next
  BY <1>6, NoMoreCredit
<1> QED BY <1>1, <1>2, <1>3, <1>4, <1>5, <1>6 DEF BridgeStep, BridgeStart, BridgeReady, BridgeCrash,
       ResetAuthority, PublishMarker, BindFails, EndBind, EnsureMarker, BeginBind, PublishLease, BeginPublish,
       Probe, VerifyFailed, VerifyProcessing, PublishFails, Returned

LEMMA ConsumerStepsTheLedger ==
    ASSUME TypeOK, Selection, Memory, Attempts, NativeStep
    PROVE  Ledger!Next
<1> USE DEF Claimed, ClaimFiles, CmdFiles, Job, Ledger!Next
<1>0. npc \in Busy => sel \in 1..Len(queue) /\ Job \in Commands
  BY QueueOfCommands DEF Selection
<1>1. ASSUME NativeStart PROVE Ledger!Next
  BY <1>0, <1>1, NoMoreCredit DEF NativeStart, Busy, TypeOK, Attempts
<1>2. ASSUME NativeCrash PROVE Ledger!Next
  BY <1>0, <1>2, NoMoreCredit DEF NativeCrash, Busy, TypeOK, Attempts
<1>3. ASSUME BeginImport PROVE Ledger!Next
  BY <1>0, <1>3, NoMoreCredit DEF BeginImport, Busy, TypeOK, Attempts
<1>4. ASSUME EndRecover PROVE Ledger!Next
  BY <1>0, <1>4, NoMoreCredit DEF EndRecover, Busy, TypeOK, Attempts
<1>5. ASSUME EndImport PROVE Ledger!Next
  BY <1>0, <1>5, NoMoreCredit DEF EndImport, Busy, TypeOK, Attempts
<1>6. ASSUME EndDiscard PROVE Ledger!Next
  BY <1>0, <1>6, NoMoreCredit DEF EndDiscard, Busy, TypeOK, Attempts
<1>7. ASSUME SelectNone PROVE Ledger!Next
  BY <1>0, <1>7, NoMoreCredit DEF SelectNone, Busy, TypeOK, Attempts
<1>8. ASSUME CheckForgets PROVE Ledger!Next
  BY <1>0, <1>8, NoMoreCredit DEF CheckForgets, Forget, LeaveQueue, Busy, TypeOK, Attempts
<1>9. ASSUME CheckStale PROVE Ledger!Next
  BY <1>0, <1>9, NoMoreCredit DEF CheckStale, Drop, Forget, LeaveQueue, Retry, Busy, TypeOK, Attempts
<1>10. ASSUME CheckPasses PROVE Ledger!Next
  BY <1>0, <1>10, NoMoreCredit DEF CheckPasses, Busy, TypeOK, Attempts
<1>11. ASSUME CleanAttempt PROVE Ledger!Next
  BY <1>0, <1>11, NoMoreCredit DEF CleanAttempt, Busy, TypeOK, Attempts
<1>12. ASSUME PersistAttempt PROVE Ledger!Next
  BY <1>0, <1>12, NoMoreCredit DEF PersistAttempt, Busy, TypeOK, Attempts
<1>13. ASSUME PersistRefused PROVE Ledger!Next
  BY <1>0, <1>13, NoMoreCredit DEF PersistRefused, Retry, Busy, TypeOK, Attempts
<1>14. ASSUME PersistFails PROVE Ledger!Next
  BY <1>0, <1>14, NoMoreCredit DEF PersistFails, Retry, Busy, TypeOK, Attempts
<1>15. ASSUME RpcDelivered PROVE Ledger!Next
  BY <1>0, <1>15, OneApplied DEF RpcDelivered, Effect, Busy, Attempts, UncertainNotResubmitted
<1>16. ASSUME RpcRejected PROVE Ledger!Next
  BY <1>0, <1>16, NoMoreCredit DEF RpcRejected, Retry, Busy, TypeOK, Attempts
<1>17. ASSUME RpcAmbiguous PROVE Ledger!Next
  BY <1>0, <1>17, NoMoreCredit DEF RpcAmbiguous, Busy, TypeOK, Attempts
<1>18. ASSUME RemoveClaim PROVE Ledger!Next
  BY <1>0, <1>18, NoMoreCredit DEF RemoveClaim, Busy, TypeOK, Attempts
<1>19. ASSUME RemoveAttempt PROVE Ledger!Next
  BY <1>0, <1>19, NoMoreCredit DEF RemoveAttempt, Forget, LeaveQueue, Busy, TypeOK, Attempts
<1>20. ASSUME RemovalFails PROVE Ledger!Next
  BY <1>0, <1>20, NoMoreCredit DEF RemovalFails, LeaveQueue, Busy, TypeOK, Attempts
<1>21. ASSUME Quarantine PROVE Ledger!Next
  BY <1>0, <1>21, NoMoreCredit DEF Quarantine, Forget, LeaveQueue, Busy, TypeOK, Attempts
<1>22. ASSUME NEW c \in Commands, RetryRemoval(c) PROVE Ledger!Next
  BY <1>0, <1>22, NoMoreCredit DEF RetryRemoval, Busy, TypeOK, Attempts
<1>23. ASSUME NEW c \in Commands, Requeue(c) PROVE Ledger!Next
  <2>1. ASSUME NEW d \in Commands
        PROVE  Credit'[d] \in Nat /\ Credit[d] \in Nat /\ Credit'[d] <= Credit[d]
    BY <1>23 DEF Credit, Requeue, Recovering, TypeOK, Attempts, UncertainNotResubmitted
  <2>2. Credit' \in [Commands -> Nat]
    BY <2>1 DEF Credit
  <2> QED BY <1>23, <2>1, <2>2 DEF Ledger!Lose, Requeue
<1>24. ASSUME NEW c \in Commands, GiveUpInterrupted(c) PROVE Ledger!Next
  BY <1>0, <1>24, NoMoreCredit DEF GiveUpInterrupted, Recovering, Busy, TypeOK, Attempts
<1>25. ASSUME NEW c \in Commands, LeaveClaim(c) PROVE Ledger!Next
  BY <1>0, <1>25, NoMoreCredit DEF LeaveClaim, Recovering, Busy, TypeOK, Attempts
<1>26. ASSUME NEW c \in Commands, SkipQueued(c) PROVE Ledger!Next
  BY <1>0, <1>26, NoMoreCredit DEF SkipQueued, Importing, Busy, TypeOK, Attempts
<1>27. ASSUME NEW c \in Commands, DeleteDuplicate(c) PROVE Ledger!Next
  BY <1>0, <1>27, NoMoreCredit DEF DeleteDuplicate, Importing, Busy, TypeOK, Attempts
<1>28. ASSUME NEW c \in Commands, Claim(c) PROVE Ledger!Next
  <2>1. ASSUME NEW d \in Commands
        PROVE  Credit'[d] \in Nat /\ Credit[d] \in Nat /\ Credit'[d] <= Credit[d]
    BY <1>28 DEF Credit, Claim, Importing, TypeOK
  <2>2. Credit' \in [Commands -> Nat]
    BY <2>1 DEF Credit
  <2> QED BY <1>28, <2>1, <2>2 DEF Ledger!Lose, Claim
<1>29. ASSUME NEW c \in Commands, Unreadable(c) PROVE Ledger!Next
  BY <1>0, <1>29, NoMoreCredit DEF Unreadable, Importing, Busy, TypeOK, Attempts
<1>30. ASSUME NEW c \in Commands, LateEffect(c) PROVE Ledger!Next
  BY <1>0, <1>30, OneApplied DEF LateEffect, Effect, Busy, Attempts, UncertainNotResubmitted
<1>31. ASSUME NEW i \in 1..Len(queue), DiscardStale(i) PROVE Ledger!Next
  BY <1>0, <1>31, NoMoreCredit DEF DiscardStale, Drop, Busy, TypeOK, Attempts
<1>32. ASSUME NEW i \in 1..Len(queue), Select(i) PROVE Ledger!Next
  BY <1>0, <1>32, NoMoreCredit DEF Select, Busy, TypeOK, Attempts
<1> QED BY <1>1, <1>2, <1>3, <1>4, <1>5, <1>6, <1>7, <1>8, <1>9, <1>10, <1>11, <1>12, <1>13, <1>14, <1>15, <1>16, <1>17, <1>18, <1>19, <1>20, <1>21, <1>22, <1>23, <1>24, <1>25, <1>26, <1>27, <1>28, <1>29, <1>30, <1>31, <1>32 DEF NativeStep


LEMMA StepsKeepPending ==
    ASSUME TypeOK, Pending, [Next]_vars
    PROVE  Pending'
<1>1. CASE BridgeStep
  BY <1>1 DEF Pending, Returned, BridgeStep, BridgeStart, BridgeReady, BridgeCrash, ResetAuthority,
     PublishMarker, BindFails, EndBind, EnsureMarker, BeginBind, PublishLease, HoldDev, HoldForeign,
     BeginPublish, Probe, Link, VerifyFailed, VerifyProcessing, Withdraw, PublishFails,
       ResumeDev
<1>2. CASE NativeStep
  <2>1. UNCHANGED <<bridge, created>>
    BY <1>2 DEF NativeStep, NativeStart, NativeCrash, BeginImport, EndRecover, EndImport,
       EndDiscard, SelectNone, CheckForgets, CheckStale, CheckPasses, CleanAttempt, PersistAttempt,
       PersistRefused, PersistFails, RpcDelivered, RpcRejected, RpcAmbiguous, RemoveClaim,
       RemoveAttempt, RemovalFails, Quarantine, RetryRemoval, Requeue, GiveUpInterrupted, LeaveClaim,
       SkipQueued, DeleteDuplicate, Claim, Unreadable, LateEffect, DiscardStale, Select
  <2> QED BY <2>1 DEF Pending
<1>3. CASE UNCHANGED vars
  BY <1>3 DEF Pending
<1> QED BY <1>1, <1>2, <1>3 DEF Next

\* What a step of the ledger keeps: no more effects than publications.
LEMMA LedgerKeepsBound ==
    ASSUME TypeOK, CreditBound, Ledger!Next
    PROVE  CreditBound'
<1> SUFFICES ASSUME NEW d \in Commands PROVE effects'[d] + Credit'[d] <= created'[d]
  BY DEF CreditBound
<1>0. /\ effects[d] \in Nat /\ created[d] \in Nat /\ Credit[d] \in Nat /\ Credit'[d] \in Nat
      /\ effects[d] + Credit[d] <= created[d]
  BY DEF CreditBound, TypeOK, Credit
<1>t. /\ effects \in [Commands -> Nat] /\ created \in [Commands -> Nat]
      /\ DOMAIN Credit = Commands
  BY DEF TypeOK, Credit
<1>1. ASSUME NEW c \in Commands, Ledger!Publish(c)
      PROVE  effects'[d] + Credit'[d] <= created'[d]
  BY <1>0, <1>t, <1>1 DEF Ledger!Publish
<1>2. ASSUME NEW c \in Commands, Ledger!Apply(c)
      PROVE  effects'[d] + Credit'[d] <= created'[d]
  BY <1>0, <1>t, <1>2 DEF Ledger!Apply
<1>3. CASE Ledger!Lose
  BY <1>0, <1>3 DEF Ledger!Lose
<1> QED BY <1>1, <1>2, <1>3 DEF Ledger!Next

-----------------------------------------------------------------------------
(* The theorems *)

LEMMA InitEstablishesInvariant ==
    ASSUME Init
    PROVE  TypeOK /\ ConsumerInvariant /\ Pending
<1>1. TypeOK
  <2>1. queue \in Seq(Commands) /\ sel \in 0..Len(queue)
    BY DEF Init
  <2> QED BY <2>1 DEF Init, TypeOK, Payload, BridgePc, NativePc, Bounded
<1>2. Selection /\ Memory /\ Attempts
  BY DEF Init, Selection, Busy, Memory, QueueIsDeduplicated, Attempts, UncertainNotResubmitted
<1>3. CreditBound
  BY DEF Init, CreditBound, Credit, CmdFiles, ClaimFiles, Claimed
<1>4. Pending
  BY DEF Init, Pending
<1> QED BY <1>1, <1>2, <1>3, <1>4 DEF ConsumerInvariant

LEMMA StepOfLedger ==
    ASSUME TypeOK, ConsumerInvariant, Pending, [Next]_vars
    PROVE  Ledger!Next
<1>1. CASE UNCHANGED vars
  BY <1>1, NoMoreCredit DEF Ledger!Next, CmdFiles, ClaimFiles, Claimed, Job
<1> QED BY <1>1, BridgeStepsTheLedger, ConsumerStepsTheLedger DEF Next, ConsumerInvariant

LEMMA StepKeepsInvariant ==
    ASSUME TypeOK, ConsumerInvariant, Pending, [Next]_vars
    PROVE  TypeOK' /\ ConsumerInvariant' /\ Pending'
<1> USE DEF ConsumerInvariant
<1>1. CreditBound' /\ Pending'
  BY StepOfLedger, LedgerKeepsBound, StepsKeepPending
<1>2. CASE BridgeStep
  BY <1>1, <1>2, BridgeKeepsTypes, BridgeKeepsMemory, BridgeKeepsAttempts
<1>3. CASE NativeStep
  BY <1>1, <1>3, ConsumerKeepsTypes, ConsumerKeepsMemory, ConsumerKeepsAttempts
<1>4. CASE UNCHANGED vars
  BY <1>1, <1>4 DEF TypeOK, Selection, Memory, QueueIsDeduplicated, Attempts,
                    UncertainNotResubmitted, Job, ClaimFiles
<1> QED BY <1>2, <1>3, <1>4 DEF Next

\* Both processes keep the invariant, for any commands, rooms, leases and bounds: what is
\* in the consumer's memory and the attempt files account for every publication.
THEOREM InvariantHolds == Spec => [](TypeOK /\ ConsumerInvariant /\ Pending)
<1>1. Init => TypeOK /\ ConsumerInvariant /\ Pending
  BY InitEstablishesInvariant
<1>2. TypeOK /\ ConsumerInvariant /\ Pending /\ [Next]_vars
      => (TypeOK /\ ConsumerInvariant /\ Pending)'
  BY StepKeepsInvariant
<1> HIDE DEF vars
<1> QED BY <1>1, <1>2, PTL DEF Spec

\* Everything the two processes do is a step of the ledger: a publication adds a credit, an
\* effect takes one, and no recovery, retry, clean-up or crash makes one.
THEOREM QueueImplementsLedger == Spec => ImplementsLedger
<1>1. Init => Ledger!Init
  BY DEF Init, Ledger!Init, Credit, CmdFiles, ClaimFiles, Claimed
<1>2. TypeOK /\ ConsumerInvariant /\ Pending /\ [Next]_vars => [Ledger!Next]_(Ledger!vars)
  BY StepOfLedger
<1> HIDE DEF vars
<1> QED BY <1>1, <1>2, InvariantHolds, PTL DEF Spec, ImplementsLedger, Ledger!Spec

\* Every variable keeps its type (TypeOK) in command_queue.cpp's and the bridge's steps.
THEOREM TypesHold == Spec => []TypeOK
BY InvariantHolds, PTL

\* A publication of a command has at most one effect in the game, whichever process dies
\* wherever and whichever file operation fails.
THEOREM AtMostOneEffect == Spec => []AtMostOncePerPublication
<1>1. TypeOK /\ ConsumerInvariant => AtMostOncePerPublication
  <2> SUFFICES ASSUME TypeOK, CreditBound, NEW c \in Commands PROVE effects[c] <= created[c]
    BY DEF ConsumerInvariant, AtMostOncePerPublication
  <2>1. effects[c] \in Nat /\ created[c] \in Nat /\ Credit[c] \in Nat
    BY DEF TypeOK, Credit
  <2> QED BY <2>1 DEF CreditBound
<1> QED BY <1>1, InvariantHolds, PTL

\* A request of unknown outcome keeps its attempt file and is not submitted again.
THEOREM UncertainStaysUncertain == Spec => []UncertainNotResubmitted
<1>1. TypeOK /\ ConsumerInvariant => UncertainNotResubmitted
  BY DEF ConsumerInvariant, Attempts
<1> QED BY <1>1, InvariantHolds, PTL

\* The memory queue never holds two copies of a job, nor one that was executed.
THEOREM NoJobTwice == Spec => []QueueIsDeduplicated
<1>1. TypeOK /\ ConsumerInvariant => QueueIsDeduplicated
  BY DEF ConsumerInvariant, Memory
<1> QED BY <1>1, InvariantHolds, PTL

\* Only a claim makes a command known, and only the recorded attempt leads to the game.
LEMMA WhatStepsDo ==
    ASSUME NativeStep
    PROVE  /\ \A c \in known' \ known : Importable(c)
           /\ npc # "rpc" /\ npc' = "rpc" => npc = "persist"
<1> USE DEF Retry, LeaveQueue, Forget, Recovering, Importing
<1>1. ASSUME NEW c \in Commands, Claim(c)
      PROVE  known' \ known \subseteq {c} /\ npc' # "rpc" /\ Importable(c)
  BY <1>1 DEF Claim
<1>2. CASE PersistAttempt
  BY <1>2 DEF PersistAttempt
<1>3. ASSUME NEW c \in Commands,
             \/ RetryRemoval(c) \/ Requeue(c) \/ GiveUpInterrupted(c) \/ LeaveClaim(c)
             \/ SkipQueued(c) \/ DeleteDuplicate(c) \/ Unreadable(c) \/ LateEffect(c)
      PROVE  known' \subseteq known /\ (npc' = "rpc" => npc = "rpc")
  BY <1>3 DEF RetryRemoval, Requeue, GiveUpInterrupted, LeaveClaim, SkipQueued, DeleteDuplicate,
              Unreadable, LateEffect
<1>4. ASSUME NEW i \in 1..Len(queue), DiscardStale(i) \/ Select(i)
      PROVE  known' \subseteq known /\ npc' # "rpc"
  BY <1>4 DEF DiscardStale, Select
<1>5. ASSUME \/ NativeStart \/ NativeCrash \/ BeginImport \/ EndRecover \/ EndImport
             \/ EndDiscard \/ SelectNone \/ CheckForgets \/ CheckStale \/ CheckPasses
      PROVE  known' \subseteq known /\ npc' # "rpc"
  BY <1>5 DEF NativeStart, NativeCrash, BeginImport, EndRecover, EndImport, EndDiscard,
              SelectNone, CheckForgets, CheckStale, CheckPasses
<1>6. ASSUME \/ CleanAttempt \/ PersistRefused \/ PersistFails
             \/ RpcDelivered \/ RpcRejected \/ RpcAmbiguous
             \/ RemoveClaim \/ RemoveAttempt \/ RemovalFails \/ Quarantine
      PROVE  known' \subseteq known /\ npc' # "rpc"
  BY <1>6 DEF CleanAttempt, PersistRefused, PersistFails, RpcDelivered, RpcRejected, RpcAmbiguous,
              RemoveClaim, RemoveAttempt, RemovalFails, Quarantine
<1> QED BY <1>1, <1>2, <1>3, <1>4, <1>5, <1>6 DEF NativeStep, PersistAttempt

\* What was given up (.failed) is neither imported nor submitted again.
THEOREM GivenUpIsNotReplayed == Spec => NeverReplayed
<1>1. TypeOK /\ ConsumerInvariant /\ [Next]_vars
      => [/\ known' \intersect failed \subseteq known
          /\ npc # "rpc" /\ npc' = "rpc" => queue[sel] \notin failed]_vars
  <2> SUFFICES ASSUME TypeOK, ConsumerInvariant, Next
               PROVE  /\ known' \intersect failed \subseteq known
                      /\ npc # "rpc" /\ npc' = "rpc" => queue[sel] \notin failed
    OBVIOUS
  <2>1. npc = "persist" => queue[sel] \notin failed
    BY DEF ConsumerInvariant, Selection, Busy, Memory, QueueIsDeduplicated
  <2>2. CASE NativeStep
    BY <2>1, <2>2, WhatStepsDo DEF Importable
  <2>3. CASE BridgeStep
    <3>1. UNCHANGED native
      BY <2>3 DEF BridgeStep, BridgeStart, BridgeReady, BridgeCrash, ResetAuthority,
         PublishMarker, BindFails, EndBind, EnsureMarker, BeginBind, PublishLease, HoldDev, HoldForeign,
         BeginPublish, Probe, Link, VerifyFailed, VerifyProcessing, Withdraw, PublishFails,
       ResumeDev
    <3> QED BY <3>1
  <2> QED BY <2>2, <2>3 DEF Next
<1> QED BY <1>1, InvariantHolds, PTL DEF Spec, NeverReplayed
=============================================================================
