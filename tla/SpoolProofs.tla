---------------------------- MODULE SpoolProofs ----------------------------
(***************************************************************************)
(* Three promises about receipts in the spool, for any commands, rooms,    *)
(* leases and bounds: one that was accepted leaves a trace (it is on disk, *)
(* applied, or visibly given up); after a start of the native client none  *)
(* is dispatched for a room that was not published since; and the commands *)
(* of one receipt reach the game in their order.                           *)
(***************************************************************************)
EXTENDS CommandQueueProofs

-----------------------------------------------------------------------------
(* The invariant *)

\* What the consumer no longer keeps a claim for was applied; what it is about to
\* quarantine has an attempt.
Executed ==
    /\ npc \in {"remove", "removeAttempt"} => effects[Job] > 0
    /\ \A c \in delivered : effects[c] > 0
    /\ npc = "quarantine" => Job \in attempt

\* A marker that the consumer trusts was published after its start.
OnlyGranted == cleared /\ marker # NoRoom => marker \in granted

Traced(c) == c \in CmdFiles \union ClaimFiles \/ Settled(c)

\* The consumer deletes the second copy of what it knows, and moves back the claims it
\* lists: the claim is there, or the command is settled. Only generic claims are listed
\* at start-up.
Remembered(c) ==
    /\ c \in known => c \in ClaimFiles \/ Settled(c)
    /\ npc = "startup" => c \notin listing
    /\ npc = "recover" /\ c \in listing => c \in ClaimFiles \/ Settled(c)

\* While the bridge publishes a copy of c, an older claim of c that the consumer trusts
\* the room of cannot be moved back over it: it is known, or has an attempt.
Window == {"link", "verifyFailed", "verifyProcessing", "withdrawFailed", "withdrawClaimed"}
Pinned(c) ==
    /\ c \in ClaimFiles /\ cleared /\ marker = RoomOf[c]
          => c \in known \union attempt \/ Settled(c)
    /\ npc = "recover" /\ c \in listing => c \in attempt \/ Settled(c)

\* So the copy is there until it is verified, and is withdrawn only if something remains.
Withdrawable(c) ==
    /\ bpc \in {"verifyFailed", "verifyProcessing"} => Traced(c)
    /\ bpc = "withdrawFailed" => c \in failed
    /\ bpc = "withdrawClaimed" => c \in ClaimFiles \/ Settled(c)

Followed(c) ==
    /\ Remembered(c)
    /\ bpc \in Window /\ c \in bcmd => Pinned(c) /\ Withdrawable(c)
    /\ c \in accepted => Traced(c)

ReceiptInvariant ==
    /\ Executed /\ OnlyGranted /\ RestartRevokesAuthority
    /\ \A c \in Commands : Receipt(c) => Followed(c)

-----------------------------------------------------------------------------
(* What is settled stays settled *)

USE DEF vars, disk, bridge, native, history

LEMMA BridgeSettlesNothing ==
    ASSUME TypeOK, BridgeStep
    PROVE  /\ UNCHANGED <<native, attempt, failed, dropped, effects>>
           /\ held \ DevJobs \subseteq held'
<1>1. UNCHANGED <<native, attempt, failed, dropped, effects>>
  BY ZenonT(60) DEF BridgeStep, BridgeStart, BridgeReady, BridgeCrash, ResetAuthority,
       PublishMarker,
       BindFails, EndBind, EnsureMarker, BeginBind, PublishLease, HoldDev, HoldForeign,
       BeginPublish,
       Probe, Link, VerifyFailed, VerifyProcessing, Withdraw, PublishFails, ResumeDev
<1>2. held \ DevJobs \subseteq held'
  <2>1. ASSUME NEW c \in Commands, HoldDev(c) \/ HoldForeign(c) \/ ResumeDev(c)
        PROVE  held \ DevJobs \subseteq held'
    BY <2>1 DEF HoldDev, HoldForeign, ResumeDev
  <2>2. ASSUME UNCHANGED held PROVE held \ DevJobs \subseteq held'
    BY <2>2
  <2> QED BY <2>1, <2>2 DEF BridgeStep, BridgeStart, BridgeReady, BridgeCrash, ResetAuthority,
       PublishMarker, BindFails, EndBind, EnsureMarker, BeginBind, PublishLease, BeginPublish,
       Probe, Link, VerifyFailed, VerifyProcessing, Withdraw, PublishFails
<1> QED BY <1>1, <1>2

LEMMA ConsumerSettles ==
    ASSUME TypeOK, Selection, NativeStep
    PROVE  /\ failed \subseteq failed' /\ dropped \subseteq dropped' /\ held' = held
           /\ \A c \in Commands : effects[c] <= effects'[c]
<1>0. effects \in [Commands -> Nat]
  BY DEF TypeOK
<1>1. CASE RpcDelivered
  BY <1>0, <1>1 DEF RpcDelivered, Effect
<1>2. ASSUME NEW c \in Commands, LateEffect(c)
      PROVE  /\ UNCHANGED <<failed, dropped, held>>
             /\ \A d \in Commands : effects[d] <= effects'[d]
  BY <1>0, <1>2 DEF LateEffect, Effect
<1>3. ASSUME UNCHANGED effects
      PROVE  \A c \in Commands : effects[c] <= effects'[c]
  BY <1>0, <1>3
<1>4. CASE \/ NativeStart \/ NativeCrash \/ BeginImport \/ EndRecover \/ EndImport
           \/ EndDiscard \/ SelectNone \/ CheckForgets \/ CheckStale \/ CheckPasses
           \/ CleanAttempt \/ PersistAttempt \/ PersistRefused \/ PersistFails
           \/ RpcRejected \/ RpcAmbiguous
           \/ RemoveClaim \/ RemoveAttempt \/ RemovalFails \/ Quarantine
  <2>1. failed \subseteq failed' /\ dropped \subseteq dropped' /\ UNCHANGED <<held, effects>>
    BY <1>4 DEF NativeStart, NativeCrash, BeginImport, EndRecover, EndImport,
       EndDiscard, SelectNone, CheckForgets, CheckStale, CheckPasses, CleanAttempt, PersistAttempt,
       PersistRefused, PersistFails, RpcRejected, RpcAmbiguous, RemoveClaim,
       RemoveAttempt, RemovalFails, Quarantine, Drop
  <2> QED BY <2>1, <1>3
<1>5. ASSUME NEW c \in Commands,
             \/ RetryRemoval(c) \/ Requeue(c) \/ GiveUpInterrupted(c) \/ LeaveClaim(c)
             \/ SkipQueued(c) \/ DeleteDuplicate(c) \/ Claim(c) \/ Unreadable(c)
      PROVE  failed \subseteq failed' /\ dropped \subseteq dropped' /\ UNCHANGED <<held, effects>>
  BY <1>5 DEF RetryRemoval, Requeue, GiveUpInterrupted, LeaveClaim, SkipQueued, DeleteDuplicate,
              Claim, Unreadable
<1>6. ASSUME NEW i \in 1..Len(queue), DiscardStale(i) \/ Select(i)
      PROVE  failed \subseteq failed' /\ dropped \subseteq dropped' /\ UNCHANGED <<held, effects>>
  BY <1>6 DEF DiscardStale, Select, Drop
<1> QED BY <1>1, <1>2, <1>3, <1>4, <1>5, <1>6 DEF NativeStep, RpcDelivered

\* What is applied, given up, held or discarded stays so: only developer jobs are put back.
LEMMA SettledStays ==
    ASSUME TypeOK, Selection, Next, NEW c \in Commands, Receipt(c), Settled(c)
    PROVE  Settled(c)'
<1>1. effects[c] \in Nat /\ effects'[c] \in Nat
  <2>1. TypeOK'
    BY BridgeKeepsTypes, ConsumerKeepsTypes DEF Next
  <2> QED BY <2>1 DEF TypeOK
<1>2. c \notin DevJobs
  BY ClassAssumption DEF Receipt
<1>3. CASE BridgeStep
  BY <1>1, <1>2, <1>3, BridgeSettlesNothing DEF Settled
<1>4. CASE NativeStep
  BY <1>1, <1>4, ConsumerSettles DEF Settled
<1> QED BY <1>3, <1>4 DEF Next
-----------------------------------------------------------------------------
(* The consumer *)

LEMMA ConsumerKeepsExecuted ==
    ASSUME TypeOK, Selection, Memory, Attempts, Executed, NativeStep
    PROVE  Executed'
<1> USE DEF Executed, Job, Busy
<1>e. effects \in [Commands -> Nat]
  BY DEF TypeOK
<1>j. npc \in Busy => Job \in Commands
  BY QueueOfCommands DEF Selection
<1>a. npc = "rpc" => Job \in attempt
  BY DEF Attempts
<1>1. ASSUME NativeStart PROVE Executed'
  BY <1>1 DEF NativeStart
<1>2. ASSUME NativeCrash PROVE Executed'
  BY <1>2 DEF NativeCrash
<1>3. ASSUME BeginImport PROVE Executed'
  BY <1>3 DEF BeginImport
<1>4. ASSUME EndRecover PROVE Executed'
  BY <1>4 DEF EndRecover
<1>5. ASSUME EndImport PROVE Executed'
  BY <1>5 DEF EndImport
<1>6. ASSUME EndDiscard PROVE Executed'
  BY <1>6 DEF EndDiscard
<1>7. ASSUME SelectNone PROVE Executed'
  BY <1>7 DEF SelectNone
<1>8. ASSUME CheckForgets PROVE Executed'
  BY <1>8 DEF CheckForgets, Forget, LeaveQueue
<1>9. ASSUME CheckStale PROVE Executed'
  BY <1>9 DEF CheckStale, Forget, LeaveQueue, Drop, Retry
<1>10. ASSUME CheckPasses PROVE Executed'
  BY <1>10 DEF CheckPasses
<1>11. ASSUME CleanAttempt PROVE Executed'
  BY <1>11 DEF CleanAttempt
<1>12. ASSUME PersistAttempt PROVE Executed'
  BY <1>12 DEF PersistAttempt
<1>13. ASSUME PersistRefused PROVE Executed'
  BY <1>13 DEF PersistRefused, Retry
<1>14. ASSUME PersistFails PROVE Executed'
  BY <1>14 DEF PersistFails, Retry
<1>15. ASSUME RpcDelivered PROVE Executed'
  BY <1>15, <1>e, <1>j DEF RpcDelivered, Effect
<1>16. ASSUME RpcRejected PROVE Executed'
  BY <1>16 DEF RpcRejected, Retry
<1>17. ASSUME RpcAmbiguous PROVE Executed'
  BY <1>17, <1>a DEF RpcAmbiguous
<1>18. ASSUME RemoveClaim PROVE Executed'
  BY <1>18 DEF RemoveClaim
<1>19. ASSUME RemoveAttempt PROVE Executed'
  BY <1>19 DEF RemoveAttempt, Forget, LeaveQueue
<1>20. ASSUME RemovalFails PROVE Executed'
  BY <1>20 DEF RemovalFails, LeaveQueue
<1>21. ASSUME Quarantine PROVE Executed'
  BY <1>21 DEF Quarantine, Forget, LeaveQueue
<1>22. ASSUME NEW d \in Commands, RetryRemoval(d) PROVE Executed'
  BY <1>22 DEF RetryRemoval
<1>23. ASSUME NEW d \in Commands, Requeue(d) PROVE Executed'
  BY <1>23 DEF Requeue, Recovering
<1>24. ASSUME NEW d \in Commands, GiveUpInterrupted(d) PROVE Executed'
  BY <1>24 DEF GiveUpInterrupted, Recovering
<1>25. ASSUME NEW d \in Commands, LeaveClaim(d) PROVE Executed'
  BY <1>25 DEF LeaveClaim, Recovering
<1>26. ASSUME NEW d \in Commands, SkipQueued(d) PROVE Executed'
  BY <1>26 DEF SkipQueued, Importing
<1>27. ASSUME NEW d \in Commands, DeleteDuplicate(d) PROVE Executed'
  BY <1>27 DEF DeleteDuplicate, Importing
<1>28. ASSUME NEW d \in Commands, Claim(d) PROVE Executed'
  BY <1>28 DEF Claim, Importing
<1>29. ASSUME NEW d \in Commands, Unreadable(d) PROVE Executed'
  BY <1>29 DEF Unreadable, Importing
<1>30. ASSUME NEW d \in Commands, LateEffect(d) PROVE Executed'
  BY <1>30, <1>e DEF LateEffect, Effect
<1>31. ASSUME NEW i \in 1..Len(queue), DiscardStale(i) PROVE Executed'
  BY <1>31 DEF DiscardStale, Drop
<1>32. ASSUME NEW i \in 1..Len(queue), Select(i) PROVE Executed'
  BY <1>32 DEF Select
<1> QED BY <1>1, <1>2, <1>3, <1>4, <1>5, <1>6, <1>7, <1>8, <1>9, <1>10, <1>11, <1>12, <1>13,
       <1>14, <1>15, <1>16, <1>17, <1>18, <1>19, <1>20, <1>21, <1>22, <1>23, <1>24, <1>25, <1>26,
       <1>27, <1>28, <1>29, <1>30, <1>31, <1>32 DEF NativeStep

\* The marker the consumer trusts: it deletes the one it finds at its start.
LEMMA ConsumerKeepsGranted ==
    ASSUME OnlyGranted, NativeStep
    PROVE  OnlyGranted'
<1> USE DEF OnlyGranted
<1>1. ASSUME NativeStart PROVE OnlyGranted'
  BY <1>1 DEF NativeStart
<1>2. ASSUME NativeCrash PROVE OnlyGranted'
  BY <1>2 DEF NativeCrash
<1>3. ASSUME BeginImport PROVE OnlyGranted'
  BY <1>3 DEF BeginImport
<1>4. ASSUME EndRecover PROVE OnlyGranted'
  BY <1>4 DEF EndRecover
<1>5. ASSUME EndImport PROVE OnlyGranted'
  BY <1>5 DEF EndImport
<1>6. ASSUME EndDiscard PROVE OnlyGranted'
  BY <1>6 DEF EndDiscard
<1>7. ASSUME SelectNone PROVE OnlyGranted'
  BY <1>7 DEF SelectNone
<1>8. ASSUME CheckForgets PROVE OnlyGranted'
  BY <1>8 DEF CheckForgets, Forget, LeaveQueue
<1>9. ASSUME CheckStale PROVE OnlyGranted'
  BY <1>9 DEF CheckStale, Forget, LeaveQueue, Drop, Retry
<1>10. ASSUME CheckPasses PROVE OnlyGranted'
  BY <1>10 DEF CheckPasses
<1>11. ASSUME CleanAttempt PROVE OnlyGranted'
  BY <1>11 DEF CleanAttempt
<1>12. ASSUME PersistAttempt PROVE OnlyGranted'
  BY <1>12 DEF PersistAttempt
<1>13. ASSUME PersistRefused PROVE OnlyGranted'
  BY <1>13 DEF PersistRefused, Retry
<1>14. ASSUME PersistFails PROVE OnlyGranted'
  BY <1>14 DEF PersistFails, Retry
<1>15. ASSUME RpcDelivered PROVE OnlyGranted'
  BY <1>15 DEF RpcDelivered, Effect
<1>16. ASSUME RpcRejected PROVE OnlyGranted'
  BY <1>16 DEF RpcRejected, Retry
<1>17. ASSUME RpcAmbiguous PROVE OnlyGranted'
  BY <1>17 DEF RpcAmbiguous
<1>18. ASSUME RemoveClaim PROVE OnlyGranted'
  BY <1>18 DEF RemoveClaim
<1>19. ASSUME RemoveAttempt PROVE OnlyGranted'
  BY <1>19 DEF RemoveAttempt, Forget, LeaveQueue
<1>20. ASSUME RemovalFails PROVE OnlyGranted'
  BY <1>20 DEF RemovalFails, LeaveQueue
<1>21. ASSUME Quarantine PROVE OnlyGranted'
  BY <1>21 DEF Quarantine, Forget, LeaveQueue
<1>22. ASSUME NEW d \in Commands, RetryRemoval(d) PROVE OnlyGranted'
  BY <1>22 DEF RetryRemoval
<1>23. ASSUME NEW d \in Commands, Requeue(d) PROVE OnlyGranted'
  BY <1>23 DEF Requeue, Recovering
<1>24. ASSUME NEW d \in Commands, GiveUpInterrupted(d) PROVE OnlyGranted'
  BY <1>24 DEF GiveUpInterrupted, Recovering
<1>25. ASSUME NEW d \in Commands, LeaveClaim(d) PROVE OnlyGranted'
  BY <1>25 DEF LeaveClaim, Recovering
<1>26. ASSUME NEW d \in Commands, SkipQueued(d) PROVE OnlyGranted'
  BY <1>26 DEF SkipQueued, Importing
<1>27. ASSUME NEW d \in Commands, DeleteDuplicate(d) PROVE OnlyGranted'
  BY <1>27 DEF DeleteDuplicate, Importing
<1>28. ASSUME NEW d \in Commands, Claim(d) PROVE OnlyGranted'
  BY <1>28 DEF Claim, Importing
<1>29. ASSUME NEW d \in Commands, Unreadable(d) PROVE OnlyGranted'
  BY <1>29 DEF Unreadable, Importing
<1>30. ASSUME NEW d \in Commands, LateEffect(d) PROVE OnlyGranted'
  BY <1>30 DEF LateEffect, Effect
<1>31. ASSUME NEW i \in 1..Len(queue), DiscardStale(i) PROVE OnlyGranted'
  BY <1>31 DEF DiscardStale, Drop
<1>32. ASSUME NEW i \in 1..Len(queue), Select(i) PROVE OnlyGranted'
  BY <1>32 DEF Select
<1> QED BY <1>1, <1>2, <1>3, <1>4, <1>5, <1>6, <1>7, <1>8, <1>9, <1>10, <1>11, <1>12, <1>13,
       <1>14, <1>15, <1>16, <1>17, <1>18, <1>19, <1>20, <1>21, <1>22, <1>23, <1>24, <1>25, <1>26,
       <1>27, <1>28, <1>29, <1>30, <1>31, <1>32 DEF NativeStep

LEMMA ConsumerKeepsFollowed ==
    ASSUME TypeOK, Selection, Memory, Attempts, Executed, NativeStep,
           NEW c \in Commands, Receipt(c), Followed(c), Settled(c) => Settled(c)'
    PROVE  Followed(c)'
<1> USE DEF Followed, Remembered, Pinned, Withdrawable, Traced, CmdFiles, ClaimFiles, Job, Busy
<1>e. /\ cmd \in [Commands -> Payload] /\ processing \in [Commands -> Payload]
      /\ \A i \in 1..Len(queue) : queue[i] \in Commands
  BY DEF TypeOK
<1>r. RoomOf[c] # NoRoom
  BY DEF Receipt
<1>j. npc \in Busy => Job \in Commands /\ Job \in known
  BY QueueOfCommands DEF Selection, Memory, QueueIsDeduplicated
<1>m. /\ npc \in {"startup", "recover"} => listing \intersect known = {}
      /\ npc = "rpc" => Job \in attempt
      /\ delivered \subseteq Commands
  BY DEF Memory, Attempts, TypeOK
<1>x. /\ npc \in {"remove", "removeAttempt"} => effects[Job] > 0
      /\ \A d \in delivered : effects[d] > 0
      /\ npc = "quarantine" => Job \in attempt
  BY DEF Executed
<1>s. effects'[c] > 0 \/ c \in failed' \union held' \union dropped' => Settled(c)'
  BY DEF Settled
<1>1. ASSUME NativeStart PROVE Followed(c)'
  BY <1>1, <1>r DEF NativeStart, Eligible, Receipt
<1>2. ASSUME NativeCrash PROVE Followed(c)'
  BY <1>2 DEF NativeCrash
<1>3. ASSUME BeginImport PROVE Followed(c)'
  BY <1>3, <1>r DEF BeginImport, Eligible, Receipt
<1>4. ASSUME EndRecover PROVE Followed(c)'
  BY <1>4 DEF EndRecover
<1>5. ASSUME EndImport PROVE Followed(c)'
  BY <1>5 DEF EndImport
<1>6. ASSUME EndDiscard PROVE Followed(c)'
  BY <1>6 DEF EndDiscard
<1>7. ASSUME SelectNone PROVE Followed(c)'
  BY <1>7 DEF SelectNone
<1>8. ASSUME CheckForgets PROVE Followed(c)'
  BY <1>8, <1>j DEF CheckForgets, RoomIsActive, Receipt, Forget, LeaveQueue
<1>9. ASSUME CheckStale PROVE Followed(c)'
  <2>1. CASE Job \notin MapSafe
    BY <1>9, <2>1 DEF CheckStale, Retry
  <2>2. CASE Job \in MapSafe /\ Job = c
    BY <1>9, <2>2, <1>s, <1>e DEF CheckStale, Forget, LeaveQueue, Drop
  <2>3. CASE Job \in MapSafe /\ Job # c
    BY <1>9, <2>3, <1>j, <1>e DEF CheckStale, Forget, LeaveQueue, Drop
  <2> QED BY <2>1, <2>2, <2>3
<1>10. ASSUME CheckPasses PROVE Followed(c)'
  BY <1>10 DEF CheckPasses
<1>11. ASSUME CleanAttempt PROVE Followed(c)'
  BY <1>11, <1>j DEF CleanAttempt
<1>12. ASSUME PersistAttempt PROVE Followed(c)'
  BY <1>12 DEF PersistAttempt
<1>13. ASSUME PersistRefused PROVE Followed(c)'
  BY <1>13 DEF PersistRefused, Retry
<1>14. ASSUME PersistFails PROVE Followed(c)'
  BY <1>14 DEF PersistFails, Retry
<1>15. ASSUME RpcDelivered PROVE Followed(c)'
  BY <1>15 DEF RpcDelivered, Effect
<1>16. ASSUME RpcRejected PROVE Followed(c)'
  BY <1>16, <1>j DEF RpcRejected, Retry
<1>17. ASSUME RpcAmbiguous PROVE Followed(c)'
  BY <1>17 DEF RpcAmbiguous
<1>18. ASSUME RemoveClaim PROVE Followed(c)'
  BY <1>18, <1>j, <1>x, <1>s, <1>e DEF RemoveClaim
<1>19. ASSUME RemoveAttempt PROVE Followed(c)'
  BY <1>19, <1>j, <1>x, <1>s, <1>e DEF RemoveAttempt, Forget, LeaveQueue
<1>20. ASSUME RemovalFails PROVE Followed(c)'
  BY <1>20 DEF RemovalFails, LeaveQueue
<1>21. ASSUME Quarantine PROVE Followed(c)'
  BY <1>21, <1>j, <1>x, <1>s, <1>e DEF Quarantine, Forget, LeaveQueue
<1>22. ASSUME NEW d \in Commands, RetryRemoval(d) PROVE Followed(c)'
  BY <1>22, <1>m, <1>x, <1>s, <1>e DEF RetryRemoval
<1>23. ASSUME NEW d \in Commands, Requeue(d) PROVE Followed(c)'
  BY <1>23, <1>m, <1>e DEF Requeue, Recovering
<1>24. ASSUME NEW d \in Commands, GiveUpInterrupted(d) PROVE Followed(c)'
  BY <1>24, <1>s, <1>e, <1>m DEF GiveUpInterrupted, Recovering
<1>25. ASSUME NEW d \in Commands, LeaveClaim(d) PROVE Followed(c)'
  BY <1>25 DEF LeaveClaim, Recovering
<1>26. ASSUME NEW d \in Commands, SkipQueued(d) PROVE Followed(c)'
  BY <1>26 DEF SkipQueued, Importing
<1>27. ASSUME NEW d \in Commands, DeleteDuplicate(d) PROVE Followed(c)'
  BY <1>27 DEF DeleteDuplicate, Importing
<1>28. ASSUME NEW d \in Commands, Claim(d) PROVE Followed(c)'
  BY <1>28, <1>e, <1>m DEF Claim, Importing
<1>29. ASSUME NEW d \in Commands, Unreadable(d) PROVE Followed(c)'
  BY <1>29, <1>e, <1>s DEF Unreadable, Importing
<1>30. ASSUME NEW d \in Commands, LateEffect(d) PROVE Followed(c)'
  BY <1>30 DEF LateEffect, Effect
<1>31. ASSUME NEW i \in 1..Len(queue), DiscardStale(i) PROVE Followed(c)'
  BY <1>31, <1>e, <1>s DEF DiscardStale, Drop
<1>32. ASSUME NEW i \in 1..Len(queue), Select(i) PROVE Followed(c)'
  BY <1>32 DEF Select
<1> QED BY <1>1, <1>2, <1>3, <1>4, <1>5, <1>6, <1>7, <1>8, <1>9, <1>10, <1>11, <1>12, <1>13,
       <1>14, <1>15, <1>16, <1>17, <1>18, <1>19, <1>20, <1>21, <1>22, <1>23, <1>24, <1>25, <1>26,
       <1>27, <1>28, <1>29, <1>30, <1>31, <1>32 DEF NativeStep
-----------------------------------------------------------------------------
(* The bridge *)

\* Whatever marker the bridge writes, it has published.
LEMMA BridgeKeepsGranted ==
    ASSUME OnlyGranted, BridgeStep
    PROVE  OnlyGranted' /\ granted \subseteq granted'
<1> USE DEF OnlyGranted
<1>1. ASSUME BridgeStart PROVE OnlyGranted' /\ granted \subseteq granted'
  BY <1>1 DEF BridgeStart
<1>2. ASSUME BridgeReady PROVE OnlyGranted' /\ granted \subseteq granted'
  BY <1>2 DEF BridgeReady, ClearMarker
<1>3. ASSUME BridgeCrash PROVE OnlyGranted' /\ granted \subseteq granted'
  BY <1>3 DEF BridgeCrash
<1>4. ASSUME ResetAuthority PROVE OnlyGranted' /\ granted \subseteq granted'
  BY <1>4 DEF ResetAuthority, ClearMarker
<1>5. ASSUME PublishMarker PROVE OnlyGranted' /\ granted \subseteq granted'
  BY <1>5 DEF PublishMarker
<1>6. ASSUME BindFails PROVE OnlyGranted' /\ granted \subseteq granted'
  BY <1>6 DEF BindFails
<1>7. ASSUME EndBind PROVE OnlyGranted' /\ granted \subseteq granted'
  BY <1>7 DEF EndBind
<1>8. ASSUME EnsureMarker PROVE OnlyGranted' /\ granted \subseteq granted'
  BY <1>8 DEF EnsureMarker
<1>9. ASSUME NEW r \in Rooms, BeginBind(r) PROVE OnlyGranted' /\ granted \subseteq granted'
  BY <1>9 DEF BeginBind, ClearMarker
<1>10. ASSUME NEW l \in Leases \union {NoLease}, PublishLease(l)
      PROVE  OnlyGranted' /\ granted \subseteq granted'
  BY <1>10 DEF PublishLease
<1>11. ASSUME NEW d \in Commands, BeginPublish(d) PROVE OnlyGranted' /\ granted \subseteq granted'
  BY <1>11 DEF BeginPublish
<1>12. ASSUME NEW d \in Commands, Probe(d) PROVE OnlyGranted' /\ granted \subseteq granted'
  BY <1>12 DEF Probe, Returned
<1>13. ASSUME NEW d \in Commands, Link(d) PROVE OnlyGranted' /\ granted \subseteq granted'
  BY <1>13 DEF Link, Returned
<1>14. ASSUME NEW d \in Commands, VerifyFailed(d) PROVE OnlyGranted' /\ granted \subseteq granted'
  BY <1>14 DEF VerifyFailed
<1>15. ASSUME NEW d \in Commands, VerifyProcessing(d)
      PROVE  OnlyGranted' /\ granted \subseteq granted'
  BY <1>15 DEF VerifyProcessing, Returned
<1>16. ASSUME NEW d \in Commands, Withdraw(d) PROVE OnlyGranted' /\ granted \subseteq granted'
  BY <1>16 DEF Withdraw, Returned
<1>17. ASSUME NEW d \in Commands, PublishFails(d) PROVE OnlyGranted' /\ granted \subseteq granted'
  BY <1>17 DEF PublishFails, Returned
<1>18. ASSUME NEW d \in Commands, HoldDev(d) PROVE OnlyGranted' /\ granted \subseteq granted'
  BY <1>18 DEF HoldDev
<1>19. ASSUME NEW d \in Commands, HoldForeign(d) PROVE OnlyGranted' /\ granted \subseteq granted'
  BY <1>19 DEF HoldForeign
<1>20. ASSUME NEW d \in Commands, ResumeDev(d) PROVE OnlyGranted' /\ granted \subseteq granted'
  BY <1>20 DEF ResumeDev
<1> QED BY <1>1, <1>2, <1>3, <1>4, <1>5, <1>6, <1>7, <1>8, <1>9, <1>10, <1>11, <1>12, <1>13,
       <1>14, <1>15, <1>16, <1>17, <1>18, <1>19, <1>20 DEF BridgeStep

LEMMA BridgeKeepsFollowed ==
    ASSUME TypeOK, BridgeStep,
           NEW c \in Commands, Receipt(c), Followed(c), Settled(c) => Settled(c)'
    PROVE  Followed(c)'
<1> USE DEF Followed, Remembered, Pinned, Withdrawable, Traced, CmdFiles, ClaimFiles, Window
<1>e. cmd \in [Commands -> Payload] /\ processing \in [Commands -> Payload]
  BY DEF TypeOK
<1>l. lease # Absent
  BY LeasesAssumption DEF TypeOK
<1>s. effects'[c] > 0 \/ c \in failed' \union held' \union dropped' => Settled(c)'
  BY DEF Settled
<1>1. ASSUME BridgeStart PROVE Followed(c)'
  BY <1>1 DEF BridgeStart
<1>2. ASSUME BridgeReady PROVE Followed(c)'
  BY <1>2 DEF BridgeReady, ClearMarker
<1>3. ASSUME BridgeCrash PROVE Followed(c)'
  BY <1>3 DEF BridgeCrash
<1>4. ASSUME ResetAuthority PROVE Followed(c)'
  BY <1>4 DEF ResetAuthority, ClearMarker
<1>5. ASSUME PublishMarker PROVE Followed(c)'
  BY <1>5 DEF PublishMarker
<1>6. ASSUME BindFails PROVE Followed(c)'
  BY <1>6 DEF BindFails
<1>7. ASSUME EndBind PROVE Followed(c)'
  BY <1>7 DEF EndBind
<1>8. ASSUME EnsureMarker PROVE Followed(c)'
  BY <1>8 DEF EnsureMarker
<1>9. ASSUME NEW r \in Rooms, BeginBind(r) PROVE Followed(c)'
  BY <1>9 DEF BeginBind, ClearMarker
<1>10. ASSUME NEW l \in Leases \union {NoLease}, PublishLease(l) PROVE Followed(c)'
  BY <1>10 DEF PublishLease
<1>11. ASSUME NEW d \in Commands, BeginPublish(d) PROVE Followed(c)'
  BY <1>11 DEF BeginPublish
<1>12. ASSUME NEW d \in Commands, Probe(d) PROVE Followed(c)'
  BY <1>12 DEF Probe, Returned
<1>13. ASSUME NEW d \in Commands, Link(d) PROVE Followed(c)'
  BY <1>13, <1>e, <1>l, LeasesAssumption DEF Link, Returned
<1>14. ASSUME NEW d \in Commands, VerifyFailed(d) PROVE Followed(c)'
  BY <1>14 DEF VerifyFailed
<1>15. ASSUME NEW d \in Commands, VerifyProcessing(d) PROVE Followed(c)'
  BY <1>15 DEF VerifyProcessing, Returned
<1>16. ASSUME NEW d \in Commands, Withdraw(d) PROVE Followed(c)'
  BY <1>16, <1>e, <1>s DEF Withdraw, Returned
<1>17. ASSUME NEW d \in Commands, PublishFails(d) PROVE Followed(c)'
  BY <1>17 DEF PublishFails, Returned
<1>18. ASSUME NEW d \in Commands, HoldDev(d) PROVE Followed(c)'
  BY <1>18, <1>e, <1>s DEF HoldDev
<1>19. ASSUME NEW d \in Commands, HoldForeign(d) PROVE Followed(c)'
  BY <1>19, <1>e, <1>s DEF HoldForeign
<1>20. ASSUME NEW d \in Commands, ResumeDev(d) PROVE Followed(c)'
  BY <1>20 DEF ResumeDev
<1> QED BY <1>1, <1>2, <1>3, <1>4, <1>5, <1>6, <1>7, <1>8, <1>9, <1>10, <1>11, <1>12, <1>13,
       <1>14, <1>15, <1>16, <1>17, <1>18, <1>19, <1>20 DEF BridgeStep
-----------------------------------------------------------------------------
(* The theorems *)

\* CheckPasses sees a marker that was published since the start; nothing else begins to
\* dispatch, and no start comes in between.
LEMMA StepsKeepDispatch ==
    ASSUME OnlyGranted, RestartRevokesAuthority, Next
    PROVE  RestartRevokesAuthority'
<1> USE DEF RestartRevokesAuthority, Job, Receipt
<1>1. CASE BridgeStep
  <2>1. UNCHANGED native
    BY <1>1, ZenonT(60) DEF BridgeStep, BridgeStart, BridgeReady, BridgeCrash, ResetAuthority,
       PublishMarker, BindFails, EndBind, EnsureMarker, BeginBind, PublishLease, HoldDev,
       HoldForeign,
       BeginPublish, Probe, Link, VerifyFailed, VerifyProcessing, Withdraw, PublishFails, ResumeDev
  <2> QED BY <1>1, <2>1, BridgeKeepsGranted
<1>2. CASE NativeStep
  <2>1. CASE CheckPasses
    BY <2>1 DEF CheckPasses, RoomIsActive, OnlyGranted
  <2>2. CASE CleanAttempt \/ PersistAttempt
    BY <2>2 DEF CleanAttempt, PersistAttempt
  <2>3. ASSUME NEW c \in Commands, LateEffect(c)
        PROVE  RestartRevokesAuthority'
    BY <2>3 DEF LateEffect
  <2>4. ASSUME NEW c \in Commands,
               \/ RetryRemoval(c) \/ Requeue(c) \/ GiveUpInterrupted(c) \/ LeaveClaim(c)
               \/ SkipQueued(c) \/ DeleteDuplicate(c) \/ Claim(c) \/ Unreadable(c)
        PROVE  npc' \notin {"persist", "rpc"}
    BY <2>4 DEF RetryRemoval, Requeue, GiveUpInterrupted, LeaveClaim, SkipQueued, DeleteDuplicate,
                Claim, Unreadable, Recovering, Importing
  <2>5. ASSUME NEW i \in 1..Len(queue), DiscardStale(i) \/ Select(i)
        PROVE  npc' \notin {"persist", "rpc"}
    BY <2>5 DEF DiscardStale, Select
  <2>6. ASSUME \/ NativeStart \/ NativeCrash \/ BeginImport \/ EndRecover
               \/ EndImport \/ EndDiscard \/ SelectNone \/ CheckForgets
               \/ CheckStale \/ PersistRefused \/ PersistFails \/ RpcDelivered \/ RpcRejected
               \/ RpcAmbiguous \/ RemoveClaim \/ RemoveAttempt \/ RemovalFails \/ Quarantine
        PROVE  npc' \notin {"persist", "rpc"}
    BY <2>6 DEF NativeStart, NativeCrash, BeginImport, EndRecover, EndImport, EndDiscard,
         SelectNone, CheckForgets, CheckStale,
                PersistRefused, PersistFails, RpcDelivered, RpcRejected, RpcAmbiguous,
                RemoveClaim, RemoveAttempt, RemovalFails, Quarantine, Forget, Retry, LeaveQueue
  <2> QED BY <1>2, <2>1, <2>2, <2>3, <2>4, <2>5, <2>6 DEF NativeStep
<1> QED BY <1>1, <1>2 DEF Next

LEMMA StepKeepsReceipts ==
    ASSUME TypeOK, ConsumerInvariant, ReceiptInvariant, [Next]_vars
    PROVE  ReceiptInvariant'
<1> USE DEF ConsumerInvariant
<1>1. ASSUME Next, NEW c \in Commands, Receipt(c) PROVE Followed(c)'
  <2>1. Followed(c) /\ (Settled(c) => Settled(c)')
    BY <1>1, SettledStays DEF ReceiptInvariant
  <2>2. CASE BridgeStep
    BY <1>1, <2>1, <2>2, BridgeKeepsFollowed
  <2>3. CASE NativeStep
    BY <1>1, <2>1, <2>3, ConsumerKeepsFollowed DEF ReceiptInvariant
  <2> QED BY <1>1, <2>2, <2>3 DEF Next
<1>2. ASSUME Next PROVE RestartRevokesAuthority'
  BY <1>2, StepsKeepDispatch DEF ReceiptInvariant
<1>3. CASE BridgeStep
  <2>1. Executed'
    BY <1>3, BridgeSettlesNothing DEF ReceiptInvariant, Executed, Job
  <2> QED BY <1>1, <1>2, <1>3, <2>1, BridgeKeepsGranted DEF ReceiptInvariant, Next, Receipt
<1>4. CASE NativeStep
  BY <1>1, <1>2, <1>4, ConsumerKeepsExecuted, ConsumerKeepsGranted DEF ReceiptInvariant, Next,
       Receipt
<1>5. CASE UNCHANGED vars
  BY <1>5 DEF ReceiptInvariant, Executed, OnlyGranted, RestartRevokesAuthority, Followed,
       Remembered,
       Pinned, Withdrawable, Traced, Settled, CmdFiles, ClaimFiles, Receipt, Job
<1> QED BY <1>3, <1>4, <1>5 DEF Next

\* Both processes keep what is known of every receipt: where its file or its outcome is,
\* also while the bridge publishes a second copy of it and the consumer starts again.
THEOREM ReceiptsAreFollowed == Spec => []ReceiptInvariant
<1>1. Init => ReceiptInvariant
  BY DEF Init, ReceiptInvariant, Executed, OnlyGranted, RestartRevokesAuthority, Followed,
         Remembered, Window
<1>2. TypeOK /\ ConsumerInvariant /\ ReceiptInvariant /\ [Next]_vars => ReceiptInvariant'
  BY StepKeepsReceipts
<1> HIDE DEF vars
<1> QED BY <1>1, <1>2, InvariantHolds, PTL DEF Spec

\* A receipt that publish() returned success for is in the spool, was applied, or is visibly
\* given up, held or discarded (NoSilentLoss), although publish() withdraws the copy it has
\* just written when it finds an older claim.
THEOREM AcceptedReceiptsLeaveATrace == Spec => []NoSilentLoss
<1>1. TypeOK /\ ReceiptInvariant => NoSilentLoss
  BY DEF ReceiptInvariant, Followed, Traced, Settled, NoSilentLoss, TypeOK
<1> QED BY <1>1, TypesHold, ReceiptsAreFollowed, PTL

\* No receipt is dispatched for a room the bridge has not published since the native client
\* started (RestartRevokesAuthority), even if the old marker could not be deleted.
THEOREM NoDispatchBeforePublication == Spec => []RestartRevokesAuthority
<1>1. ReceiptInvariant => RestartRevokesAuthority
  BY DEF ReceiptInvariant
<1> QED BY <1>1, ReceiptsAreFollowed, PTL
-----------------------------------------------------------------------------
(* The order of an occurrence: the invariant *)

Files        == CmdFiles \union ClaimFiles
Publishing   == Window \union {"probe"}
Authority(c) == room = RoomOf[c] /\ bpc # "bind"
OneSession   == used["bind"] <= 1 /\ used["fault"] = 0

\* What has a file, is known or is about to be imported was published, by a bridge that
\* was bound to its room.
PublishedFirst(c) ==
    /\ c \in Files \union known \/ (npc = "import" /\ c \in listing) => created[c] > 0
    /\ Receipt(c) /\ created[c] > 0 => used["bind"] >= 1
    /\ Receipt(c) /\ bpc \in Publishing /\ c \in bcmd => room = RoomOf[c]

BoundFirst ==
    /\ room # NoRoom /\ bpc # "bind" => used["bind"] >= 1
    /\ bpc \in {"down", "holdDev"} => room = NoRoom

\* What is known is queued or executed, and the selected job is the first of its occurrence.
QueueOrder ==
    /\ \A c \in known \ delivered : \E i \in 1..Len(queue) : queue[i] = c
    /\ npc \in Busy => \A j \in 1..(sel - 1) : ~SameOccurrence(queue[j], queue[sel])

\* Within one session nothing is executed without being removed, and the start-up marker
\* has gone; a receipt that was published is accepted or given up before the bridge is free
\* again; what the consumer trusts the room of stays trusted as long as the bridge has
\* authority; and no claim of that room is left behind by the recovery.
Trusts(c) == c \in known \/ (npc \in {"recover", "import"} /\ ns = RoomOf[c])
Session(c) ==
    /\ Authority(c) /\ created[c] > 0
          => c \in accepted \union failed \/ (bpc \in Window /\ c \in bcmd)
    /\ Trusts(c) => marker = RoomOf[c] \/ ~Authority(c)
    /\ npc \in {"recover", "import"} /\ ns = RoomOf[c] /\ c \in ClaimFiles
          => c \in known \/ (npc = "recover" /\ c \in listing)
NothingFailed == delivered = {} /\ (npc # "off" => cleared)

\* Once c of an occurrence is published, and as long as neither c nor the earlier d is given
\* up: the bridge publishes d no more; d is imported before c and stays before it in the
\* queue; and when c is dispatched, d has no file.
Precedes(q, d, c) == \A j \in 1..Len(q) : q[j] = c => \E i \in 1..(j - 1) : q[i] = d
Later(d, c)   == SameOccurrence(c, d) /\ d < c
Ordered(d, c) == created[c] > 0 /\ c \notin failed /\ d \notin failed =>
    /\ d \notin bcmd
    /\ marker = RoomOf[c] /\ c \in known /\ d \in Files
          => d \notin CmdFiles /\ Precedes(queue, d, c)
    /\ npc = "import" /\ ns = RoomOf[c] /\ c \in listing
          => d \in listing \/ d \notin Files \/ (d \in known /\ d \notin CmdFiles)
    /\ npc = "persist" /\ Job = c => d \notin Files

SessionInvariant ==
    /\ NothingFailed
    /\ \A c \in Commands : Receipt(c) => Session(c)
    /\ \A c, d \in Commands : Later(d, c) => Ordered(d, c)

OrderInvariant ==
    /\ \A c \in Commands : PublishedFirst(c)
    /\ BoundFirst /\ QueueOrder
    /\ OneSession => SessionInvariant

-----------------------------------------------------------------------------
(* What is published, and what is queued *)

LEMMA CountersGrow ==
    ASSUME TypeOK, Next
    PROVE  used["bind"] <= used'["bind"] /\ (OneSession' => OneSession)
<1> USE DEF OneSession, Spend, Bounded
<1>e. used \in [Bounded -> Nat]
  BY DEF TypeOK
<1>1. ASSUME UNCHANGED used PROVE used["bind"] <= used'["bind"] /\ (OneSession' => OneSession)
  BY <1>1, <1>e
<1>2. ASSUME NEW b \in Bounded, NEW d \in Bounded,
             \/ used' = [used EXCEPT ![b] = @ + 1]
             \/ used' = [used EXCEPT ![b] = @ + 1, ![d] = @ + 1]
      PROVE  used["bind"] <= used'["bind"] /\ (OneSession' => OneSession)
  BY <1>2, <1>e
<1>3. CASE BridgeStep
  BY <1>1, <1>2, <1>3 DEF BridgeStep, BridgeStart, BridgeReady, BridgeCrash, ResetAuthority,
       PublishMarker,
       BindFails, EndBind, EnsureMarker, BeginBind, PublishLease, HoldDev, HoldForeign,
       BeginPublish,
       Probe, Link, VerifyFailed, VerifyProcessing, Withdraw, PublishFails, ResumeDev, ClearMarker
<1>4. CASE NativeStep
  BY <1>1, <1>2, <1>4 DEF NativeStep, NativeStart, NativeCrash, BeginImport, EndRecover, EndImport,
       EndDiscard, SelectNone, CheckForgets, CheckStale, CheckPasses, CleanAttempt, PersistAttempt,
       PersistRefused, PersistFails, RpcDelivered, RpcRejected, RpcAmbiguous, RemoveClaim,
       RemoveAttempt, RemovalFails, Quarantine, RetryRemoval, Requeue, GiveUpInterrupted,
       LeaveClaim,
       SkipQueued, DeleteDuplicate, Claim, Unreadable, LateEffect, DiscardStale, Select, Drop
<1> QED BY <1>3, <1>4 DEF Next

LEMMA BridgeBindsFirst ==
    ASSUME TypeOK, BoundFirst, BridgeStep
    PROVE  BoundFirst'
<1> USE DEF BoundFirst, Spend, Bounded
<1>e. used \in [Bounded -> Nat]
  BY DEF TypeOK
<1>1. ASSUME BridgeStart PROVE BoundFirst'
  BY <1>1 DEF BridgeStart
<1>2. ASSUME BridgeReady PROVE BoundFirst'
  BY <1>2, <1>e DEF BridgeReady, ClearMarker
<1>3. ASSUME BridgeCrash PROVE BoundFirst'
  BY <1>3 DEF BridgeCrash
<1>4. ASSUME ResetAuthority PROVE BoundFirst'
  BY <1>4, <1>e DEF ResetAuthority, ClearMarker
<1>5. ASSUME PublishMarker PROVE BoundFirst'
  BY <1>5, <1>e DEF PublishMarker
<1>6. ASSUME BindFails PROVE BoundFirst'
  BY <1>6 DEF BindFails
<1>7. ASSUME EndBind PROVE BoundFirst'
  BY <1>7 DEF EndBind
<1>8. ASSUME EnsureMarker PROVE BoundFirst'
  BY <1>8 DEF EnsureMarker
<1>9. ASSUME NEW r \in Rooms, BeginBind(r) PROVE BoundFirst'
  BY <1>9, <1>e DEF BeginBind, ClearMarker
<1>10. ASSUME NEW l \in Leases \union {NoLease}, PublishLease(l) PROVE BoundFirst'
  BY <1>10 DEF PublishLease
<1>11. ASSUME NEW c \in Commands, BeginPublish(c) PROVE BoundFirst'
  BY <1>11 DEF BeginPublish
<1>12. ASSUME NEW c \in Commands, Probe(c) PROVE BoundFirst'
  BY <1>12 DEF Probe, Returned
<1>13. ASSUME NEW c \in Commands, Link(c) PROVE BoundFirst'
  BY <1>13 DEF Link, Returned
<1>14. ASSUME NEW c \in Commands, VerifyFailed(c) PROVE BoundFirst'
  BY <1>14 DEF VerifyFailed
<1>15. ASSUME NEW c \in Commands, VerifyProcessing(c) PROVE BoundFirst'
  BY <1>15 DEF VerifyProcessing, Returned
<1>16. ASSUME NEW c \in Commands, Withdraw(c) PROVE BoundFirst'
  BY <1>16 DEF Withdraw, Returned
<1>17. ASSUME NEW c \in Commands, PublishFails(c) PROVE BoundFirst'
  BY <1>17 DEF PublishFails, Returned
<1>18. ASSUME NEW c \in Commands, HoldDev(c) PROVE BoundFirst'
  BY <1>18 DEF HoldDev
<1>19. ASSUME NEW c \in Commands, HoldForeign(c) PROVE BoundFirst'
  BY <1>19, <1>e DEF HoldForeign
<1>20. ASSUME NEW c \in Commands, ResumeDev(c) PROVE BoundFirst'
  BY <1>20 DEF ResumeDev
<1> QED BY <1>1, <1>2, <1>3, <1>4, <1>5, <1>6, <1>7, <1>8, <1>9, <1>10, <1>11, <1>12, <1>13,
       <1>14, <1>15, <1>16, <1>17, <1>18, <1>19, <1>20 DEF BridgeStep

LEMMA BridgePublishesFirst ==
    ASSUME TypeOK, BoundFirst, BridgeStep, NEW c \in Commands, PublishedFirst(c)
    PROVE  PublishedFirst(c)'
<1> USE DEF PublishedFirst, BoundFirst, Files, CmdFiles, ClaimFiles, Publishing, Window, Spend,
       Bounded, Receipt
<1>e. /\ used \in [Bounded -> Nat] /\ created \in [Commands -> Nat]
      /\ cmd \in [Commands -> Payload] /\ processing \in [Commands -> Payload]
  BY DEF TypeOK
<1>l. lease # Absent
  BY LeasesAssumption DEF TypeOK
<1>1. ASSUME BridgeStart PROVE PublishedFirst(c)'
  BY <1>1 DEF BridgeStart
<1>2. ASSUME BridgeReady PROVE PublishedFirst(c)'
  BY <1>2, <1>e DEF BridgeReady, ClearMarker
<1>3. ASSUME BridgeCrash PROVE PublishedFirst(c)'
  BY <1>3 DEF BridgeCrash
<1>4. ASSUME ResetAuthority PROVE PublishedFirst(c)'
  BY <1>4, <1>e DEF ResetAuthority, ClearMarker
<1>5. ASSUME PublishMarker PROVE PublishedFirst(c)'
  BY <1>5, <1>e DEF PublishMarker
<1>6. ASSUME BindFails PROVE PublishedFirst(c)'
  BY <1>6 DEF BindFails
<1>7. ASSUME EndBind PROVE PublishedFirst(c)'
  BY <1>7 DEF EndBind
<1>8. ASSUME EnsureMarker PROVE PublishedFirst(c)'
  BY <1>8 DEF EnsureMarker
<1>9. ASSUME NEW r \in Rooms, BeginBind(r) PROVE PublishedFirst(c)'
  BY <1>9, <1>e DEF BeginBind, ClearMarker
<1>10. ASSUME NEW l \in Leases \union {NoLease}, PublishLease(l) PROVE PublishedFirst(c)'
  BY <1>10 DEF PublishLease
<1>11. ASSUME NEW b \in Commands, BeginPublish(b) PROVE PublishedFirst(c)'
  BY <1>11 DEF BeginPublish
<1>12. ASSUME NEW b \in Commands, Probe(b) PROVE PublishedFirst(c)'
  BY <1>12 DEF Probe, Returned
<1>13. ASSUME NEW b \in Commands, Link(b) PROVE PublishedFirst(c)'
  BY <1>13, <1>e, <1>l DEF Link, Returned
<1>14. ASSUME NEW b \in Commands, VerifyFailed(b) PROVE PublishedFirst(c)'
  BY <1>14 DEF VerifyFailed
<1>15. ASSUME NEW b \in Commands, VerifyProcessing(b) PROVE PublishedFirst(c)'
  BY <1>15 DEF VerifyProcessing, Returned
<1>16. ASSUME NEW b \in Commands, Withdraw(b) PROVE PublishedFirst(c)'
  BY <1>16 DEF Withdraw, Returned
<1>17. ASSUME NEW b \in Commands, PublishFails(b) PROVE PublishedFirst(c)'
  BY <1>17 DEF PublishFails, Returned
<1>18. ASSUME NEW b \in Commands, HoldDev(b) PROVE PublishedFirst(c)'
  BY <1>18, <1>e DEF HoldDev
<1>19. ASSUME NEW b \in Commands, HoldForeign(b) PROVE PublishedFirst(c)'
  BY <1>19, <1>e DEF HoldForeign
<1>20. ASSUME NEW b \in Commands, ResumeDev(b) PROVE PublishedFirst(c)'
  BY <1>20, <1>e, ClassAssumption DEF ResumeDev
<1> QED BY <1>1, <1>2, <1>3, <1>4, <1>5, <1>6, <1>7, <1>8, <1>9, <1>10, <1>11, <1>12, <1>13,
       <1>14, <1>15, <1>16, <1>17, <1>18, <1>19, <1>20 DEF BridgeStep

LEMMA ConsumerPublishesNothing ==
    ASSUME TypeOK, Selection, Memory, NativeStep, NEW c \in Commands, PublishedFirst(c)
    PROVE  PublishedFirst(c)'
<1> USE DEF PublishedFirst, Files, CmdFiles, ClaimFiles, Spend, Bounded, Job, Busy
<1>e. /\ used \in [Bounded -> Nat]
      /\ cmd \in [Commands -> Payload] /\ processing \in [Commands -> Payload]
  BY DEF TypeOK
<1>1. ASSUME NativeStart PROVE PublishedFirst(c)'
  BY <1>1, <1>e DEF NativeStart
<1>2. ASSUME NativeCrash PROVE PublishedFirst(c)'
  BY <1>2 DEF NativeCrash
<1>3. ASSUME BeginImport PROVE PublishedFirst(c)'
  BY <1>3, <1>e DEF BeginImport
<1>4. ASSUME EndRecover PROVE PublishedFirst(c)'
  BY <1>4 DEF EndRecover
<1>5. ASSUME EndImport PROVE PublishedFirst(c)'
  BY <1>5 DEF EndImport
<1>6. ASSUME EndDiscard PROVE PublishedFirst(c)'
  BY <1>6 DEF EndDiscard
<1>7. ASSUME SelectNone PROVE PublishedFirst(c)'
  BY <1>7 DEF SelectNone
<1>8. ASSUME CheckForgets PROVE PublishedFirst(c)'
  BY <1>8 DEF CheckForgets, Forget, LeaveQueue
<1>9. ASSUME CheckStale PROVE PublishedFirst(c)'
  BY <1>9, <1>e DEF CheckStale, Forget, LeaveQueue, Drop, Retry
<1>10. ASSUME CheckPasses PROVE PublishedFirst(c)'
  BY <1>10 DEF CheckPasses
<1>11. ASSUME CleanAttempt PROVE PublishedFirst(c)'
  BY <1>11 DEF CleanAttempt
<1>12. ASSUME PersistAttempt PROVE PublishedFirst(c)'
  BY <1>12 DEF PersistAttempt
<1>13. ASSUME PersistRefused PROVE PublishedFirst(c)'
  BY <1>13 DEF PersistRefused, Retry
<1>14. ASSUME PersistFails PROVE PublishedFirst(c)'
  BY <1>14 DEF PersistFails, Retry
<1>15. ASSUME RpcDelivered PROVE PublishedFirst(c)'
  BY <1>15 DEF RpcDelivered, Effect
<1>16. ASSUME RpcRejected PROVE PublishedFirst(c)'
  BY <1>16 DEF RpcRejected, Retry
<1>17. ASSUME RpcAmbiguous PROVE PublishedFirst(c)'
  BY <1>17 DEF RpcAmbiguous
<1>18. ASSUME RemoveClaim PROVE PublishedFirst(c)'
  BY <1>18 DEF RemoveClaim
<1>19. ASSUME RemoveAttempt PROVE PublishedFirst(c)'
  BY <1>19 DEF RemoveAttempt, Forget, LeaveQueue
<1>20. ASSUME RemovalFails PROVE PublishedFirst(c)'
  BY <1>20 DEF RemovalFails, LeaveQueue
<1>21. ASSUME Quarantine PROVE PublishedFirst(c)'
  BY <1>21, <1>e DEF Quarantine, Forget, LeaveQueue
<1>22. ASSUME NEW b \in Commands, RetryRemoval(b) PROVE PublishedFirst(c)'
  BY <1>22 DEF RetryRemoval
<1>23. ASSUME NEW b \in Commands, Requeue(b) PROVE PublishedFirst(c)'
  BY <1>23 DEF Requeue, Recovering
<1>24. ASSUME NEW b \in Commands, GiveUpInterrupted(b) PROVE PublishedFirst(c)'
  BY <1>24 DEF GiveUpInterrupted, Recovering
<1>25. ASSUME NEW b \in Commands, LeaveClaim(b) PROVE PublishedFirst(c)'
  BY <1>25, <1>e DEF LeaveClaim, Recovering
<1>26. ASSUME NEW b \in Commands, SkipQueued(b) PROVE PublishedFirst(c)'
  BY <1>26, <1>e DEF SkipQueued, Importing
<1>27. ASSUME NEW b \in Commands, DeleteDuplicate(b) PROVE PublishedFirst(c)'
  BY <1>27 DEF DeleteDuplicate, Importing
<1>28. ASSUME NEW b \in Commands, Claim(b) PROVE PublishedFirst(c)'
  BY <1>28 DEF Claim, Importing
<1>29. ASSUME NEW b \in Commands, Unreadable(b) PROVE PublishedFirst(c)'
  BY <1>29 DEF Unreadable, Importing
<1>30. ASSUME NEW b \in Commands, LateEffect(b) PROVE PublishedFirst(c)'
  BY <1>30 DEF LateEffect, Effect
<1>31. ASSUME NEW i \in 1..Len(queue), DiscardStale(i) PROVE PublishedFirst(c)'
  BY <1>31, <1>e DEF DiscardStale, Drop
<1>32. ASSUME NEW i \in 1..Len(queue), Select(i) PROVE PublishedFirst(c)'
  BY <1>32 DEF Select
<1> QED BY <1>1, <1>2, <1>3, <1>4, <1>5, <1>6, <1>7, <1>8, <1>9, <1>10, <1>11, <1>12, <1>13,
       <1>14, <1>15, <1>16, <1>17, <1>18, <1>19, <1>20, <1>21, <1>22, <1>23, <1>24, <1>25, <1>26,
       <1>27, <1>28, <1>29, <1>30, <1>31, <1>32 DEF NativeStep

\* Where the others are when the job at position i has left the memory queue.
LEMMA RemovalPositions ==
    ASSUME TypeOK, NEW i \in 1..Len(queue), NEW q, q = RemoveAt(queue, i)
    PROVE  /\ Len(q) = Len(queue) - 1
           /\ \A j \in 1..Len(q) : q[j] = IF j < i THEN queue[j] ELSE queue[j + 1]
           /\ \A m \in 1..Len(queue) : m # i =>
                 /\ (IF m < i THEN m ELSE m - 1) \in 1..Len(q)
                 /\ q[IF m < i THEN m ELSE m - 1] = queue[m]
<1>1. queue \in Seq(Commands) /\ Len(queue) \in Nat
  BY DEF TypeOK
<1>2. /\ Len(q) = Len(queue) - 1
      /\ \A j \in 1..Len(q) : q[j] = IF j < i THEN queue[j] ELSE queue[j + 1]
  BY <1>1, RemoveAtElements
<1>3. ASSUME NEW m \in 1..Len(queue), m # i
      PROVE  /\ (IF m < i THEN m ELSE m - 1) \in 1..Len(q)
             /\ q[IF m < i THEN m ELSE m - 1] = queue[m]
  <2>1. CASE m < i
    BY <1>1, <1>2, <2>1
  <2>2. CASE m > i
    <3>1. m - 1 \in 1..Len(q) /\ ~(m - 1 < i) /\ (m - 1) + 1 = m
      BY <1>1, <1>2, <2>2
    <3> QED BY <1>1, <1>2, <2>2, <3>1
  <2> QED BY <1>1, <1>3, <2>1, <2>2
<1> QED BY <1>2, <1>3

\* So whatever was queued and is still known is still queued.
LEMMA RemovalKeepsQueued ==
    ASSUME TypeOK, QueueOrder, NEW i \in 1..Len(queue), NEW q, q = RemoveAt(queue, i)
    PROVE  \A c \in known \ delivered : c # queue[i] => \E j \in 1..Len(q) : q[j] = c
<1>1. ASSUME NEW c \in known \ delivered, c # queue[i]
      PROVE  \E j \in 1..Len(q) : q[j] = c
  <2>1. PICK m \in 1..Len(queue) : queue[m] = c
    BY DEF QueueOrder
  <2>2. m # i
    BY <1>1, <2>1
  <2> QED BY <2>1, <2>2, RemovalPositions
<1> QED BY <1>1

LEMMA ConsumerKeepsQueueOrder ==
    ASSUME TypeOK, Selection, Memory, QueueOrder, NativeStep
    PROVE  QueueOrder'
<1> USE DEF QueueOrder, Job, Busy
<1>q. queue \in Seq(Commands) /\ Len(queue) \in Nat
  BY DEF TypeOK
<1>s. npc \in Busy => sel \in 1..Len(queue)
  BY DEF Selection
<1>1. ASSUME NativeStart PROVE QueueOrder'
  BY <1>1 DEF NativeStart
<1>2. ASSUME NativeCrash PROVE QueueOrder'
  BY <1>2 DEF NativeCrash
<1>3. ASSUME BeginImport PROVE QueueOrder'
  BY <1>3 DEF BeginImport
<1>4. ASSUME EndRecover PROVE QueueOrder'
  BY <1>4 DEF EndRecover
<1>5. ASSUME EndImport PROVE QueueOrder'
  BY <1>5 DEF EndImport
<1>6. ASSUME EndDiscard PROVE QueueOrder'
  BY <1>6 DEF EndDiscard
<1>7. ASSUME SelectNone PROVE QueueOrder'
  BY <1>7 DEF SelectNone
<1>8. ASSUME CheckForgets PROVE QueueOrder'
  BY <1>8, <1>s, RemovalKeepsQueued DEF CheckForgets, Forget, LeaveQueue
<1>9. ASSUME CheckStale PROVE QueueOrder'
  <2>1. CASE Job \in MapSafe
    BY <1>9, <2>1, <1>s, RemovalKeepsQueued DEF CheckStale, Forget, LeaveQueue
  <2>2. CASE Job \notin MapSafe
    BY <1>9, <2>2 DEF CheckStale, Retry
  <2> QED BY <2>1, <2>2
<1>10. ASSUME CheckPasses PROVE QueueOrder'
  BY <1>10 DEF CheckPasses
<1>11. ASSUME CleanAttempt PROVE QueueOrder'
  BY <1>11 DEF CleanAttempt
<1>12. ASSUME PersistAttempt PROVE QueueOrder'
  BY <1>12 DEF PersistAttempt
<1>13. ASSUME PersistRefused PROVE QueueOrder'
  BY <1>13 DEF PersistRefused, Retry
<1>14. ASSUME PersistFails PROVE QueueOrder'
  BY <1>14 DEF PersistFails, Retry
<1>15. ASSUME RpcDelivered PROVE QueueOrder'
  BY <1>15 DEF RpcDelivered, Effect
<1>16. ASSUME RpcRejected PROVE QueueOrder'
  BY <1>16 DEF RpcRejected, Retry
<1>17. ASSUME RpcAmbiguous PROVE QueueOrder'
  BY <1>17 DEF RpcAmbiguous
<1>18. ASSUME RemoveClaim PROVE QueueOrder'
  BY <1>18 DEF RemoveClaim
<1>19. ASSUME RemoveAttempt PROVE QueueOrder'
  BY <1>19, <1>s, RemovalKeepsQueued DEF RemoveAttempt, Forget, LeaveQueue
<1>20. ASSUME RemovalFails PROVE QueueOrder'
  BY <1>20, <1>s, RemovalKeepsQueued DEF RemovalFails, LeaveQueue
<1>21. ASSUME Quarantine PROVE QueueOrder'
  BY <1>21, <1>s, RemovalKeepsQueued DEF Quarantine, Forget, LeaveQueue
<1>22. ASSUME NEW b \in Commands, RetryRemoval(b) PROVE QueueOrder'
  BY <1>22 DEF RetryRemoval
<1>23. ASSUME NEW b \in Commands, Requeue(b) PROVE QueueOrder'
  BY <1>23 DEF Requeue, Recovering
<1>24. ASSUME NEW b \in Commands, GiveUpInterrupted(b) PROVE QueueOrder'
  BY <1>24 DEF GiveUpInterrupted, Recovering
<1>25. ASSUME NEW b \in Commands, LeaveClaim(b) PROVE QueueOrder'
  BY <1>25 DEF LeaveClaim, Recovering
<1>26. ASSUME NEW b \in Commands, SkipQueued(b) PROVE QueueOrder'
  BY <1>26 DEF SkipQueued, Importing
<1>27. ASSUME NEW b \in Commands, DeleteDuplicate(b) PROVE QueueOrder'
  BY <1>27 DEF DeleteDuplicate, Importing
<1>28. ASSUME NEW b \in Commands, Claim(b) PROVE QueueOrder'
  BY <1>28, <1>q DEF Claim, Importing
<1>29. ASSUME NEW b \in Commands, Unreadable(b) PROVE QueueOrder'
  BY <1>29 DEF Unreadable, Importing
<1>30. ASSUME NEW b \in Commands, LateEffect(b) PROVE QueueOrder'
  BY <1>30 DEF LateEffect, Effect
<1>31. ASSUME NEW i \in 1..Len(queue), DiscardStale(i) PROVE QueueOrder'
  BY <1>31, RemovalKeepsQueued DEF DiscardStale, Drop
<1>32. ASSUME NEW i \in 1..Len(queue), Select(i) PROVE QueueOrder'
  BY <1>32 DEF Select
<1> QED BY <1>1, <1>2, <1>3, <1>4, <1>5, <1>6, <1>7, <1>8, <1>9, <1>10, <1>11, <1>12, <1>13,
       <1>14, <1>15, <1>16, <1>17, <1>18, <1>19, <1>20, <1>21, <1>22, <1>23, <1>24, <1>25, <1>26,
       <1>27, <1>28, <1>29, <1>30, <1>31, <1>32 DEF NativeStep

-----------------------------------------------------------------------------
(* One session *)

LEMMA ConsumerFailsNothing ==
    ASSUME TypeOK, NothingFailed, OneSession', NativeStep
    PROVE  NothingFailed'
<1> USE DEF NothingFailed, OneSession, Spend, Bounded
<1>e. used \in [Bounded -> Nat]
  BY DEF TypeOK
<1>1. ASSUME NativeStart PROVE NothingFailed'
  BY <1>1, <1>e DEF NativeStart
<1>2. ASSUME NativeCrash PROVE NothingFailed'
  BY <1>2 DEF NativeCrash
<1>3. ASSUME BeginImport PROVE NothingFailed'
  BY <1>3, <1>e DEF BeginImport
<1>4. ASSUME EndRecover PROVE NothingFailed'
  BY <1>4 DEF EndRecover
<1>5. ASSUME EndImport PROVE NothingFailed'
  BY <1>5 DEF EndImport
<1>6. ASSUME EndDiscard PROVE NothingFailed'
  BY <1>6 DEF EndDiscard
<1>7. ASSUME SelectNone PROVE NothingFailed'
  BY <1>7 DEF SelectNone
<1>8. ASSUME CheckForgets PROVE NothingFailed'
  BY <1>8 DEF CheckForgets, Forget, LeaveQueue
<1>9. ASSUME CheckStale PROVE NothingFailed'
  BY <1>9 DEF CheckStale, Forget, LeaveQueue, Drop, Retry
<1>10. ASSUME CheckPasses PROVE NothingFailed'
  BY <1>10 DEF CheckPasses
<1>11. ASSUME CleanAttempt PROVE NothingFailed'
  BY <1>11 DEF CleanAttempt
<1>12. ASSUME PersistAttempt PROVE NothingFailed'
  BY <1>12 DEF PersistAttempt
<1>13. ASSUME PersistRefused PROVE NothingFailed'
  BY <1>13 DEF PersistRefused, Retry
<1>14. ASSUME PersistFails PROVE NothingFailed'
  BY <1>14 DEF PersistFails, Retry
<1>15. ASSUME RpcDelivered PROVE NothingFailed'
  BY <1>15 DEF RpcDelivered, Effect
<1>16. ASSUME RpcRejected PROVE NothingFailed'
  BY <1>16 DEF RpcRejected, Retry
<1>17. ASSUME RpcAmbiguous PROVE NothingFailed'
  BY <1>17 DEF RpcAmbiguous
<1>18. ASSUME RemoveClaim PROVE NothingFailed'
  BY <1>18 DEF RemoveClaim
<1>19. ASSUME RemoveAttempt PROVE NothingFailed'
  BY <1>19 DEF RemoveAttempt, Forget, LeaveQueue
<1>20. ASSUME RemovalFails PROVE NothingFailed'
  BY <1>20, <1>e DEF RemovalFails, LeaveQueue
<1>21. ASSUME Quarantine PROVE NothingFailed'
  BY <1>21 DEF Quarantine, Forget, LeaveQueue
<1>22. ASSUME NEW b \in Commands, RetryRemoval(b) PROVE NothingFailed'
  BY <1>22 DEF RetryRemoval
<1>23. ASSUME NEW b \in Commands, Requeue(b) PROVE NothingFailed'
  BY <1>23 DEF Requeue, Recovering
<1>24. ASSUME NEW b \in Commands, GiveUpInterrupted(b) PROVE NothingFailed'
  BY <1>24 DEF GiveUpInterrupted, Recovering
<1>25. ASSUME NEW b \in Commands, LeaveClaim(b) PROVE NothingFailed'
  BY <1>25 DEF LeaveClaim, Recovering
<1>26. ASSUME NEW b \in Commands, SkipQueued(b) PROVE NothingFailed'
  BY <1>26 DEF SkipQueued, Importing
<1>27. ASSUME NEW b \in Commands, DeleteDuplicate(b) PROVE NothingFailed'
  BY <1>27 DEF DeleteDuplicate, Importing
<1>28. ASSUME NEW b \in Commands, Claim(b) PROVE NothingFailed'
  BY <1>28 DEF Claim, Importing
<1>29. ASSUME NEW b \in Commands, Unreadable(b) PROVE NothingFailed'
  BY <1>29 DEF Unreadable, Importing
<1>30. ASSUME NEW b \in Commands, LateEffect(b) PROVE NothingFailed'
  BY <1>30 DEF LateEffect, Effect
<1>31. ASSUME NEW i \in 1..Len(queue), DiscardStale(i) PROVE NothingFailed'
  BY <1>31 DEF DiscardStale, Drop
<1>32. ASSUME NEW i \in 1..Len(queue), Select(i) PROVE NothingFailed'
  BY <1>32 DEF Select
<1> QED BY <1>1, <1>2, <1>3, <1>4, <1>5, <1>6, <1>7, <1>8, <1>9, <1>10, <1>11, <1>12, <1>13,
       <1>14, <1>15, <1>16, <1>17, <1>18, <1>19, <1>20, <1>21, <1>22, <1>23, <1>24, <1>25, <1>26,
       <1>27, <1>28, <1>29, <1>30, <1>31, <1>32 DEF NativeStep

LEMMA BridgeKeepsSession ==
    ASSUME TypeOK, BoundFirst, OneSession', BridgeStep,
           NEW c \in Commands, Receipt(c), PublishedFirst(c), Followed(c), Session(c)
    PROVE  Session(c)'
<1> USE DEF Session, Authority, Trusts, BoundFirst, OneSession, Spend, Bounded,
            ClaimFiles, CmdFiles, Window, Receipt
<1>e. /\ used \in [Bounded -> Nat] /\ created \in [Commands -> Nat]
      /\ processing \in [Commands -> Payload]
  BY DEF TypeOK
<1>p. /\ created[c] > 0 => used["bind"] >= 1
      /\ bpc = "withdrawFailed" /\ c \in bcmd => c \in failed
  BY DEF PublishedFirst, Followed, Withdrawable
<1>1. ASSUME BridgeStart PROVE Session(c)'
  BY <1>1 DEF BridgeStart
<1>2. ASSUME BridgeReady PROVE Session(c)'
  BY <1>2 DEF BridgeReady, ClearMarker
<1>3. ASSUME BridgeCrash PROVE Session(c)'
  BY <1>3 DEF BridgeCrash
<1>4. ASSUME ResetAuthority PROVE Session(c)'
  BY <1>4 DEF ResetAuthority, ClearMarker
<1>5. ASSUME PublishMarker PROVE Session(c)'
  BY <1>5, <1>e, <1>p DEF PublishMarker
<1>6. ASSUME BindFails PROVE Session(c)'
  BY <1>6, <1>e DEF BindFails
<1>7. ASSUME EndBind PROVE Session(c)'
  BY <1>7 DEF EndBind
<1>8. ASSUME EnsureMarker PROVE Session(c)'
  BY <1>8 DEF EnsureMarker
<1>9. ASSUME NEW r \in Rooms, BeginBind(r) PROVE Session(c)'
  BY <1>9 DEF BeginBind, ClearMarker
<1>10. ASSUME NEW l \in Leases \union {NoLease}, PublishLease(l) PROVE Session(c)'
  BY <1>10 DEF PublishLease
<1>11. ASSUME NEW b \in Commands, BeginPublish(b) PROVE Session(c)'
  BY <1>11 DEF BeginPublish
<1>12. ASSUME NEW b \in Commands, Probe(b) PROVE Session(c)'
  BY <1>12 DEF Probe, Returned
<1>13. ASSUME NEW b \in Commands, Link(b) PROVE Session(c)'
  BY <1>13, <1>e DEF Link, Returned
<1>14. ASSUME NEW b \in Commands, VerifyFailed(b) PROVE Session(c)'
  BY <1>14 DEF VerifyFailed
<1>15. ASSUME NEW b \in Commands, VerifyProcessing(b) PROVE Session(c)'
  BY <1>15 DEF VerifyProcessing, Returned
<1>16. ASSUME NEW b \in Commands, Withdraw(b) PROVE Session(c)'
  BY <1>16, <1>p DEF Withdraw, Returned
<1>17. ASSUME NEW b \in Commands, PublishFails(b) PROVE Session(c)'
  BY <1>17, <1>e DEF PublishFails, Returned
<1>18. ASSUME NEW b \in Commands, HoldDev(b) PROVE Session(c)'
  BY <1>18, <1>e DEF HoldDev
<1>19. ASSUME NEW b \in Commands, HoldForeign(b) PROVE Session(c)'
  BY <1>19 DEF HoldForeign
<1>20. ASSUME NEW b \in Commands, ResumeDev(b) PROVE Session(c)'
  BY <1>20, <1>e, ClassAssumption DEF ResumeDev
<1> QED BY <1>1, <1>2, <1>3, <1>4, <1>5, <1>6, <1>7, <1>8, <1>9, <1>10, <1>11, <1>12, <1>13,
       <1>14, <1>15, <1>16, <1>17, <1>18, <1>19, <1>20 DEF BridgeStep

LEMMA ConsumerKeepsSession ==
    ASSUME TypeOK, Selection, Memory, Attempts, NothingFailed, OneSession', NativeStep,
           NEW c \in Commands, Receipt(c), Session(c)
    PROVE  Session(c)'
<1> USE DEF Session, Authority, Trusts, NothingFailed, OneSession, Spend, Bounded,
            ClaimFiles, CmdFiles, Window, Receipt, Job
<1>e. used \in [Bounded -> Nat] /\ processing \in [Commands -> Payload]
  BY DEF TypeOK
<1>r. RoomOf[c] # NoRoom
  OBVIOUS
<1>m. npc = "off" => known = {}
  BY DEF Memory
<1>1. ASSUME NativeStart PROVE Session(c)'
  BY <1>1, <1>e, <1>m DEF NativeStart
<1>2. ASSUME NativeCrash PROVE Session(c)'
  BY <1>2 DEF NativeCrash
<1>3. ASSUME BeginImport PROVE Session(c)'
  BY <1>3, <1>e, <1>r DEF BeginImport, Eligible
<1>4. ASSUME EndRecover PROVE Session(c)'
  BY <1>4 DEF EndRecover
<1>5. ASSUME EndImport PROVE Session(c)'
  BY <1>5 DEF EndImport
<1>6. ASSUME EndDiscard PROVE Session(c)'
  BY <1>6 DEF EndDiscard
<1>7. ASSUME SelectNone PROVE Session(c)'
  BY <1>7 DEF SelectNone
<1>8. ASSUME CheckForgets PROVE Session(c)'
  BY <1>8 DEF CheckForgets, Forget, LeaveQueue
<1>9. ASSUME CheckStale PROVE Session(c)'
  BY <1>9 DEF CheckStale, Forget, LeaveQueue, Drop, Retry
<1>10. ASSUME CheckPasses PROVE Session(c)'
  BY <1>10 DEF CheckPasses
<1>11. ASSUME CleanAttempt PROVE Session(c)'
  BY <1>11 DEF CleanAttempt
<1>12. ASSUME PersistAttempt PROVE Session(c)'
  BY <1>12 DEF PersistAttempt
<1>13. ASSUME PersistRefused PROVE Session(c)'
  BY <1>13 DEF PersistRefused, Retry
<1>14. ASSUME PersistFails PROVE Session(c)'
  BY <1>14 DEF PersistFails, Retry
<1>15. ASSUME RpcDelivered PROVE Session(c)'
  BY <1>15 DEF RpcDelivered, Effect
<1>16. ASSUME RpcRejected PROVE Session(c)'
  BY <1>16 DEF RpcRejected, Retry
<1>17. ASSUME RpcAmbiguous PROVE Session(c)'
  BY <1>17 DEF RpcAmbiguous
<1>18. ASSUME RemoveClaim PROVE Session(c)'
  BY <1>18 DEF RemoveClaim
<1>19. ASSUME RemoveAttempt PROVE Session(c)'
  BY <1>19 DEF RemoveAttempt, Forget, LeaveQueue
<1>20. ASSUME RemovalFails PROVE Session(c)'
  BY <1>20 DEF RemovalFails, LeaveQueue
<1>21. ASSUME Quarantine PROVE Session(c)'
  BY <1>21 DEF Quarantine, Forget, LeaveQueue
<1>22. ASSUME NEW b \in Commands, RetryRemoval(b) PROVE Session(c)'
  BY <1>22 DEF RetryRemoval
<1>23. ASSUME NEW b \in Commands, Requeue(b) PROVE Session(c)'
  BY <1>23, <1>e DEF Requeue, Recovering
<1>24. ASSUME NEW b \in Commands, GiveUpInterrupted(b) PROVE Session(c)'
  BY <1>24, <1>e DEF GiveUpInterrupted, Recovering
<1>25. ASSUME NEW b \in Commands, LeaveClaim(b) PROVE Session(c)'
  BY <1>25, <1>e DEF LeaveClaim, Recovering
<1>26. ASSUME NEW b \in Commands, SkipQueued(b) PROVE Session(c)'
  BY <1>26 DEF SkipQueued, Importing
<1>27. ASSUME NEW b \in Commands, DeleteDuplicate(b) PROVE Session(c)'
  BY <1>27 DEF DeleteDuplicate, Importing
<1>28. ASSUME NEW b \in Commands, Claim(b) PROVE Session(c)'
  BY <1>28 DEF Claim, Importing, Importable, Eligible
<1>29. ASSUME NEW b \in Commands, Unreadable(b) PROVE Session(c)'
  BY <1>29 DEF Unreadable, Importing
<1>30. ASSUME NEW b \in Commands, LateEffect(b) PROVE Session(c)'
  BY <1>30 DEF LateEffect, Effect
<1>31. ASSUME NEW i \in 1..Len(queue), DiscardStale(i) PROVE Session(c)'
  BY <1>31 DEF DiscardStale, Drop
<1>32. ASSUME NEW i \in 1..Len(queue), Select(i) PROVE Session(c)'
  BY <1>32 DEF Select
<1> QED BY <1>1, <1>2, <1>3, <1>4, <1>5, <1>6, <1>7, <1>8, <1>9, <1>10, <1>11, <1>12, <1>13,
       <1>14, <1>15, <1>16, <1>17, <1>18, <1>19, <1>20, <1>21, <1>22, <1>23, <1>24, <1>25, <1>26,
       <1>27, <1>28, <1>29, <1>30, <1>31, <1>32 DEF NativeStep

-----------------------------------------------------------------------------
(* The order of an occurrence *)

\* Removing another job, or adding one, keeps the order of two.
LEMMA RemovalKeepsPrecedes ==
    ASSUME TypeOK, NEW i \in 1..Len(queue), NEW c, NEW d, queue[i] # d, Precedes(queue, d, c)
    PROVE  Precedes(RemoveAt(queue, i), d, c)
<1> DEFINE q == RemoveAt(queue, i)
<1>0. Len(queue) \in Nat
  BY DEF TypeOK
<1>1. /\ Len(q) = Len(queue) - 1
      /\ \A j \in 1..Len(q) : q[j] = IF j < i THEN queue[j] ELSE queue[j + 1]
      /\ \A m \in 1..Len(queue) : m # i =>
            /\ (IF m < i THEN m ELSE m - 1) \in 1..Len(q)
            /\ q[IF m < i THEN m ELSE m - 1] = queue[m]
  BY RemovalPositions
<1> HIDE DEF q
<1>2. ASSUME NEW j \in 1..Len(q), q[j] = c
      PROVE  \E k \in 1..(j - 1) : q[k] = d
  <2>1. PICK m \in 1..Len(queue) : queue[m] = c /\ m = IF j < i THEN j ELSE j + 1
    BY <1>0, <1>1, <1>2
  <2>2. PICK k \in 1..(m - 1) : queue[k] = d
    BY <2>1 DEF Precedes
  <2>3. k \in 1..Len(queue) /\ k # i
    BY <1>0, <2>2
  <2>4. (IF k < i THEN k ELSE k - 1) \in 1..(j - 1)
    BY <1>0, <2>1, <2>2, <2>3, <1>1
  <2> QED BY <1>1, <2>2, <2>3, <2>4
<1> QED BY <1>2 DEF Precedes, q

LEMMA AppendKeepsPrecedes ==
    ASSUME TypeOK, NEW b \in Commands, NEW c, NEW d,
           IF b = c THEN /\ \E i \in 1..Len(queue) : queue[i] = d
                         /\ \A i \in 1..Len(queue) : queue[i] # c
                    ELSE Precedes(queue, d, c)
    PROVE  Precedes(Append(queue, b), d, c)
<1> DEFINE q == Append(queue, b)
<1>0. /\ Len(queue) \in Nat /\ Len(q) = Len(queue) + 1 /\ q[Len(queue) + 1] = b
      /\ \A j \in 1..Len(queue) : q[j] = queue[j]
  BY AppendProperties DEF TypeOK
<1> HIDE DEF q
<1>1. ASSUME NEW j \in 1..Len(q), q[j] = c
      PROVE  \E k \in 1..(j - 1) : q[k] = d
  <2>1. CASE b = c
    <3>1. j = Len(queue) + 1
      BY <1>0, <1>1, <2>1
    <3>2. PICK k \in 1..Len(queue) : queue[k] = d
      BY <2>1
    <3> QED BY <1>0, <3>1, <3>2
  <2>2. CASE b # c
    <3>1. j \in 1..Len(queue) /\ queue[j] = c
      BY <1>0, <1>1, <2>2
    <3>2. PICK k \in 1..(j - 1) : queue[k] = d
      BY <2>2, <3>1 DEF Precedes
    <3> QED BY <1>0, <3>1, <3>2
  <2> QED BY <2>1, <2>2
<1> QED BY <1>1 DEF Precedes, q

LEMMA BridgeKeepsOrdered ==
    ASSUME TypeOK, Selection, Memory, BoundFirst, OneSession', BridgeStep,
           NEW c \in Commands, NEW d \in Commands, Later(d, c),
           Receipt(c), RoomOf[d] = RoomOf[c],
           PublishedFirst(c), PublishedFirst(d), Session(c), Ordered(d, c)
    PROVE  Ordered(d, c)'
<1> USE DEF Ordered, OneSession, Spend, Bounded, Files, CmdFiles, ClaimFiles, Job
<1>e. /\ used \in [Bounded -> Nat] /\ created \in [Commands -> Nat]
      /\ cmd \in [Commands -> Payload] /\ processing \in [Commands -> Payload]
      /\ Len(queue) \in Nat
  BY DEF TypeOK
<1>p. /\ created[c] > 0 => used["bind"] >= 1
      /\ d \in CmdFiles => created[d] > 0
  BY DEF PublishedFirst, Files
<1>n. c \in Nat /\ d \in Nat /\ d < c
  BY CommandsAssumption DEF Later
<1>d. c # d /\ d \notin DevJobs /\ c \notin DevJobs /\ Receipt(d)
  BY <1>n, ClassAssumption DEF Receipt
<1>s. bpc = "idle" /\ room = RoomOf[c] /\ created[c] > 0 => c \in accepted \union failed
  BY DEF Session, Authority, Window
<1>m. room = RoomOf[c] /\ bpc = "idle" /\ c \in known => marker = RoomOf[c]
  BY DEF Session, Authority, Trusts
<1>r. RoomOf[c] # NoRoom
  BY DEF Receipt
<1>k. created[c] = 0 => /\ c \notin known /\ ~(npc = "import" /\ c \in listing)
                        /\ ~(npc = "persist" /\ Job = c)
  BY DEF PublishedFirst, Memory, QueueIsDeduplicated, Selection, Busy
<1>1. ASSUME BridgeStart PROVE Ordered(d, c)'
  BY <1>1, <1>d DEF BridgeStart
<1>2. ASSUME BridgeReady PROVE Ordered(d, c)'
  BY <1>2, <1>r DEF BridgeReady, ClearMarker
<1>3. ASSUME BridgeCrash PROVE Ordered(d, c)'
  BY <1>3 DEF BridgeCrash
<1>4. ASSUME ResetAuthority PROVE Ordered(d, c)'
  BY <1>4, <1>r DEF ResetAuthority, ClearMarker
<1>5. ASSUME PublishMarker PROVE Ordered(d, c)'
  BY <1>5, <1>e, <1>p DEF PublishMarker
<1>6. ASSUME BindFails PROVE Ordered(d, c)'
  BY <1>6 DEF BindFails
<1>7. ASSUME EndBind PROVE Ordered(d, c)'
  BY <1>7 DEF EndBind
<1>8. ASSUME EnsureMarker PROVE Ordered(d, c)'
  BY <1>8, <1>m DEF EnsureMarker
<1>9. ASSUME NEW r \in Rooms, BeginBind(r) PROVE Ordered(d, c)'
  BY <1>9, <1>r DEF BeginBind, ClearMarker
<1>10. ASSUME NEW l \in Leases \union {NoLease}, PublishLease(l) PROVE Ordered(d, c)'
  BY <1>10 DEF PublishLease
<1>11. ASSUME NEW b \in Commands, BeginPublish(b) PROVE Ordered(d, c)'
  <2>1. ASSUME created[c] > 0, c \notin failed PROVE b # d
    <3>1. ASSUME b = d PROVE FALSE
      <4>1. bpc = "idle" /\ room = RoomOf[c] /\ InSequence(d)
        BY <1>11, <3>1, <1>d DEF BeginPublish
      <4>2. SameOccurrence(d, c) /\ c > d
        BY <1>n DEF Later, SameOccurrence
      <4>3. c \notin accepted
        BY <4>1, <4>2 DEF InSequence
      <4> QED BY <2>1, <4>1, <4>3, <1>s
    <3> QED BY <3>1
  <2>2. marker' = RoomOf[c] /\ c \in known => marker = RoomOf[c]
    BY <1>11, <1>m DEF BeginPublish
  <2> QED BY <1>11, <2>1, <2>2 DEF BeginPublish
<1>12. ASSUME NEW b \in Commands, Probe(b) PROVE Ordered(d, c)'
  BY <1>12 DEF Probe, Returned
<1>13. ASSUME NEW b \in Commands, Link(b) PROVE Ordered(d, c)'
  <2>1. CASE created[c] = 0
    BY <1>13, <2>1, <1>k, <1>d, <1>e DEF Link, Returned
  <2>2. CASE created[c] > 0
    <3>1. ~(c \in failed \/ d \in failed) => b # d
      BY <1>13, <2>2 DEF Link
    <3>2. b # d => (d \in CmdFiles' <=> d \in CmdFiles)
      BY <1>13, <1>e DEF Link
    <3> QED BY <1>13, <2>2, <3>1, <3>2 DEF Link, Returned
  <2> QED BY <1>e, <2>1, <2>2
<1>14. ASSUME NEW b \in Commands, VerifyFailed(b) PROVE Ordered(d, c)'
  BY <1>14 DEF VerifyFailed
<1>15. ASSUME NEW b \in Commands, VerifyProcessing(b) PROVE Ordered(d, c)'
  BY <1>15 DEF VerifyProcessing, Returned
<1>16. ASSUME NEW b \in Commands, Withdraw(b) PROVE Ordered(d, c)'
  BY <1>16, <1>e DEF Withdraw, Returned
<1>17. ASSUME NEW b \in Commands, PublishFails(b) PROVE Ordered(d, c)'
  BY <1>17 DEF PublishFails, Returned
<1>18. ASSUME NEW b \in Commands, HoldDev(b) PROVE Ordered(d, c)'
  BY <1>18, <1>e DEF HoldDev
<1>19. ASSUME NEW b \in Commands, HoldForeign(b) PROVE Ordered(d, c)'
  BY <1>19, <1>e DEF HoldForeign
<1>20. ASSUME NEW b \in Commands, ResumeDev(b) PROVE Ordered(d, c)'
  BY <1>20, <1>e, <1>d DEF ResumeDev
<1> QED BY <1>1, <1>2, <1>3, <1>4, <1>5, <1>6, <1>7, <1>8, <1>9, <1>10, <1>11, <1>12, <1>13,
       <1>14, <1>15, <1>16, <1>17, <1>18, <1>19, <1>20 DEF BridgeStep

LEMMA ConsumerKeepsOrdered ==
    ASSUME TypeOK, Selection, Memory, Attempts, QueueOrder, NothingFailed, OneSession', NativeStep,
           NEW c \in Commands, NEW d \in Commands, Later(d, c),
           Receipt(c), RoomOf[d] = RoomOf[c],
           PublishedFirst(c), Session(c), Session(d), Ordered(d, c)
    PROVE  Ordered(d, c)'
<1> USE DEF Ordered, OneSession, Spend, Bounded, Files, CmdFiles, ClaimFiles, Job, Busy
<1>e. /\ used \in [Bounded -> Nat]
      /\ cmd \in [Commands -> Payload] /\ processing \in [Commands -> Payload]
      /\ queue \in Seq(Commands) /\ Len(queue) \in Nat
  BY DEF TypeOK
<1>d. c # d /\ c \in Nat /\ d \in Nat /\ d < c
  BY CommandsAssumption DEF Later
<1>r. RoomOf[c] # NoRoom
  BY DEF Receipt
<1>f. delivered = {} /\ (npc # "off" => cleared)
  BY DEF NothingFailed
<1>m. /\ npc = "off" => known = {}
      /\ npc \in {"startup", "recover"} => listing \intersect known = {}
      /\ \A i \in 1..Len(queue) : queue[i] \in known
      /\ npc = "removeAttempt" => Job \notin ClaimFiles
  BY DEF Memory, QueueIsDeduplicated, Attempts
<1>s. npc \in Busy => sel \in 1..Len(queue) /\ Job \in Commands
  BY QueueOfCommands DEF Selection
<1>t. npc \in {"recover", "import"} /\ ns = RoomOf[c] /\ d \in ClaimFiles
          => d \in known \/ (npc = "recover" /\ d \in listing)
  BY DEF Session
<1>q. \A b \in known : \E i \in 1..Len(queue) : queue[i] = b
  BY <1>f DEF QueueOrder
<1>w. c \in known /\ Precedes(queue, d, c) => d \in known
  <2> SUFFICES ASSUME c \in known, Precedes(queue, d, c) PROVE d \in known
    OBVIOUS
  <2>1. PICK j \in 1..Len(queue) : queue[j] = c
    BY <1>q
  <2>2. PICK k \in 1..(j - 1) : queue[k] = d
    BY <2>1 DEF Precedes
  <2> QED BY <1>e, <1>m, <2>2
<1>x. \A i \in 1..Len(queue) : queue[i] # d /\ Precedes(queue, d, c)
          => Precedes(RemoveAt(queue, i), d, c)
  BY RemovalKeepsPrecedes
<1>1. ASSUME NativeStart PROVE Ordered(d, c)'
  BY <1>1, <1>m DEF NativeStart
<1>2. ASSUME NativeCrash PROVE Ordered(d, c)'
  BY <1>2 DEF NativeCrash
<1>3. ASSUME BeginImport PROVE Ordered(d, c)'
  BY <1>3, <1>f DEF BeginImport
<1>4. ASSUME EndRecover PROVE Ordered(d, c)'
  BY <1>4, <1>t DEF EndRecover
<1>5. ASSUME EndImport PROVE Ordered(d, c)'
  BY <1>5 DEF EndImport
<1>6. ASSUME EndDiscard PROVE Ordered(d, c)'
  BY <1>6 DEF EndDiscard
<1>7. ASSUME SelectNone PROVE Ordered(d, c)'
  BY <1>7 DEF SelectNone
<1>8. ASSUME CheckForgets PROVE Ordered(d, c)'
  <2>1. CASE Job = d
    BY <1>8, <2>1, <1>f, <1>s DEF CheckForgets, RoomIsActive, Forget, LeaveQueue
  <2>2. CASE Job = c
    BY <1>8, <2>2 DEF CheckForgets, Forget, LeaveQueue
  <2>3. CASE Job # d /\ Job # c
    BY <1>8, <2>3, <1>s, <1>x DEF CheckForgets, Forget, LeaveQueue
  <2> QED BY <2>1, <2>2, <2>3
<1>9. ASSUME CheckStale PROVE Ordered(d, c)'
  <2>1. CASE Job \notin MapSafe
    BY <1>9, <2>1 DEF CheckStale, Retry
  <2>2. CASE Job \in MapSafe /\ Job = d
    BY <1>9, <2>2, <1>e, <1>s DEF CheckStale, Drop, Forget, LeaveQueue
  <2>3. CASE Job \in MapSafe /\ Job = c
    BY <1>9, <2>3 DEF CheckStale, Forget, LeaveQueue
  <2>4. CASE Job \in MapSafe /\ Job # d /\ Job # c
    BY <1>9, <2>4, <1>e, <1>s, <1>x DEF CheckStale, Drop, Forget, LeaveQueue
  <2> QED BY <2>1, <2>2, <2>3, <2>4
<1>10. ASSUME CheckPasses PROVE Ordered(d, c)'
  <2>1. ASSUME created[c] > 0, c \notin failed, d \notin failed, Job = c PROVE d \notin Files
    <3>1. marker = RoomOf[c] /\ c \in known /\ sel \in 1..Len(queue) /\ queue[sel] = c
      BY <1>10, <2>1, <1>s, <1>m DEF CheckPasses, RoomIsActive
    <3>2. \A j \in 1..(sel - 1) : queue[j] # d
      BY <1>10, <2>1 DEF CheckPasses, QueueOrder, Later, SameOccurrence
    <3>3. ~Precedes(queue, d, c)
      BY <3>1, <3>2 DEF Precedes
    <3> QED BY <2>1, <3>1, <3>3
  <2> QED BY <1>10, <2>1 DEF CheckPasses
<1>11. ASSUME CleanAttempt PROVE Ordered(d, c)'
  BY <1>11 DEF CleanAttempt
<1>12. ASSUME PersistAttempt PROVE Ordered(d, c)'
  BY <1>12 DEF PersistAttempt
<1>13. ASSUME PersistRefused PROVE Ordered(d, c)'
  BY <1>13 DEF PersistRefused, Retry
<1>14. ASSUME PersistFails PROVE Ordered(d, c)'
  BY <1>14 DEF PersistFails, Retry
<1>15. ASSUME RpcDelivered PROVE Ordered(d, c)'
  BY <1>15 DEF RpcDelivered, Effect
<1>16. ASSUME RpcRejected PROVE Ordered(d, c)'
  BY <1>16 DEF RpcRejected, Retry
<1>17. ASSUME RpcAmbiguous PROVE Ordered(d, c)'
  BY <1>17 DEF RpcAmbiguous
<1>18. ASSUME RemoveClaim PROVE Ordered(d, c)'
  BY <1>18 DEF RemoveClaim
<1>19. ASSUME RemoveAttempt PROVE Ordered(d, c)'
  <2>1. CASE Job = d
    BY <1>19, <2>1, <1>m DEF RemoveAttempt, Forget, LeaveQueue
  <2>2. CASE Job = c
    BY <1>19, <2>2 DEF RemoveAttempt, Forget, LeaveQueue
  <2>3. CASE Job # d /\ Job # c
    BY <1>19, <2>3, <1>s, <1>x DEF RemoveAttempt, Forget, LeaveQueue
  <2> QED BY <2>1, <2>2, <2>3
<1>20. ASSUME RemovalFails PROVE Ordered(d, c)'
  BY <1>20, <1>e DEF RemovalFails, LeaveQueue
<1>21. ASSUME Quarantine PROVE Ordered(d, c)'
  <2>1. CASE Job = d
    BY <1>21, <2>1, <1>e DEF Quarantine, Forget, LeaveQueue
  <2>2. CASE Job = c
    BY <1>21, <2>2 DEF Quarantine, Forget, LeaveQueue
  <2>3. CASE Job # d /\ Job # c
    BY <1>21, <2>3, <1>e, <1>s, <1>x DEF Quarantine, Forget, LeaveQueue
  <2> QED BY <2>1, <2>2, <2>3
<1>22. ASSUME NEW b \in Commands, RetryRemoval(b) PROVE Ordered(d, c)'
  BY <1>22 DEF RetryRemoval
<1>23. ASSUME NEW b \in Commands, Requeue(b) PROVE Ordered(d, c)'
  <2>1. CASE b = d
    <3>1. d \in Files /\ d \notin known
      BY <1>23, <2>1, <1>m DEF Requeue, Recovering
    <3> HIDE DEF ClaimFiles, CmdFiles, Files
    <3> QED BY <1>23, <2>1, <3>1, <1>w DEF Requeue, Recovering
  <2>2. CASE b # d
    <3>1. (d \in CmdFiles' <=> d \in CmdFiles) /\ (d \in ClaimFiles' <=> d \in ClaimFiles)
      BY <1>23, <2>2, <1>e DEF Requeue
    <3> HIDE DEF ClaimFiles, CmdFiles
    <3> QED BY <1>23, <2>2, <3>1 DEF Requeue, Recovering
  <2> QED BY <2>1, <2>2
<1>24. ASSUME NEW b \in Commands, GiveUpInterrupted(b) PROVE Ordered(d, c)'
  BY <1>24 DEF GiveUpInterrupted, Recovering
<1>25. ASSUME NEW b \in Commands, LeaveClaim(b) PROVE Ordered(d, c)'
  BY <1>25 DEF LeaveClaim, Recovering
<1>26. ASSUME NEW b \in Commands, SkipQueued(b) PROVE Ordered(d, c)'
  <2>1. ASSUME b = d, d \notin failed, ns = RoomOf[c] PROVE d \notin Files
    BY <1>26, <2>1, <1>e, <1>t DEF SkipQueued, Importing, Importable, Eligible
  <2> QED BY <1>26, <2>1 DEF SkipQueued, Importing
<1>27. ASSUME NEW b \in Commands, DeleteDuplicate(b) PROVE Ordered(d, c)'
  <2>1. b = d => d \in known /\ d \notin CmdFiles'
    BY <1>27, <1>e DEF DeleteDuplicate
  <2>2. d \in Files' => d \in Files
    BY <1>27, <1>e DEF DeleteDuplicate
  <2>3. d \in CmdFiles' => d \in CmdFiles
    BY <1>27, <1>e DEF DeleteDuplicate
  <2> HIDE DEF Files, CmdFiles, ClaimFiles
  <2> QED BY <1>27, <2>1, <2>2, <2>3 DEF DeleteDuplicate, Importing
<1>28. ASSUME NEW b \in Commands, Claim(b) PROVE Ordered(d, c)'
  <2>0. /\ npc = "import" /\ npc' = "import" /\ ns' = ns /\ marker' = marker
        /\ b \in CmdFiles \ ClaimFiles
        /\ b \notin known /\ known' = known \union {b} /\ UNCHANGED <<failed, created>>
        /\ b \in listing /\ listing' = listing \ {b} /\ UNCHANGED <<bcmd, sel>>
        /\ queue' = Append(queue, b)
    BY <1>28 DEF Claim, Importing
  <2>1. CASE b = c
    <3>1. d \notin listing /\ ns = RoomOf[c]
      BY <1>28, <2>1, <1>d DEF Claim, Importing, Importable, Eligible
    <3>2. d \in Files' => d \in Files
      BY <1>28, <2>1, <1>d, <1>e DEF Claim
    <3>3. d \in CmdFiles' => d \in CmdFiles
      BY <1>28, <2>1, <1>d, <1>e DEF Claim
    <3>4. d \in known => Precedes(Append(queue, b), d, c)
      BY <2>0, <2>1, <1>m, <1>q, AppendKeepsPrecedes
    <3> HIDE DEF Files, CmdFiles, ClaimFiles
    <3> QED BY <2>0, <2>1, <3>1, <3>2, <3>3, <3>4
  <2>2. CASE b = d
    <3>1. d \notin CmdFiles'
      BY <1>28, <2>2, <1>e DEF Claim
    <3> HIDE DEF ClaimFiles, CmdFiles
    <3> QED BY <2>0, <2>2, <3>1, <1>d
  <2>3. CASE b # c /\ b # d
    <3>1. (d \in CmdFiles' <=> d \in CmdFiles) /\ (d \in ClaimFiles' <=> d \in ClaimFiles)
      BY <1>28, <2>3, <1>e DEF Claim
    <3>2. Precedes(queue, d, c) => Precedes(Append(queue, b), d, c)
      BY <2>3, AppendKeepsPrecedes
    <3> HIDE DEF ClaimFiles, CmdFiles
    <3> QED BY <2>0, <2>3, <3>1, <3>2
  <2> QED BY <2>1, <2>2, <2>3
<1>29. ASSUME NEW b \in Commands, Unreadable(b) PROVE Ordered(d, c)'
  BY <1>29, <1>e DEF Unreadable, Importing
<1>30. ASSUME NEW b \in Commands, LateEffect(b) PROVE Ordered(d, c)'
  BY <1>30, <1>e DEF LateEffect, Effect
<1>31. ASSUME NEW i \in 1..Len(queue), DiscardStale(i) PROVE Ordered(d, c)'
  <2>1. CASE queue[i] = d
    BY <1>31, <2>1, <1>e DEF DiscardStale, Drop
  <2>2. CASE queue[i] = c
    BY <1>31, <2>2 DEF DiscardStale
  <2>3. CASE queue[i] # d /\ queue[i] # c
    BY <1>31, <2>3, <1>e, <1>x DEF DiscardStale, Drop
  <2> QED BY <2>1, <2>2, <2>3
<1>32. ASSUME NEW i \in 1..Len(queue), Select(i) PROVE Ordered(d, c)'
  BY <1>32 DEF Select
<1> QED BY <1>1, <1>2, <1>3, <1>4, <1>5, <1>6, <1>7, <1>8, <1>9, <1>10, <1>11, <1>12, <1>13,
       <1>14, <1>15, <1>16, <1>17, <1>18, <1>19, <1>20, <1>21, <1>22, <1>23, <1>24, <1>25, <1>26,
       <1>27, <1>28, <1>29, <1>30, <1>31, <1>32 DEF NativeStep

-----------------------------------------------------------------------------
(* The theorem *)

\* Commands of one occurrence are receipts of one room.
LEMMA OccurrencesAreReceipts ==
    ASSUME NEW c \in Commands, NEW d \in Commands, Later(d, c)
    PROVE  Receipt(c) /\ Receipt(d) /\ RoomOf[d] = RoomOf[c]
BY OccurrenceAssumption DEF Later, SameOccurrence, Receipt

LEMMA StepKeepsOrder ==
    ASSUME TypeOK, ConsumerInvariant, ReceiptInvariant, OrderInvariant, [Next]_vars
    PROVE  OrderInvariant'
<1> USE DEF ConsumerInvariant
<1>1. CASE BridgeStep
  <2>1. (\A c \in Commands : PublishedFirst(c)') /\ BoundFirst'
    BY <1>1, BridgePublishesFirst, BridgeBindsFirst DEF OrderInvariant
  <2>2. UNCHANGED native
    BY <1>1, BridgeSettlesNothing
  <2>3. QueueOrder'
    BY <2>2 DEF OrderInvariant, QueueOrder
  <2>4. ASSUME OneSession' PROVE SessionInvariant'
    <3>1. SessionInvariant
      BY <1>1, <2>4, CountersGrow DEF OrderInvariant, Next
    <3>2. NothingFailed'
      BY <2>2, <3>1 DEF SessionInvariant, NothingFailed
    <3>3. ASSUME NEW c \in Commands, Receipt(c) PROVE Session(c)'
      BY <1>1, <2>4, <3>1, <3>3, BridgeKeepsSession DEF OrderInvariant, ReceiptInvariant,
           SessionInvariant
    <3>4. ASSUME NEW c \in Commands, NEW d \in Commands, Later(d, c) PROVE Ordered(d, c)'
      BY <1>1, <2>4, <3>1, <3>4, OccurrencesAreReceipts, BridgeKeepsOrdered DEF OrderInvariant,
           SessionInvariant
    <3> QED BY <3>2, <3>3, <3>4 DEF SessionInvariant, Receipt, Later, SameOccurrence
  <2> QED BY <2>1, <2>3, <2>4 DEF OrderInvariant
<1>2. CASE NativeStep
  <2>1. \A c \in Commands : PublishedFirst(c)'
    BY <1>2, ConsumerPublishesNothing DEF OrderInvariant
  <2>2. QueueOrder'
    BY <1>2, ConsumerKeepsQueueOrder DEF OrderInvariant
  <2>3. BoundFirst'
    <3>1. UNCHANGED bridge
      BY <1>2 DEF NativeStep, NativeStart, NativeCrash, BeginImport, EndRecover, EndImport,
         EndDiscard, SelectNone, CheckForgets, CheckStale, CheckPasses, CleanAttempt,
         PersistAttempt,
         PersistRefused, PersistFails, RpcDelivered, RpcRejected, RpcAmbiguous, RemoveClaim,
         RemoveAttempt, RemovalFails, Quarantine, RetryRemoval, Requeue, GiveUpInterrupted,
         LeaveClaim,
         SkipQueued, DeleteDuplicate, Claim, Unreadable, LateEffect, DiscardStale, Select
    <3>2. used["bind"] \in Nat /\ used'["bind"] \in Nat /\ used["bind"] <= used'["bind"]
      BY <1>2, CountersGrow, ConsumerKeepsTypes DEF TypeOK, Bounded, Next
    <3> QED BY <3>1, <3>2 DEF OrderInvariant, BoundFirst
  <2>4. ASSUME OneSession' PROVE SessionInvariant'
    <3>1. SessionInvariant
      BY <1>2, <2>4, CountersGrow DEF OrderInvariant, Next
    <3>2. NothingFailed'
      BY <1>2, <2>4, <3>1, ConsumerFailsNothing DEF SessionInvariant
    <3>3. ASSUME NEW c \in Commands, Receipt(c) PROVE Session(c)'
      BY <1>2, <2>4, <3>1, <3>3, ConsumerKeepsSession DEF SessionInvariant
    <3>4. ASSUME NEW c \in Commands, NEW d \in Commands, Later(d, c) PROVE Ordered(d, c)'
      BY <1>2, <2>4, <3>1, <3>4, OccurrencesAreReceipts, ConsumerKeepsOrdered DEF OrderInvariant,
           SessionInvariant
    <3> QED BY <3>2, <3>3, <3>4 DEF SessionInvariant, Receipt, Later, SameOccurrence
  <2> QED BY <2>1, <2>2, <2>3, <2>4 DEF OrderInvariant
<1>3. CASE UNCHANGED vars
  BY <1>3 DEF OrderInvariant, PublishedFirst, BoundFirst, QueueOrder, OneSession, SessionInvariant,
       NothingFailed, Session, Authority, Trusts, Ordered, Files, CmdFiles, ClaimFiles, Job
<1> QED BY <1>1, <1>2, <1>3 DEF Next

\* What orders an occurrence: its earlier command is queued before the later one wherever
\* both are, and the bridge returns to none it has passed.
THEOREM OrderIsKept == Spec => []OrderInvariant
<1>1. Init => OrderInvariant
  BY DEF Init, OrderInvariant, PublishedFirst, BoundFirst, QueueOrder, Busy, SessionInvariant,
         NothingFailed, Session, Trusts, Ordered, Files, CmdFiles, ClaimFiles, Publishing, Window,
         Bounded
<1>2. TypeOK /\ ConsumerInvariant /\ ReceiptInvariant /\ OrderInvariant /\ [Next]_vars => OrderInvariant'
  BY StepKeepsOrder
<1> HIDE DEF vars
<1> QED BY <1>1, <1>2, InvariantHolds, ReceiptsAreFollowed, PTL DEF Spec

\* As long as no room is bound a second time and no file operation fails, no command of a
\* receipt reaches the game while an earlier one still has a file (OccurrenceOrder),
\* whichever process dies wherever.
THEOREM OccurrencesAreInOrder == Spec => OccurrenceOrder
<1>1. TypeOK /\ ConsumerInvariant /\ OrderInvariant /\ [Next]_vars
      => [\A c, d \in Commands :
            /\ SameOccurrence(c, d) /\ d < c /\ npc # "rpc" /\ npc' = "rpc" /\ queue[sel] = c
            /\ used["bind"] <= 1 /\ used["fault"] = 0
            => d \notin (CmdFiles \union ClaimFiles) \ failed]_vars
  <2> SUFFICES ASSUME TypeOK, ConsumerInvariant, OrderInvariant, Next,
                      NEW c \in Commands, NEW d \in Commands, Later(d, c), OneSession,
                      npc # "rpc", npc' = "rpc", queue[sel] = c, d \notin failed
               PROVE  d \notin Files
    BY DEF Later, OneSession, Files
  <2>1. npc = "persist"
    <3>1. BridgeStep => UNCHANGED native
      BY BridgeSettlesNothing
    <3> QED BY <3>1, WhatStepsDo DEF Next
  <2>2. c \in known /\ c \notin failed
    BY <2>1 DEF ConsumerInvariant, Selection, Busy, Memory, QueueIsDeduplicated
  <2>3. created[c] > 0
    BY <2>2 DEF OrderInvariant, PublishedFirst
  <2>4. Ordered(d, c)
    BY DEF OrderInvariant, SessionInvariant
  <2> QED BY <2>1, <2>2, <2>3, <2>4 DEF Ordered, Job
<1> QED BY <1>1, InvariantHolds, OrderIsKept, PTL DEF Spec, OccurrenceOrder
=============================================================================
