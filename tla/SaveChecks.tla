------------------------------ MODULE SaveChecks ------------------------------
(***************************************************************************)
(* The checks that are not files: kill milestones, which the bridge counts *)
(* from a counter of the game's process; masteries and challenges, which   *)
(* it sees change from one version of the player's save to the next; and   *)
(* aggregates, which follow from what the server has.  The count and the   *)
(* changes seen are kept in client_state.json, because the counter ends    *)
(* with the game and a change is visible only once.                        *)
(***************************************************************************)
EXTENDS RoomLink

CONSTANTS
    Milestones, Masteries, Challenges, Aggregates,  \* kinds of location
    Threshold,         \* the kills each milestone needs
    Children,          \* the locations each aggregate needs
    Saves, NoSave,     \* save slots of the campaign
    MaxDeeds           \* bound: games started, saves loaded, kills and records

Kinds   == {"mastery", "challenge"}
Records == Masteries \union Challenges
Of(kind) == IF kind = "mastery" THEN Masteries ELSE Challenges

ASSUME KindsAssumption ==
    /\ Locations = Milestones \union Records \union Aggregates
    /\ Masteries \intersect Challenges = {} /\ Milestones \intersect Records = {}
    /\ Aggregates \intersect (Milestones \union Records) = {}
    /\ Threshold \in [Milestones -> Nat \ {0}]
    /\ Children \in [Aggregates -> SUBSET Records]
\* The session is that of one room; what another room has is another session.
ASSUME OneRoomAssumption == \E r \in Rooms : Rooms = {r}
ASSUME TasksAssumption   == "monitor" \in Tasks
ASSUME SavesAssumption   == NoSave \notin Saves /\ Saves # {}
ASSUME GameBoundsAssumption == MaxDeeds \in Nat

VARIABLES
    running, producer, \* the game, and which start of it this is
    counter,           \* qualified_kills of the running game
    kills, missed,     \* all kills, and those that ended with a game nobody read again
    completed,         \* the records complete in each save on disk
    save, loads,       \* the save being played, and how often another was loaded
    read,              \* _duration_cache_key: the save whose present version was read
    stored, mem,       \* the session in client_state.json, and in memory
    flagged,           \* _masteries and _challenges: records to be reported
    broken,            \* _item_state_error: sticky until the process ends
    rebound,           \* coroutines whose session or save was selected anew in a wait
    before             \* what each kind was when a save was first looked at

game == <<running, producer, counter, kills, missed, completed, save, loads>>
seen == <<read, stored, mem, flagged, broken, before>>
vars == <<linkVars, game, seen, rebound>>

Sessions == [total : Nat, producer : Nat, cursor : Nat,
             looked : SUBSET (Saves \X Kinds), last : [Saves \X Kinds -> SUBSET Records],
             pending : [Saves \X Kinds -> SUBSET Records]]
Fresh    == [total |-> 0, producer |-> 0, cursor |-> 0,
             looked |-> {}, last |-> [b \in Saves \X Kinds |-> {}],
             pending |-> [b \in Saves \X Kinds |-> {}]]

Init ==
    /\ LinkInit
    /\ running = FALSE /\ producer = 0 /\ counter = 0 /\ kills = 0 /\ missed = 0
    /\ completed = [s \in Saves |-> {}] /\ save = (CHOOSE s \in Saves : TRUE) /\ loads = 0
    /\ read = NoSave
    /\ stored = Fresh /\ mem = Fresh /\ flagged = {} /\ broken = FALSE /\ rebound = {}
    /\ before = [b \in Saves \X Kinds |-> {}]

-----------------------------------------------------------------------------
(* The game *)

Cursor(state) == IF state.producer = producer THEN state.cursor ELSE 0
Outstanding   == IF running THEN counter - Cursor(stored) ELSE 0

Deeds  == (IF producer > 1 THEN producer - 1 ELSE 0) + loads + kills
              + Cardinality({d \in Saves \X Records : d[2] \in completed[d[1]]})
MayAct == Deeds < MaxDeeds

GameStarts ==
    /\ ~running /\ MayAct
    /\ running' = TRUE /\ producer' = producer + 1 /\ counter' = 0
    /\ UNCHANGED <<linkVars, kills, missed, completed, save, loads, seen, rebound>>

GameStops ==
    /\ running /\ MayAct
    /\ running' = FALSE /\ missed' = missed + Outstanding
    /\ UNCHANGED <<linkVars, producer, counter, kills, completed, save, loads, seen, rebound>>

Kill ==
    /\ running /\ MayAct
    /\ counter' = counter + 1 /\ kills' = kills + 1
    /\ UNCHANGED <<linkVars, running, producer, missed, completed, save, loads, seen, rebound>>

Unread == read' = IF read = save THEN NoSave ELSE read

\* The save is written, perhaps with another record complete.
GameSaves(new) ==
    /\ running
    /\ IF new \subseteq completed[save] THEN read = save ELSE MayAct
    /\ completed' = [completed EXCEPT ![save] = @ \union new]
    /\ Unread
    /\ UNCHANGED <<linkVars, running, producer, counter, kills, missed, save, loads,
                   stored, mem, flagged, broken, before, rebound>>

\* Another save is loaded: select_save_observation_slot forgets what was to be reported, and
\* a read of the save is outdated.  A milestone that is being sent is of the room.
LoadSave(s) ==
    /\ running /\ s # save /\ MayAct
    /\ save' = s /\ flagged' = {}
    /\ rebound' = rebound \union {t \in Tasks : pc[t] = "probe"}
    /\ loads' = loads + 1
    /\ UNCHANGED <<linkVars, running, producer, counter, kills, missed, completed, read,
                   stored, mem, broken, before>>

-----------------------------------------------------------------------------
(* The process and the connection *)

StartBridge == \E r \in Rooms : Start(r) /\ UNCHANGED <<game, seen, rebound>>

StopBridge ==
    /\ Stop
    /\ read' = NoSave /\ mem' = Fresh /\ flagged' = {} /\ broken' = FALSE /\ rebound' = {}
    /\ UNCHANGED <<game, stored, before>>

\* What is being sent ends with its connection, so that none is when the next is made.
Connects ==
    /\ Welcome \/ Complete \/ (Open /\ \A t \in Tasks : pc[t] # "send")
    /\ UNCHANGED <<game, seen, rebound>>

Loses   == Lose /\ UNCHANGED <<game, seen, rebound>>
Hears   == RoomUpdate /\ UNCHANGED <<game, seen, rebound>>
Reaches == (\E m \in wire : ServerReceives(m)) /\ UNCHANGED <<game, seen, rebound>>

\* Killsanity.bind, SaveChecks.bind: everything comes from the state file.
InitializeSession ==
    /\ Initialize /\ ~broken
    /\ mem' = stored /\ flagged' = {} /\ rebound' = Waiting
    /\ UNCHANGED <<game, read, stored, broken, before>>

\* persist_session_state; while the session is not initialised it does nothing.
Persist(state) == /\ mem' = state
                  /\ stored' = IF ready THEN state ELSE stored

\* _block_item_state
Block == MayFail /\ Spend("fault") /\ broken' = TRUE /\ UNCHANGED mem

Begin(t) == rebound' = rebound \ {t}

-----------------------------------------------------------------------------
(* check_killsanity *)

\* (An answer without anything new is left out: it changes nothing.)
AskKills ==
    /\ pc["monitor"] = "idle" /\ ready /\ ~broken /\ running /\ counter # Cursor(mem)
    /\ Ask("monitor") /\ Begin("monitor")
    /\ UNCHANGED <<server, session, wire, heard, used, game, seen>>

\* Mutant: the cursor of an earlier game is taken for one of this game.
ConsumedKeeping == [mem EXCEPT
    !.total = IF counter < mem.cursor THEN @ ELSE @ + counter - mem.cursor,
    !.producer = producer, !.cursor = counter]

\* Killsanity.consume: a new game's counter begins at 0.
Consumed == [mem EXCEPT !.total = @ + counter - Cursor(mem),
                        !.producer = producer, !.cursor = counter]

Answered == pc["monitor"] = "identity" /\ "monitor" \notin stale /\ running

ConsumeKills ==
    /\ Answered /\ ~broken /\ Persist(Consumed)
    /\ Finish("monitor") /\ Begin("monitor")
    /\ UNCHANGED <<server, session, wire, heard, used, game, read, flagged, broken, before>>

ConsumeFails ==
    /\ Answered /\ Consumed # mem /\ ready /\ Block
    /\ Finish("monitor") /\ Begin("monitor")
    /\ UNCHANGED <<server, session, wire, heard, game, read, stored, flagged, before>>

-----------------------------------------------------------------------------
(* check_game_duration_death, as far as it feeds the observers *)

Probe ==
    /\ pc["monitor"] = "idle" /\ ready /\ ~broken /\ running /\ read # save
    /\ pc' = [pc EXCEPT !["monitor"] = "probe"] /\ UNCHANGED <<sending, stale>>
    /\ Begin("monitor")
    /\ UNCHANGED <<server, session, wire, heard, used, game, seen>>

\* The session or the save is another than the one that was read.
ProbeOutdated ==
    /\ pc["monitor"] = "probe" /\ "monitor" \in rebound
    /\ Finish("monitor") /\ Begin("monitor")
    /\ UNCHANGED <<server, session, wire, heard, used, game, seen>>

\* Mutant: a mastery that was complete at the first look is reported like a challenge.
FirstLookAll(kind) == Slot[room] \ checked

\* Of what was complete at the first look only challenges are reported.
FirstLook(kind) == IF kind = "challenge" THEN Slot[room] \ checked ELSE {}

\* Mutant: the change is entered for the save that was read before.
ObserveEarlier(state, kind) ==
    LET b    == <<read, kind>>
        now  == completed[save] \intersect Of(kind)
        last == IF b \in state.looked THEN state.last[b] ELSE now
    IN  [state EXCEPT !.looked = @ \union {b}, !.last[b] = now,
                      !.pending[b] = @ \union (now \ last)]

\* SaveObserverBaselineStore.observe: what changed since the last look is pending until
\* the server has it.
Observe(state, kind) ==
    LET b    == <<save, kind>>
        now  == completed[save] \intersect Of(kind)
        last == IF b \in state.looked THEN state.last[b] ELSE now
    IN  [state EXCEPT !.looked = @ \union {b}, !.last[b] = now,
                      !.pending[b] = ((@ \union (now \intersect FirstLook(kind))) \ checked)
                                     \union (now \ last)]

\* Challenges are not looked at before the server's checks are known.
Looked(kinds)      == kinds \intersect IF checkedReady THEN Kinds ELSE {"mastery"}
After(kinds)       ==
    LET first == IF "mastery" \in kinds THEN Observe(mem, "mastery") ELSE mem
    IN  IF "challenge" \in kinds THEN Observe(first, "challenge") ELSE first
FlagsAfter(kinds)  == flagged \union UNION {After(kinds).pending[<<save, k>>] : k \in kinds}
FirstSeen(kinds)   == [b \in Saves \X Kinds |->
    IF b[1] = save /\ b[2] \in kinds /\ b \notin mem.looked
       THEN completed[save] \intersect Of(b[2]) ELSE before[b]]

\* accept_duration comes first: what is not looked at now is looked at with the next
\* version of the save.  kinds is empty without an authoritative save proof.
AcceptProbe(proof) ==
    /\ pc["monitor"] = "probe" /\ "monitor" \notin rebound /\ ~broken
    /\ IF proof THEN UNCHANGED used ELSE MayFail /\ Spend("fault")
    /\ read' = save
    /\ LET kinds == IF proof /\ ready THEN Looked(Kinds) ELSE {}
       IN  /\ IF kinds = {} THEN UNCHANGED <<mem, stored>> ELSE Persist(After(kinds))
           /\ flagged' = FlagsAfter(kinds)
           /\ before' = FirstSeen(kinds)
    /\ Finish("monitor") /\ Begin("monitor")
    /\ UNCHANGED <<server, session, wire, heard, game, broken>>

\* The file cannot be written, with the masteries or with the challenges.
AcceptFails(kinds) ==
    /\ pc["monitor"] = "probe" /\ "monitor" \notin rebound /\ ready /\ ~broken /\ Block
    /\ kinds \subseteq {"mastery"} /\ (kinds = {} \/ checkedReady)
    /\ read' = save
    /\ stored' = IF kinds = {} THEN stored ELSE After(kinds)
    /\ before' = FirstSeen(kinds) /\ UNCHANGED flagged
    /\ Finish("monitor") /\ Begin("monitor")
    /\ UNCHANGED <<server, session, wire, heard, game>>

-----------------------------------------------------------------------------
(* Publication *)

SendBy(t, requests) ==
    /\ pc[t] = "idle" /\ link # "down"
    /\ requests # {} /\ Send(t, requests) /\ Begin(t)
    /\ UNCHANGED <<server, session, heard, used, game, seen>>

Due == {l \in Milestones \intersect Slot[room] : Threshold[l] <= mem.total}
           \ (checked \union submitted)

\* check_killsanity is entered only while the session is initialised, but waits before it
\* comes to this, and does so also when the state file could not be written.
SendMilestones == keyed /\ checkedReady /\ SendBy("monitor", Due)

SendMastery(l) ==
    /\ ready /\ ~broken /\ running
    /\ l \in (flagged \intersect Masteries \intersect Slot[room]) \ (checked \union submitted)
    /\ SendBy("monitor", {l})

\* Challenges and aggregates are sent again until the server has them.  (To send again
\* what is on its way changes nothing and is left out.)
SendChallenge(t, l) ==
    /\ ready /\ ~broken /\ (t = "monitor" => running)
    /\ l \in (flagged \intersect Challenges \intersect Slot[room]) \ (checked \union wire)
    /\ SendBy(t, {l})

Authored(l) == Children[l] \intersect Slot[room]

\* aggregate_ready: every child in the slot, by the server's record only.
AggregateReady(l) == Authored(l) # {} /\ Authored(l) \subseteq checked

SendAggregate(t, l) ==
    /\ ready /\ ~broken /\ (t = "monitor" => running)
    /\ l \in (Aggregates \intersect Slot[room]) \ (checked \union wire) /\ AggregateReady(l)
    /\ SendBy(t, {l})

\* Mutant: whatever became of the session, what was sent counts as submitted.
MarkedAnyway(t) == sending[t]

\* A milestone counts as submitted unless the room was bound again, a mastery unless the
\* session was invalidated, and the others never.
Marked(t) == IF sending[t] \subseteq Milestones THEN IF t \in rebound THEN {} ELSE sending[t]
             ELSE IF t \in stale THEN {} ELSE sending[t] \intersect Masteries

SentBy(t) ==
    /\ pc[t] = "send"
    /\ submitted' = submitted \union Marked(t)
    /\ Finish(t) /\ Begin(t)
    /\ UNCHANGED <<server, session, wire, checked, checkedReady, used, game, seen>>

-----------------------------------------------------------------------------
(* The parts of a round of death_monitor_loop, in any order; a task of Tasks other than    *)
(* "monitor" reports challenges and aggregates only, as the session task does              *)

Play == \/ GameStarts \/ GameStops \/ Kill
        \/ \E l \in Records : GameSaves({l})
        \/ GameSaves({}) \/ \E s \in Saves : LoadSave(s)

Connection == \/ StartBridge \/ StopBridge \/ Connects \/ Loses
              \/ InitializeSession \/ Hears \/ Reaches

Continue(t) == \/ t = "monitor" /\ (ConsumeKills \/ ProbeOutdated \/ AcceptProbe(TRUE))
               \/ SentBy(t) \/ (Outdated(t) /\ Begin(t) /\ UNCHANGED <<game, seen>>)

Fails == \/ ConsumeFails \/ AcceptProbe(FALSE)
         \/ \E kinds \in SUBSET Kinds : AcceptFails(kinds)
         \/ \E t \in Tasks : GivesUp(t) /\ Begin(t) /\ UNCHANGED <<game, seen>>

Next == \/ Play \/ Connection \/ Fails
        \/ AskKills \/ Probe \/ SendMilestones
        \/ \E l \in Locations : SendMastery(l)
        \/ \E t \in Tasks, l \in Locations : SendChallenge(t, l) \/ SendAggregate(t, l)
        \/ \E t \in Tasks : Continue(t)

Spec == Init /\ [][Next]_vars

-----------------------------------------------------------------------------
(* Correctness *)

TypeOK ==
    /\ LinkTypeOK
    /\ running \in BOOLEAN /\ producer \in Nat
    /\ counter \in Nat /\ kills \in Nat /\ missed \in Nat
    /\ completed \in [Saves -> SUBSET Records] /\ save \in Saves /\ loads \in Nat
    /\ read \in Saves \union {NoSave}
    /\ stored \in Sessions /\ mem \in Sessions /\ flagged \subseteq Records
    /\ broken \in BOOLEAN /\ rebound \subseteq Tasks
    /\ before \in [Saves \X Kinds -> SUBSET Records]

\* No kill is counted twice, and none is missing except those of a game that ended before
\* it was read, over restarts of the game (whose counter begins anew), of the bridge and of
\* the session, lost answers and a state file that cannot be written.
KillsAccounted == /\ stored.total <= kills
                  /\ kills <= stored.total + missed + Outstanding

\* The server is told only of what was earned: enough kills; a mastery that was completed
\* after the save was first looked at, whichever save is played; a challenge; an aggregate
\* whose children the server has.
OnlyEarned == \A r \in Rooms : \A l \in Known(r) :
    /\ l \in Milestones => kills >= Threshold[l]
    /\ l \in Masteries  => \E s \in Saves : l \in completed[s] \ before[<<s, "mastery">>]
    /\ l \in Challenges => \E s \in Saves : l \in completed[s]
    /\ l \in Aggregates => Children[l] \intersect Slot[r] \subseteq server[r]

\* A change that was seen once, and will not be seen again, is pending in the file until
\* the server has it, over other saves, crashes and new sessions; and what the bridge takes
\* for submitted on this connection, and would not send again, was not lost with an
\* earlier one.
EarnedIsKept ==
    /\ \A s \in Saves, k \in Kinds : <<s, k>> \in stored.looked =>
          (IF k = "mastery" THEN stored.last[<<s, k>>] \ before[<<s, k>>]
                            ELSE stored.last[<<s, k>>] \intersect Slot[room])
              \subseteq stored.pending[<<s, k>>] \union server[room]
    /\ link \in {"welcomed", "bound", "in"} => submitted \subseteq server[room] \union wire
=============================================================================
