----------------------------- MODULE DeathLink ------------------------------
(***************************************************************************)
(* Deaths shared over Archipelago: DeathLinkReceiver and DeathLinkSession, *)
(* and how the bridge's death monitor drives them.  A received link waits  *)
(* in a bounded queue until the game can take it, is handed to the native  *)
(* DeathLink domain once, and the death it causes, which the monitor later *)
(* reads from the save like any other, must not be sent out again.         *)
(*                                                                         *)
(* The monitor works on a COPY of the receiver in a worker thread, while   *)
(* packets and disconnections change the original on the event loop; the   *)
(* copy replaces the original only if that has not changed meanwhile.      *)
(*                                                                         *)
(* An instant is replaced by the time left until it, which Tick counts     *)
(* down.  attempts is 0 or 1 and goes with COMMAND_IN_FLIGHT and with      *)
(* _suppression_event_id: all three are `flying', of the queue's head.     *)
(***************************************************************************)
EXTENDS Naturals, FiniteSets, FiniteSetsExt, Sequences

CONSTANTS
    Events,            \* event ids, by rank of their hash
    Rooms, NoRoom,
    Linked,            \* rooms played with DeathLink
    MaxQueue,          \* max_queue of the receiver
    SeenLimit,         \* ids kept in client_state.json
    Total, Grace, Retry, \* total_timeout, late_suppression_grace, retry_interval
    Interval,          \* death_link_grace: every how many deaths one is sent
    NoEvent, Own,      \* no death or event; a death of the player's own
    MaxBounces, MaxDeaths, MaxStarts, MaxConnects, MaxMaps, MaxFaults  \* bounds

ASSUME EventsAssumption == Events \subseteq Nat /\ {NoEvent, Own} \intersect Events = {}
                           /\ NoEvent # Own
ASSUME RoomsAssumption  == NoRoom \notin Rooms /\ Linked \subseteq Rooms
ASSUME LimitsAssumption == /\ {MaxQueue, SeenLimit, Total, Grace, Retry, Interval}
                                \subseteq Nat \ {0}
                           /\ {MaxBounces, MaxDeaths, MaxStarts, MaxConnects, MaxMaps, MaxFaults}
                                \subseteq Nat

VARIABLES
    (* the session of the bridge *)
    alive,             \* the bridge process runs
    conn,              \* the room it is connected to, or NoRoom
    room,              \* the room its state is bound to, or NoRoom
    enabled,           \* that room is played with DeathLink
    broken,            \* _item_state_error
    seen,              \* ids received in this room
    deaths,            \* death_link_grace.deaths
    saved,             \* client_state.json: both, per room
    (* the receiver *)
    queue,             \* links that wait, oldest first
    recent,            \* [Events -> Nat]: time left in which an id is a duplicate
    late,              \* the finished link whose death may still come, and for how long
    (* the death monitor *)
    pc,
    copy,              \* the receiver the worker thread advances
    original,          \* since it was copied, the receiver is the "same", was "touched",
                       \* or the call is "stale": the session or the map has changed
    (* the game *)
    native,            \* the native domain: its event and how far that is
    death,             \* what the death the monitor has not seen yet was due to
    (* history and bounds *)
    admitted,          \* [Rooms -> [Events -> Nat]]: times a link was queued
    submitted,         \* [Events -> Nat]: native requests for a link
    hidden,            \* [Events -> Nat]: local deaths suppressed on account of it
    lost,              \* links whose accepted request the receiver does not know of
    ended,             \* [Events -> Nat]: time left in which its death should be expected
    counted, begun,    \* [Rooms -> Nat]: deaths counted as local ones; links sent for them
    used

session  == <<alive, conn, room, enabled, broken, seen, deaths, saved>>
receiver == <<queue, recent, late>>
monitor  == <<pc, copy, original>>
game     == <<native, death>>
history  == <<admitted, submitted, hidden, lost, ended, counted, begun>>
vars     == <<session, receiver, monitor, game, history, used>>

Pcs     == {"idle", "native", "merge", "observe", "cancel"}
Bounded == {"bounce", "death", "start", "connect", "map", "fault"}
Spend(what) == used' = [used EXCEPT ![what] = @ + 1]
MayFail     == used["fault"] < MaxFaults

Link(e)  == [id |-> e, left |-> Total, wait |-> 0, flying |-> FALSE]
Links    == [id : Events, left : 0..Total, wait : 0..Retry, flying : BOOLEAN]
NoLate   == [id |-> NoEvent, left |-> 0]
Lates    == [id : Events \union {NoEvent}, left : 0..Grace]
NoCopy   == [queue |-> <<>>, late |-> NoLate]
Blank    == [seen |-> {}, deaths |-> 0]
Queued   == {queue[i].id : i \in 1..Len(queue)}
Flying   == queue # <<>> /\ Head(queue).flying

Init ==
    /\ alive = FALSE /\ conn = NoRoom /\ room = NoRoom /\ enabled = FALSE /\ broken = FALSE
    /\ seen = {} /\ deaths = 0 /\ saved = [r \in Rooms |-> Blank]
    /\ queue = <<>> /\ recent = [e \in Events |-> 0] /\ late = NoLate
    /\ pc = "idle" /\ copy = NoCopy /\ original = "same"
    /\ native = [id |-> NoEvent, st |-> "idle"] /\ death = NoEvent
    /\ admitted = [r \in Rooms |-> [e \in Events |-> 0]]
    /\ submitted = [e \in Events |-> 0] /\ hidden = [e \in Events |-> 0] /\ lost = {}
    /\ ended = [e \in Events |-> 0]
    /\ counted = [r \in Rooms |-> 0] /\ begun = [r \in Rooms |-> 0]
    /\ used = [b \in Bounded |-> 0]

\* What a change of the receiver, or of the session, means for a call under way.
Calling == pc \in {"native", "merge"}
Touched == original' = IF Calling /\ original = "same" THEN "touched" ELSE original
Stale   == original' = IF Calling THEN "stale" ELSE original
NoPass(next) == pc' = next /\ copy' = NoCopy /\ original' = "same"

-----------------------------------------------------------------------------
(* Time *)

Less(n) == IF n = 0 THEN 0 ELSE n - 1
Aged(q) == [i \in 1..Len(q) |-> [q[i] EXCEPT !.left = Less(@), !.wait = Less(@)]]
AgedLate(l) == IF l.left = 0 THEN NoLate ELSE [l EXCEPT !.left = @ - 1]

Tick ==
    /\ queue' = Aged(queue) /\ late' = AgedLate(late)
    /\ copy' = [queue |-> Aged(copy.queue), late |-> AgedLate(copy.late)]
    /\ recent' = [e \in Events |-> Less(recent[e])]
    /\ ended' = [e \in Events |-> Less(ended[e])]
    /\ UNCHANGED <<session, pc, original, game, admitted, submitted, hidden,
                   lost, counted, begun, used>>

-----------------------------------------------------------------------------
(* The receiver *)

\* Mutant: a link that was never submitted stays.
FinishedKeeping(q, l, suppress) ==
    [queue |-> IF Head(q).flying THEN Tail(q) ELSE q,
     late  |-> IF suppress /\ Head(q).flying THEN [id |-> Head(q).id, left |-> Grace] ELSE l]

\* _finish of the head: a link that was submitted keeps one suppression for a while, if
\* the caller asks for it.
Finished(q, l, suppress) ==
    [queue |-> Tail(q),
     late  |-> IF suppress /\ Head(q).flying THEN [id |-> Head(q).id, left |-> Grace] ELSE l]

\* Mutant: what was submitted is forgotten.
AbandonAll ==
    /\ queue' = <<>> /\ late' = late
    /\ ended' = [e \in Events |-> IF Flying /\ Head(queue).id = e THEN Grace + 1 ELSE ended[e]]

\* abandon: all are finished, in order; only the head can have been submitted.
Abandon ==
    /\ queue' = <<>>
    /\ late' = IF queue = <<>> THEN late ELSE Finished(queue, late, TRUE).late
    /\ ended' = [e \in Events |-> IF Flying /\ Head(queue).id = e THEN Grace + 1 ELSE ended[e]]

-----------------------------------------------------------------------------
(* The session *)

Start ==
    /\ ~alive /\ used["start"] < MaxStarts
    /\ alive' = TRUE
    /\ Spend("start")
    /\ UNCHANGED <<conn, room, enabled, broken, seen, deaths, saved, receiver, monitor,
                   game, history>>

\* The process ends, and with it all the receiver knew of what it had submitted.
Crash ==
    /\ alive /\ used["start"] < MaxStarts
    /\ alive' = FALSE /\ conn' = NoRoom /\ room' = NoRoom /\ enabled' = FALSE /\ broken' = FALSE
    /\ seen' = {} /\ deaths' = 0
    /\ queue' = <<>> /\ recent' = [e \in Events |-> 0] /\ late' = NoLate
    /\ NoPass("idle")
    /\ lost' = {e \in Events : submitted[e] > 0} /\ ended' = [e \in Events |-> 0]
    /\ UNCHANGED <<saved, game, admitted, submitted, hidden, counted, begun, used>>

\* The connection is lost: the links of the room are given up.
Disconnect ==
    /\ conn # NoRoom
    /\ conn' = NoRoom /\ Abandon /\ Stale
    /\ UNCHANGED <<alive, room, enabled, broken, seen, deaths, saved, recent, pc, copy, game,
                   admitted, submitted, hidden, lost, counted, begun, used>>

\* Mutant: the count of deaths is that of this process.
BindCounting(r) == /\ room' = r /\ seen' = saved[r].seen /\ deaths' = deaths

\* What the session takes over from client_state.json.
Bind(r) == /\ room' = r /\ seen' = saved[r].seen /\ deaths' = saved[r].deaths

\* Connected: the session is bound, unless the file could not be written before, or
\* cannot be now.
Connect(r) ==
    /\ alive /\ conn = NoRoom /\ used["connect"] < MaxConnects
    /\ conn' = r /\ Stale
    /\ \/ ~broken /\ Bind(r) /\ enabled' = (r \in Linked) /\ Spend("connect") /\ UNCHANGED broken
       \/ /\ ~broken /\ Bind(r) /\ broken' = TRUE /\ MayFail /\ UNCHANGED enabled
          /\ used' = [used EXCEPT !["connect"] = @ + 1, !["fault"] = @ + 1]
       \/ broken /\ Spend("connect") /\ UNCHANGED <<room, enabled, broken, seen, deaths>>
    /\ UNCHANGED <<alive, saved, receiver, pc, copy, game, history>>

\* Some other write of client_state.json fails: the session is blocked.
Block ==
    /\ alive /\ room # NoRoom /\ ~broken /\ MayFail /\ Spend("fault")
    /\ broken' = TRUE /\ Stale
    /\ UNCHANGED <<alive, conn, room, enabled, seen, deaths, saved, receiver, pc, copy,
                   game, history>>

\* commit_session keeps the last ids in the order of their hashes.
Kept(s) == {e \in s : Cardinality({d \in s : d > e}) < SeenLimit}
\* Mutant: the id is not written.
PersistSeenLater(s) == UNCHANGED saved

PersistSeen(s) == saved' = [saved EXCEPT ![room] = [seen |-> Kept(s), deaths |-> deaths]]

\* A link reaches the receiver, which sees something new unless the id is known.
Bounced(e)   == conn # NoRoom /\ enabled /\ e \notin seen /\ used["bounce"] < MaxBounces
Duplicate(e) == recent[e] > 0 \/ e \in Queued
\* Mutant: one too many.
FullLater    == Len(queue) > MaxQueue
Full         == Len(queue) >= MaxQueue

\* It is a duplicate, or the queue is full.
BounceRefused(e) ==
    /\ Bounced(e) /\ Spend("bounce")
    /\ Duplicate(e) \/ Full
    /\ recent' = IF Duplicate(e) THEN recent ELSE [recent EXCEPT ![e] = Total + Grace]
    /\ Touched
    /\ UNCHANGED <<session, queue, late, pc, copy, game, history>>

\* A new link is queued and its id persisted.
BounceQueued(e) ==
    /\ Bounced(e) /\ Spend("bounce")
    /\ ~Duplicate(e) /\ ~Full /\ ~broken
    /\ recent' = [recent EXCEPT ![e] = Total + Grace]
    /\ queue' = Append(queue, Link(e)) /\ Touched
    /\ admitted' = [admitted EXCEPT ![room][e] = @ + 1]
    /\ seen' = seen \union {e} /\ PersistSeen(seen')
    /\ UNCHANGED <<alive, conn, room, enabled, broken, deaths, late, pc, copy,
                   game, submitted, hidden, lost, ended, counted, begun>>

\* It cannot be persisted: the packet handler fails, and the connection with it, which
\* gives up the links.
BounceFails(e) ==
    /\ Bounced(e) /\ ~Duplicate(e) /\ ~Full
    /\ \/ broken /\ Spend("bounce")
       \/ /\ ~broken /\ MayFail
          /\ used' = [used EXCEPT !["bounce"] = @ + 1, !["fault"] = @ + 1]
    /\ recent' = [recent EXCEPT ![e] = Total + Grace]
    /\ seen' = seen \union {e} /\ broken' = TRUE
    /\ conn' = NoRoom /\ Abandon /\ Stale
    /\ UNCHANGED <<alive, room, enabled, deaths, saved, pc, copy, game, admitted,
                   submitted, hidden, lost, counted, begun>>

-----------------------------------------------------------------------------
(* The game *)

\* The player dies of something else.  (A death is seen before the next one happens.)
OwnDeath ==
    /\ death = NoEvent /\ used["death"] < MaxDeaths
    /\ death' = Own
    /\ Spend("death")
    /\ UNCHANGED <<session, receiver, monitor, native, history>>

\* The native domain carries out its event: the player dies, or is saved by an extra
\* life, or the event fails.
Kill ==
    /\ native.st = "pending" /\ death = NoEvent
    /\ death' = native.id /\ native' = [native EXCEPT !.st = "done"]
    /\ UNCHANGED <<session, receiver, monitor, history, used>>

Survived ==
    /\ native.st = "pending"
    /\ \/ native' = [native EXCEPT !.st = "done"] /\ UNCHANGED used
       \/ native' = [native EXCEPT !.st = "failed"] /\ MayFail /\ Spend("fault")
    /\ UNCHANGED <<session, receiver, monitor, death, history>>

\* A map is loaded, or reloaded, while the worker is busy: its call is no longer current.
MapLoaded ==
    /\ Calling /\ original # "stale" /\ used["map"] < MaxMaps
    /\ Stale
    /\ Spend("map")
    /\ UNCHANGED <<session, receiver, pc, copy, game, history>>

-----------------------------------------------------------------------------
(* The death monitor *)

\* One round: a link that waits is handed to the worker thread with a copy of the
\* receiver, and with whether the game was safe, which may be either and by the time the
\* thread gets to it may no longer be so.
BeginPass ==
    /\ pc = "idle" /\ room # NoRoom /\ ~broken
    /\ IF queue = <<>>
          THEN NoPass("observe")
          ELSE /\ pc' = "native" /\ copy' = [queue |-> queue, late |-> late]
               /\ UNCHANGED original
    /\ UNCHANGED <<session, receiver, game, history, used>>

Oldest == Head(copy.queue)
Advanced(q) == copy' = [copy EXCEPT !.queue = <<q>> \o Tail(@)]
Working == pc = "native" /\ original # "stale" /\ pc' = "merge"
Keeping == UNCHANGED <<session, receiver, death, admitted, hidden, counted, begun>>
Idling  == Keeping /\ UNCHANGED <<lost, ended, original>>

\* The oldest link is finished in the copy; its death may still come.
FinishOldest ==
    /\ copy' = Finished(copy.queue, copy.late, TRUE)
    /\ ended' = [ended EXCEPT ![Oldest.id] = IF Oldest.flying THEN Grace + 1 ELSE @]
    /\ Keeping /\ UNCHANGED <<lost, original>>

\* The call is refused if the session changed before the thread got to it; then the
\* monitor begins a new round.
PassRefused ==
    /\ pc = "native" /\ original = "stale"
    /\ NoPass("idle")
    /\ UNCHANGED <<session, receiver, game, history, used>>

\* Cancelling the native event may come too late.
Cancelled(e) == native' \in {native} \union
                    (IF native = [id |-> e, st |-> "pending"] THEN {[native EXCEPT !.st = "done"]}
                                                              ELSE {})

\* Its time is over.
Expire ==
    /\ Working /\ enabled /\ Oldest.left = 0
    /\ FinishOldest
    /\ IF Oldest.flying THEN Cancelled(Oldest.id) ELSE UNCHANGED native
    /\ UNCHANGED <<submitted, used>>

\* It has been submitted and the native domain is done with it: applied.
Apply ==
    /\ Working /\ enabled /\ Oldest.left > 0 /\ Oldest.flying
    /\ native = [id |-> Oldest.id, st |-> "done"]
    /\ FinishOldest
    /\ UNCHANGED <<native, submitted, used>>

\* Nothing can be done now: the domain is still at it, the game is not safe, or the
\* last refusal is too recent.
Wait ==
    /\ Working
    /\ \/ ~enabled
       \/ Oldest.left > 0 /\ (Oldest.flying => native = [id |-> Oldest.id, st |-> "pending"])
    /\ UNCHANGED <<copy, native, submitted, used>> /\ Idling

\* The worker's call fails, and nothing it did to the copy is kept: the domain failed or
\* knows another event, or it cannot be asked.
QueryFails ==
    /\ pc = "native" /\ original # "stale" /\ enabled /\ Oldest.left > 0 /\ Oldest.flying
    /\ \/ (native.id # Oldest.id \/ native.st = "failed") /\ UNCHANGED used
       \/ MayFail /\ Spend("fault")
    /\ NoPass("observe")
    /\ UNCHANGED <<native, submitted, lost, ended>> /\ Keeping

Due == enabled /\ Oldest.left > 0 /\ ~Oldest.flying /\ Oldest.wait = 0

\* Native requests enable the domain and hand it the event; it keeps one it has.
Request(e) ==
    /\ native' = IF native.id = e THEN native ELSE [id |-> e, st |-> "pending"]
    /\ submitted' = [submitted EXCEPT ![e] = @ + 1]

Dispatch ==
    /\ Working /\ Due
    /\ native # [id |-> Oldest.id, st |-> "failed"]
    /\ Request(Oldest.id)
    /\ Advanced([Oldest EXCEPT !.flying = TRUE])
    /\ lost' = lost \union {Oldest.id}
    /\ UNCHANGED <<ended, original, used>> /\ Keeping

\* The domain has no budget now: to be tried again.
DispatchLater ==
    /\ Working /\ Due
    /\ Advanced([Oldest EXCEPT !.wait = Retry])
    /\ UNCHANGED <<native, submitted, used>> /\ Idling

\* It refuses, or the answer is lost: the link is given up without a suppression.
DispatchFails ==
    /\ Working /\ Due
    /\ \/ native = [id |-> Oldest.id, st |-> "failed"] /\ UNCHANGED used
       \/ MayFail /\ Spend("fault")
    /\ copy' = Finished(copy.queue, copy.late, FALSE)
    /\ \/ UNCHANGED <<native, submitted, lost>>
       \/ Request(Oldest.id) /\ lost' = lost \union {Oldest.id}
    /\ UNCHANGED <<ended, original>> /\ Keeping

Known(q) == {q[i].id : i \in {j \in 1..Len(q) : q[j].flying}}

\* Back on the event loop: the copy becomes the receiver, unless that has changed.
Merge ==
    /\ pc = "merge" /\ original # "stale"
    /\ NoPass("observe")
    /\ IF original = "touched"
          THEN UNCHANGED <<queue, late, lost>>
          ELSE queue' = copy.queue /\ late' = copy.late /\ lost' = lost \ Known(copy.queue)
    /\ UNCHANGED <<session, recent, game, admitted, submitted, hidden,
                   ended, counted, begun, used>>

\* A result for an earlier session or map is thrown away, and the round with it.
MergeStale ==
    /\ pc = "merge" /\ original = "stale"
    /\ NoPass("idle")
    /\ UNCHANGED <<session, receiver, game, history, used>>

-----------------------------------------------------------------------------
(* A local death *)

Seeing == pc = "observe" /\ death # NoEvent /\ death' = NoEvent

SeeNothing ==
    /\ pc = "observe"
    /\ pc' = "idle"
    /\ UNCHANGED <<session, receiver, copy, original, game, history, used>>

\* The room is played without DeathLink: the death is of no interest.
SeeUnlinked ==
    /\ Seeing /\ ~enabled
    /\ pc' = "idle"
    /\ UNCHANGED <<session, receiver, copy, original, native, history, used>>

\* A link that was handed over is active: this is its death, and what is left of it is
\* cancelled.
SeeActive ==
    /\ Seeing /\ enabled /\ Flying
    /\ hidden' = [hidden EXCEPT ![Head(queue).id] = @ + 1]
    /\ queue' = Tail(queue) /\ ended' = [ended EXCEPT ![Head(queue).id] = 0]
    /\ pc' = "cancel" /\ copy' = [queue |-> <<Head(queue)>>, late |-> NoLate]
    /\ UNCHANGED <<session, recent, late, original, native, admitted, submitted,
                   lost, counted, begun, used>>

Cancel ==
    /\ pc = "cancel"
    /\ Cancelled(Oldest.id)
    /\ NoPass("idle")
    /\ UNCHANGED <<session, receiver, death, history, used>>

\* Mutant: the suppression is not used up.
SeeLateAlways ==
    /\ Seeing /\ enabled /\ ~Flying /\ late # NoLate
    /\ hidden' = [hidden EXCEPT ![late.id] = @ + 1]
    /\ pc' = "idle"
    /\ UNCHANGED <<session, receiver, copy, original, native, admitted, submitted,
                   lost, ended, counted, begun, used>>

\* One that was has ended a short while ago: this counts as its death, once.
SeeLate ==
    /\ Seeing /\ enabled /\ ~Flying /\ late # NoLate
    /\ hidden' = [hidden EXCEPT ![late.id] = @ + 1] /\ late' = NoLate
    /\ pc' = "idle"
    /\ UNCHANGED <<session, queue, recent, copy, original, native, admitted,
                   submitted, lost, ended, counted, begun, used>>

\* Otherwise it counts as the player's own, and every Interval-th is sent.
Counts == /\ Seeing /\ enabled /\ ~Flying /\ late = NoLate
          /\ counted' = [counted EXCEPT ![room] = @ + 1] /\ pc' = "idle"

SeeOwn ==
    /\ Counts /\ (Interval = 1 \/ ~broken)
    /\ deaths' = (deaths + 1) % Interval
    /\ saved' = IF Interval = 1 THEN saved
                ELSE [saved EXCEPT ![room] = [seen |-> Kept(seen), deaths |-> deaths']]
    /\ begun' = [begun EXCEPT ![room] = IF deaths' = 0 THEN @ + 1 ELSE @]
    /\ UNCHANGED <<alive, conn, room, enabled, broken, seen, receiver, copy, original,
                   native, admitted, submitted, hidden, lost, ended, used>>

\* The count cannot be written: nothing is sent.
SeeOwnFails ==
    /\ Counts /\ Interval > 1
    /\ \/ broken /\ UNCHANGED used
       \/ MayFail /\ Spend("fault")
    /\ deaths' = (deaths + 1) % Interval /\ broken' = TRUE
    /\ UNCHANGED <<alive, conn, room, enabled, seen, saved, receiver, copy, original,
                   native, admitted, submitted, hidden, lost, ended, begun>>

Worker == \/ PassRefused \/ Expire \/ Apply \/ Wait \/ QueryFails \/ Dispatch \/ DispatchLater
          \/ DispatchFails \/ Merge \/ MergeStale
Death  == \/ SeeNothing \/ SeeUnlinked \/ SeeActive \/ Cancel \/ SeeLate \/ SeeOwn \/ SeeOwnFails
Game   == OwnDeath \/ Kill \/ Survived \/ MapLoaded

Next == \/ Tick \/ Start \/ Crash \/ Disconnect \/ Block \/ BeginPass \/ Worker \/ Death \/ Game
        \/ \E r \in Rooms : Connect(r)
        \/ \E e \in Events : BounceRefused(e) \/ BounceQueued(e) \/ BounceFails(e)

Spec == Init /\ [][Next]_vars
-----------------------------------------------------------------------------
(* Fairness: time passes, the monitor's loop goes on while its process lives, and the *)
(* worker's native calls end.                                                         *)
Fairness ==
    /\ WF_vars(Tick) /\ WF_vars(BeginPass)
    /\ WF_vars(PassRefused \/ Expire \/ Apply \/ Wait \/ QueryFails \/ Dispatch \/ DispatchLater)
    /\ WF_vars(Merge \/ MergeStale) /\ WF_vars(SeeNothing) /\ WF_vars(Cancel)

FairSpec == Spec /\ Fairness

-----------------------------------------------------------------------------
(* Correctness *)

Copies == [queue : Seq(Links), late : Lates]

TypeOK ==
    /\ alive \in BOOLEAN /\ enabled \in BOOLEAN /\ broken \in BOOLEAN
    /\ conn \in Rooms \union {NoRoom} /\ room \in Rooms \union {NoRoom}
    /\ seen \subseteq Events /\ deaths \in 0..(Interval - 1)
    /\ saved \in [Rooms -> [seen : SUBSET Events, deaths : 0..(Interval - 1)]]
    /\ queue \in Seq(Links) /\ Len(queue) <= MaxQueue
    /\ recent \in [Events -> 0..(Total + Grace)] /\ late \in Lates
    /\ pc \in Pcs /\ original \in {"same", "touched", "stale"}
    /\ copy \in Copies
    /\ native \in [id : Events \union {NoEvent}, st : {"idle", "pending", "done", "failed"}]
    /\ death \in Events \union {NoEvent, Own}
    /\ admitted \in [Rooms -> [Events -> Nat]] /\ submitted \in [Events -> Nat]
    /\ hidden \in [Events -> Nat] /\ lost \subseteq Events
    /\ ended \in [Events -> 0..(Grace + 1)]
    /\ counted \in [Rooms -> Nat] /\ begun \in [Rooms -> Nat] /\ used \in [Bounded -> Nat]

\* "Seen event identities persist per room so reconnect/transport replay cannot create a
\* second logical event" (bridge_client.py): a link is queued once in its room, across
\* restarts of the bridge, reconnections and the time after which the receiver
\* forgets its id, as long as client_state.json can be written and holds all the ids of the room.
QueuedOnce ==
    used["fault"] = 0 =>
        \A r \in Rooms :
            Cardinality({e \in Events : admitted[r][e] > 0}) <= SeenLimit =>
                \A e \in Events : admitted[r][e] <= 1

\* A link hides at most one local death for each time it was handed to the game.
HidesOneDeath == \A e \in Events : hidden[e] <= submitted[e]

\* Every Interval-th local death, and no other, is sent, whatever restarts and
\* reconnections lie between them, as long as the count can be written.
GraceIsExact ==
    used["fault"] = 0 =>
        \A r \in Rooms : begun[r] * Interval + saved[r].deaths = counted[r]

\* The death a link causes is not taken for the player's own, while the link is active or
\* for Grace after it ended, unless its suppression went to another death or the receiver
\* does not know that the link was handed over.
NoEcho ==
    [][\A e \in Events :
          /\ death = e /\ counted' # counted
          => e \in lost \/ hidden[e] > 0 \/ (ended[e] = 0 /\ e \notin Known(queue))]_vars

\* No link waits for ever: it is applied, resolved by a death, or expires, also when the
\* game is never safe, unless the state file has blocked the session.
LinksEnd == \A e \in Events : e \in Queued ~> (e \notin Queued \/ broken)

-----------------------------------------------------------------------------
(* A statement of the repository that the code does not keep *)

\* "Bounded logical events dispatched once to the native domain." (deathlink_receive.py):
\* native requests are made for a link at most once for each time it was queued.
DispatchedOnce ==
    \A e \in Events : submitted[e] <= MapThenSumSet(LAMBDA r : admitted[r][e], Rooms)
=============================================================================
