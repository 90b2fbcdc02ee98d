---------------------------- MODULE LocationChecks ----------------------------
(***************************************************************************)
(* How a check made in the game reaches the room it was made in.  The game *)
(* leaves one file per check; the bridge binds the directory to its room,  *)
(* sets aside what was there before, submits the rest and deletes a file   *)
(* only when the server has the check.  Three coroutines work on this: the *)
(* loop over check files, the publisher of map events and the report of    *)
(* the campaign goal.                                                      *)
(***************************************************************************)
EXTENDS RoomLink

CONSTANTS
    MapEvents,         \* locations reported by a map event file of a publisher
    Objectives,        \* the locations each room's goal needs
    Completions,       \* those that end the stages before its goal stage
    ByItem,            \* rooms whose plan also admits to the goal by an item (goal_as_item)
    MaxCollects        \* bound: checks made in the game

ASSUME MapEventsAssumption  == MapEvents \subseteq Locations
ASSUME TasksAssumption      == {"flush", "event", "goal"} \subseteq Tasks
ASSUME ObjectivesAssumption ==
    /\ Objectives \in [Rooms -> SUBSET Locations]
    /\ \A r \in Rooms : Objectives[r] # {} /\ Objectives[r] \subseteq Slot[r]
ASSUME AdmissionAssumption  ==
    /\ Completions \in [Rooms -> SUBSET Locations] /\ ByItem \subseteq Rooms
    /\ \A r \in Rooms : Completions[r] \subseteq Slot[r]

VARIABLES
    collected,         \* the checks made in each room's game
    strays,            \* those of another room made while the directory was bound to this one
    files, quarantined,\* event files, as [loc, room]
    boundTo,           \* ap_event_session.json: the room the directory belongs to
    sent,              \* GoalProgress: the goal was reported on this connection
    granted            \* rooms whose server has sent the goal stage's access item

disk == <<files, quarantined, boundTo>>
made == <<collected, strays>>
goals == <<sent, granted>>
vars == <<linkVars, made, disk, goals>>

Files == [loc : Locations, room : Rooms]

Init ==
    /\ LinkInit
    /\ collected = [r \in Rooms |-> {}] /\ strays = [r \in Rooms |-> {}]
    /\ files = {} /\ quarantined = {} /\ boundTo = NoRoom
    /\ sent = FALSE /\ granted = {}

-----------------------------------------------------------------------------
(* The game and the connection *)

\* The game writes its files whether or not a bridge runs; game and bridge are never of
\* two rooms at once.
Collect(l) ==
    /\ room # NoRoom /\ l \notin collected[room]
    /\ Cardinality(UNION {{<<r, k>> : k \in collected[r]} : r \in Rooms}) < MaxCollects
    /\ collected' = [collected EXCEPT ![room] = @ \union {l}]
    /\ strays' = IF boundTo \in {room, NoRoom} THEN strays
                 ELSE [strays EXCEPT ![boundTo] = @ \union {l}]
    /\ files' = files \union {[loc |-> l, room |-> room]}
    /\ UNCHANGED <<linkVars, quarantined, boundTo, goals>>

StartIn(r)  == Start(r) /\ UNCHANGED <<made, disk, goals>>
StopBridge  == Stop /\ sent' = FALSE /\ UNCHANGED <<made, disk, granted>>
Connection  == \/ Open \/ Lose \/ Welcome \/ Complete \/ RoomUpdate
               \/ \E m \in wire : ServerReceives(m)
Connecting  == Connection /\ UNCHANGED <<made, disk, goals>>

Welcomed == link \in {"welcomed", "bound", "in"}

\* The access item is found somewhere in the multiworld and arrives.
Grant ==
    /\ Welcomed /\ room \in ByItem \ granted
    /\ granted' = granted \union {room}
    /\ UNCHANGED <<linkVars, made, disk, sent>>

\* goals.connected: the goal is reported again on every connection.
InitializeSession == Initialize /\ sent' = FALSE /\ UNCHANGED <<made, disk, granted>>

-----------------------------------------------------------------------------
(* check_and_update_event_session *)

Mine == boundTo = room

\* What lies in a directory that is not bound to the room cannot be told from its checks.
Claim ==
    /\ boundTo' = room
    /\ files' = IF Mine THEN files ELSE {}
    /\ quarantined' = IF Mine THEN quarantined ELSE quarantined \union files

\* Mutant: the room is written before the files are moved.
ClaimFailsBound(t, moved) ==
    /\ pc[t] = "identity" /\ t \notin stale /\ ~Mine /\ moved # files
    /\ MayFail /\ Spend("fault")
    /\ files' = files \ moved /\ quarantined' = quarantined \union moved
    /\ boundTo' = room
    /\ Finish(t)
    /\ UNCHANGED <<server, session, wire, heard, made, goals>>

\* A file cannot be moved: the room is not written, and the next attempt goes on.
ClaimFails(t, moved) ==
    /\ pc[t] = "identity" /\ t \notin stale /\ ~Mine /\ moved # files
    /\ MayFail /\ Spend("fault")
    /\ files' = files \ moved /\ quarantined' = quarantined \union moved
    /\ UNCHANGED boundTo
    /\ Finish(t)
    /\ UNCHANGED <<server, session, wire, heard, made, goals>>

-----------------------------------------------------------------------------
(* flush_check_event_files *)

CheckFiles   == {f \in files : f.loc \notin MapEvents}
Acknowledged == {f \in CheckFiles : f.loc \in checked}
Pending      == {f \in CheckFiles \ Acknowledged : f.loc \in Slot[room] \ submitted}

\* Mutant: the slot's missing locations are taken for all its locations.
OutsideMissing == {f \in CheckFiles \ Acknowledged : f.loc \notin Slot[room] \ submitted}

OutsideSlot == {f \in CheckFiles \ Acknowledged : f.loc \notin Slot[room]}

FlushBegin ==
    /\ pc["flush"] = "idle" /\ ready /\ link # "down"
    /\ Ask("flush")
    /\ UNCHANGED <<server, session, wire, heard, used, made, disk, goals>>

\* A directory that was just bound is empty.
FlushClaims ==
    /\ pc["flush"] = "identity" /\ "flush" \notin stale /\ ~Mine
    /\ Claim
    /\ Finish("flush")
    /\ UNCHANGED <<server, session, wire, heard, used, made, goals>>

SendOrFinish(t, requests) ==
    IF requests = {} THEN Finish(t) /\ UNCHANGED wire ELSE Send(t, requests)

\* Some of these files cannot be removed or moved now; that is only logged.
Leaving(left, due) == /\ left \subseteq due
                      /\ IF left = {} THEN UNCHANGED used ELSE MayFail /\ Spend("fault")

\* Mutant: a file is removed once it is submitted.
FlushSendsRemoving(left) ==
    /\ pc["flush"] = "identity" /\ "flush" \notin stale /\ Mine
    /\ Leaving(left, Acknowledged \union Pending)
    /\ files' = files \ ((Acknowledged \union Pending) \ left)
    /\ SendOrFinish("flush", {f.loc : f \in Pending})
    /\ UNCHANGED <<quarantined, boundTo, server, session, heard, made, goals>>

\* Files the server has acknowledged go, those of no slot location are set aside (while
\* the session is initialised), the rest is submitted unless this process already has.
FlushSends(left) ==
    /\ pc["flush"] = "identity" /\ "flush" \notin stale /\ Mine
    /\ LET away == IF ready THEN OutsideSlot ELSE {}
       IN  /\ Leaving(left, Acknowledged \union away)
           /\ files' = files \ ((Acknowledged \union away) \ left)
           /\ quarantined' = quarantined \union (away \ left)
    /\ SendOrFinish("flush", {f.loc : f \in Pending})
    /\ UNCHANGED <<boundTo, server, session, heard, made, goals>>

-----------------------------------------------------------------------------
(* check_campaign_goal_event and PublisherDispatch, one map event file at a time *)

EventFiles == {f \in files : f.loc \in MapEvents}

EventBegin ==
    /\ pc["event"] = "idle" /\ keyed /\ link # "down"
    /\ Ask("event")
    /\ UNCHANGED <<server, session, wire, heard, used, made, disk, goals>>

EventClaims ==
    /\ pc["event"] = "identity" /\ "event" \notin stale /\ ~Mine
    /\ Claim
    /\ Finish("event")
    /\ UNCHANGED <<server, session, wire, heard, used, made, goals>>

EventNone ==
    /\ pc["event"] = "identity" /\ "event" \notin stale /\ Mine /\ EventFiles = {}
    /\ Finish("event")
    /\ UNCHANGED <<server, session, wire, heard, used, made, disk, goals>>

\* The file goes when the server has its location; a location outside the slot, and one
\* that this process has submitted, leaves it in place.
EventAcknowledged(f) ==
    /\ pc["event"] = "identity" /\ "event" \notin stale /\ Mine
    /\ f \in EventFiles /\ f.loc \in checked
    /\ files' = files \ {f}
    /\ Finish("event")
    /\ UNCHANGED <<server, session, wire, heard, used, made, quarantined, boundTo, goals>>

EventSends(f) ==
    /\ pc["event"] = "identity" /\ "event" \notin stale /\ Mine
    /\ f \in EventFiles /\ f.loc \notin checked
    /\ SendOrFinish("event", (Slot[room] \ submitted) \intersect {f.loc})
    /\ UNCHANGED <<server, session, heard, used, made, disk, goals>>

-----------------------------------------------------------------------------
(* GoalProgress.evaluate *)

\* goal_admitted: all stages before the goal stage are completed by the server's record, or
\* the item that stands for that is in items_received: CommonClient forgets the items with
\* the connection, and they come again in one message with Connected.
Admitted == \/ Completions[room] \subseteq checked
            \/ room \in ByItem \intersect granted /\ Welcomed

\* Mutant: what was only submitted (locations_checked) counts.
ReachedLocally == Objectives[room] \subseteq checked \union submitted

\* Only the server's record makes the goal reached.
Reached == Objectives[room] \subseteq checked

\* The campaign is there from Initialize on; in_flight is cleared by every invalidation.
GoalSends ==
    /\ pc["goal"] = "idle" \/ "goal" \in stale
    /\ keyed /\ Admitted
    /\ ~sent /\ checkedReady /\ Reached /\ link # "down"
    /\ Send("goal", {Goal})
    /\ UNCHANGED <<server, session, heard, used, made, disk, goals>>

\* Mutant: the result of a request of an earlier connection counts.
GoalSentAnyway ==
    /\ Sent("goal") /\ sent' = TRUE
    /\ UNCHANGED <<server, session, wire, checked, checkedReady, used, made, disk, granted>>

GoalSent ==
    /\ Sent("goal") /\ sent' = (sent \/ "goal" \notin stale)
    /\ UNCHANGED <<server, session, wire, checked, checkedReady, used, made, disk, granted>>

-----------------------------------------------------------------------------
FlushSent ==
    /\ Sent("flush")
    /\ UNCHANGED <<server, session, wire, checked, checkedReady, used, made, disk, goals>>

\* The server's answer may have been faster than the socket's.
EventSent ==
    /\ Sent("event")
    /\ files' = IF "event" \in stale THEN files
                ELSE {f \in files : f.loc \notin sending["event"] \intersect checked}
    /\ UNCHANGED <<server, session, wire, checked, checkedReady, used, made, quarantined,
                   boundTo, goals>>

TaskGivesUp(t)  == GivesUp(t) /\ UNCHANGED <<made, disk, goals>>
TaskOutdated(t) == Outdated(t) /\ UNCHANGED <<made, disk, goals>>

Flush == \/ FlushBegin \/ FlushClaims \/ FlushSent \/ TaskOutdated("flush")
         \/ \E left \in SUBSET files : FlushSends(left)
Event == \/ EventBegin \/ EventClaims \/ EventNone \/ EventSent \/ TaskOutdated("event")
         \/ \E f \in files : EventAcknowledged(f) \/ EventSends(f)

Next == \/ \E r \in Rooms : StartIn(r)
        \/ StopBridge \/ Connecting \/ InitializeSession \/ Grant
        \/ \E l \in Locations : Collect(l)
        \/ Flush \/ Event \/ GoalSends \/ GoalSent
        \/ \E t \in Tasks : TaskGivesUp(t)
        \/ \E t \in {"flush", "event"}, moved \in SUBSET files : ClaimFails(t, moved)

Spec == Init /\ [][Next]_vars

\* The loops go round for ever and each map event file gets its turn in them (hence SF).
Fairness ==
    /\ LinkFairness
    /\ WF_vars(Flush) /\ WF_vars(Event) /\ WF_vars(GoalSends \/ GoalSent)
    /\ \A f \in {f \in Files : f.loc \in MapEvents} :
          SF_vars(EventAcknowledged(f) \/ EventSends(f))

FairSpec == Spec /\ Fairness
-----------------------------------------------------------------------------
(* Correctness *)

TypeOK ==
    /\ LinkTypeOK
    /\ collected \in [Rooms -> SUBSET Locations] /\ strays \in [Rooms -> SUBSET Locations]
    /\ files \subseteq Files /\ quarantined \subseteq Files
    /\ boundTo \in Rooms \union {NoRoom} /\ sent \in BOOLEAN
    /\ granted \subseteq Rooms

\* No room is told of a check that was not made in its game, although the files do not
\* say where they were made and lie in one directory, whichever rooms are visited, and
\* also when files could not be moved away.  Left out are checks of another room made
\* while the directory still was bound to this one.
OnlyOwnChecks == \A r \in Rooms : Known(r) \subseteq collected[r] \union strays[r]

OnDisk(r, l) == [loc |-> l, room |-> r] \in files \union quarantined

\* A check that was made is known to its server, or its file is still on disk: what was
\* only submitted may have been lost with the connection, and that it was submitted, with
\* the process.  The strays are left out again.
Accounted ==
    \A r \in Rooms : \A l \in collected[r] :
        l \in server[r] \/ OnDisk(r, l) \/ \E q \in Rooms : l \in strays[q]

\* Restarts and reconnections in the room the directory is bound to set nothing of its
\* slot aside: pending files of the same room survive.
PendingSurvives ==
    [][\A f \in quarantined' \ quarantined :
          f.room = room /\ boundTo = room => f.loc \notin Slot[room]]_vars

\* What admits to the goal, as the server has it.
AdmittedAt(r) == Completions[r] \subseteq server[r] \/ r \in ByItem \intersect granted

\* The campaign is reported as finished only to a server that has all its objectives and
\* all that admits to the goal stage.
GoalJustified ==
    \A r \in Rooms : Goal \in server[r] => Objectives[r] \subseteq server[r] /\ AdmittedAt(r)

\* In the end no file is left, except a map event of no location of the slot: each was
\* set aside or acknowledged, whatever was lost on the way.
FilesSettle == <>[](\A f \in files : f.loc \in MapEvents \ Slot[room])

\* A goal that is reached and admitted is reported, also when the report, or the item that
\* admits to it, was lost with the connection.
GoalReported ==
    <>[](\A r \in Rooms : r = room /\ Objectives[r] \subseteq server[r] /\ AdmittedAt(r)
                             => Goal \in server[r])
=============================================================================
