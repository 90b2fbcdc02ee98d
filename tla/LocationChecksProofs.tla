------------------------ MODULE LocationChecksProofs ------------------------
(***************************************************************************)
(* Checks and the campaign goal for any rooms, slots and objectives and    *)
(* for any bounds: no room is told of a check that is not its own, no      *)
(* check is lost, and the goal is reported only when it is reached and     *)
(* admitted.                                                               *)
(***************************************************************************)
EXTENDS LocationChecks, TLAPS

USE DEF vars, linkVars, session, heard, tasks, disk, made, goals

-----------------------------------------------------------------------------
(* The inductive invariant *)

\* What may be shown to a room.
Own(r) == collected[r] \union strays[r]

\* A process that has ended leaves nothing in flight; one that runs serves a room.
Process ==
    /\ alive => room \in Rooms
    /\ ~alive => /\ link = "down" /\ ~keyed /\ wire = {} /\ checked = {} /\ submitted = {}
                 /\ \A t \in Tasks : pc[t] = "idle" /\ sending[t] = {}

\* What was submitted, or is being, is the room's own; what the bridge has heard is true.
InFlight ==
    alive => /\ (wire \union submitted) \ {Goal} \subseteq Own(room)
             /\ \A t \in Tasks : sending[t] \ {Goal} \subseteq Own(room)
             /\ checked \subseteq server[room]

\* The goal is asked for only when it is reached and admitted.
GoalAsked ==
    alive /\ (Goal \in wire \/ \E t \in Tasks : Goal \in sending[t]) =>
        Objectives[room] \subseteq server[room] /\ AdmittedAt(room)

\* Every file is of a check, and a file of another room than the directory's is a stray.
FilesOfChecks ==
    /\ \A f \in files \union quarantined : f.loc \in collected[f.room]
    /\ \A f \in files : boundTo = NoRoom \/ f.room = boundTo \/ f.loc \in strays[boundTo]
    /\ pc["event"] = "send" => boundTo = room

Inv == /\ TypeOK /\ Process /\ InFlight /\ GoalAsked /\ FilesOfChecks
       /\ OnlyOwnChecks /\ Accounted /\ GoalJustified
\* What the environment does.
Environment == \/ \E r \in Rooms : StartIn(r)
               \/ StopBridge \/ Connecting \/ InitializeSession \/ Grant
               \/ \E l \in Locations : Collect(l)

\* What the three coroutines do.
Coroutines == \/ Flush \/ Event \/ GoalSends \/ GoalSent
              \/ \E t \in Tasks : TaskGivesUp(t)
              \/ \E t \in {"flush", "event"}, moved \in SUBSET files : ClaimFails(t, moved)

-----------------------------------------------------------------------------
(* Types *)

LEMMA TaskTypes ==
    ASSUME TypeOK, NEW t \in Tasks
    PROVE  /\ Ask(t) => UNCHANGED sending
           /\ Ask(t) \/ Finish(t) \/ (\E q \in SUBSET Requests : Send(t, q)) =>
                /\ pc' \in [Tasks -> Pcs] /\ sending' \in [Tasks -> SUBSET Requests]
                /\ stale' \subseteq Tasks
BY DEF TypeOK, LinkTypeOK, Ask, Finish, Send, Pcs

LEMMA KnownLocations ==
    ASSUME TypeOK, NEW r \in Rooms
    PROVE  Known(r) \subseteq Locations
BY DEF TypeOK, LinkTypeOK, Known, Requests

LEMMA EnvironmentKeepsTypes ==
    ASSUME TypeOK, Process, Environment
    PROVE  TypeOK'
<1> USE DEF TypeOK, LinkTypeOK, Pcs, Links, Bounded, Spend, Invalidate, Waiting, Requests
<1>1. ASSUME NEW r \in Rooms, StartIn(r) PROVE TypeOK'
  BY <1>1 DEF StartIn, Start
<1>2. CASE StopBridge
  BY <1>2 DEF StopBridge, Stop
<1>3. CASE Connecting
  <2>1. ASSUME Open PROVE TypeOK'
    BY <1>3, <2>1 DEF Connecting, Open
  <2>2. ASSUME Lose PROVE TypeOK'
    BY <1>3, <2>2 DEF Connecting, Lose
  <2>3. ASSUME Welcome PROVE TypeOK'
    <3>1. checked' \subseteq Locations
      BY <2>3, KnownLocations DEF Welcome, Process
    <3> QED BY <1>3, <2>3, <3>1 DEF Connecting, Welcome
  <2>4. ASSUME Complete PROVE TypeOK'
    BY <1>3, <2>4 DEF Connecting, Complete
  <2>5. ASSUME RoomUpdate PROVE TypeOK'
    <3>1. checked' \subseteq Locations
      BY <2>5, KnownLocations DEF RoomUpdate, Process
    <3> QED BY <1>3, <2>5, <3>1 DEF Connecting, RoomUpdate
  <2>6. ASSUME NEW m \in wire, ServerReceives(m) PROVE TypeOK'
    BY <1>3, <2>6 DEF Connecting, ServerReceives
  <2> QED BY <1>3, <2>1, <2>2, <2>3, <2>4, <2>5, <2>6 DEF Connecting, Connection
<1>4. CASE InitializeSession
  BY <1>4 DEF InitializeSession, Initialize
<1>5. ASSUME NEW l \in Locations, Collect(l) PROVE TypeOK'
  BY <1>5 DEF Collect, Files
<1>6. CASE Grant
  BY <1>6, AdmissionAssumption DEF Grant
<1> QED BY <1>1, <1>2, <1>3, <1>4, <1>5, <1>6 DEF Environment

LEMMA CoroutinesKeepTypes ==
    ASSUME TypeOK, Process, Coroutines
    PROVE  TypeOK'
<1> USE DEF TypeOK, LinkTypeOK, Bounded, Spend
<1>1. {"flush", "event", "goal"} \subseteq Tasks
  BY TasksAssumption
<1>2. CASE FlushBegin \/ EventBegin
  BY <1>1, <1>2, TaskTypes DEF FlushBegin, EventBegin
<1>3. CASE FlushClaims \/ EventClaims
  <2>1. room \in Rooms
    BY <1>1, <1>3 DEF FlushClaims, EventClaims, Process
  <2> QED BY <1>1, <1>3, <2>1, TaskTypes DEF FlushClaims, EventClaims, Claim
<1>4. CASE TaskOutdated("flush") \/ TaskOutdated("event")
  BY <1>1, <1>4, TaskTypes DEF TaskOutdated, Outdated
<1>5. CASE FlushSent
  BY <1>1, <1>5, TaskTypes DEF FlushSent, Sent, Requests
<1>6. CASE EventSent
  BY <1>1, <1>6, TaskTypes DEF EventSent, Sent, Requests
<1>7. CASE GoalSent
  BY <1>1, <1>7, TaskTypes DEF GoalSent, Sent, Requests
<1>8. CASE GoalSends
  BY <1>1, <1>8, TaskTypes DEF GoalSends, Send, Requests
<1>9. ASSUME NEW left \in SUBSET files, FlushSends(left) PROVE TypeOK'
  <2>1. {f.loc : f \in Pending} \subseteq Requests
    BY DEF Pending, CheckFiles, Acknowledged, Files, Requests
  <2>2. /\ wire' \subseteq Requests /\ pc' \in [Tasks -> Pcs]
        /\ sending' \in [Tasks -> SUBSET Requests] /\ stale' \subseteq Tasks
    BY <1>1, <1>9, <2>1, TaskTypes DEF FlushSends, SendOrFinish, Send
  <2>3. used' \in [Bounded -> Nat]
    BY <1>9 DEF FlushSends, Leaving
  <2>4. files' \subseteq Files /\ quarantined' \subseteq Files
    BY <1>9 DEF FlushSends, OutsideSlot, CheckFiles
  <2> QED BY <1>9, <2>2, <2>3, <2>4 DEF FlushSends
<1>10. CASE EventNone
  BY <1>1, <1>10, TaskTypes DEF EventNone
<1>11. ASSUME NEW f \in files, EventAcknowledged(f) PROVE TypeOK'
  BY <1>1, <1>11, TaskTypes DEF EventAcknowledged
<1>12. ASSUME NEW f \in files, EventSends(f) PROVE TypeOK'
  <2>1. (Slot[room] \ submitted) \intersect {f.loc} \subseteq Requests
    BY DEF Files, Requests
  <2>2. /\ wire' \subseteq Requests /\ pc' \in [Tasks -> Pcs]
        /\ sending' \in [Tasks -> SUBSET Requests] /\ stale' \subseteq Tasks
    BY <1>1, <1>12, <2>1, TaskTypes DEF EventSends, SendOrFinish, Send
  <2> QED BY <1>12, <2>2 DEF EventSends
<1>13. ASSUME NEW t \in Tasks, TaskGivesUp(t) PROVE TypeOK'
  BY <1>13, TaskTypes DEF TaskGivesUp, GivesUp
<1>14. ASSUME NEW t \in {"flush", "event"}, NEW moved \in SUBSET files, ClaimFails(t, moved)
       PROVE  TypeOK'
  BY <1>1, <1>14, TaskTypes DEF ClaimFails
<1> QED BY <1>2, <1>3, <1>4, <1>5, <1>6, <1>7, <1>8, <1>9, <1>10, <1>11, <1>12, <1>13, <1>14
        DEF Coroutines, Flush, Event
-----------------------------------------------------------------------------
(* What the coroutines ask for *)

\* Only a running process has coroutines that do anything.
LEMMA CoroutinesAreAlive ==
    ASSUME Inv, Coroutines
    PROVE  /\ alive /\ room \in Rooms
           /\ UNCHANGED <<server, session, checked, checkedReady, made, granted>>
<1>0. Process
  BY DEF Inv
<1>1. {"flush", "event", "goal"} \subseteq Tasks
  BY TasksAssumption
<1>2. CASE Flush
  BY <1>0, <1>1, <1>2 DEF Process, Flush, FlushBegin, FlushClaims, FlushSent, FlushSends,
     TaskOutdated, Outdated, Sent, ready
<1>3. CASE Event
  BY <1>0, <1>1, <1>3 DEF Process, Event, EventBegin, EventClaims, EventNone, EventSent,
     TaskOutdated, EventAcknowledged, EventSends, Outdated, Sent
<1>4. CASE GoalSends \/ GoalSent
  BY <1>0, <1>1, <1>4 DEF Process, GoalSends, GoalSent, Sent
<1>5. CASE \E t \in Tasks : TaskGivesUp(t)
  BY <1>0, <1>5 DEF Process, TaskGivesUp, GivesUp
<1>6. CASE \E t \in {"flush", "event"}, moved \in SUBSET files : ClaimFails(t, moved)
  BY <1>0, <1>1, <1>6 DEF Process, ClaimFails
<1> QED BY <1>2, <1>3, <1>4, <1>5, <1>6 DEF Coroutines

\* The requests a step adds.
Justified(q) == /\ q \ {Goal} \subseteq Own(room)
                /\ Goal \in q => Objectives[room] \subseteq checked /\ Admitted
Adds(q) == /\ wire' \subseteq wire \union q
           /\ \A t \in Tasks : sending'[t] \subseteq sending[t] \union q

\* What lies in the room's own directory may be shown to it.
LEMMA OwnFiles ==
    ASSUME Inv, Mine, room \in Rooms, NEW f \in files
    PROVE  f.loc \in Own(room)
BY RoomsAssumption DEF Inv, FilesOfChecks, Mine, Own

LEMMA SendAdds ==
    ASSUME TypeOK, NEW t \in Tasks, NEW q, Send(t, q)
    PROVE  Adds(q)
BY DEF TypeOK, LinkTypeOK, Send, Adds

LEMMA FinishAdds ==
    ASSUME TypeOK, NEW t \in Tasks, Finish(t), wire' \subseteq wire
    PROVE  Adds({})
BY DEF TypeOK, LinkTypeOK, Finish, Adds

LEMMA CoroutinesAddJustified ==
    ASSUME Inv, Coroutines
    PROVE  \E q : Justified(q) /\ Adds(q)
<1>0. TypeOK /\ room \in Rooms
  BY CoroutinesAreAlive DEF Inv
<1>1. {"flush", "event", "goal"} \subseteq Tasks
  BY TasksAssumption
<1>2. Justified({})
  BY DEF Justified
<1>3. CASE FlushBegin \/ EventBegin
  <2>1. Adds({})
    BY <1>0, <1>3 DEF FlushBegin, EventBegin, Ask, Adds
  <2> QED BY <1>2, <2>1
<1>4. CASE \/ FlushClaims \/ EventClaims \/ EventNone \/ FlushSent \/ EventSent \/ GoalSent
           \/ TaskOutdated("flush") \/ TaskOutdated("event")
  <2>1. wire' = wire /\ (Finish("flush") \/ Finish("event") \/ Finish("goal"))
    BY <1>4 DEF FlushClaims, EventClaims, EventNone, FlushSent, EventSent, GoalSent, Sent,
       TaskOutdated, Outdated
  <2> QED BY <1>0, <1>1, <1>2, <2>1, FinishAdds
<1>5. CASE GoalSends
  <2>1. Justified({Goal}) /\ Adds({Goal})
    BY <1>0, <1>1, <1>5, SendAdds DEF GoalSends, Reached, Justified
  <2> QED BY <2>1
<1>6. ASSUME NEW left \in SUBSET files, FlushSends(left) PROVE \E q : Justified(q) /\ Adds(q)
  <2> DEFINE q == {f.loc : f \in Pending}
  <2>1. q \subseteq Own(room) /\ Goal \notin q
    BY <1>0, <1>6, OwnFiles, GoalAssumption
       DEF FlushSends, Pending, CheckFiles, TypeOK, Files
  <2>2. Adds(q) \/ Adds({})
    BY <1>0, <1>1, <1>6, SendAdds, FinishAdds DEF FlushSends, SendOrFinish
  <2> QED BY <1>2, <2>1, <2>2 DEF Justified
<1>7. ASSUME NEW f \in files, EventSends(f) PROVE \E q : Justified(q) /\ Adds(q)
  <2> DEFINE q == (Slot[room] \ submitted) \intersect {f.loc}
  <2>1. q \subseteq Own(room) /\ Goal \notin q
    BY <1>0, <1>7, OwnFiles, GoalAssumption DEF EventSends, TypeOK, Files
  <2>2. Adds(q) \/ Adds({})
    BY <1>0, <1>1, <1>7, SendAdds, FinishAdds DEF EventSends, SendOrFinish
  <2> QED BY <1>2, <2>1, <2>2 DEF Justified
<1>8. ASSUME NEW f \in files, EventAcknowledged(f) PROVE \E q : Justified(q) /\ Adds(q)
  BY <1>0, <1>1, <1>2, <1>8, FinishAdds DEF EventAcknowledged
<1>9. ASSUME NEW t \in Tasks, TaskGivesUp(t) PROVE \E q : Justified(q) /\ Adds(q)
  BY <1>0, <1>2, <1>9, FinishAdds DEF TaskGivesUp, GivesUp
<1>10. CASE \E t \in {"flush", "event"}, moved \in SUBSET files : ClaimFails(t, moved)
  BY <1>0, <1>1, <1>2, <1>10, FinishAdds DEF ClaimFails
<1> QED BY <1>3, <1>4, <1>5, <1>6, <1>7, <1>8, <1>9, <1>10 DEF Coroutines, Flush, Event

\* Only what was handed to the socket counts as submitted.
LEMMA CoroutinesSubmit ==
    ASSUME Inv, Coroutines
    PROVE  \A l \in submitted' \ submitted : l # Goal /\ \E t \in Tasks : l \in sending[t]
<1>1. {"flush", "event", "goal"} \subseteq Tasks
  BY TasksAssumption
<1>2. CASE FlushSent \/ EventSent \/ GoalSent
  BY <1>1, <1>2 DEF FlushSent, EventSent, GoalSent, Sent
<1>3. CASE \/ FlushBegin \/ FlushClaims \/ (\E left \in SUBSET files : FlushSends(left))
           \/ TaskOutdated("flush") \/ TaskOutdated("event")
  BY <1>3 DEF FlushBegin, FlushClaims, FlushSends, TaskOutdated, Outdated
<1>4. CASE \/ EventBegin \/ EventClaims \/ EventNone \/ GoalSends
           \/ \E f \in files : EventAcknowledged(f) \/ EventSends(f)
  BY <1>4 DEF EventBegin, EventClaims, EventNone, GoalSends, EventAcknowledged, EventSends
<1>5. CASE \/ \E t \in Tasks : TaskGivesUp(t)
           \/ \E t \in {"flush", "event"}, moved \in SUBSET files : ClaimFails(t, moved)
  BY <1>5 DEF TaskGivesUp, GivesUp, ClaimFails
<1> QED BY <1>2, <1>3, <1>4, <1>5 DEF Coroutines, Flush, Event

-----------------------------------------------------------------------------
(* Requests *)

LEMMA EnvironmentKeepsRequests ==
    ASSUME Inv, Environment
    PROVE  Process' /\ InFlight' /\ GoalAsked'
<1>0. Process /\ InFlight /\ GoalAsked /\ OnlyOwnChecks /\ TypeOK
  BY DEF Inv
<1> USE DEF Process, InFlight, GoalAsked, Own, AdmittedAt
<1>1. ASSUME NEW r \in Rooms, StartIn(r) PROVE Process' /\ InFlight' /\ GoalAsked'
  BY <1>0, <1>1 DEF StartIn, Start
<1>2. CASE StopBridge
  BY <1>0, <1>2 DEF StopBridge, Stop
<1>3. CASE Connecting
  <2>1. alive /\ alive' /\ room' = room /\ room \in Rooms /\ UNCHANGED <<made, pc, sending>>
    <3>1. ASSUME NEW m \in wire, ServerReceives(m) PROVE alive
      BY <1>0, <3>1
    <3>2. ASSUME Open \/ Lose \/ Welcome \/ Complete \/ RoomUpdate PROVE alive
      BY <1>0, <3>2 DEF Open, Lose, Welcome, Complete, RoomUpdate
    <3> QED BY <1>0, <1>3, <3>1, <3>2 DEF Connecting, Connection, Open, Lose, Welcome,
       Complete, RoomUpdate,
               ServerReceives
  <2>2. Process'
    BY <1>0, <2>1
  <2>3. ASSUME Open \/ Lose \/ Complete PROVE InFlight' /\ GoalAsked'
    BY <1>0, <1>3, <2>1, <2>3 DEF Connecting, Open, Lose, Complete
  <2>4. ASSUME Welcome PROVE InFlight' /\ GoalAsked'
    <3>1. Goal \notin submitted
      BY <1>0, GoalAssumption DEF TypeOK, LinkTypeOK
    <3> QED BY <1>0, <1>3, <2>1, <2>4, <3>1 DEF Connecting, Welcome, Known
  <2>5. ASSUME RoomUpdate PROVE InFlight' /\ GoalAsked'
    BY <1>0, <1>3, <2>1, <2>5 DEF Connecting, RoomUpdate, Known
  <2>6. ASSUME NEW m \in wire, ServerReceives(m) PROVE InFlight' /\ GoalAsked'
    <3>1. server[room] \subseteq server'[room] /\ wire' \subseteq wire
      BY <1>0, <2>1, <2>6 DEF ServerReceives, TypeOK, LinkTypeOK
    <3> QED BY <1>0, <1>3, <2>1, <2>6, <3>1 DEF Connecting, ServerReceives
  <2> QED BY <1>3, <2>2, <2>3, <2>4, <2>5, <2>6 DEF Connecting, Connection
<1>4. CASE InitializeSession
  BY <1>0, <1>4 DEF InitializeSession, Initialize
<1>5. ASSUME NEW l \in Locations, Collect(l) PROVE Process' /\ InFlight' /\ GoalAsked'
  <2>1. \A r \in Rooms : Own(r) \subseteq Own(r)'
    BY <1>0, <1>5 DEF Collect, TypeOK
  <2> QED BY <1>0, <1>5, <2>1 DEF Collect
<1>6. CASE Grant
  BY <1>0, <1>6 DEF Grant
<1> QED BY <1>1, <1>2, <1>3, <1>4, <1>5, <1>6 DEF Environment

LEMMA CoroutinesKeepRequests ==
    ASSUME Inv, Coroutines
    PROVE  Process' /\ InFlight' /\ GoalAsked'
<1>0. InFlight /\ GoalAsked /\ TypeOK
  BY DEF Inv
<1>1. /\ alive /\ room \in Rooms
      /\ UNCHANGED <<server, session, checked, checkedReady, made, granted>>
  BY CoroutinesAreAlive
<1>2. PICK q : Justified(q) /\ Adds(q)
  BY CoroutinesAddJustified
<1>3. \A l \in submitted' \ submitted : l # Goal /\ \E t \in Tasks : l \in sending[t]
  BY CoroutinesSubmit
<1>4. Process'
  BY <1>1 DEF Process
<1>5. InFlight'
  BY <1>0, <1>1, <1>2, <1>3 DEF InFlight, Justified, Adds, Own
<1>6. GoalAsked'
  BY <1>0, <1>1, <1>2 DEF GoalAsked, InFlight, Justified, Adds, Admitted, AdmittedAt
<1> QED BY <1>4, <1>5, <1>6

-----------------------------------------------------------------------------
(* The server *)

LEMMA KeepsServer ==
    ASSUME Inv, Environment \/ Coroutines
    PROVE  OnlyOwnChecks' /\ GoalJustified'
<1>0. OnlyOwnChecks /\ GoalJustified /\ InFlight /\ GoalAsked /\ Process /\ TypeOK
  BY DEF Inv
<1> USE DEF OnlyOwnChecks, GoalJustified, Known, AdmittedAt
<1>1. CASE Coroutines
  BY <1>0, <1>1, CoroutinesAreAlive
<1>2. ASSUME NEW l \in Locations, Collect(l) PROVE OnlyOwnChecks' /\ GoalJustified'
  <2>1. \A r \in Rooms : Own(r) \subseteq Own(r)'
    BY <1>0, <1>2 DEF Collect, TypeOK, Own
  <2> QED BY <1>0, <1>2, <2>1 DEF Collect, Own
<1>3. ASSUME Connecting, NEW m \in wire, ServerReceives(m)
      PROVE OnlyOwnChecks' /\ GoalJustified'
  <2>1. alive /\ room \in Rooms
    BY <1>0 DEF Process
  <2>2. \A r \in Rooms : \/ server'[r] = server[r]
                         \/ r = room /\ server'[r] = server[r] \union {m}
    BY <1>0, <1>3, <2>1 DEF ServerReceives, TypeOK, LinkTypeOK
  <2>3. m # Goal => m \in Own(room)
    BY <1>0, <2>1 DEF InFlight
  <2>4. m = Goal => Objectives[room] \subseteq server[room] /\ AdmittedAt(room)
    BY <1>0, <2>1 DEF GoalAsked
  <2> QED BY <1>0, <1>3, <2>1, <2>2, <2>3, <2>4 DEF Connecting, Own
<1>4. CASE UNCHANGED <<server, made, granted>>
  BY <1>0, <1>4
<1>5. CASE Grant
  BY <1>0, <1>5 DEF Grant
<1> QED BY <1>1, <1>2, <1>3, <1>4, <1>5 DEF Environment, StartIn, Start, StopBridge, Stop,
           Connecting, Connection, Open, Lose, Welcome, Complete, RoomUpdate,
           InitializeSession, Initialize

-----------------------------------------------------------------------------
(* Files *)

\* A step may take files away, and may bind the directory only while it empties it.
Takes == /\ files' \subseteq files
         /\ files' \union quarantined' \subseteq files \union quarantined
         /\ boundTo' = boundTo \/ (boundTo' = room /\ files' = {})

LEMMA CoroutinesTake ==
    ASSUME Inv, Coroutines
    PROVE  /\ Takes
           /\ pc'["event"] = "send" => boundTo' = room
<1>0. TypeOK /\ FilesOfChecks
  BY DEF Inv
<1>1. {"flush", "event", "goal"} \subseteq Tasks
  BY TasksAssumption
<1> USE DEF Takes, FilesOfChecks, TypeOK, LinkTypeOK, Mine
<1>2. CASE FlushBegin \/ EventBegin
  BY <1>0, <1>1, <1>2 DEF FlushBegin, EventBegin, Ask
<1>3. CASE FlushClaims \/ EventClaims
  BY <1>0, <1>1, <1>3 DEF FlushClaims, EventClaims, Claim, Finish
<1>4. CASE EventNone \/ FlushSent \/ GoalSent \/ TaskOutdated("flush") \/ TaskOutdated("event")
  BY <1>0, <1>1, <1>4 DEF EventNone, FlushSent, GoalSent, Sent, TaskOutdated, Outdated,
     Finish
<1>5. CASE EventSent
  BY <1>0, <1>1, <1>5 DEF EventSent, Sent, Finish
<1>6. CASE GoalSends
  BY <1>0, <1>1, <1>6 DEF GoalSends, Send
<1>7. ASSUME NEW left \in SUBSET files, FlushSends(left)
      PROVE  Takes /\ (pc'["event"] = "send" => boundTo' = room)
  <2>1. files' \subseteq files /\ files' \union quarantined' \subseteq files \union quarantined
    BY <1>7 DEF FlushSends, OutsideSlot, CheckFiles
  <2>2. boundTo' = boundTo /\ (pc'["event"] = "send" => pc["event"] = "send")
    BY <1>0, <1>1, <1>7 DEF FlushSends, SendOrFinish, Send, Finish
  <2> QED BY <1>0, <2>1, <2>2
<1>8. ASSUME NEW f \in files, EventAcknowledged(f) \/ EventSends(f)
      PROVE  Takes /\ (pc'["event"] = "send" => boundTo' = room)
  BY <1>0, <1>1, <1>8 DEF EventAcknowledged, EventSends, SendOrFinish, Send, Finish
<1>9. ASSUME NEW t \in Tasks, TaskGivesUp(t)
      PROVE  Takes /\ (pc'["event"] = "send" => boundTo' = room)
  BY <1>0, <1>1, <1>9 DEF TaskGivesUp, GivesUp, Finish
<1>10. ASSUME NEW t \in {"flush", "event"}, NEW moved \in SUBSET files, ClaimFails(t, moved)
       PROVE  Takes /\ (pc'["event"] = "send" => boundTo' = room)
  BY <1>0, <1>1, <1>10 DEF ClaimFails, Finish
<1> QED BY <1>2, <1>3, <1>4, <1>5, <1>6, <1>7, <1>8, <1>9, <1>10 DEF Coroutines, Flush,
           Event

LEMMA KeepsFiles ==
    ASSUME Inv, Environment \/ Coroutines
    PROVE  FilesOfChecks'
<1>0. TypeOK /\ FilesOfChecks /\ Process
  BY DEF Inv
<1> USE DEF FilesOfChecks
<1>1. CASE Coroutines
  BY <1>0, <1>1, CoroutinesTake, CoroutinesAreAlive DEF Takes
<1>2. ASSUME NEW l \in Locations, Collect(l) PROVE FilesOfChecks'
  <2>1. /\ room \in Rooms /\ boundTo' = boundTo /\ room' = room /\ pc' = pc
        /\ files' = files \union {[loc |-> l, room |-> room]} /\ quarantined' = quarantined
    BY <1>0, <1>2 DEF Collect, TypeOK, LinkTypeOK
  <2>2. \A r \in Rooms : collected[r] \subseteq collected'[r] /\ strays[r] \subseteq strays'[r]
    BY <1>0, <1>2 DEF Collect, TypeOK
  <2>3. l \in collected'[room] /\ (boundTo \notin {room, NoRoom} => l \in strays'[boundTo])
    BY <1>0, <1>2, <2>1 DEF Collect, TypeOK
  <2>4. /\ files \subseteq Files /\ quarantined \subseteq Files
        /\ boundTo \in Rooms \union {NoRoom}
    BY <1>0 DEF TypeOK
  <2> QED BY <1>0, <2>1, <2>2, <2>3, <2>4 DEF Files
<1>3. CASE UNCHANGED <<made, disk, pc, room>>
  BY <1>0, <1>3
<1>4. ASSUME NEW r \in Rooms, StartIn(r) PROVE FilesOfChecks'
  <2>1. pc["event"] # "send"
    BY <1>0, <1>4, TasksAssumption DEF StartIn, Start, Process
  <2> QED BY <1>0, <1>4, <2>1 DEF StartIn, Start
<1>5. CASE StopBridge
  <2>1. pc'["event"] # "send"
    BY <1>5, TasksAssumption DEF StopBridge, Stop
  <2> QED BY <1>0, <1>5, <2>1 DEF StopBridge, Stop
<1> QED BY <1>1, <1>2, <1>3, <1>4, <1>5 DEF Environment, Connecting, Connection, Open, Lose,
           Welcome, Complete, RoomUpdate, ServerReceives, InitializeSession, Initialize, Grant

-----------------------------------------------------------------------------
(* No check is lost *)

\* A file that disappears is of a check the server has, if it is the room's own.
LEMMA WhatDisappears ==
    ASSUME Inv, Coroutines, NEW f \in files, f \notin files' \union quarantined'
    PROVE  f.loc \in server[room] /\ (f.room = room \/ f.loc \in strays[room])
<1>0. /\ TypeOK /\ FilesOfChecks /\ InFlight
      /\ alive /\ room \in Rooms /\ checked \subseteq server[room]
  BY CoroutinesAreAlive DEF Inv, InFlight
<1>1. Mine => f.room = room \/ f.loc \in strays[room]
  BY <1>0, RoomsAssumption DEF FilesOfChecks, Mine
<1>2. ASSUME NEW left \in SUBSET files, FlushSends(left)
      PROVE  Mine /\ f.loc \in checked
  BY <1>2 DEF FlushSends, Acknowledged
<1>3. ASSUME NEW g \in files, EventAcknowledged(g)
      PROVE  Mine /\ f.loc \in checked
  BY <1>3 DEF EventAcknowledged
<1>4. CASE EventSent
  BY <1>0, <1>1, <1>4 DEF EventSent, Sent, FilesOfChecks, Mine
<1>5. CASE FlushClaims \/ EventClaims
  BY <1>5 DEF FlushClaims, EventClaims, Claim
<1>6. ASSUME NEW t \in {"flush", "event"}, NEW moved \in SUBSET files, ClaimFails(t, moved)
      PROVE  FALSE
  BY <1>6 DEF ClaimFails
<1> QED BY <1>0, <1>1, <1>2, <1>3, <1>4, <1>5, <1>6 DEF Coroutines, Flush, Event,
           FlushBegin, FlushSent, EventBegin, EventNone, EventSends, GoalSends, GoalSent,
           TaskOutdated, TaskGivesUp

LEMMA NothingLeavesQuarantine ==
    ASSUME Coroutines
    PROVE  quarantined \subseteq quarantined'
BY DEF Coroutines, Flush, Event, FlushBegin, FlushClaims, FlushSends, FlushSent, EventBegin,
       EventClaims, EventNone, EventAcknowledged, EventSends, EventSent, Claim, GoalSends,
       GoalSent, TaskOutdated, TaskGivesUp, ClaimFails

LEMMA KeepsAccounted ==
    ASSUME Inv, Environment \/ Coroutines
    PROVE  Accounted'
<1>0. TypeOK /\ Process /\ Accounted
  BY DEF Inv
<1> USE DEF Accounted, OnDisk
<1>1. CASE Coroutines
  <2>1. /\ room \in Rooms /\ server' = server /\ collected' = collected /\ strays' = strays
        /\ quarantined \subseteq quarantined'
    BY <1>1, CoroutinesAreAlive, NothingLeavesQuarantine
  <2>2. SUFFICES ASSUME NEW r \in Rooms, NEW l \in collected[r], l \notin server[r],
                        [loc |-> l, room |-> r] \in files \union quarantined,
                        [loc |-> l, room |-> r] \notin files' \union quarantined'
                 PROVE  \E q \in Rooms : l \in strays[q]
    BY <1>0, <2>1
  <2>3. l \in server[room] /\ (r = room \/ l \in strays[room])
    <3>1. [loc |-> l, room |-> r] \in files
      BY <2>1, <2>2
    <3> QED BY <1>1, <2>2, <3>1, WhatDisappears
  <2> QED BY <2>1, <2>2, <2>3
<1>2. ASSUME NEW l \in Locations, Collect(l) PROVE Accounted'
  <2>1. \A r \in Rooms : strays[r] \subseteq strays'[r]
    BY <1>0, <1>2 DEF Collect, TypeOK
  <2>2. \A r \in Rooms : \A k \in collected'[r] : k \in collected[r] \/ (r = room /\ k = l)
    BY <1>0, <1>2 DEF Collect, TypeOK
  <2> QED BY <1>0, <1>2, <2>1, <2>2 DEF Collect
<1>3. ASSUME Connecting, NEW m \in wire, ServerReceives(m) PROVE Accounted'
  <2>1. \A r \in Rooms : server[r] \subseteq server'[r]
    BY <1>0, <1>3 DEF ServerReceives, TypeOK, LinkTypeOK
  <2> QED BY <1>0, <1>3, <2>1 DEF Connecting
<1>4. CASE UNCHANGED <<server, made, files, quarantined>>
  BY <1>0, <1>4
<1> QED BY <1>1, <1>2, <1>3, <1>4 DEF Environment, StartIn, Start, StopBridge, Stop,
           Connecting, Connection, Open, Lose, Welcome, Complete, RoomUpdate,
           InitializeSession, Initialize, Grant

-----------------------------------------------------------------------------
(* The invariant is inductive *)

LEMMA InitEstablishesInv ==
    ASSUME Init
    PROVE  Inv
<1> USE DEF Init, LinkInit
<1>1. TypeOK
  BY DEF TypeOK, LinkTypeOK, Links, Pcs, Bounded
<1>2. Process /\ InFlight /\ GoalAsked /\ FilesOfChecks
  BY TasksAssumption DEF Process, InFlight, GoalAsked, FilesOfChecks
<1>3. OnlyOwnChecks /\ Accounted /\ GoalJustified
  BY DEF OnlyOwnChecks, Known, Accounted, GoalJustified
<1> QED BY <1>1, <1>2, <1>3 DEF Inv

LEMMA StepKeepsInv ==
    ASSUME Inv, [Next]_vars
    PROVE  Inv'
<1>1. CASE Environment
  <2>1. TypeOK'
    BY <1>1, EnvironmentKeepsTypes DEF Inv
  <2> QED BY <1>1, <2>1, EnvironmentKeepsRequests, KeepsFiles, KeepsServer,
     KeepsAccounted DEF Inv
<1>2. CASE Coroutines
  <2>1. TypeOK'
    BY <1>2, CoroutinesKeepTypes DEF Inv
  <2> QED BY <1>2, <2>1, CoroutinesKeepRequests, KeepsFiles, KeepsServer,
     KeepsAccounted DEF Inv
<1>3. CASE UNCHANGED vars
  <2>1. TypeOK' /\ Process' /\ InFlight' /\ GoalAsked' /\ FilesOfChecks'
    BY <1>3 DEF Inv, TypeOK, LinkTypeOK, Process, InFlight, GoalAsked, FilesOfChecks, Own,
       AdmittedAt
  <2>2. OnlyOwnChecks' /\ Accounted' /\ GoalJustified'
    BY <1>3 DEF Inv, OnlyOwnChecks, Known, Accounted, OnDisk, GoalJustified, AdmittedAt
  <2> QED BY <2>1, <2>2 DEF Inv
<1> QED BY <1>1, <1>2, <1>3 DEF Next, Environment, Coroutines

\* All that is claimed of checks and goals follows from one invariant, whatever the rooms,
\* their slots, the restarts, reconnections and failures.
THEOREM ReportingInvariant == Spec => []Inv
<1>1. Init => Inv
  BY InitEstablishesInv
<1>2. Inv /\ [Next]_vars => Inv'
  BY StepKeepsInv
<1> QED BY <1>1, <1>2, PTL DEF Spec

\* No room is told of a check that was not made in its game, except those made while the
\* directory still was bound to it (check_and_update_event_session binds it).
THEOREM ReportedChecksAreOwn == Spec => []OnlyOwnChecks
<1>1. Inv => OnlyOwnChecks
  BY DEF Inv
<1> QED BY <1>1, ReportingInvariant, PTL

\* A check that was made is known to its server or its file is on disk, through every
\* restart, lost connection and failed move (flush_check_event_files).
THEOREM ChecksAreAccounted == Spec => []Accounted
<1>1. Inv => Accounted
  BY DEF Inv
<1> QED BY <1>1, ReportingInvariant, PTL

\* The campaign is reported only to a server that has all its objectives and what admits to
\* the goal stage (GoalProgress.evaluate, UnifiedCampaign.goal_admitted).
THEOREM GoalIsJustified == Spec => []GoalJustified
<1>1. Inv => GoalJustified
  BY DEF Inv
<1> QED BY <1>1, ReportingInvariant, PTL

\* Nothing of the slot is set aside in the room the directory is bound to: files wait
\* through restarts (check_and_update_event_session, quarantine_event_file).
THEOREM PendingFilesSurvive == Spec => PendingSurvives
<1> DEFINE Kept == \A f \in quarantined' \ quarantined :
                       f.room = room /\ boundTo = room => f.loc \notin Slot[room]
<1>1. ASSUME [Next]_vars PROVE Kept
  <2>1. ASSUME NEW left \in SUBSET files, FlushSends(left) PROVE Kept
    BY <2>1 DEF FlushSends, OutsideSlot
  <2>2. CASE FlushClaims \/ EventClaims
    BY <2>2 DEF FlushClaims, EventClaims, Claim, Mine
  <2>3. ASSUME NEW t \in {"flush", "event"}, NEW moved \in SUBSET files, ClaimFails(t, moved)
        PROVE  Kept
    BY <2>3 DEF ClaimFails, Mine
  <2>4. CASE quarantined' = quarantined
    BY <2>4
  <2> QED BY <1>1, <2>1, <2>2, <2>3, <2>4 DEF Next, StartIn, StopBridge, Connecting,
             InitializeSession, Grant, Collect, Flush, Event, FlushBegin, FlushSent, TaskOutdated,
             EventBegin, EventNone, EventSent, EventAcknowledged, EventSends, GoalSends,
             GoalSent, TaskGivesUp
<1> QED BY <1>1, PTL DEF Spec, PendingSurvives
=============================================================================
