------------------------------- MODULE RoomLink -------------------------------
(***************************************************************************)
(* The bridge's connection to the multiworld server, as far as reporting   *)
(* checks depends on it: what the server has recorded for a slot, what the *)
(* bridge has heard of that (checked_locations), what it has submitted     *)
(* (locations_checked), and requests that may be lost with the connection. *)
(* Coroutines that report checks wait for an answer of the native client   *)
(* or for the socket; whatever invalidates the session in the meantime     *)
(* makes them outdated.                                                    *)
(*                                                                         *)
(* LocationChecks and SaveChecks extend this module.  A bridge process     *)
(* serves one room: CommonClient refuses another multiworld.               *)
(***************************************************************************)
EXTENDS Naturals, FiniteSets

CONSTANTS
    Rooms, NoRoom,
    Locations, Goal,   \* what can be reported; Goal is the status update
    Slot,              \* the locations of each room's slot
    Tasks,             \* the coroutines that report
    MaxStarts, MaxConnects, MaxFaults  \* bounds on what the environment does

Requests == Locations \union {Goal}

ASSUME RoomsAssumption == NoRoom \notin Rooms
ASSUME GoalAssumption  == Goal \notin Locations
ASSUME SlotAssumption  == Slot \in [Rooms -> SUBSET Locations]
ASSUME BoundsAssumption == MaxStarts \in Nat /\ MaxConnects \in Nat /\ MaxFaults \in Nat

VARIABLES
    server,            \* what each room's server has recorded
    room,              \* the room the game and the bridge were started for last
    alive,             \* the bridge process
    keyed,             \* state_key is set: a room was initialised in this process
    link,              \* the connection, see Links
    wire,              \* requests on their way to the server (their order is left open)
    checked,           \* checked_locations
    checkedReady,      \* server_checked_locations_ready
    submitted,         \* locations_checked
    pc,                \* where each coroutine is
    sending,           \* what it has handed to the socket
    stale,             \* coroutines whose session was invalidated while they waited
    used               \* how often each bounded thing has happened

session == <<room, alive, keyed, link>>
heard   == <<checked, checkedReady, submitted>>
tasks   == <<pc, sending, stale>>
linkVars == <<server, session, wire, heard, tasks, used>>

\* No socket; RoomInfo received and Connect sent; CommonClient has handled Connected;
\* the session is initialised; the scouted placements are complete.
Links   == {"down", "open", "welcomed", "bound", "in"}
Pcs     == {"idle", "identity", "probe", "send"}  \* probe: of a save
Bounded == {"start", "connect", "fault"}

Spend(what) == used' = [used EXCEPT ![what] = @ + 1]
MayFail     == used["fault"] < MaxFaults
ready       == keyed /\ link # "welcomed"         \* item_state_ready
Waiting     == {t \in Tasks : pc[t] # "idle"}
Known(r)    == server[r] \ {Goal}

LinkInit ==
    /\ server = [r \in Rooms |-> {}]
    /\ room = NoRoom /\ alive = FALSE /\ keyed = FALSE /\ link = "down" /\ wire = {}
    /\ checked = {} /\ checkedReady = FALSE /\ submitted = {}
    /\ pc = [t \in Tasks |-> "idle"] /\ sending = [t \in Tasks |-> {}] /\ stale = {}
    /\ used = [b \in Bounded |-> 0]

LinkTypeOK ==
    /\ server \in [Rooms -> SUBSET Requests]
    /\ room \in Rooms \union {NoRoom} /\ alive \in BOOLEAN /\ keyed \in BOOLEAN
    /\ link \in Links /\ wire \subseteq Requests
    /\ checked \subseteq Locations /\ checkedReady \in BOOLEAN /\ submitted \subseteq Locations
    /\ pc \in [Tasks -> Pcs] /\ sending \in [Tasks -> SUBSET Requests] /\ stale \subseteq Tasks
    /\ used \in [Bounded -> Nat]

-----------------------------------------------------------------------------
(* The process and the connection *)

\* reset_queue_session_authority: what waits must not act on the session it began in.
Invalidate == stale' = Waiting

Start(r) ==
    /\ ~alive /\ used["start"] < MaxStarts
    /\ room' = r /\ alive' = TRUE
    /\ Spend("start")
    /\ UNCHANGED <<server, keyed, link, wire, heard, tasks>>

\* The process ends and with it all it had only in memory.
Stop ==
    /\ alive /\ used["start"] < MaxStarts /\ used["connect"] < MaxConnects
    /\ alive' = FALSE /\ keyed' = FALSE /\ link' = "down" /\ wire' = {}
    /\ checked' = {} /\ checkedReady' = FALSE /\ submitted' = {}
    /\ pc' = [t \in Tasks |-> "idle"] /\ sending' = [t \in Tasks |-> {}] /\ stale' = {}
    /\ UNCHANGED <<server, room, used>>

Open ==
    /\ alive /\ link = "down" /\ used["connect"] < MaxConnects
    /\ link' = "open"
    /\ Invalidate /\ Spend("connect")
    /\ UNCHANGED <<server, room, alive, keyed, wire, heard, pc, sending>>

\* connection_closed; what the server had not read is lost.
Lose ==
    /\ link # "down" /\ used["connect"] < MaxConnects
    /\ link' = "down" /\ wire' = {}
    /\ Invalidate
    /\ UNCHANGED <<server, room, alive, keyed, heard, pc, sending, used>>

\* CommonClient handles Connected: the server's checks replace the known ones, and what
\* this process has submitted is submitted again.
Welcome ==
    /\ link = "open"
    /\ link' = "welcomed"
    /\ checked' = Known(room)
    /\ wire' = wire \union submitted
    /\ UNCHANGED <<server, room, alive, keyed, checkedReady, submitted, tasks, used>>

\* The slot's contract is valid and initialize_item_state has bound the session.
Initialize ==
    /\ link = "welcomed"
    /\ link' = "bound" /\ keyed' = TRUE /\ checkedReady' = FALSE
    /\ Invalidate
    /\ UNCHANGED <<server, room, alive, wire, checked, submitted, pc, sending, used>>

\* _complete_connected, when the placements have been scouted.
Complete ==
    /\ link = "bound"
    /\ link' = "in" /\ checkedReady' = TRUE
    /\ UNCHANGED <<server, room, alive, keyed, wire, checked, submitted, tasks, used>>

ServerReceives(m) ==
    /\ m \in wire
    /\ wire' = wire \ {m}
    /\ server' = IF m \in Slot[room] \union {Goal}
                    THEN [server EXCEPT ![room] = @ \union {m}] ELSE server
    /\ UNCHANGED <<session, heard, tasks, used>>

\* CommonClient updates its set at once; until the session is initialised the bridge keeps
\* the rest of the packet back.
RoomUpdate ==
    /\ link \in {"welcomed", "bound", "in"} /\ checked # Known(room)
    /\ checked' = Known(room)
    /\ checkedReady' = (link # "welcomed" \/ checkedReady)
    /\ UNCHANGED <<server, session, wire, submitted, tasks, used>>

-----------------------------------------------------------------------------
(* What the coroutines do with it *)

\* A wait begins: for an answer of the game's process, or for the socket.
Ask(t) ==
    /\ pc' = [pc EXCEPT ![t] = "identity"]
    /\ stale' = stale \ {t}
    /\ UNCHANGED sending

Send(t, requests) ==
    /\ pc' = [pc EXCEPT ![t] = "send"]
    /\ sending' = [sending EXCEPT ![t] = requests]
    /\ wire' = wire \union requests
    /\ stale' = stale \ {t}

Finish(t) ==
    /\ pc' = [pc EXCEPT ![t] = "idle"]
    /\ sending' = [sending EXCEPT ![t] = {}]
    /\ stale' = stale \ {t}

\* Mutant: the session the request was sent in is not compared.
SentAnyway(t) ==
    /\ pc[t] = "send"
    /\ submitted' = submitted \union (sending[t] \ {Goal})
    /\ Finish(t)

\* The socket has taken the request: it counts as submitted, in the session it was sent in.
Sent(t) ==
    /\ pc[t] = "send"
    /\ submitted' = IF t \in stale THEN submitted ELSE submitted \union (sending[t] \ {Goal})
    /\ Finish(t)

\* Sending raises, before or after the socket took the request, or the game's identity is
\* not answered: the caller tries again later.
GivesUp(t) ==
    /\ pc[t] # "idle" /\ MayFail /\ Spend("fault")
    /\ wire' \in {wire, wire \ sending[t]}
    /\ Finish(t)
    /\ UNCHANGED <<server, session, heard>>

\* StaleNativeResult: the answer belongs to a session that has ended.
Outdated(t) ==
    /\ pc[t] = "identity" /\ t \in stale
    /\ Finish(t)
    /\ UNCHANGED <<server, session, wire, heard, used>>

\* The process is started and connects again, packets are handled in turn, and every wait
\* ends.
LinkFairness ==
    /\ WF_linkVars(\E r \in Rooms : Start(r))
    /\ WF_linkVars(Open \/ Welcome \/ Initialize \/ Complete)
    /\ WF_linkVars(RoomUpdate)
    /\ WF_linkVars(\E m \in wire : ServerReceives(m))
=============================================================================
