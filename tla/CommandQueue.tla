---------------------------- MODULE CommandQueue ----------------------------
(***************************************************************************)
(* The file spool between the Python bridge (producer) and the native      *)
(* client (consumer), base/ap_queue in the game's directory.  The bridge   *)
(* publishes NAME.cmd; the native client claims it as NAME.processing,     *)
(* imports it into a memory queue, writes NAME.processing.attempt, calls   *)
(* the game, and deletes both files.  An interrupted or ambiguous attempt  *)
(* becomes NAME.failed; a receipt of another room becomes NAME.held.  The  *)
(* two processes share nothing but the directory, and either may die       *)
(* between any two file operations: one action is one such operation.      *)
(*                                                                         *)
(* A command is a natural number: its rank in the directory's name order,  *)
(* the order in which the consumer imports.  Safety gates of the game and  *)
(* retry back-off only decide WHICH eligible job is dispatched when, and   *)
(* are abstracted into the choice of Select.                               *)
(***************************************************************************)
EXTENDS Integers, FiniteSets, Sequences, SequencesExt

CONSTANTS
    Commands,          \* command identities, by rank of the file name
    Rooms, NoRoom,     \* Archipelago rooms (queue session namespaces)
    RoomOf,            \* room of a receipt; NoRoom for a generic command
    OccurrenceOf,      \* receipt occurrence a command belongs to
    NoOccurrence,
    DevJobs,           \* developer-lab jobs ("devtest-*")
    MapSafe,           \* MAP_ENTITY_SAFE commands: bound to their lease
    Leased,            \* commands published with the current lease
    Leases, NoLease,   \* materialization leases (epochs of a loaded map)
    Absent,            \* no such file
    MaxPublish,        \* bound: publications of one command
    MaxNative,         \* bound: starts of the native client
    MaxBridge,         \* bound: starts of the bridge
    MaxBinds,          \* bound: rooms bound by the bridge
    MaxLeases,         \* bound: changes of the lease
    MaxFaults          \* bound: file operations that fail

ASSUME CommandsAssumption == Commands \subseteq Nat
ASSUME RoomsAssumption ==
    /\ NoRoom \notin Rooms
    /\ RoomOf \in [Commands -> Rooms \union {NoRoom}]
\* An occurrence is a prefix of the file name, the room's namespace included.
ASSUME OccurrenceAssumption ==
    /\ DOMAIN OccurrenceOf = Commands
    /\ \A c, d \in Commands :
          OccurrenceOf[c] = OccurrenceOf[d] /\ OccurrenceOf[c] # NoOccurrence
          => RoomOf[c] = RoomOf[d] /\ RoomOf[c] # NoRoom
ASSUME ClassAssumption ==
    /\ DevJobs \subseteq Commands /\ MapSafe \subseteq Leased /\ Leased \subseteq Commands
    /\ DevJobs \intersect Leased = {}
    /\ \A c \in DevJobs : RoomOf[c] = NoRoom
ASSUME LeasesAssumption ==
    /\ NoLease \notin Leases
    /\ Absent \notin Leases \union {NoLease}
ASSUME BoundsAssumption ==
    /\ MaxPublish \in Nat /\ MaxNative \in Nat /\ MaxBridge \in Nat
    /\ MaxBinds \in Nat /\ MaxLeases \in Nat /\ MaxFaults \in Nat

VARIABLES
    (* the directory *)
    cmd,               \* [Commands -> Payload]: NAME.cmd and the lease it carries
    processing,        \* [Commands -> Payload]: NAME.processing, likewise
    attempt,           \* NAME.processing.attempt exists
    failed,            \* NAME.failed exists
    held,              \* NAME.held exists
    marker,            \* active_session_namespace: a room, or NoRoom
    lease,             \* materialization lease file: a lease, or NoLease
    (* the bridge *)
    bpc,               \* what the bridge is in the middle of
    bcmd,              \* the commands it is publishing or still has to look at
    room,              \* the room its queue authority is for, or NoRoom
    accepted,          \* commands publish() has returned success for
    (* the native client *)
    npc,               \* what the native client is in the middle of
    listing,           \* files of its directory snapshot still to be handled
    ns,                \* the namespace it read for this pass
    cleared,           \* startupNamespaceCleared
    queue,             \* the imported jobs, in order
    sel,               \* index of the selected job, 0 for none
    known,             \* knownCommandIds
    delivered,         \* deliveredSpools: executed, removal still pending
    cleanup,           \* jobs with attemptCleanupPending
    inflight,          \* requests of unknown outcome the game may still carry out
    (* history and bounds *)
    created,           \* [Commands -> Nat]: publications of a command
    effects,           \* [Commands -> Nat]: effects the game saw
    dropped,           \* commands discarded for a stale lease, or as unreadable
    granted,           \* rooms the bridge has published since the last native start
    used               \* how often each bounded thing has happened

disk    == <<cmd, processing, attempt, failed, held, marker, lease>>
bridge  == <<bpc, bcmd, room, accepted>>
native  == <<npc, listing, ns, cleared, queue, sel, known, delivered, cleanup,
             inflight>>
history == <<created, effects, dropped, granted, used>>
vars    == <<disk, bridge, native, history>>

Payload   == Leases \union {NoLease, Absent}
BridgePc  == {"down", "holdDev", "idle", "bind", "holdForeign", "probe", "link",
              "verifyFailed", "verifyProcessing", "withdrawFailed", "withdrawClaimed"}
NativePc  == {"off", "startup", "idle", "recover", "import", "discard", "dispatch", "check",
              "persist", "rpc", "remove", "removeAttempt", "quarantine"}
Bounded   == {"native", "bridge", "bind", "lease", "fault"}

Receipt(c)    == RoomOf[c] # NoRoom
CmdFiles      == {c \in Commands : cmd[c] # Absent}
ClaimFiles    == {c \in Commands : processing[c] # Absent}
Job           == queue[sel]
SameOccurrence(c, d) == OccurrenceOf[c] = OccurrenceOf[d] /\ OccurrenceOf[c] # NoOccurrence
Spend(what)   == used' = [used EXCEPT ![what] = @ + 1]
MayFail       == used["fault"] < MaxFaults

\* Nothing has ever been published and neither process runs.
Init ==
    /\ cmd = [c \in Commands |-> Absent] /\ processing = [c \in Commands |-> Absent]
    /\ attempt = {} /\ failed = {} /\ held = {} /\ marker = NoRoom /\ lease = NoLease
    /\ bpc = "down" /\ bcmd = {} /\ room = NoRoom /\ accepted = {}
    /\ npc = "off" /\ listing = {} /\ ns = NoRoom /\ cleared = FALSE
    /\ queue = <<>> /\ sel = 0 /\ known = {} /\ delivered = {} /\ cleanup = {}
    /\ inflight = {}
    /\ created = [c \in Commands |-> 0] /\ effects = [c \in Commands |-> 0]
    /\ dropped = {} /\ granted = {} /\ used = [b \in Bounded |-> 0]

-----------------------------------------------------------------------------
(* The bridge *)

\* A bridge starts: it owns no room yet; jobs of an earlier developer session are held.
BridgeStart ==
    /\ bpc = "down" /\ used["bridge"] < MaxBridge
    /\ bpc' = "holdDev" /\ bcmd' = DevJobs /\ room' = NoRoom
    /\ Spend("bridge")
    /\ UNCHANGED <<disk, accepted, native, created, effects, dropped, granted>>

\* hold_orphaned_dev_jobs takes the .cmd of a developer job or its .processing; what
\* cannot be moved stays.
HoldDev(c) ==
    /\ bpc = "holdDev" /\ c \in bcmd
    /\ bcmd' = bcmd \ {c}
    /\ \/ /\ cmd' = [cmd EXCEPT ![c] = Absent]
          /\ processing' = [processing EXCEPT ![c] = Absent]
          /\ held' = IF c \in CmdFiles \union ClaimFiles THEN held \union {c} ELSE held
          /\ UNCHANGED used
       \/ MayFail /\ Spend("fault") /\ UNCHANGED <<cmd, processing, held>>
    /\ UNCHANGED <<attempt, failed, marker, lease, bpc, room, accepted, native,
                   created, effects, dropped, granted>>

\* Removing the marker may fail, which is only logged.
ClearMarker ==
    \/ marker' = NoRoom /\ UNCHANGED used
    \/ MayFail /\ Spend("fault") /\ UNCHANGED marker

\* Start-up ends by removing whatever marker the previous bridge left.
BridgeReady ==
    /\ bpc = "holdDev" /\ bcmd = {}
    /\ bpc' = "idle" /\ ClearMarker
    /\ UNCHANGED <<cmd, processing, attempt, failed, held, lease, bcmd, room, accepted,
                   native, created, effects, dropped, granted>>

\* The bridge process dies wherever it is; the directory keeps what it holds.
BridgeCrash ==
    /\ bpc # "down" /\ used["bridge"] < MaxBridge /\ used["bind"] < MaxBinds
    /\ bpc' = "down" /\ bcmd' = {} /\ room' = NoRoom
    /\ UNCHANGED <<disk, accepted, native, history>>

\* Connection lost or identity in doubt: authority is withdrawn from the directory.
ResetAuthority ==
    /\ bpc = "idle" /\ room # NoRoom /\ used["bind"] < MaxBinds
    /\ room' = NoRoom /\ ClearMarker
    /\ UNCHANGED <<cmd, processing, attempt, failed, held, lease, bpc, bcmd, accepted,
                   native, created, effects, dropped, granted>>

\* A connected room is proven: authority of any other room is withdrawn first.
BeginBind(r) ==
    /\ bpc = "idle" /\ used["bind"] < MaxBinds
    /\ bpc' = "bind" /\ room' = r /\ ClearMarker
    /\ UNCHANGED <<cmd, processing, attempt, failed, held, lease, bcmd, accepted,
                   native, created, effects, dropped, granted>>

\* Its marker is published, and the receipts of other rooms still queued are listed.
PublishMarker ==
    /\ bpc = "bind"
    /\ bpc' = "holdForeign" /\ marker' = room /\ granted' = granted \union {room}
    /\ bcmd' = {c \in CmdFiles : Receipt(c) /\ RoomOf[c] # room}
    /\ Spend("bind")
    /\ UNCHANGED <<cmd, processing, attempt, failed, held, lease, room, accepted,
                   native, created, effects, dropped>>

\* It cannot be written: the bridge stays without authority.
BindFails ==
    /\ bpc = "bind" /\ MayFail /\ Spend("fault")
    /\ bpc' = "idle" /\ room' = NoRoom
    /\ UNCHANGED <<disk, bcmd, accepted, native, created, effects, dropped, granted>>

\* Mutant: a foreign receipt that cannot be moved is deleted.
HoldForeignOrDelete(c) ==
    /\ bpc = "holdForeign" /\ c \in bcmd
    /\ bcmd' = bcmd \ {c}
    /\ cmd' = [cmd EXCEPT ![c] = Absent]
    /\ \/ /\ held' = IF c \in CmdFiles THEN held \union {c} ELSE held
          /\ UNCHANGED used
       \/ MayFail /\ Spend("fault") /\ UNCHANGED held
    /\ UNCHANGED <<processing, attempt, failed, marker, lease, bpc, room, accepted,
                   native, created, effects, dropped, granted>>

\* One of them becomes .held, unless the consumer has claimed it meanwhile; what cannot
\* be moved stays.
HoldForeign(c) ==
    /\ bpc = "holdForeign" /\ c \in bcmd
    /\ bcmd' = bcmd \ {c}
    /\ \/ /\ cmd' = [cmd EXCEPT ![c] = Absent]
          /\ held' = IF c \in CmdFiles THEN held \union {c} ELSE held
          /\ UNCHANGED used
       \/ MayFail /\ Spend("fault") /\ UNCHANGED <<cmd, held>>
    /\ UNCHANGED <<processing, attempt, failed, marker, lease, bpc, room, accepted,
                   native, created, effects, dropped, granted>>

EndBind ==
    /\ bpc = "holdForeign" /\ bcmd = {}
    /\ bpc' = "idle"
    /\ UNCHANGED <<disk, bcmd, room, accepted, native, history>>

\* ensure_queue_session_namespace, called again by every later tick of the bridge.
EnsureMarker ==
    /\ bpc = "idle" /\ room # NoRoom /\ marker # room
    /\ marker' = room /\ granted' = granted \union {room}
    /\ UNCHANGED <<cmd, processing, attempt, failed, held, lease, bridge,
                   native, created, effects, dropped, used>>

\* A map has been materialized (or left): its lease is published (or removed).
PublishLease(l) ==
    /\ bpc = "idle" /\ lease # l /\ used["lease"] < MaxLeases
    /\ lease' = l
    /\ Spend("lease")
    /\ UNCHANGED <<cmd, processing, attempt, failed, held, marker, bridge, native,
                   created, effects, dropped, granted>>

\* A receipt's commands are published one after the other, each when the one before
\* it has been accepted, and a command before the last accepted one is not sent again.
InSequence(c) ==
    \A d \in Commands : SameOccurrence(c, d) =>
        /\ d < c => d \in accepted
        /\ d > c => d \notin accepted

\* CommandSpool.publish: a command that was given up is refused, one that is queued
\* counts as published, otherwise the consumer's claim is looked for next.
BeginPublish(c) ==
    /\ bpc = "idle" /\ created[c] < MaxPublish /\ InSequence(c)
    /\ Receipt(c) => room = RoomOf[c]
    /\ c \in Leased => lease # NoLease
    /\ c \notin failed
    /\ marker' = IF Receipt(c) THEN room ELSE marker
    /\ granted' = IF Receipt(c) /\ marker # room THEN granted \union {room} ELSE granted
    /\ IF c \in CmdFiles
          THEN /\ accepted' = accepted \union {c}
               /\ UNCHANGED <<bpc, bcmd>>
          ELSE /\ bpc' = "probe" /\ bcmd' = {c}
               /\ UNCHANGED accepted
    /\ UNCHANGED <<cmd, processing, attempt, failed, held, lease, room, native,
                   created, effects, dropped, used>>

Returned(c, success) ==
    /\ bpc' = "idle" /\ bcmd' = {}
    /\ accepted' = IF success THEN accepted \union {c} ELSE accepted

\* A claim under way counts as published too.
Probe(c) ==
    /\ bpc = "probe" /\ bcmd = {c}
    /\ IF c \in ClaimFiles
          THEN Returned(c, TRUE)
          ELSE bpc' = "link" /\ UNCHANGED <<bcmd, accepted>>
    /\ UNCHANGED <<disk, room, native, history>>

\* The exclusive rename of the written file, or the file that appeared meanwhile.
Link(c) ==
    /\ bpc = "link" /\ bcmd = {c}
    /\ IF c \in CmdFiles
          THEN Returned(c, TRUE) /\ UNCHANGED <<cmd, created>>
          ELSE /\ cmd' = [cmd EXCEPT ![c] = IF c \in Leased THEN lease ELSE NoLease]
               /\ created' = [created EXCEPT ![c] = @ + 1]
               /\ bpc' = "verifyFailed" /\ UNCHANGED <<bcmd, accepted>>
    /\ UNCHANGED <<processing, attempt, failed, held, marker, lease, room, native,
                   effects, dropped, granted, used>>

\* The file is there; has the command been given up while it was being written?
VerifyFailed(c) ==
    /\ bpc = "verifyFailed" /\ bcmd = {c}
    /\ bpc' = IF c \in failed THEN "withdrawFailed" ELSE "verifyProcessing"
    /\ UNCHANGED <<disk, bcmd, room, accepted, native, history>>

\* Has an older copy been claimed? (The new copy may be that claim as well.)
VerifyProcessing(c) ==
    /\ bpc = "verifyProcessing" /\ bcmd = {c}
    /\ IF c \in ClaimFiles
          THEN bpc' = "withdrawClaimed" /\ UNCHANGED <<bcmd, accepted>>
          ELSE Returned(c, TRUE)
    /\ UNCHANGED <<disk, room, native, history>>

\* The new copy is taken back, if it is still there.
Withdraw(c) ==
    /\ bpc \in {"withdrawFailed", "withdrawClaimed"} /\ bcmd = {c}
    /\ cmd' = [cmd EXCEPT ![c] = Absent]
    /\ Returned(c, bpc = "withdrawClaimed")
    /\ UNCHANGED <<processing, attempt, failed, held, marker, lease, room, native, history>>

\* A file cannot be written or removed: publish() reports failure, whatever it left.
PublishFails(c) ==
    /\ bpc \in {"link", "verifyFailed", "verifyProcessing", "withdrawFailed", "withdrawClaimed"}
    /\ bcmd = {c}
    /\ MayFail /\ Spend("fault")
    /\ Returned(c, FALSE)
    /\ UNCHANGED <<disk, room, native, created, effects, dropped, granted>>

\* The developer lab puts a held job back, which publishes it again.
ResumeDev(c) ==
    /\ bpc = "idle" /\ c \in DevJobs \intersect held /\ c \notin CmdFiles
    /\ created[c] < MaxPublish
    /\ cmd' = [cmd EXCEPT ![c] = NoLease]
    /\ held' = held \ {c}
    /\ created' = [created EXCEPT ![c] = @ + 1]
    /\ UNCHANGED <<processing, attempt, failed, marker, lease, bridge, native,
                   effects, dropped, granted, used>>

BridgeStep ==
    \/ BridgeStart \/ BridgeReady \/ BridgeCrash \/ ResetAuthority
    \/ PublishMarker \/ BindFails \/ EndBind \/ EnsureMarker
    \/ \E r \in Rooms : BeginBind(r)
    \/ \E l \in Leases \union {NoLease} : PublishLease(l)
    \/ \E c \in Commands :
          \/ HoldDev(c) \/ HoldForeign(c) \/ BeginPublish(c) \/ Probe(c) \/ Link(c)
          \/ VerifyFailed(c) \/ VerifyProcessing(c) \/ Withdraw(c) \/ PublishFails(c)
          \/ ResumeDev(c)
-----------------------------------------------------------------------------
(* The native client *)

\* May the pass that read namespace n handle this command?
Eligible(c, n) == Receipt(c) => RoomOf[c] = n

\* Mutant: a marker that could not be deleted is trusted.
NativeStartTrusting ==
    /\ npc = "off" /\ used["native"] < MaxNative
    /\ cleared' = TRUE /\ Spend("native")
    /\ \/ marker' = NoRoom
       \/ MayFail /\ UNCHANGED marker
    /\ npc' = "startup" /\ granted' = {}
    /\ listing' = {c \in ClaimFiles : Eligible(c, NoRoom)}
    /\ UNCHANGED <<cmd, processing, attempt, failed, held, lease, bridge, ns, queue, sel,
                   known, delivered, cleanup, inflight, created, effects, dropped>>

\* Initialize: the marker of the previous run is deleted (or that fails for now), and
\* only generic claims are recovered.
NativeStart ==
    /\ npc = "off" /\ used["native"] < MaxNative
    /\ \/ cleared' = TRUE /\ marker' = NoRoom /\ used' = [used EXCEPT !["native"] = @ + 1]
       \/ /\ MayFail /\ cleared' = FALSE /\ UNCHANGED marker
          /\ used' = [used EXCEPT !["native"] = @ + 1, !["fault"] = @ + 1]
    /\ npc' = "startup" /\ granted' = {}
    /\ listing' = {c \in ClaimFiles : Eligible(c, NoRoom)}
    /\ UNCHANGED <<cmd, processing, attempt, failed, held, lease, bridge, ns, queue, sel,
                   known, delivered, cleanup, inflight, created, effects, dropped>>

\* The client dies with all it remembers; a request it has submitted may still be run.
NativeCrash ==
    /\ npc # "off" /\ used["native"] < MaxNative
    /\ inflight' = IF npc = "rpc" THEN inflight \union {Job} ELSE inflight
    /\ npc' = "off" /\ listing' = {} /\ ns' = NoRoom /\ cleared' = FALSE
    /\ queue' = <<>> /\ sel' = 0 /\ known' = {} /\ delivered' = {} /\ cleanup' = {}
    /\ UNCHANGED <<disk, bridge, history>>

\* Each pass first retries the removal of what was executed, once its back-off is over:
\* first the claim, then the attempt, for which another try may be needed.
RetryRemoval(c) ==
    /\ npc = "idle" /\ c \in delivered
    /\ processing' = [processing EXCEPT ![c] = Absent]
    /\ \/ attempt' = attempt \ {c} /\ delivered' = delivered \ {c} /\ known' = known \ {c}
       \/ UNCHANGED <<attempt, delivered, known>>
    /\ UNCHANGED <<cmd, failed, held, marker, lease, bridge, npc, listing, ns, cleared,
                   queue, sel, cleanup, inflight, history>>

\* Mutant: the deletion of the start-up marker is not tried again.
BeginImportOnce ==
    /\ npc = "idle"
    /\ npc' = "recover"
    /\ ns' = IF cleared THEN marker ELSE NoRoom
    /\ listing' = {c \in ClaimFiles \ known : Eligible(c, ns')}
    /\ UNCHANGED <<disk, bridge, cleared, queue, sel, known, delivered, cleanup, inflight,
                   history>>

\* Import reads the active namespace, or first gets rid of the start-up marker, and
\* lists the claims it may recover.
BeginImport ==
    /\ npc = "idle"
    /\ npc' = "recover"
    /\ ns' = IF cleared THEN marker ELSE NoRoom
    /\ listing' = {c \in ClaimFiles \ known : Eligible(c, ns')}
    /\ \/ cleared /\ UNCHANGED <<cleared, marker, used>>
       \/ ~cleared /\ cleared' = TRUE /\ marker' = NoRoom /\ UNCHANGED used
       \/ ~cleared /\ MayFail /\ Spend("fault") /\ UNCHANGED <<cleared, marker>>
    /\ UNCHANGED <<cmd, processing, attempt, failed, held, lease, bridge, queue, sel, known,
                   delivered, cleanup, inflight, created, effects, dropped, granted>>

Recovering(c) == npc \in {"startup", "recover"} /\ c \in listing /\ listing' = listing \ {c}

\* Mutant: the claim is copied back, not moved.
RequeueCopies(c) ==
    /\ Recovering(c) /\ c \in ClaimFiles \ attempt
    /\ cmd' = [cmd EXCEPT ![c] = processing[c]]
    /\ UNCHANGED <<processing, attempt, failed, held, marker, lease, bridge, npc, ns, cleared,
                   queue, sel, known, delivered, cleanup, inflight, history>>

\* A claim without an attempt goes back into the spool, over whatever is there.
Requeue(c) ==
    /\ Recovering(c) /\ c \in ClaimFiles \ attempt
    /\ cmd' = [cmd EXCEPT ![c] = processing[c]]
    /\ processing' = [processing EXCEPT ![c] = Absent]
    /\ UNCHANGED <<attempt, failed, held, marker, lease, bridge, npc, ns, cleared, queue,
                   sel, known, delivered, cleanup, inflight, history>>

\* An interrupted attempt is given up.
GiveUpInterrupted(c) ==
    /\ Recovering(c) /\ c \in ClaimFiles \intersect attempt
    /\ processing' = [processing EXCEPT ![c] = Absent]
    /\ failed' = failed \union {c}
    /\ UNCHANGED <<cmd, attempt, held, marker, lease, bridge, npc, ns, cleared, queue, sel,
                   known, delivered, cleanup, inflight, history>>

\* The claim has gone in the meantime, or it cannot be moved in this pass.
LeaveClaim(c) ==
    /\ Recovering(c)
    /\ \/ c \notin ClaimFiles /\ UNCHANGED used
       \/ MayFail /\ Spend("fault")
    /\ UNCHANGED <<disk, bridge, npc, ns, cleared, queue, sel, known, delivered, cleanup,
                   inflight, created, effects, dropped, granted>>

\* Then the queued files are listed.
EndRecover ==
    /\ npc \in {"startup", "recover"} /\ listing = {}
    /\ \/ npc = "startup" /\ npc' = "idle" /\ UNCHANGED listing
       \/ npc = "recover" /\ npc' = "import" /\ listing' = CmdFiles
    /\ UNCHANGED <<disk, bridge, ns, cleared, queue, sel, known, delivered, cleanup,
                   inflight, history>>

\* The files of the snapshot are imported in name order.
Importing(c) ==
    /\ npc = "import" /\ c \in listing
    /\ \A d \in listing : c <= d
    /\ listing' = listing \ {c}

\* Mutant: .failed is not looked for.
ImportableAgain(c) == Eligible(c, ns)

Importable(c) == Eligible(c, ns) /\ c \notin failed

\* Left alone: of another room, given up, no longer there, already claimed, or the file
\* system refuses.
SkipQueued(c) ==
    /\ Importing(c)
    /\ \/ ~Importable(c) /\ UNCHANGED used
       \/ Importable(c) /\ c \notin known /\ c \notin CmdFiles \ ClaimFiles /\ UNCHANGED used
       \/ Importable(c) /\ MayFail /\ Spend("fault")
    /\ UNCHANGED <<disk, bridge, npc, ns, cleared, queue, sel, known, delivered, cleanup,
                   inflight, created, effects, dropped, granted>>

\* Another copy of what is in the queue, or executed and still to be removed.
DeleteDuplicate(c) ==
    /\ Importing(c) /\ Importable(c) /\ c \in known
    /\ cmd' = [cmd EXCEPT ![c] = Absent]
    /\ UNCHANGED <<processing, attempt, failed, held, marker, lease, bridge, npc, ns, cleared,
                   queue, sel, known, delivered, cleanup, inflight, history>>

\* The exclusive rename to .processing claims the command.
Claim(c) ==
    /\ Importing(c) /\ Importable(c) /\ c \notin known /\ c \in CmdFiles \ ClaimFiles
    /\ processing' = [processing EXCEPT ![c] = cmd[c]]
    /\ cmd' = [cmd EXCEPT ![c] = Absent]
    /\ queue' = Append(queue, c) /\ known' = known \union {c}
    /\ UNCHANGED <<attempt, failed, held, marker, lease, bridge, npc, ns, cleared, sel,
                   delivered, cleanup, inflight, history>>

\* What was claimed cannot be read: it is discarded, with a line in the log.
Unreadable(c) ==
    /\ Importing(c) /\ Importable(c) /\ c \notin known /\ c \in CmdFiles \ ClaimFiles
    /\ MayFail /\ Spend("fault")
    /\ cmd' = [cmd EXCEPT ![c] = Absent] /\ dropped' = dropped \union {c}
    /\ UNCHANGED <<processing, attempt, failed, held, marker, lease, bridge, npc, ns, cleared,
                   queue, sel, known, delivered, cleanup, inflight, created, effects, granted>>

EndImport ==
    /\ npc = "import" /\ listing = {}
    /\ npc' = "discard"
    /\ UNCHANGED <<disk, bridge, listing, ns, cleared, queue, sel, known, delivered, cleanup,
                   inflight, history>>

\* The job's lease is the one its claimed file carries; a map-bound job must have one.
LeaseMatches(c) == IF processing[c] \in {NoLease, Absent} THEN c \notin MapSafe
                                                         ELSE processing[c] = lease

\* The claim of a job that is dropped is deleted; nothing checks that it was.
Drop(c) ==
    /\ dropped' = dropped \union {c}
    /\ \/ processing' = [processing EXCEPT ![c] = Absent] /\ UNCHANGED used
       \/ MayFail /\ Spend("fault") /\ UNCHANGED processing

\* Map-bound jobs of a map that is gone are dropped, one after the other.
DiscardStale(i) ==
    /\ npc = "discard" /\ queue[i] \in MapSafe /\ ~LeaseMatches(queue[i])
    /\ Drop(queue[i])
    /\ known' = known \ {queue[i]} /\ cleanup' = cleanup \ {queue[i]}
    /\ queue' = RemoveAt(queue, i)
    /\ UNCHANGED <<cmd, attempt, failed, held, marker, lease, bridge, npc, listing, ns, cleared,
                   sel, delivered, inflight, created, effects, granted>>

EndDiscard ==
    /\ npc = "discard"
    /\ \A i \in 1..Len(queue) : queue[i] \in MapSafe => LeaseMatches(queue[i])
    /\ npc' = "dispatch"
    /\ UNCHANGED <<disk, bridge, listing, ns, cleared, queue, sel, known, delivered, cleanup,
                   inflight, history>>

\* Mutant: earlier commands of the occurrence are not waited for.
SelectAny(i) ==
    /\ npc = "dispatch" /\ LeaseMatches(queue[i])
    /\ sel' = i /\ npc' = "check"
    /\ UNCHANGED <<disk, bridge, listing, ns, cleared, queue, known, delivered, cleanup,
                   inflight, history>>

\* A job whose gate is open is selected: nothing of its occurrence is queued before it.
Select(i) ==
    /\ npc = "dispatch"
    /\ \A j \in 1..(i - 1) : ~SameOccurrence(queue[j], queue[i])
    /\ LeaseMatches(queue[i])
    /\ sel' = i /\ npc' = "check"
    /\ UNCHANGED <<disk, bridge, listing, ns, cleared, queue, known, delivered, cleanup,
                   inflight, history>>

\* No gate is open, or the spacing between commands is not over.
SelectNone ==
    /\ npc = "dispatch"
    /\ npc' = "idle"
    /\ UNCHANGED <<disk, bridge, listing, ns, cleared, queue, sel, known, delivered, cleanup,
                   inflight, history>>

\* The selected job leaves the memory queue and the pass is over.
LeaveQueue == queue' = RemoveAt(queue, sel) /\ cleanup' = cleanup \ {Job}
              /\ sel' = 0 /\ npc' = "idle"
Retry      == sel' = 0 /\ npc' = "idle"
Forget     == LeaveQueue /\ known' = known \ {Job}

\* Its room must still be the published one.
RoomIsActive(c) == Receipt(c) => cleared /\ marker = RoomOf[c]

\* Mutant: the claim is deleted.
CheckDeletes ==
    /\ npc = "check" /\ (Job \notin ClaimFiles \/ ~RoomIsActive(Job))
    /\ Forget /\ processing' = [processing EXCEPT ![Job] = Absent]
    /\ UNCHANGED <<cmd, attempt, failed, held, marker, lease, bridge, listing, ns, cleared,
                   delivered, inflight, history>>

\* Its file has been taken away, or its room is not active: the file stays as it is.
CheckForgets ==
    /\ npc = "check" /\ (Job \notin ClaimFiles \/ ~RoomIsActive(Job))
    /\ Forget
    /\ UNCHANGED <<disk, bridge, listing, ns, cleared, delivered, inflight, history>>

CheckStale ==
    /\ npc = "check" /\ Job \in ClaimFiles /\ RoomIsActive(Job) /\ ~LeaseMatches(Job)
    /\ IF Job \in MapSafe
          THEN Forget /\ Drop(Job)
          ELSE Retry /\ UNCHANGED <<processing, queue, known, cleanup, dropped, used>>
    /\ UNCHANGED <<cmd, attempt, failed, held, marker, lease, bridge, listing, ns, cleared,
                   delivered, inflight, created, effects, granted>>

CheckPasses ==
    /\ npc = "check" /\ Job \in ClaimFiles /\ RoomIsActive(Job) /\ LeaseMatches(Job)
    /\ npc' = "persist"
    /\ UNCHANGED <<disk, bridge, listing, ns, cleared, queue, sel, known, delivered, cleanup,
                   inflight, history>>

\* An attempt file the previous try could not remove goes first.
CleanAttempt ==
    /\ npc = "persist" /\ Job \in cleanup
    /\ attempt' = attempt \ {Job} /\ cleanup' = cleanup \ {Job}
    /\ UNCHANGED <<cmd, processing, failed, held, marker, lease, bridge, npc, listing, ns,
                   cleared, queue, sel, known, delivered, inflight, history>>

\* The attempt is recorded, durably, before the game is called.
PersistAttempt ==
    /\ npc = "persist" /\ Job \notin cleanup /\ Job \in ClaimFiles /\ Job \notin attempt
    /\ attempt' = attempt \union {Job}
    /\ npc' = "rpc"
    /\ UNCHANGED <<cmd, processing, failed, held, marker, lease, bridge, listing, ns, cleared,
                   queue, sel, known, delivered, cleanup, inflight, history>>

\* It cannot be: the claim is gone, or an attempt file is there that is not this job's.
PersistRefused ==
    /\ npc = "persist" /\ Job \notin cleanup /\ (Job \notin ClaimFiles \/ Job \in attempt)
    /\ Retry
    /\ UNCHANGED <<disk, bridge, listing, ns, cleared, queue, known, delivered, cleanup,
                   inflight, history>>

\* Or the file system refuses, and may even keep the half-written attempt.
PersistFails ==
    /\ npc = "persist" /\ MayFail /\ Spend("fault")
    /\ Retry
    /\ \/ UNCHANGED <<attempt, cleanup>>
       \/ /\ Job \in ClaimFiles \ attempt
          /\ attempt' = attempt \union {Job} /\ cleanup' = cleanup \union {Job}
    /\ UNCHANGED <<cmd, processing, failed, held, marker, lease, bridge, listing, ns, cleared,
                   queue, known, delivered, inflight, created, effects, dropped, granted>>

Effect(c) == effects' = [effects EXCEPT ![c] = @ + 1]

\* The game has carried out the command and the client knows it.
RpcDelivered ==
    /\ npc = "rpc"
    /\ Effect(Job) /\ npc' = "remove"
    /\ UNCHANGED <<disk, bridge, listing, ns, cleared, queue, sel, known, delivered, cleanup,
                   inflight, created, dropped, granted, used>>

\* It was refused before it reached the game: to be tried again.
RpcRejected ==
    /\ npc = "rpc" /\ MayFail /\ Spend("fault")
    /\ Retry
    /\ \/ attempt' = attempt \ {Job} /\ UNCHANGED cleanup
       \/ cleanup' = cleanup \union {Job} /\ UNCHANGED attempt
    /\ UNCHANGED <<cmd, processing, failed, held, marker, lease, bridge, listing, ns, cleared,
                   queue, known, delivered, inflight, created, effects, dropped, granted>>

\* Mutant: a request that timed out is tried again like a rejected one.
RpcAmbiguousRetries ==
    /\ npc = "rpc"
    /\ inflight' = inflight \union {Job} /\ attempt' = attempt \ {Job} /\ Retry
    /\ UNCHANGED <<cmd, processing, failed, held, marker, lease, bridge, listing, ns, cleared,
                   queue, known, delivered, cleanup, history>>

\* No answer: the game may have carried it out, may still do so, or never will.
RpcAmbiguous ==
    /\ npc = "rpc"
    /\ inflight' = inflight \union {Job} /\ npc' = "quarantine"
    /\ UNCHANGED <<disk, bridge, listing, ns, cleared, queue, sel, known, delivered, cleanup,
                   history>>

LateEffect(c) ==
    /\ c \in inflight
    /\ inflight' = inflight \ {c} /\ Effect(c)
    /\ UNCHANGED <<disk, bridge, npc, listing, ns, cleared, queue, sel, known, delivered,
                   cleanup, created, dropped, granted, used>>

\* Mutant: the attempt goes first and the claim stays.
RemoveClaimLater ==
    /\ npc = "remove"
    /\ attempt' = attempt \ {Job} /\ npc' = "removeAttempt"
    /\ UNCHANGED <<cmd, processing, failed, held, marker, lease, bridge, listing, ns, cleared,
                   queue, sel, known, delivered, cleanup, inflight, history>>

\* SpoolRemoved: first the claim ...
RemoveClaim ==
    /\ npc = "remove"
    /\ processing' = [processing EXCEPT ![Job] = Absent] /\ npc' = "removeAttempt"
    /\ UNCHANGED <<cmd, attempt, failed, held, marker, lease, bridge, listing, ns, cleared,
                   queue, sel, known, delivered, cleanup, inflight, history>>

\* ... then the attempt, and the job is done.
RemoveAttempt ==
    /\ npc = "removeAttempt"
    /\ attempt' = attempt \ {Job} /\ Forget
    /\ UNCHANGED <<cmd, processing, failed, held, marker, lease, bridge, listing, ns, cleared,
                   delivered, inflight, history>>

\* Mutant: the removal is not retried.
RemovalFailsForGood ==
    /\ npc \in {"remove", "removeAttempt"} /\ MayFail /\ Spend("fault")
    /\ LeaveQueue
    /\ UNCHANGED <<disk, bridge, listing, ns, cleared, known, delivered, inflight, created,
                   effects, dropped, granted>>

\* Either may fail: the job is remembered as executed until a later pass removes it.
RemovalFails ==
    /\ npc \in {"remove", "removeAttempt"} /\ MayFail /\ Spend("fault")
    /\ LeaveQueue /\ delivered' = delivered \union {Job}
    /\ UNCHANGED <<disk, bridge, listing, ns, cleared, known, inflight, created, effects,
                   dropped, granted>>

\* QuarantineFailedJob: the ambiguous job is given up; nothing checks that the move worked.
Quarantine ==
    /\ npc = "quarantine"
    /\ Forget
    /\ \/ /\ Job \in ClaimFiles
          /\ processing' = [processing EXCEPT ![Job] = Absent]
          /\ failed' = failed \union {Job} /\ UNCHANGED used
       \/ Job \notin ClaimFiles /\ UNCHANGED <<processing, failed, used>>
       \/ MayFail /\ Spend("fault") /\ UNCHANGED <<processing, failed>>
    /\ UNCHANGED <<cmd, attempt, held, marker, lease, bridge, listing, ns, cleared, delivered,
                   inflight, created, effects, dropped, granted>>

NativeStep ==
    \/ NativeStart \/ NativeCrash \/ BeginImport \/ EndRecover \/ EndImport
    \/ EndDiscard \/ SelectNone \/ CheckForgets \/ CheckStale \/ CheckPasses
    \/ CleanAttempt \/ PersistAttempt \/ PersistRefused \/ PersistFails
    \/ RpcDelivered \/ RpcRejected \/ RpcAmbiguous
    \/ RemoveClaim \/ RemoveAttempt \/ RemovalFails \/ Quarantine
    \/ \E c \in Commands :
          \/ RetryRemoval(c) \/ Requeue(c) \/ GiveUpInterrupted(c) \/ LeaveClaim(c)
          \/ SkipQueued(c) \/ DeleteDuplicate(c) \/ Claim(c) \/ Unreadable(c)
          \/ LateEffect(c)
    \/ \E i \in 1..Len(queue) : DiscardStale(i) \/ Select(i)

Next == BridgeStep \/ NativeStep

Spec == Init /\ [][Next]_vars
-----------------------------------------------------------------------------
(* Fairness: both loops keep running, a crashed process is started again, a connection *)
(* that was lost comes back, and a job that stays eligible is eventually dispatched.    *)

SelectJob(c) == \E i \in 1..Len(queue) : queue[i] = c /\ Select(i)

Fairness ==
    /\ WF_vars(BridgeStart) /\ WF_vars(BridgeReady) /\ WF_vars(PublishMarker)
    /\ WF_vars(EndBind) /\ WF_vars(EnsureMarker)
    /\ WF_vars(room = NoRoom /\ \E r \in Rooms : BeginBind(r))
    /\ WF_vars(\E c \in Commands : \/ HoldDev(c) \/ HoldForeign(c) \/ Probe(c) \/ Link(c)
                                   \/ VerifyFailed(c) \/ VerifyProcessing(c) \/ Withdraw(c))
    /\ WF_vars(NativeStart) /\ WF_vars(BeginImport)
    /\ WF_vars(\E c \in Commands : Requeue(c) \/ GiveUpInterrupted(c) \/ LeaveClaim(c))
    /\ WF_vars(EndRecover)
    /\ WF_vars(\E c \in Commands : SkipQueued(c) \/ DeleteDuplicate(c) \/ Claim(c))
    /\ WF_vars(EndImport) /\ WF_vars(EndDiscard) /\ WF_vars(SelectNone)
    /\ WF_vars(\E i \in 1..Len(queue) : DiscardStale(i))
    /\ \A c \in Commands : SF_vars(SelectJob(c)) /\ SF_vars(RetryRemoval(c))
    /\ WF_vars(CheckForgets) /\ WF_vars(CheckStale) /\ WF_vars(CheckPasses)
    /\ WF_vars(CleanAttempt \/ PersistAttempt \/ PersistRefused)
    /\ WF_vars(RpcDelivered \/ RpcAmbiguous)
    /\ WF_vars(RemoveClaim) /\ WF_vars(RemoveAttempt) /\ WF_vars(Quarantine)

FairSpec == Spec /\ Fairness

-----------------------------------------------------------------------------
(* Correctness *)

\* A claim that may still have its one effect: being run, of unknown outcome, or a
\* claimed file without an attempt (or with one the next try is going to remove).
Claimed(c) == \/ npc = "rpc" /\ Job = c
              \/ c \in inflight
              \/ c \in ClaimFiles /\ (c \notin attempt \/ c \in cleanup)

Credit == [c \in Commands |-> (IF c \in CmdFiles THEN 1 ELSE 0) + (IF Claimed(c) THEN 1 ELSE 0)]

TypeOK ==
    /\ cmd \in [Commands -> Payload] /\ processing \in [Commands -> Payload]
    /\ attempt \subseteq Commands /\ failed \subseteq Commands /\ held \subseteq Commands
    /\ marker \in Rooms \union {NoRoom} /\ lease \in Leases \union {NoLease}
    /\ bpc \in BridgePc /\ bcmd \subseteq Commands
    /\ room \in Rooms \union {NoRoom} /\ accepted \subseteq Commands
    /\ npc \in NativePc /\ listing \subseteq Commands /\ ns \in Rooms \union {NoRoom}
    /\ cleared \in BOOLEAN
    /\ queue \in Seq(Commands) /\ sel \in 0..Len(queue)
    /\ known \subseteq Commands /\ delivered \subseteq Commands /\ cleanup \subseteq Commands
    /\ inflight \subseteq Commands
    /\ created \in [Commands -> Nat] /\ effects \in [Commands -> Nat]
    /\ dropped \subseteq Commands /\ granted \subseteq Rooms \union {NoRoom}
    /\ used \in [Bounded -> Nat]

\* A publication of a command has at most one effect in the game, whatever process dies
\* wherever and whatever file operation fails: the .attempt file, the ids the consumer
\* remembers and the removal order in SpoolRemoved together keep a command from being run
\* again.
AtMostOncePerPublication == \A c \in Commands : effects[c] <= created[c]

\* A command that was given up (.failed) is never imported again, from a file that comes
\* back while the bridge has not yet withdrawn it, and no job still in memory is submitted
\* to the game after its command has been given up.
NeverReplayed ==
    [][/\ known' \intersect failed \subseteq known
       /\ npc # "rpc" /\ npc' = "rpc" => queue[sel] \notin failed]_vars

\* A request whose outcome is unknown, so that the game may still carry it out, is never
\* submitted a second time: its attempt file survives restarts, quarantine and clean-up.
UncertainNotResubmitted ==
    /\ inflight \subseteq attempt
    /\ npc = "rpc" => Job \notin inflight

\* A receipt the bridge has been told is published is not lost without a trace: it is in
\* the spool, was applied, or is visibly given up, held or discarded with its map.
NoSilentLoss ==
    \A c \in accepted : Receipt(c) =>
        \/ c \in CmdFiles \union ClaimFiles \union failed \union held \union dropped
        \/ effects[c] > 0

\* After a start of the native client a receipt is only dispatched for a room that the
\* bridge has published since then, even if deleting the old marker failed at start-up.
RestartRevokesAuthority ==
    npc \in {"persist", "rpc"} /\ Receipt(Job) => RoomOf[Job] \in granted

\* Two copies of the same job are never in the memory queue, and everything in it or
\* awaiting removal is still known, so that a second copy in the spool is deleted.
QueueIsDeduplicated ==
    /\ \A i, j \in 1..Len(queue) : queue[i] = queue[j] => i = j
    /\ \A i \in 1..Len(queue) : queue[i] \in known \ delivered
    /\ delivered \subseteq known

\* The steps between which the consumer holds a selected job.
Busy == {"check", "persist", "rpc", "remove", "removeAttempt", "quarantine"}

Selection == IF npc \in Busy THEN sel \in 1..Len(queue) ELSE sel = 0

\* No more effects than publications, counting those the files may still have.
CreditBound == \A c \in Commands : effects[c] + Credit[c] <= created[c]

\* What the consumer has in memory is disjoint from what was given up and from what it
\* may recover.
Memory ==
    /\ QueueIsDeduplicated
    /\ known \intersect failed = {}
    /\ npc \in {"off", "startup"} => known = {}
    /\ npc \in {"startup", "recover"} => listing \intersect known = {}

\* A job under way has an attempt that no clean-up removes; once its claim is deleted no
\* file is left to run it from.
Attempts ==
    /\ UncertainNotResubmitted
    /\ inflight \intersect (cleanup \union delivered) = {}
    /\ npc = "rpc" => Job \in attempt \ cleanup
    /\ npc \in {"remove", "removeAttempt"} => Job \notin inflight
    /\ npc = "removeAttempt" => Job \notin ClaimFiles

\* Why a publication has at most one effect and a command given up is not run again: the
\* invariant that every step of either process preserves.
ConsumerInvariant == Selection /\ Memory /\ Attempts /\ CreditBound

\* The commands of one receipt occurrence reach the game in order, crashes included, as
\* long as no room was bound a second time and no file operation has failed (a job that
\* leaves the memory queue for either reason comes back behind its successors).
OccurrenceOrder ==
    [][\A c, d \in Commands :
          /\ SameOccurrence(c, d) /\ d < c /\ npc # "rpc" /\ npc' = "rpc" /\ queue[sel] = c
          /\ used["bind"] <= 1 /\ used["fault"] = 0
          => d \notin (CmdFiles \union ClaimFiles) \ failed]_vars

Settled(c) == effects[c] > 0 \/ c \in failed \union held \union dropped

\* A receipt accepted for publication is eventually applied, or visibly given up, held or
\* discarded with its map, even if either process dies on the way.
ReceiptsSettle == \A c \in Commands : c \in accepted /\ Receipt(c) ~> Settled(c)

\* What was applied is eventually removed from the directory, or given up after a crash.
AppliedIsRemoved ==
    \A c \in Commands :
        effects[c] > 0 ~> (c \notin ClaimFiles \/ effects[c] < created[c] \/ c \in failed)

-----------------------------------------------------------------------------
(* The ledger the queue implements *)

Ledger == INSTANCE EffectLedger WITH credit <- Credit

\* Every step of the two processes is a step of the ledger: publication adds a credit, an
\* effect takes one, and nothing the consumer does to its files makes one.
ImplementsLedger == Ledger!Spec
=============================================================================
