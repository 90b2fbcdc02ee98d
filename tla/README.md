# A TLA+ model of the DOOM Eternal Archipelago bridge

This directory holds a TLA+ development of the run-time part of the DOOM Eternal
Archipelago mod: what happens between an item the multiworld server sends and its one effect
in the running game, what happens between a check made in the game and the server's record of
it, and how deaths are shared between players.  TLC checks the models on small instances;
TLAPS proves, for every value of the constants, each invariant and each action property that
a passing run checks; liveness is model-checked only.

Paths below are relative to `src/`.

## The system

| component | state | operations | hard behaviour | model |
|---|---|---|---|---|
| Command queue (`native/client/command_queue.cpp`, `doom_eap/runtime/command_spool.py`) | a directory: `NAME.cmd`, `.processing`, `.attempt`, `.failed`, `.held`, the room marker, the materialization lease; the consumer's memory queue and id sets | publish, claim, recover, discard, dispatch, persist attempt, call the game, remove, quarantine; hold and resume | two processes without a lock; either dies between two file operations; a request without an answer may still be carried out; operations fail | `CommandQueue` |
| Receipt delivery (`receipt_delivery.py`, `item_reconciliation.py`, `bridge_client.py`) | the cursor, item ids, identity counts and command progress of a room in `client_state.json`; a copy in memory | bind a room, observe the history, publish a receipt's commands one by one, or defer them; record each, acknowledge; publish deferred frag items later | awaits in the middle, effects published behind the cursor, change of room, rollback of the server, a crash between publication and record, failing writes | `ReceiptDelivery` |
| Weapon points (`weapon_points.py`, `receipt_delivery.py`, `native_worker.py`) | a ledger of receipts in `client_state.json`, the native total of points ever earned | rebuild, record, settle, grant with an expected total | two ledgers that must agree after a lost answer, a loaded checkpoint, a lost file | `WeaponPoints` |
| Location checks (`check_publication.py`, `publisher_*.py`, `bridge_client.py`) | event files in one directory, the room it is bound to, what was submitted and acknowledged | bind, set aside, submit, acknowledge, delete | the files do not name a room; what is submitted may be lost with the connection or the process; stale answers | `RoomLink`, `LocationChecks` |
| Goals (`goal_progress.py`, `goal_admitted` in `unified_campaign.py`) | whether the goal was reported on this connection | admit to the goal stage, evaluate against the server's record | a result that outlives its connection | `LocationChecks` |
| Save observation and kills (`killsanity.py`, `save_checks.py`, `save_check_observation.py`) | a kill cursor and total, baselines of the player's saves, changes pending | consume a counter, look at a save, report | a counter that starts anew with the game; a change that can be seen only once | `SaveChecks` |
| DeathLink (`deathlink_*.py`, the death monitor in `bridge_client.py`) | a bounded queue, deadlines, the suppression of an echo; ids seen and the count of deaths in `client_state.json` | receive, advance in a worker thread, confirm a local death, abandon, count and send own deaths | a copy advanced in a thread while packets change the original; late deaths against time-outs | `DeathLink` |
| Materialization (`materialization*.py`, `lifecycle.py`, `bootstrap*.py`) | epochs of a loaded map, a plan and its progress, the lease | load, plan, publish, complete | the map changes under a plan | the lease only |
| Transient effects (`transient_effects.py`, `ammo_refill.py`) | timed console variables | set, expire, restore | deadlines | no |
| Task supervision (`task_supervision.py`, `native_worker.py`) | generations of background tasks | start, cancel | late results | within each module |
| Save files, presentation, platform glue, launcher, content, tools | | | pure input, formatting, or installation | no |

The Archipelago server sends the whole ordered history of a slot, then what follows it. The
bridge compares it with its ledger, and for each receipt behind the cursor publishes the
commands of the item into the spool, records each publication in `client_state.json`, and moves
the cursor.  An item that the map at hand cannot take is only announced, and its effect is left
to the materialization of owned items, or, for the frag grenade and its upgrades, to a flush
behind the cursor.  The native client claims files in name order, keeps them in a memory queue,
and dispatches one at a time when the game is in a state that can take it: it writes an attempt
file, calls the game, and removes first the claim, then the attempt.  A marker file names the
room whose receipts may be run; a lease file names the loaded map.  A weapon point takes no
command: the bridge asks a native owner in the game's process directly.

In the other direction the game leaves a file for each check, raises a counter with each
kill and writes its saves.  Coroutines of the bridge look at these, ask the game's process
who it is, send what is new, and remember what they have sent; the server's record, which
comes back in packets, is what finally settles a check and, when it holds all objectives,
the goal.  Bridge and native client share nothing but the directories.  Each is started
again by the launcher or the player.

What makes each part correct:

* *queue*: a publication has at most one effect; a job whose outcome is unknown is never
  submitted again; what was given up stays given up; nothing the bridge was told is published
  disappears without a trace; the order within a receipt; a restarted bridge revokes what it
  had authorised; every accepted receipt is eventually settled.
* *delivery*: no receipt is skipped, and what is put off is remembered or left to
  materialization; none is published again unless a process ended in the middle; order; the
  ledger of a room follows that room's server only; nothing read before an await is used after
  a change; every receipt is eventually acknowledged.
* *weapon points*: the native total never exceeds what the room has sent, is always explained
  by the ledger on disk, and reaches it; no point for another history's receipt.
* *checks*: a check made in the game is known to the server or still on disk; a room is told of
  its own checks only; the goal follows the server's record and the admission to it; every file
  settles.
* *saves and kills*: kills are counted exactly; only what was earned is reported; a change that
  was seen is pending until the server has it.
* *DeathLink*: a link is queued once per room, hides one local death and is not sent back as
  the player's own; every n-th local death is sent; no link waits for ever.
* *materialization* (not modelled): a plan of an earlier epoch has no effect in a later one.

`PROJECT.json` lists every component with its status, and every hazard with its line.

## Modules

| module | models |
|---|---|
| `EffectLedger` | the promise of the queue: a publication is a credit, an effect takes one, a credit may be lost, the consumer never makes one |
| `CommandQueue` | the directory, the bridge's side and the native client's side of the queue; `Ledger` is its refinement mapping to `EffectLedger` |
| `CommandQueueProofs` | theorems about `CommandQueue`: types, one effect per publication, no replay, the refinement |
| `SpoolProofs` | theorems about receipts in `CommandQueue`: nothing lost, authority, order; extends `CommandQueueProofs` |
| `ReceiptDelivery` | the delivery loop of the bridge, its ledger, the room, the connection and the process |
| `ReceiptDeliveryProofs` | theorems about `ReceiptDelivery` |
| `WeaponPoints` | the ledger of weapon points, a run of the delivery over it, the native owner and the game's checkpoints |
| `WeaponPointsProofs` | theorems about `WeaponPoints` |
| `RoomLink` | the connection to the server as far as reporting depends on it: sessions, requests that may be lost, the waits of the reporting coroutines and what invalidates them |
| `LocationChecks` | extends `RoomLink`: event files of checks and of map events, the binding of their directory, the report of the goal |
| `LocationChecksProofs` | theorems about `LocationChecks` |
| `SaveChecks` | extends `RoomLink`: kill milestones, masteries, challenges and aggregates |
| `SaveChecksProofs` | theorems about `SaveChecks` |
| `DeathLink` | the receiver, the session, the death monitor with its worker thread, and the persisted part of both |
| `DeathLinkProofs` | theorems about `DeathLink` |
| `MCCommandQueue`, `MCReceiptDelivery`, `MCWeaponPoints`, `MCLocationChecks`, `MCSaveChecks`, `MCDeathLink` | the constants of the instances TLC checks |

An operator whose comment begins with "Mutant:" is no part of a model: it is a plausible
mistake in the definition below it, and `PROJECT.json` says which property finds it.

### CommandQueue and the code

One action is one file operation, or one test whose result is used by a later one, because
the other process can act between any two.

* A command is a number, its rank in the name order in which the consumer imports.  `cmd`
  and `processing` hold the lease a file carries, or `Absent`; `attempt`, `failed` and
  `held` are sets of names.  The content of a file is otherwise not modelled.
* `CommandSpool.publish` is `BeginPublish`, `Probe`, `Link`, `VerifyFailed`,
  `VerifyProcessing`, `Withdraw`, `PublishFails`: the tests before the link, the exclusive
  link, the tests after it, and the withdrawal they may lead to.  `bpc` is the place in it.
  `accepted` is what `publish()` has returned success for; `InSequence` is the caller's
  part, the commands of a receipt one after the other.
* A bridge that starts sets developer jobs aside (`HoldDev`) and removes the marker
  (`BridgeReady`).  `BeginBind`, `PublishMarker`, `BindFails`, `HoldForeign`, `EndBind` are
  the binding of a room, `EnsureMarker` the repair of the marker by later ticks,
  `PublishLease` the lease, `ResumeDev` the developer lab.
* `Initialize` of the consumer is `NativeStart` with the recovery of generic claims; a pass
  is `RetryRemoval`, `BeginImport`, recovery (`Requeue`, `GiveUpInterrupted`, `LeaveClaim`),
  import (`SkipQueued`, `DeleteDuplicate`, `Claim`, `Unreadable`), `DiscardStale`, and
  dispatch: `Select`, the checks, `PersistAttempt`, the call, and `RemoveClaim`,
  `RemoveAttempt` or `Quarantine`.  `npc` is the place in a pass.
* The answer of a request may be delivered, rejected before the game saw it, or ambiguous;
  an ambiguous one may have its effect at once, later (`LateEffect`) or never, and so may
  the one under way when the client dies.
* A failing file operation spends one of `MaxFaults`.  The fault that the code does not
  look at (the move in `QuarantineFailedJob`, the deletion of a dropped claim, the marker)
  leaves the file where it is and goes on, as the code does.
* Safety gates (is the player in a map, alive, in a menu), spacing and back-off only choose
  which eligible job is dispatched next and when: they are the choice of `Select` and
  `SelectNone`.

### ReceiptDelivery and the code

The bridge is one thread of coroutines: actions of the environment (packets, lost
connections, change of room, rollback) are possible only where the delivery task awaits
(`await`, `ready`, `settle`), at the end of a batch (`yield`) and between two runs (`none`); a
crash is possible everywhere.  `mem` is the ledger in memory, `saved` the one in
`client_state.json`; a commit changes both, and one that fails rolls memory back and blocks
delivery until the process ends (`Block`).  `sent` counts what the spool accepted, per room,
position and ordinal; the notification that is published alone is ordinal 0.  `dups` is what
`observe_received_items` classified as duplicates in this run.

* The kinds of item are constants: those with a group of commands (progress in `groups`), the
  last of which is the notification; those confirmed by a native owner, with one notification
  (`Owned`, progress in `notified`); those that are only acknowledged (`Commands[x] = 0`).
  `Deferrable` are the items of the branch `bridge_client.py:3947-3991`, `Waiting` those that
  may hold the cursor instead (3870-3888, 3992-4004).  An item may be both: which of the two
  happens depends on campaign and map, which the model leaves open.
* At the await of a receipt there are four outcomes: `Resume` (the item can be given),
  `Defer` (the notification alone, then the receipt is acknowledged), `Hold` (the receipt keeps
  the cursor and the loop ends), `GiveWay` (the session has changed and the run ends).
* A deferred frag item enters `frags`, which is `deferred_frag_items`.  What any other deferred
  item does is left to materialization; `left` names those receipts, for the properties only.
* `way` says what is being published: the whole group, the notification alone (`notify`), or
  the effects of a frag item in the flush before the loop (`first`, from
  `_reconcile_native_receipt_owners`) or after it (`last`).  The flush is `LeaveLoop`,
  `FlushStarts` or `FlushIsPutOff`, `FlushNext` (the grenade first, then the upgrades, if there
  is a grenade), the publication, `Forget`, and `FlushEnds`.  `settle` is any later await of
  the run that gives up a session that has changed.
* Left out: the receipts whose notification is switched off or suppressed (they have a command
  less); the starting equipment in `_has_received_frag`; the empty progress record that a refused
  first command leaves.  The blood punch, the support runes and the crucible are items like other
  deferrable ones here, although the code always defers the first two and lets the slot's special
  weapon decide on the third.  What materialization, the blood punch repair and manual resync
  publish has names of its own in the spool and is not in `sent`; mapping repair, which publishes
  receipts again under the names they had, is not modelled.  Every acknowledgement of a group
  may be followed by the yield that the code has after a batch.

### WeaponPoints and the code

Only the weapon point receipts of a room are counted, from 1, and totals are in units of
`AMOUNT`.  `gained` is the native total of the running game, `checkpoint` that of its last
checkpoint, `late` the requests whose caller has stopped waiting.

* A run of `process_pending_item_receipts` is `BeginRun` (the settling of earlier points, at
  `at = 0`), `NextReceipt`, `Owner` (the wait for the native owner, and the history taken
  from `items_received` at that moment), `Rebuild` (the ledger of a session that has none),
  `Record`, `Observe`, `Grant` for each missing point, and `Acknowledge`.  Each wait may find
  the session stale (`Stale`, the code's `StaleNativeResult`) or end without an answer
  (`NoAnswer`); each write may fail (`WriteFails`, which blocks the session as
  `_block_item_state` does).
* A request names the total it expects; the native owner adds a point only to that total.
  One that nobody waits for any more may still be carried out (`LateGrant`), once.
* `GameLoads` returns to the checkpoint, `LoseState` removes `client_state.json` while no
  bridge runs, `ServerRollback` restores an earlier save of the server, after which the
  history may go another way.

### RoomLink, LocationChecks, SaveChecks and the code

`RoomLink` is what both modules of checks share.  `link` is the place in the handshake:
`Open`, `Welcome` (the client library handles `Connected`), `Initialize`
(`initialize_item_state`), `Complete` (the placements are scouted), `Lose`.  `checked` and
`submitted` are `checked_locations` and `locations_checked`; `wire` is what was sent and not
read by the server, lost with the connection, in no fixed order.  A coroutine of `Tasks`
waits for the game's identity (`Ask`) or for the socket (`Send`, `Sent`), and `stale` names
those whose session was invalidated meanwhile.  One process serves one room, because the
client library refuses another multiworld; the room changes with the process.  The moment
between the opening of the socket and the sending of `Connect` is left out.

`LocationChecks` has three coroutines.

* `flush`: a round of `flush_check_event_files`.  `FlushClaims` binds the directory and sets
  aside what lies in it (`check_and_update_event_session`), `ClaimFails` is a move that
  fails: the room is not written, and the next round goes on.  `FlushSends` is the rest of
  the round up to the socket: acknowledged files go, files of no location of the slot are
  set aside, the remaining ones are submitted unless this process has done so.
* `event`: `check_campaign_goal_event` and the publishers, one map event file per round.
* `goal`: `GoalProgress.evaluate`, with its guard `Admitted` (`goal_admitted`,
  `unified_campaign.py:115`): the server has the completion of every stage before the goal
  stage, or the slot's plan admits by an item (`ByItem`) and the item was received
  (`Grant`).  The access item is one message and stays received: the client library forgets
  its list with the connection, and the history that comes with the next one contains it.
  A plan that `validate_campaign_slot` refuses is left out; no goal is then reported.
* `Collect` is the game.  Game and bridge are never of two rooms at once.  A check of
  another room made while the directory still is bound to this one cannot be told from this
  room's, because the file does not say; `strays` are these, and the properties leave them
  out as a limit of the file format.
* Sends may outlive their connection here; the generations the code compares are what makes
  that harmless.  The bind task does what the first step of a flush does.  Rollback of the
  server, an unreadable binding file and files that are not well-formed are left out.

`SaveChecks` has the coroutine `monitor`, the rounds of `death_monitor_loop`.

* `AskKills`, `ConsumeKills`, `ConsumeFails`: `Killsanity.consume`.  `producer` is the start
  of the game a counter belongs to, and `stored`/`mem` hold the last producer, the cursor
  and the total.  `missed` are kills of a game that ended before it was read again; the code
  cannot know them.  The cursor and what it marks depend on the session only: loading
  a save in the game outdates a look at the save under way, not the consumption of kills.
* `Probe`, `ProbeOutdated`, `AcceptProbe`, `AcceptFails`: the look at a new version of the
  save.  `read` is `_duration_cache_key`.  What changed since the last look enters `pending`
  (`Observe`); of what was complete at the first look only challenges do.  `before` records
  that first look, for the property only.
* `SendMilestones`, `SendMastery`, `SendChallenge`, `SendAggregate`, `SentBy`: the reports,
  and which of them count as submitted afterwards (`Marked`).
* The parts of a round may come in any order, which is more than the code does.  The session
  task that also reports challenges sends the same requests at other moments; the module has
  a place for it in `Tasks`, the instance does not use it.
* Left out: aggregates without a child in the slot (mission completion), challenges with an
  equivalent event in the world, records that become incomplete again, the stricter save
  proof of `check_mastery`, resends and answers that change nothing.  A send ends with its
  connection here.

### DeathLink and the code

* Deadlines are countdowns: `Tick` lowers the time left of every queued link, of the
  suppression and of the ids remembered as recent by one.  `left = 0` of a link is
  `now >= total_deadline`, `left = 0` of the suppression the last instant at which it counts.
* `max_attempts` is 1, so `attempts`, the state `COMMAND_IN_FLIGHT` and
  `_suppression_event_id` always agree and only the head of the queue has them: `flying`.
* A round of `death_monitor_loop` is `BeginPass` (the deep copy), one action of the worker
  thread (`Expire`, `Apply`, `Wait`, `QueryFails`, `Dispatch`, `DispatchLater`,
  `DispatchFails`, each one outcome of `advance`), `Merge`, and the look for a death
  (`SeeNothing`, `SeeActive` with `Cancel`, `SeeLate`, `SeeOwn`, `SeeOwnFails`,
  `SeeUnlinked`).  `original` is what happened to the receiver and to the worker's identity
  since the copy was made: unchanged, changed by a packet (the copy is dropped), or stale
  (`StaleNativeResult`: the call is refused, or its result thrown away).
* `Connect`, `Disconnect`, `Bind`, `Abandon`, `Block`, `PersistSeen` are the session's part;
  `BounceQueued`, `BounceRefused` and `BounceFails` a received link; the last one ends the
  connection, as a packet handler that raises does in the client library.
* The native domain (`native`: its event, pending, done or failed), the player and the game
  are external: `Kill`, `Survived`, `OwnDeath`, `MapLoaded`.  A death is what the saves show;
  how it is read from them is left out, and a death is seen before the next one happens.
* `lost` are the links that were submitted and whose submission the receiver does not know
  of: a crash, an answer that is lost, or a result that is thrown away.  `ended` is how long
  after a link's end its death should still be expected.

## Runs

| run | asks |
|---|---|
| `QueueCrashes` | the two commands of one receipt under crashes of both processes, republication, two bindings and one failing operation: at most one effect, no replay, order, authority, loss, and the ledger |
| `QueueRooms` | a leased receipt of room B and a developer job, two rooms, a lease that comes while the jobs wait, a hold that fails: nothing lost |
| `QueueLiveness` | one map-bound receipt under `FairSpec`: what was accepted settles, what was applied leaves the directory |
| `DeliveryCrashes` | one room, four kinds of item, among them the frag grenade and an upgrade of it, two starts, two connections and one failing write or refusal, any receipt deferred or held where the code does so: nothing skipped, order, no replay without a restart, and everything is acknowledged under `FairSpec` |
| `DeliveryRooms` | two rooms, a restored server and one start, with the frag grenade deferred or not: ledgers do not mix, a stale receipt is never published, nor onto a history that does not match (unless the run has passed a duplicate, see `DeliveryDuplicate`) |
| `WeaponPoints` | two receipts of two possible identities, crashes, reconnections, a rollback, a lost state file, a loaded checkpoint and a lost answer: never too many points, each explained by the file, none for another history, and all paid under `FairSpec` |
| `ChecksRooms` | two rooms whose slots share a map event, two checks, three starts, two connections and one failure: no room hears of another's check, no check is lost, the goal is justified and admitted; one room admits to its goal by an item too, the other has a stage to complete first; under `FairSpec` every file settles, and a goal that is reached and admitted is reported |
| `SaveChecks` | a milestone of two kills, a mastery, a challenge and their aggregate over two saves, two starts, two connections and one failure: kills exact, only what was earned, nothing seen is forgotten |
| `DeathLinkRooms` | a room with and one without DeathLink, a queue of one link, restarts and reconnections: a link is queued once and hides one death, the count of deaths is exact |
| `DeathLinkRounds` | one room, two links, a map change and a failure during the worker's call: no echo, and no link waits for ever under `FairSpec` |
| `DeliveryDuplicate`, `DeathLinkResubmit` | statements of the repository that the code does not keep (below) |

Bounds.  Every counter that could grow is in `used`, `created` or the length of a history,
bounded by a constant of the module.  Two publications are what a bridge that died between
publishing and recording makes; two starts of a process give one crash and one recovery,
and the second start meets everything the first can leave; two bindings give the return of
a room and a change of room; one fault is enough because each fault has to be survived
wherever it falls, and the properties that hold under any number are proved.  Two commands
of one receipt are the least that have an order; one receipt and one developer job of
different rooms are the least that `hold` treats differently, and `QueueRooms` leaves the
crashes of the client to the other two runs.  `MaxLen = 3` lets a receipt of each kind stand
before and behind another.  In `WeaponPoints` two receipts are the least with one settled
and one new, and two identities the least by which a rolled back history can differ; its
safety is proved for any number.  `ChecksRooms` has three starts, for two rooms and a return
to the first; its two locations are one of each kind of file, one of them shared.
`SaveChecks` has three deeds of the game: a kill before and one after a restart of the game, or a
load of the other save between two records.  A link's time
of two, a grace and a retry of one make every deadline pass before, during and after each
step of a round; three received links over two ids give a repeated one, and a full queue of
one; an interval of two is the least that counts.  No symmetry is used.

`CHECK_DEADLOCK FALSE` stands in every configuration because the bounds stop the system:
an instance that has used up its publications and starts has nothing to do.

Fairness.  The loops run on a timer as long as their process lives, so each of their steps is
weakly fair; a process that died is started again by the launcher or the player, and a lost
connection is retried by the client library, so `BridgeStart`, `NativeStart`, `Start` and
`Connect` or `Open` are.  A request ends, with an answer or its time-out.  Strong fairness is
assumed of a few things only: a job of the queue that is eligible again and again is selected
in the end (the safety gates open again and again while the game is played), and the retry of a
removal succeeds in the end; in `WeaponPoints` a waiting packet or connection gets its turn
between the runs of the delivery, as the event loop of one thread gives it, and in
`ReceiptDelivery` a packet that has arrived is handled at one of the awaits, even where run
follows on run; in `LocationChecks` each map event file gets its turn in the rounds over them,
as the loop over the sorted files gives it.  In `DeathLink` time passes, the monitor's rounds
go on, and a native call ends in one of its outcomes (it has a time-out).  `SaveChecks` states
safety only. Nothing is assumed of what fails, crashes, disconnects, publishes, changes the
lease, kills, collects or is received.  `LinksEnd` and `AllPaid` except a session whose state
file could not be written: it then rests until the bridge is restarted.  `ReceiptsSettle` is
checked for a map-bound receipt and holds because a stale one is dropped; a leased job of the
player class waits for its map without a bound, by design.  `FilesSettle` excepts the file of a
map event of no location of the slot, which the code leaves in place.

## Findings

* `DeliveryDuplicate`: a receipt counted as a duplicate moves the cursor and is not added to
  `receipt_item_ids` (`doom_eap/runtime/bridge_client.py:3716`).  From the next run on the
  stored ids are shorter than the cursor, and the very list that was delivered is refused
  as incompatible; `docs/DEVELOPMENT.md:71` says lists are accepted when they extend the
  stored history.  It takes a restored server save to reach.
* `DeathLinkResubmit`: `deathlink_receive.py:60` says events are dispatched once to the native
  domain; the result of a worker's call is thrown away when another link arrives during it
  (`bridge_client.py:6372`), also the fact that a link was submitted, and the next round
  submits it again.  In between the receiver would take its death for the player's own, which
  is why `NoEcho` excepts the links in `lost`.

Two limits the model of the queue also shows, without a run of their own.  The room of a job
is compared once, before the lease, the gate and the attempt file
(`native/client/command_queue.cpp:1312`), and the marker may change before the game is called:
`tests/native_queue_contract.cpp:201` tests the comparison, not that interval.  And a starting
bridge moves the `.processing` files of developer jobs aside (`bridge_client.py:1809`), although
`command_spool.py:19` leaves those files to the consumer; the effects still stay within the
ledger.

## Proofs

Every theorem holds for every value of the constants that satisfies the assumptions named in
the modules: any number of commands, rooms, receipts, locations, starts, faults, and any
bounds.

### The command queue

| theorem | says |
|---|---|
| `InvariantHolds` | `TypeOK /\ ConsumerInvariant /\ Pending` is invariant |
| `TypesHold` | the type invariant |
| `AtMostOneEffect` | effects never exceed publications |
| `UncertainStaysUncertain` | a request of unknown outcome keeps its attempt and is not submitted again |
| `NoJobTwice` | the memory queue holds no job twice |
| `GivenUpIsNotReplayed` | what is `.failed` is neither imported nor submitted |
| `QueueImplementsLedger` | the queue implements `EffectLedger` |

"Effects do not exceed publications" is not inductive: it depends on how many times the files
of a command could still be run.  `Credit` counts that: one for a queued file, one for a claim
that may still have its effect.  A claim may have one when its job is being run, when its
outcome is unknown, or when the file stands without an attempt (or with one that the next try
removes).  Then:

1. `Selection` and the types hold: every action keeps them (`BridgeKeepsTypes`,
   `ConsumerKeepsTypes`).
2. `Memory`: ids in memory, ids given up and the claims still to be recovered are disjoint
   (`BridgeKeepsMemory`, `ConsumerKeepsMemory`).  This is why a claim that is taken for
   interrupted is never one the process itself holds.
3. `Attempts`: an attempt of unknown outcome is never in `cleanup` or `delivered`, and a job
   under way has an attempt that no clean-up removes (`BridgeKeepsAttempts`,
   `ConsumerKeepsAttempts`).
4. With these, every step of either process is a step of `EffectLedger`: `OnePublished` (a
   file appears, its publication was counted), `OneApplied` (an effect takes the claim's
   credit), or `NoMoreCredit` (`BridgeStepsTheLedger`, `ConsumerStepsTheLedger`).
5. The ledger keeps `effects + credit <= created` (`LedgerKeepsBound`), which is
   `CreditBound`, and `AtMostOneEffect` follows.

`Pending` bounds the publication that is under way, which the abstract ledger's bound on
publications needs.

`SpoolProofs` builds on that invariant.

| theorem | says |
|---|---|
| `ReceiptsAreFollowed` | `ReceiptInvariant` is invariant |
| `AcceptedReceiptsLeaveATrace` | what `publish()` accepted is on disk, applied, or visibly given up |
| `NoDispatchBeforePublication` | a restarted native client runs no receipt of a room not published since |
| `OrderIsKept` | `OrderInvariant` is invariant |
| `OccurrencesAreInOrder` | no command of a receipt reaches the game while an earlier one has a file |

That nothing accepted is lost is not inductive, because two places delete a copy of a command:
the consumer deletes a queued copy of what it knows, and `publish()` withdraws the copy it has
just written when it then sees an older claim.  Each is right only if the other copy stays, and
the two processes delete without a lock.  `Remembered` says what the consumer may rely on: what
it knows, or lists for recovery, has a claim or is settled.  `Pinned` is the other half: while
the bridge publishes a copy, an older claim of a room the consumer trusts is known to it or has
an attempt, so it is not moved back over the new copy.  It holds because only the bridge writes
the marker, and the bridge is in the middle of a publication: a client that starts meanwhile
trusts no room.  `Withdrawable` then gives both verifications what they assume.
`RestartRevokesAuthority` needs that a trusted marker was written since the start
(`OnlyGranted`).

For the order, `PublishedFirst` and `BoundFirst` say that the bridge follows the sequence of an
occurrence and publishes only once a room is bound, and `QueueOrder` that the memory queue
holds exactly what is known and that the first of an occurrence is selected first.  Inside one
binding without faults (`OneSession`) each earlier command was imported before the later one,
or is settled (`Ordered`); recovery leaves none behind, because the room that is trusted is the
only one (`Session`).  The property and its theorem speak of that case only: a second binding
or a failed move lets the code run the commands of a receipt out of order.  Besides the types
of the constants the proof uses that the commands of one occurrence are receipts of one room
(`OccurrenceAssumption`): the occurrence is a prefix of the file name, and the room's namespace
is part of it.

### Receipt delivery

| theorem | says |
|---|---|
| `DeliveryInvariant` | the inductive invariant below |
| `DeliveryTypes` | the type invariant |
| `NoReceiptIsSkipped` | the cursor on disk passes a receipt only when its commands have reached the spool, or its notification has and its effects are put off: remembered as a frag item, or left to materialization (no rollback) |
| `PublicationsAreOrdered` | the commands of a receipt reach the spool in order; (no rollback) when one does, all earlier receipts have been published or put off, and an upgrade of the frag grenade follows the grenade's effects, also through the flush behind the cursor |
| `OneProcessPublishesOnce` | a command is published no more often than the bridge was started (no rollback) |
| `LedgerIsHistory` | the processed items on disk are those the server sent first (no rollback) |
| `LedgerIsRespected` | what the ledger on disk records is not published again, and behind the cursor only a frag item it remembers is |
| `PublicationsBelong` | no publication into another room or at another position than read |
| `PublishedOntoMatchingHistory` | no publication unless the history begins with what was processed, except after a duplicate in the same run |

"No rollback" is as long as no server's save was restored.  None of these is inductive by
itself, because a run keeps its receipt across awaits in which packets arrive, the room changes
and the server's save is restored, and because what was put off is published behind the cursor.

* `SessionIsSaved`: memory has what the file of the room has, and what was received begins the
  history of the room the bridge is connected to.  `FragsAreBehind`: what is remembered lies
  behind the cursor.
* `Running`: a run whose session is still current works on the receipt behind the cursor, or,
  in a flush, on a frag item that is remembered; what it is about to record has been published.
* `Observed`: without a duplicate a ledger holds the beginning of the history.
  `ProgressIsPublished`: progress on disk has reached the spool, and a receipt is acknowledged or
  forgotten only when all that is due of it has.
* As long as the server's save was not restored, `HistoryIsCounted` makes the identity counts
  those of the history, so that nothing is taken for a duplicate; `PutOffIsTheirs` says that what
  is remembered is what the history has there, and that no frag item is left to others;
  `UpgradesWait` that an upgrade is in hand only when the grenade is out; `PublishedReceipts`
  that nothing was published where there is no receipt.
* `Unpublished` is what `OneProcessPublishesOnce` needs: what the ledger still may publish
  (`Open`: it is before the cursor or remembered), does not record (`Recorded`) and the run does
  not have in hand (`UnderWay`), this process has not published.

The steps are grouped by what they touch: those of the environment, the moves of the task that
write nothing (`Moves`), its writes (`Writes`), and the publication.  Of the constants the proof
uses that there is a largest number of commands, that an item of a native owner has one command,
that the deferrable items have commands and are not of a native owner, that the frag items are
deferrable, and that there is a location.

### Weapon points

| theorem | says |
|---|---|
| `DeliveryInvariant` | the inductive invariant below |
| `PointTypes` | the type invariant |
| `PointsAreNotOverpaid` | never more points than receipts sent, unless the server's save was restored |
| `PointsAreOwned` | every point in the game is explained by the ledger on disk |
| `AcknowledgedPointsAreOwned` | a receipt behind the cursor is in the ledger beside it |
| `PointsAreOfThisHistory` | no point is asked for while the ledger holds a receipt the history does not have |

That the game has no more points than the ledger names is not inductive: a request made earlier
may still be carried out.  What keeps it is that every total ever asked for, by the run under
way (`Requested`) or in `late`, is below the number of receipts on disk, and that memory and
disk agree (`SessionIsSaved`); the ledger may only disappear when no request is left.
`Progress` ties the place in a run to what it has established, `HistoryIsExtended` says that
what the bridge works on is a prefix of the history whenever its session is still current, and
`LedgerFits` that without a rollback the ledger names only receipts of the history, so that
owning a point bounds it by the history's length.

### Location checks

| theorem | says |
|---|---|
| `ReportingInvariant` | the inductive invariant below |
| `ReportedChecksAreOwn` | a room is told only of checks made in its game (strays excepted) |
| `ChecksAreAccounted` | a check made is known to its server or its file is on disk |
| `GoalIsJustified` | the goal is reported only to a server that has all objectives, and only when the campaign is admitted to it |
| `PendingFilesSurvive` | nothing of its slot is set aside while the directory is bound to the room |

The room of a file is a fact the bridge cannot see.  `FilesOfChecks` says that a file in a
directory bound to a room is of a check of that room or a stray, and every file of a check
somebody made; `InFlight` that all that is being sent, on the wire or submitted is of the room
of this process, and that what the bridge has heard is in its server's record; `Process` that a
process that does not run, or has not initialised a session, has nothing in flight.  A file
disappears only when its location is in `checked`, which is part of the server's record: that
gives `Accounted` its step.  `GoalAsked` says that a goal in flight was justified and
admitted by the server's record and by what the server has sent, both of which only grow.

### Saves and kills

| theorem | says |
|---|---|
| `SaveInvariant` | the inductive invariant below |
| `SaveTypes` | the type invariant |
| `EveryKillIsAccounted` | no kill is counted twice, none is missing but those nobody read |
| `OnlyEarnedIsReported` | the server is told only of what was earned |
| `EarnedChecksAreKept` | a change that was seen is pending until the server has it |

`Books` is the balance of kills, for the file and for the session in memory: what was counted
and what the running game still holds beyond the cursor never exceed all kills, and with the
missed ones reach them; a session that is bound misses no more than the file does.
`SeenInSaves` says that what is remembered of a save was in it, and that what is pending was
seen after the first look (except challenges); `EarnedOnly` is what makes `OnlyEarned`
inductive: not only what the server has, also what is on the wire, being sent, submitted or
flagged was earned.  `InFlight` says that what the monitor sends is of its slot, has not been
submitted, and is not lost as long as the connection lasts; `Process` that nothing is in flight
without a process and a session.  The proof assumes one room (`OneRoomAssumption`: what another
room has is another instance), the monitor among the tasks, and at least one save.

### DeathLink

| theorem | says |
|---|---|
| `DeathLinkInvariant` | the inductive invariant below |
| `DeathLinkTypes` | the type invariant |
| `NoLinkHidesTwoDeaths` | a link hides no more deaths than times it was handed over |
| `NoLinkIsQueuedTwice` | a link is queued once in its room, if the file keeps all its ids |
| `EveryIntervalthIsSent` | every n-th own death is sent and no other |
| `LinksAreNotEchoed` | the death a link causes is not counted, but for the named exceptions |

That a link hides one death is not inductive: the suppression is granted in the worker's copy
and used up in the original.  `Budget` adds, for each link, the suppressions it still has, in
the receiver or in the copy, to the deaths it has hidden, and bounds both by the times it was
handed over.  It rests on `Passing`: only the head of a queue is in flight, and the copy has
the receiver's queue unless a packet has marked it.  `Domain` says that the native domain has
the link that was handed over last.  `Suppressed` says that a death which is pending in the
game, or has been caused and not yet seen, is expected for as long as it counts as the link's:
that is `NoEcho`.  `Remembered` says that the ids and the count in memory and on disk are what
was queued and counted, as long as no write failed and the ids of the room fit; `QueuedOnce`
and `GraceIsExact` follow from it step by step.

### Only model-checked

Liveness: `ReceiptsSettle`, `AppliedIsRemoved`, `AllAcknowledged`, `AllPaid`, `FilesSettle`,
`GoalReported`, `LinksEnd`.  It needs fairness and `ENABLED`, which are out of the prover's
reach.  No induction over data is needed or used: the models have no recursive operator.

## Not modelled, and why

* Queue: supersession of fortress jobs, the transient, diagnostic and telemetry classes, and
  the discarding of developer jobs for a test.  They add classes with their own selection
  rules; their files follow the same life cycle.
* Delivery: the test that a transient effect is live, starting equipment, mapping repair,
  manual resync, and how the effects of deferred items other than frag items come about: that is
  materialization, and `NothingSkipped` says of them that their notification was published and
  that they are behind the cursor, where materialization looks for what is owned.
  Delivery and the weapon points are two modules because the latter touch nothing but the cursor
  of the former.  Two behaviours the model contains and no property forbids: a
  frag item whose whole group was recorded before a crash, and that the next process defers,
  is refused by every flush, because the flush has one command less, and the frag items behind it
  wait (`receipt_delivery.py:129`); and a deferred notification that was recorded before a crash
  is published a second time, as the last of the group, if the next process has a lease.
* Weapon points: the other domains of the same native transport (runes, arsenal, automap),
  which have no ledger, and ledgers of an earlier format.
* Checks: native transitions, malformed files, the acknowledgements a publisher records, the
  list of slayer gates, failing writes of the binding file, the delayed completion read from a
  save.  Those of saves are named above.
* DeathLink: the two modes (they only change the native effect), an interval that is
  changed between sessions, and what becomes of a link after the attempt to send it.  The
  code keeps the 64 ids of largest hash; `SeenLimit` stands for 64, and `QueuedOnce` speaks of
  rooms that saw no more, because with more the code may forget one.
* Whole components: those with status `not_modelled` in `PROJECT.json`, with the reason there.
  Materialization and the transient effects have state of their own worth modelling and are
  in the plan; the launcher, the tools and the content are installation, user interface and
  data without concurrent behaviour of the running system.
* Six hazards have no property, and their notes in `PROJECT.json` say why: stored progress that
  does not fit the receipt (`receipt_delivery.py:129`), the room compared before the call and the
  order of a receipt after the room returns (`command_queue.cpp:1312`, `:1294`), a developer job
  that runs twice, whether a transient receipt is live, and a look at a save that is skipped
  (`bridge_client.py:1809`, `:3889`, `:6408`).

## Plan

1. Prove: the safety properties of the runs are proved.  What remains are the facts that hold
   between the modules: that delivery, taken with the queue, gives each receipt at most one
   effect per publication, by an abstract specification of a receipt that `ReceiptDelivery`
   implements as `CommandQueue` implements `EffectLedger`.
2. Extend: materialization (epochs, plans, lease); the transient and fortress classes of the
   queue; delivery and queue composed, with an abstract specification of a receipt from
   arrival to effect.
