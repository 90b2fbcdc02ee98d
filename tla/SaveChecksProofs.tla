-------------------------- MODULE SaveChecksProofs --------------------------
(***************************************************************************)
(* Kills, masteries, challenges and aggregates for any slot, locations and *)
(* saves and for any bounds: no kill is counted twice or forgotten, the    *)
(* server is told only of what was earned, and what was earned is kept     *)
(* until the server has it.                                                *)
(***************************************************************************)
EXTENDS SaveChecks, TLAPS

USE DEF vars, linkVars, session, heard, tasks, game, seen

-----------------------------------------------------------------------------
(* The inductive invariant *)

Marks == Milestones \union Masteries    \* what counts as submitted when it was sent

\* A process that has ended leaves nothing in flight; one that was never started has
\* observed nothing; a coroutine that is not sending has handed nothing to the socket.
Process ==
    /\ ~alive => /\ ~keyed /\ ~broken /\ link = "down"
                 /\ wire = {} /\ checked = {} /\ submitted = {} /\ flagged = {}
    /\ alive => room \in Rooms
    /\ room = NoRoom => stored.looked = {}
    /\ \A t \in Tasks : /\ pc[t] # "idle" => keyed
                        /\ pc[t] # "send" => sending[t] = {}

\* What each copy of the session has counted, and what it has not counted yet, are kills;
\* a session that is bound misses no more than the file does.
Uncounted(state) == IF running THEN counter - Cursor(state) ELSE 0
CountsKills(state) ==
    /\ state.producer <= producer /\ Cursor(state) <= counter
    /\ state.total + (counter - Cursor(state)) <= kills

Books ==
    /\ counter <= kills
    /\ CountsKills(stored) /\ CountsKills(mem)
    /\ kills <= stored.total + missed + Uncounted(stored)
    /\ keyed => /\ Cursor(stored) <= Cursor(mem)
                /\ kills <= mem.total + missed + Uncounted(mem)

\* What a session holds of the saves was seen in them; until the file could not be written
\* memory and file agree on it.
Entries(x, y) == x.looked = y.looked /\ x.last = y.last /\ x.pending = y.pending

SeenIn(s, k) ==
    /\ stored.last[<<s, k>>] \subseteq completed[s] \intersect Of(k)
    /\ stored.pending[<<s, k>>] \subseteq stored.last[<<s, k>>]
    /\ <<s, k>> \notin stored.looked => stored.pending[<<s, k>>] = {}
    /\ k = "mastery" /\ <<s, k>> \in stored.looked =>
          /\ before[<<s, k>>] \subseteq stored.last[<<s, k>>]
          /\ stored.pending[<<s, k>>] \intersect before[<<s, k>>] = {}

SeenInSaves ==
    /\ \A s \in Saves, k \in Kinds : SeenIn(s, k)
    /\ keyed /\ ~broken => Entries(mem, stored)

Earned(r, l) ==
    /\ l \in Milestones => kills >= Threshold[l]
    /\ l \in Masteries  => \E s \in Saves : /\ <<s, "mastery">> \in stored.looked
                                            /\ l \in completed[s] \ before[<<s, "mastery">>]
    /\ l \in Challenges => \E s \in Saves : l \in completed[s]
    /\ l \in Aggregates => Children[l] \intersect Slot[r] \subseteq server[r]

\* What is reported, on its way or to be reported was earned.
EarnedOnly ==
    /\ \A r \in Rooms : \A l \in Known(r) : Earned(r, l)
    /\ alive => /\ \A l \in wire \union submitted \union flagged : Earned(room, l)
                /\ \A t \in Tasks : \A l \in sending[t] : Earned(room, l)
                /\ checked \subseteq server[room]

\* What is sent belongs to the slot, and only the monitor sends what counts as submitted.
\* What it sends has not been submitted, and is not lost as long as the connection lasts.
InFlight ==
    /\ wire \subseteq Locations
    /\ submitted \subseteq Marks /\ (alive => submitted \subseteq Slot[room])
    /\ \A t \in Tasks : /\ alive => sending[t] \subseteq Slot[room]
                        /\ t # "monitor" => sending[t] \intersect Marks = {}
    /\ sending["monitor"] \intersect submitted = {}
    /\ link # "down" => sending["monitor"] \intersect Marks \subseteq server[room] \union wire

Inv == /\ TypeOK /\ Process /\ Books /\ SeenInSaves /\ EarnedOnly /\ InFlight
       /\ EarnedIsKept
-----------------------------------------------------------------------------
(* Looking at a save *)

Now(k) == completed[save] \intersect Of(k)

LEMMA KindsOfRecords ==
    /\ \A k \in Kinds : Of(k) \subseteq Records /\ Records \subseteq Locations
    /\ "mastery" \in Kinds /\ "challenge" \in Kinds
    /\ Of("mastery") = Masteries /\ Of("challenge") = Challenges
BY KindsAssumption DEF Kinds, Of, Records

\* One look: the entry of the save being played, of one kind, and no other.
LEMMA Looking ==
    ASSUME TypeOK, NEW state \in Sessions, NEW k \in Kinds
    PROVE  LET b == <<save, k>>
               new == Observe(state, k)
           IN  /\ new \in Sessions
               /\ new.total = state.total /\ new.producer = state.producer
               /\ new.cursor = state.cursor
               /\ new.looked = state.looked \union {b}
               /\ new.last[b] = Now(k)
               /\ new.pending[b] = ((state.pending[b] \union (Now(k) \intersect FirstLook(k)))
                                        \ checked)
                                   \union (IF b \in state.looked THEN Now(k) \ state.last[b]
                                                                ELSE {})
               /\ \A c \in Saves \X Kinds : c # b =>
                     new.last[c] = state.last[c] /\ new.pending[c] = state.pending[c]
<1> DEFINE b    == <<save, k>>
           last == IF b \in state.looked THEN state.last[b] ELSE Now(k)
           todo == ((state.pending[b] \union (Now(k) \intersect FirstLook(k))) \ checked)
                      \union (Now(k) \ last)
           new  == Observe(state, k)
<1>1. b \in Saves \X Kinds
  BY DEF TypeOK, LinkTypeOK
<1>2. new = [state EXCEPT !.looked = @ \union {b}, !.last[b] = Now(k), !.pending[b] = todo]
  BY DEF Observe, Now
<1>3. Now(k) \subseteq Records
  BY KindsOfRecords DEF Now
<1>4. state.looked \subseteq Saves \X Kinds /\ state.last \in [Saves \X Kinds -> SUBSET Records]
      /\ state.pending \in [Saves \X Kinds -> SUBSET Records]
      /\ state.total \in Nat /\ state.producer \in Nat /\ state.cursor \in Nat
  BY DEF Sessions
<1>5. todo \subseteq Records
  BY <1>1, <1>3, <1>4
<1>6. Now(k) \ last = IF b \in state.looked THEN Now(k) \ state.last[b] ELSE {}
  OBVIOUS
<1> HIDE DEF b, last, new
<1>7. /\ new.total = state.total /\ new.producer = state.producer /\ new.cursor = state.cursor
      /\ new.looked = state.looked \union {b}
      /\ new.last = [state.last EXCEPT ![b] = Now(k)]
      /\ new.pending = [state.pending EXCEPT ![b] = todo]
  BY <1>2 DEF Sessions
<1>8. new \in Sessions
  <2> HIDE DEF todo
  <2>1. [state.last EXCEPT ![b] = Now(k)] \in [Saves \X Kinds -> SUBSET Records]
    BY <1>1, <1>3, <1>4
  <2>2. [state.pending EXCEPT ![b] = todo] \in [Saves \X Kinds -> SUBSET Records]
    BY <1>1, <1>4, <1>5
  <2>3. state.looked \union {b} \in SUBSET (Saves \X Kinds)
    BY <1>1, <1>4
  <2> QED BY <1>2, <1>4, <2>1, <2>2, <2>3 DEF Sessions
<1>9. /\ new.last[b] = Now(k) /\ new.pending[b] = todo
      /\ \A c \in Saves \X Kinds : c # b =>
            new.last[c] = state.last[c] /\ new.pending[c] = state.pending[c]
  BY <1>1, <1>4, <1>7
<1> QED BY <1>6, <1>7, <1>8, <1>9 DEF b, new

\* What a look at some kinds makes of the session in memory.
LEMMA Afterwards ==
    ASSUME TypeOK, NEW kinds \in SUBSET Kinds
    PROVE  /\ After(kinds) \in Sessions
           /\ After(kinds).total = mem.total /\ After(kinds).producer = mem.producer
           /\ After(kinds).cursor = mem.cursor
           /\ \A s \in Saves, k \in Kinds :
                 IF s = save /\ k \in kinds
                 THEN /\ <<s, k>> \in After(kinds).looked
                      /\ After(kinds).last[<<s, k>>] = Now(k)
                      /\ After(kinds).pending[<<s, k>>] =
                            ((mem.pending[<<s, k>>] \union (Now(k) \intersect FirstLook(k)))
                                \ checked)
                            \union (IF <<s, k>> \in mem.looked THEN Now(k) \ mem.last[<<s, k>>]
                                                            ELSE {})
                 ELSE /\ <<s, k>> \in After(kinds).looked <=> <<s, k>> \in mem.looked
                      /\ After(kinds).last[<<s, k>>] = mem.last[<<s, k>>]
                      /\ After(kinds).pending[<<s, k>>] = mem.pending[<<s, k>>]
<1> DEFINE first == IF "mastery" \in kinds THEN Observe(mem, "mastery") ELSE mem
           both  == After(kinds)
           Entry(new, old, k) ==
               /\ <<save, k>> \in new.looked /\ new.last[<<save, k>>] = Now(k)
               /\ new.pending[<<save, k>>] =
                     ((old.pending[<<save, k>>] \union (Now(k) \intersect FirstLook(k)))
                         \ checked)
                     \union (IF <<save, k>> \in old.looked THEN Now(k) \ old.last[<<save, k>>]
                                                           ELSE {})
           Same(new, old, s, k) ==
               /\ <<s, k>> \in new.looked <=> <<s, k>> \in old.looked
               /\ new.last[<<s, k>>] = old.last[<<s, k>>]
               /\ new.pending[<<s, k>>] = old.pending[<<s, k>>]
           Books1(new, old) == new.total = old.total /\ new.producer = old.producer
                                  /\ new.cursor = old.cursor
<1>0. mem \in Sessions /\ save \in Saves /\ "mastery" \in Kinds /\ "challenge" \in Kinds
      /\ Kinds = {"mastery", "challenge"}
  BY DEF TypeOK, Kinds
<1>1. ASSUME NEW state \in Sessions, NEW k \in Kinds
      PROVE  /\ Observe(state, k) \in Sessions /\ Books1(Observe(state, k), state)
             /\ Entry(Observe(state, k), state, k)
             /\ \A s \in Saves, j \in Kinds :
                    s # save \/ j # k => Same(Observe(state, k), state, s, j)
  BY <1>0, Looking
<1> HIDE DEF Entry, Same, Books1
<1>2. /\ first \in Sessions /\ Books1(first, mem)
      /\ "mastery" \in kinds => Entry(first, mem, "mastery")
      /\ \A s \in Saves, j \in Kinds : s # save \/ j = "challenge" \/ "mastery" \notin kinds =>
            Same(first, mem, s, j)
  BY <1>0, <1>1 DEF Same, Books1
<1>3. both = IF "challenge" \in kinds THEN Observe(first, "challenge") ELSE first
  BY DEF After
<1> HIDE DEF first, both
<1>4. /\ both \in Sessions /\ Books1(both, first)
      /\ "challenge" \in kinds => Entry(both, first, "challenge")
      /\ \A s \in Saves, j \in Kinds : s # save \/ j = "mastery" \/ "challenge" \notin kinds =>
            Same(both, first, s, j)
  BY <1>0, <1>1, <1>2, <1>3 DEF Same, Books1
<1>5. both \in Sessions /\ Books1(both, mem)
  BY <1>2, <1>4 DEF Books1
<1>6. "mastery" \in kinds => Entry(both, mem, "mastery")
  BY <1>0, <1>2, <1>4 DEF Entry, Same
<1>7. "challenge" \in kinds => Entry(both, mem, "challenge")
  BY <1>0, <1>2, <1>4 DEF Entry, Same
<1>8. \A s \in Saves, k \in Kinds : s # save \/ k \notin kinds => Same(both, mem, s, k)
  <2> SUFFICES ASSUME NEW s \in Saves, NEW k \in Kinds, s # save \/ k \notin kinds
               PROVE  Same(both, mem, s, k)
    OBVIOUS
  <2>1. k = "mastery" \/ k = "challenge"
    BY <1>0
  <2>2. Same(first, mem, s, k) /\ Same(both, first, s, k)
    BY <1>2, <1>4, <2>1
  <2> QED BY <2>2 DEF Same
<1> QED BY <1>0, <1>5, <1>6, <1>7, <1>8 DEF both, Entry, Same, Books1

-----------------------------------------------------------------------------
(* The steps, by what they are about *)

\* A wait begins or ends, and nothing is learnt from it but that a request was sent.
Waits == \/ AskKills \/ Probe \/ ProbeOutdated
         \/ \E t \in Tasks : \/ SentBy(t)
                             \/ Outdated(t) /\ Begin(t) /\ UNCHANGED <<game, seen>>
                             \/ GivesUp(t) /\ Begin(t) /\ UNCHANGED <<game, seen>>

Sends == \/ SendMilestones
         \/ \E l \in Locations : SendMastery(l)
         \/ \E t \in Tasks, l \in Locations : SendChallenge(t, l) \/ SendAggregate(t, l)

Looks == \/ AcceptProbe(TRUE) \/ AcceptProbe(FALSE)
         \/ \E kinds \in SUBSET Kinds : AcceptFails(kinds)

LEMMA Steps == Next => \/ Play \/ Connection \/ Waits \/ Sends
                       \/ ConsumeKills \/ ConsumeFails \/ Looks
<1>1. ASSUME NEW t \in Tasks, Continue(t) PROVE Waits \/ ConsumeKills \/ Looks
  <2>1. \/ ConsumeKills \/ ProbeOutdated \/ AcceptProbe(TRUE) \/ SentBy(t)
        \/ Outdated(t) /\ Begin(t) /\ UNCHANGED <<game, seen>>
    BY <1>1 DEF Continue
  <2>2. ProbeOutdated => Waits
    BY DEF Waits
  <2>3. ASSUME \/ SentBy(t)
               \/ Outdated(t) /\ Begin(t) /\ UNCHANGED <<game, seen>>
        PROVE  Waits
    BY <2>3 DEF Waits
  <2> QED BY <2>1, <2>2, <2>3 DEF Looks
<1>2. Fails => Waits \/ ConsumeFails \/ Looks
  BY DEF Fails, Waits, Looks
<1>3. AskKills \/ Probe => Waits
  BY DEF Waits
<1>4. SendMilestones \/ (\E l \in Locations : SendMastery(l))
         \/ (\E t \in Tasks, l \in Locations : SendChallenge(t, l) \/ SendAggregate(t, l))
      => Sends
  BY DEF Sends
<1> QED BY <1>1, <1>2, <1>3, <1>4 DEF Next

ToBeSent(t, q) ==
    /\ keyed /\ q \subseteq Slot[room]
    /\ \A l \in q :
          /\ l \in Marks => l \notin submitted /\ t = "monitor"
          /\ \/ l \in Milestones /\ Threshold[l] <= mem.total
             \/ l \in Masteries \union Challenges /\ l \in flagged
             \/ l \in Aggregates /\ AggregateReady(l)

\* Whatever is sent goes out by one coroutine, of a session that is bound, and is of the
\* slot; what counts as submitted is sent by the monitor, and not again.
LEMMA SendsAreProper ==
    ASSUME TypeOK, Process, Sends
    PROVE  \E t \in Tasks, q \in SUBSET Locations : SendBy(t, q) /\ ToBeSent(t, q)
<1>1. CASE SendMilestones
  <2>1. Due \in SUBSET Locations /\ Due \subseteq Slot[room] /\ Due \intersect submitted = {}
        /\ \A l \in Due : l \in Milestones /\ Threshold[l] <= mem.total
    BY KindsAssumption DEF Due
  <2>2. SendBy("monitor", Due) /\ keyed
    BY <1>1 DEF SendMilestones
  <2>3. ToBeSent("monitor", Due)
    BY <2>1, <2>2 DEF ToBeSent
  <2> QED BY <2>1, <2>2, <2>3, TasksAssumption
<1>2. ASSUME NEW l \in Locations, SendMastery(l)
      PROVE  SendBy("monitor", {l}) /\ ToBeSent("monitor", {l})
  <2>1. SendBy("monitor", {l}) /\ keyed
    BY <1>2 DEF SendMastery, ready
  <2>2. l \in Masteries /\ l \in flagged /\ l \in Slot[room] /\ l \notin submitted
    BY <1>2 DEF SendMastery
  <2> QED BY <2>1, <2>2 DEF ToBeSent
<1>3. ASSUME NEW t \in Tasks, NEW l \in Locations, SendChallenge(t, l)
      PROVE  SendBy(t, {l}) /\ ToBeSent(t, {l})
  <2>1. SendBy(t, {l}) /\ keyed
    BY <1>3 DEF SendChallenge, ready
  <2>2. l \in Challenges /\ l \in flagged /\ l \in Slot[room] /\ l \notin Marks
    BY <1>3, KindsAssumption DEF SendChallenge, Marks, Records
  <2> QED BY <2>1, <2>2 DEF ToBeSent
<1>4. ASSUME NEW t \in Tasks, NEW l \in Locations, SendAggregate(t, l)
      PROVE  SendBy(t, {l}) /\ ToBeSent(t, {l})
  <2>1. SendBy(t, {l}) /\ keyed
    BY <1>4 DEF SendAggregate, ready
  <2>2. l \in Aggregates /\ AggregateReady(l) /\ l \in Slot[room] /\ l \notin Marks
    BY <1>4, KindsAssumption DEF SendAggregate, Marks, Records
  <2> QED BY <2>1, <2>2 DEF ToBeSent
<1>5. \A l \in Locations : {l} \in SUBSET Locations
  OBVIOUS
<1> QED BY <1>1, <1>2, <1>3, <1>4, <1>5, TasksAssumption DEF Sends

-----------------------------------------------------------------------------
(* Types *)

LEMMA TaskTypes ==
    ASSUME TypeOK, NEW t \in Tasks
    PROVE  /\ Ask(t) \/ Finish(t) \/ (\E q \in SUBSET Locations : Send(t, q)) =>
                /\ pc' \in [Tasks -> Pcs] /\ sending' \in [Tasks -> SUBSET Requests]
                /\ stale' \subseteq Tasks
           /\ Begin(t) => rebound' \subseteq Tasks
BY DEF TypeOK, LinkTypeOK, Ask, Finish, Send, Pcs, Begin, Requests

LEMMA KnownLocations ==
    ASSUME TypeOK, NEW r \in Rooms
    PROVE  Known(r) \subseteq Locations
BY DEF TypeOK, LinkTypeOK, Known, Requests

LEMMA Uncounting ==
    ASSUME TypeOK, Books
    PROVE  /\ Cursor(stored) \in Nat /\ Cursor(mem) \in Nat /\ Outstanding \in Nat
           /\ Consumed \in Sessions
           /\ Consumed.total = mem.total + counter - Cursor(mem)
           /\ Consumed.producer = producer /\ Consumed.cursor = counter
           /\ Consumed.looked = mem.looked /\ Consumed.last = mem.last
           /\ Consumed.pending = mem.pending
<1> USE DEF TypeOK
<1>1. Cursor(stored) \in Nat /\ Cursor(mem) \in Nat
  BY DEF Cursor, Sessions
<1>2. mem.total + counter - Cursor(mem) \in Nat /\ counter - Cursor(stored) \in Nat
  BY <1>1 DEF Books, CountsKills, Sessions
<1> HIDE DEF Cursor
<1> QED BY <1>1, <1>2 DEF Consumed, Outstanding, Sessions

LEMMA PlayKeepsTypes ==
    ASSUME TypeOK, Books, Play
    PROVE  TypeOK'
<1> USE DEF TypeOK
<1>0. UNCHANGED linkVars /\ LinkTypeOK'
  <2>1. UNCHANGED linkVars
    BY DEF Play, GameStarts, GameStops, Kill, GameSaves, LoadSave
  <2> QED BY <2>1 DEF LinkTypeOK
<1>1. CASE GameStarts
  BY <1>0, <1>1 DEF GameStarts
<1>2. CASE GameStops
  <2>1. missed' \in Nat
    BY <1>2, Uncounting DEF GameStops
  <2> QED BY <1>0, <1>2, <2>1 DEF GameStops
<1>3. CASE Kill
  BY <1>0, <1>3 DEF Kill
<1>4. ASSUME NEW new \in SUBSET Records, GameSaves(new) PROVE TypeOK'
  BY <1>0, <1>4 DEF GameSaves, Unread
<1>5. ASSUME NEW s \in Saves, LoadSave(s) PROVE TypeOK'
  BY <1>0, <1>5 DEF LoadSave
<1> QED BY <1>1, <1>2, <1>3, <1>4, <1>5 DEF Play

LEMMA ConnectionKeepsTypes ==
    ASSUME TypeOK, Process, Connection
    PROVE  TypeOK'
<1> USE DEF TypeOK, LinkTypeOK, Pcs, Links, Bounded, Spend, Invalidate, Waiting, Requests
<1>1. CASE StartBridge
  BY <1>1 DEF StartBridge, Start
<1>2. CASE StopBridge
  <2>1. Fresh \in Sessions
    BY DEF Fresh, Sessions
  <2> QED BY <1>2, <2>1 DEF StopBridge, Stop
<1>3. CASE Connects
  <2>1. CASE Welcome
    <3>1. room \in Rooms
      BY <2>1 DEF Welcome, Process
    <3> QED BY <1>3, <2>1, <3>1, KnownLocations DEF Connects, Welcome
  <2>2. CASE Complete
    BY <1>3, <2>2 DEF Connects, Complete
  <2>3. CASE Open
    BY <1>3, <2>3 DEF Connects, Open
  <2> QED BY <1>3, <2>1, <2>2, <2>3 DEF Connects
<1>4. CASE Loses
  BY <1>4 DEF Loses, Lose
<1>5. CASE InitializeSession
  BY <1>5 DEF InitializeSession, Initialize
<1>6. CASE Hears
  <2>1. room \in Rooms
    BY <1>6 DEF Hears, RoomUpdate, Process
  <2> QED BY <1>6, <2>1, KnownLocations DEF Hears, RoomUpdate
<1>7. CASE Reaches
  <2>1. PICK m \in wire : ServerReceives(m)
    BY <1>7 DEF Reaches
  <2>2. server' \in [Rooms -> SUBSET Requests]
    BY <2>1 DEF ServerReceives
  <2> QED BY <1>7, <2>1, <2>2 DEF Reaches, ServerReceives
<1> QED BY <1>1, <1>2, <1>3, <1>4, <1>5, <1>6, <1>7 DEF Connection

LEMMA WaitsKeepTypes ==
    ASSUME TypeOK, Waits
    PROVE  TypeOK'
<1>1. CASE AskKills
  BY <1>1, TaskTypes, TasksAssumption DEF TypeOK, LinkTypeOK, AskKills
<1>2. CASE Probe
  BY <1>2, TasksAssumption DEF TypeOK, LinkTypeOK, Probe, Begin, Pcs
<1>3. CASE ProbeOutdated
  BY <1>3, TaskTypes, TasksAssumption DEF TypeOK, LinkTypeOK, ProbeOutdated
<1>4. ASSUME NEW t \in Tasks, SentBy(t) PROVE TypeOK'
  <2>1. Marked(t) \subseteq Locations
    BY KindsAssumption DEF Marked, Records
  <2> QED BY <1>4, <2>1, TaskTypes DEF TypeOK, LinkTypeOK, SentBy
<1>5. ASSUME NEW t \in Tasks, Outdated(t), Begin(t), UNCHANGED <<game, seen>> PROVE TypeOK'
  BY <1>5, TaskTypes DEF TypeOK, LinkTypeOK, Outdated
<1>6. ASSUME NEW t \in Tasks, GivesUp(t), Begin(t), UNCHANGED <<game, seen>> PROVE TypeOK'
  BY <1>6, TaskTypes DEF TypeOK, LinkTypeOK, GivesUp, Spend, Bounded
<1> QED BY <1>1, <1>2, <1>3, <1>4, <1>5, <1>6 DEF Waits

LEMMA SendsKeepTypes ==
    ASSUME TypeOK, NEW t \in Tasks, NEW q \in SUBSET Locations, SendBy(t, q)
    PROVE  TypeOK'
<1>1. wire' \subseteq Requests
  BY DEF TypeOK, LinkTypeOK, SendBy, Send, Requests
<1> QED BY <1>1, TaskTypes DEF TypeOK, LinkTypeOK, SendBy

LEMMA CountingKeepsTypes ==
    ASSUME TypeOK, Books, ConsumeKills \/ ConsumeFails
    PROVE  TypeOK'
<1>1. CASE ConsumeKills
  BY <1>1, TaskTypes, TasksAssumption, Uncounting
     DEF TypeOK, LinkTypeOK, ConsumeKills, Persist
<1>2. CASE ConsumeFails
  BY <1>2, TaskTypes, TasksAssumption
     DEF TypeOK, LinkTypeOK, ConsumeFails, Block, Spend, Bounded
<1> QED BY <1>1, <1>2

\* What a look leaves behind, whether or not the file could be written.
LookAt(kinds) ==
    /\ pc["monitor"] = "probe" /\ ~broken /\ (kinds # {} => ready)
    /\ stored' = IF kinds = {} THEN stored ELSE After(kinds)
    /\ mem' = IF kinds = {} \/ broken' THEN mem ELSE After(kinds)
    /\ before' = FirstSeen(kinds)
    /\ flagged' = IF broken' THEN flagged ELSE FlagsAfter(kinds)
    /\ read' = save /\ broken' \in BOOLEAN
    /\ Finish("monitor") /\ Begin("monitor")
    /\ UNCHANGED used \/ Spend("fault")
    /\ UNCHANGED <<server, session, wire, heard, game>>

LEMMA LooksAreLooks ==
    ASSUME TypeOK, Looks
    PROVE  \E kinds \in SUBSET Kinds : LookAt(kinds)
<1>1. ASSUME NEW proof \in BOOLEAN, AcceptProbe(proof)
      PROVE  \E kinds \in SUBSET Kinds : LookAt(kinds)
  <2> DEFINE kinds == IF proof /\ ready THEN Looked(Kinds) ELSE {}
  <2>1. kinds \in SUBSET Kinds /\ (kinds # {} => ready)
    BY DEF Looked
  <2>2. ~broken /\ broken' = broken
    BY <1>1 DEF AcceptProbe
  <2>3. IF kinds = {} THEN UNCHANGED <<mem, stored>> ELSE Persist(After(kinds))
    BY <1>1 DEF AcceptProbe
  <2>4. stored' = IF kinds = {} THEN stored ELSE After(kinds)
    BY <2>1, <2>3 DEF Persist
  <2>5. mem' = IF kinds = {} \/ broken' THEN mem ELSE After(kinds)
    BY <2>2, <2>3 DEF Persist
  <2>6. before' = FirstSeen(kinds) /\ flagged' = FlagsAfter(kinds)
    BY <1>1 DEF AcceptProbe
  <2>7. /\ pc["monitor"] = "probe" /\ read' = save /\ Finish("monitor") /\ Begin("monitor")
        /\ UNCHANGED <<server, session, wire, heard, game>>
        /\ UNCHANGED used \/ Spend("fault")
    BY <1>1 DEF AcceptProbe
  <2> HIDE DEF kinds
  <2>8. LookAt(kinds)
    BY <2>1, <2>2, <2>4, <2>5, <2>6, <2>7 DEF LookAt, TypeOK
  <2> QED BY <2>1, <2>8
<1>2. ASSUME NEW kinds \in SUBSET Kinds, AcceptFails(kinds) PROVE LookAt(kinds)
  <2>1. /\ pc["monitor"] = "probe" /\ ~broken /\ ready
        /\ stored' = IF kinds = {} THEN stored ELSE After(kinds)
        /\ before' = FirstSeen(kinds) /\ flagged' = flagged /\ read' = save
        /\ Finish("monitor") /\ Begin("monitor")
        /\ UNCHANGED <<server, session, wire, heard, game>>
    BY <1>2 DEF AcceptFails
  <2>2. broken' = TRUE /\ mem' = mem /\ Spend("fault")
    BY <1>2 DEF AcceptFails, Block
  <2> QED BY <2>1, <2>2 DEF LookAt
<1>3. TRUE \in BOOLEAN /\ FALSE \in BOOLEAN
  OBVIOUS
<1>4. CASE AcceptProbe(TRUE)
  BY <1>1, <1>4
<1>5. CASE AcceptProbe(FALSE)
  BY <1>1, <1>5
<1>6. CASE \E kinds \in SUBSET Kinds : AcceptFails(kinds)
  BY <1>2, <1>6
<1> QED BY <1>4, <1>5, <1>6 DEF Looks

LEMMA LooksKeepTypes ==
    ASSUME TypeOK, NEW kinds \in SUBSET Kinds, LookAt(kinds)
    PROVE  TypeOK'
<1>1. stored' \in Sessions /\ mem' \in Sessions
  BY Afterwards DEF LookAt, TypeOK
<1>2. flagged' \subseteq Records
  <2>1. \A k \in kinds : After(kinds).pending[<<save, k>>] \subseteq Records
    BY Afterwards DEF TypeOK, Sessions
  <2>2. FlagsAfter(kinds) \subseteq Records
    BY <2>1 DEF FlagsAfter, TypeOK
  <2> QED BY <2>2 DEF LookAt, TypeOK
<1>3. before' \in [Saves \X Kinds -> SUBSET Records]
  BY DEF LookAt, FirstSeen, TypeOK
<1>4. LinkTypeOK'
  BY TaskTypes, TasksAssumption DEF LookAt, TypeOK, LinkTypeOK, Spend, Bounded
<1>5. rebound' \subseteq Tasks
  BY TaskTypes, TasksAssumption DEF LookAt
<1> QED BY <1>1, <1>2, <1>3, <1>4, <1>5 DEF LookAt, TypeOK

LEMMA KeepsTypes ==
    ASSUME TypeOK, Process, Books, Next
    PROVE  TypeOK'
BY Steps, PlayKeepsTypes, ConnectionKeepsTypes, WaitsKeepTypes, SendsAreProper, SendsKeepTypes,
   CountingKeepsTypes, LooksAreLooks, LooksKeepTypes

-----------------------------------------------------------------------------
(* The process and the tasks *)

\* The game disturbs of the bridge only what was read and what is to be reported.
LEMMA GameSide ==
    ASSUME Play
    PROVE  /\ UNCHANGED <<linkVars, stored, mem, broken, before>>
           /\ flagged' = flagged \/ flagged' = {}
BY DEF Play, GameStarts, GameStops, Kill, GameSaves, LoadSave

\* Nothing is entered in the session when the connection changes.
LEMMA ConnectionSide ==
    ASSUME Connection
    PROVE  /\ UNCHANGED <<game, stored, before>>
           /\ StopBridge \/ InitializeSession \/ UNCHANGED seen
BY DEF Connection, StartBridge, StopBridge, Connects, Loses, InitializeSession, Hears, Reaches

\* Nor when a coroutine waits or sends.
LEMMA WaitingSide ==
    ASSUME Waits \/ (\E t \in Tasks, q \in SUBSET Locations : SendBy(t, q))
    PROVE  UNCHANGED <<server, session, game, seen>>
BY DEF Waits, AskKills, Probe, ProbeOutdated, SentBy, Outdated, GivesUp, SendBy

\* A coroutine of a session that is bound begins or ends a wait.
LEMMA TasksKeepProcess ==
    ASSUME TypeOK, Process, NEW t \in Tasks, keyed, UNCHANGED session,
           room # NoRoom \/ stored' = stored,
           \/ pc[t] = "idle" /\ Ask(t)
           \/ pc[t] = "idle" /\ pc' = [pc EXCEPT ![t] = "probe"] /\ sending' = sending
           \/ Finish(t) \/ \E q \in SUBSET Locations : Send(t, q)
    PROVE  Process'
<1>1. ASSUME NEW u \in Tasks PROVE pc'[u] # "send" => sending'[u] = {}
  BY <1>1 DEF Process, TypeOK, LinkTypeOK, Ask, Finish, Send
<1>2. alive' /\ keyed' /\ room' \in Rooms /\ room' # NoRoom
  BY RoomsAssumption DEF Process
<1> QED BY <1>1, <1>2 DEF Process

LEMMA ConnectionKeepsProcess ==
    ASSUME TypeOK, Process, Connection
    PROVE  Process'
<1> USE DEF Process
<1>0. UNCHANGED stored
  BY ConnectionSide
<1>1. CASE StartBridge
  BY <1>0, <1>1, RoomsAssumption DEF StartBridge, Start
<1>2. CASE StopBridge
  BY <1>0, <1>2 DEF StopBridge, Stop
<1>3. CASE Connects
  <2>1. UNCHANGED <<room, alive, keyed, pc, sending, broken, flagged>> /\ alive
    BY <1>3 DEF Connects, Welcome, Complete, Open
  <2> QED BY <1>0, <2>1
<1>4. CASE Loses
  <2>1. UNCHANGED <<room, alive, keyed, pc, sending, broken, flagged>> /\ alive
    BY <1>4 DEF Loses, Lose
  <2> QED BY <1>0, <2>1
<1>5. CASE InitializeSession
  BY <1>0, <1>5 DEF InitializeSession, Initialize
<1>6. CASE Hears
  BY <1>0, <1>6 DEF Hears, RoomUpdate
<1>7. CASE Reaches
  BY <1>0, <1>7 DEF Reaches, ServerReceives
<1> QED BY <1>1, <1>2, <1>3, <1>4, <1>5, <1>6, <1>7 DEF Connection

LEMMA WaitsKeepProcess ==
    ASSUME TypeOK, Process, Waits
    PROVE  Process'
<1>1. UNCHANGED <<stored, session>>
  BY WaitingSide
<1>2. CASE AskKills
  BY <1>1, <1>2, TasksKeepProcess, TasksAssumption DEF AskKills, ready
<1>3. CASE Probe
  BY <1>1, <1>3, TasksKeepProcess, TasksAssumption DEF Probe, ready
<1>4. \A t \in Tasks : pc[t] # "idle" => keyed
  BY DEF Process
<1>5. CASE ProbeOutdated
  BY <1>1, <1>4, <1>5, TasksKeepProcess, TasksAssumption DEF ProbeOutdated
<1>6. ASSUME NEW t \in Tasks, SentBy(t) \/ Outdated(t) \/ GivesUp(t) PROVE Process'
  <2>1. Finish(t) /\ pc[t] # "idle"
    BY <1>6 DEF SentBy, Outdated, GivesUp
  <2> QED BY <1>1, <1>4, <2>1, TasksKeepProcess
<1> QED BY <1>2, <1>3, <1>5, <1>6 DEF Waits

LEMMA KeepsProcess ==
    ASSUME TypeOK, Process, Next
    PROVE  Process'
<1>1. CASE Play
  BY <1>1, GameSide DEF Process
<1>2. CASE Connection
  BY <1>2, ConnectionKeepsProcess
<1>3. CASE Waits
  BY <1>3, WaitsKeepProcess
<1>4. CASE Sends
  <2>1. PICK t \in Tasks, q \in SUBSET Locations : SendBy(t, q) /\ ToBeSent(t, q)
    BY <1>4, SendsAreProper
  <2>2. keyed /\ Send(t, q) /\ UNCHANGED <<stored, session>>
    BY <2>1 DEF SendBy, ToBeSent
  <2> QED BY <2>2, TasksKeepProcess
<1>5. \A t \in Tasks : pc[t] # "idle" => keyed /\ room # NoRoom
  BY RoomsAssumption DEF Process
<1>6. CASE ConsumeKills \/ ConsumeFails
  <2>1. pc["monitor"] # "idle" /\ Finish("monitor") /\ UNCHANGED session
    BY <1>6 DEF ConsumeKills, ConsumeFails, Answered
  <2> QED BY <1>5, <2>1, TasksAssumption, TasksKeepProcess
<1>7. CASE Looks
  <2>1. pc["monitor"] # "idle" /\ Finish("monitor") /\ UNCHANGED session
    BY <1>7, LooksAreLooks DEF LookAt
  <2> QED BY <1>5, <2>1, TasksAssumption, TasksKeepProcess
<1> QED BY <1>1, <1>2, <1>3, <1>4, <1>6, <1>7, Steps

-----------------------------------------------------------------------------
(* Kills *)

LEMMA PlayKeepsBooks ==
    ASSUME TypeOK, Books, Play
    PROVE  Books'
<1> USE DEF Books, CountsKills, Uncounted, Cursor
<1>0. /\ stored' = stored /\ mem' = mem /\ keyed' = keyed
      /\ stored.total \in Nat /\ stored.cursor \in Nat /\ stored.producer \in Nat
      /\ mem.total \in Nat /\ mem.cursor \in Nat /\ mem.producer \in Nat
      /\ producer \in Nat /\ counter \in Nat /\ kills \in Nat /\ missed \in Nat
  BY GameSide DEF TypeOK, Sessions
<1>1. CASE GameStarts
  <2>1. /\ ~running /\ running' /\ counter' = 0 /\ producer' = producer + 1
        /\ UNCHANGED <<kills, missed>>
    BY <1>1 DEF GameStarts
  <2>2. Cursor(stored)' = 0 /\ Cursor(mem)' = 0
    BY <1>0, <2>1
  <2> QED BY <1>0, <2>1, <2>2
<1>2. CASE GameStops
  BY <1>0, <1>2 DEF GameStops, Outstanding
<1>3. CASE Kill
  BY <1>0, <1>3 DEF Kill
<1>4. CASE UNCHANGED <<running, producer, counter, kills, missed>>
  BY <1>0, <1>4
<1>5. (\E new \in SUBSET Records : GameSaves(new)) \/ (\E s \in Saves : LoadSave(s)) =>
         UNCHANGED <<running, producer, counter, kills, missed>>
  BY DEF GameSaves, LoadSave
<1> QED BY <1>1, <1>2, <1>3, <1>4, <1>5 DEF Play

\* Two versions of the session that have counted the same.
Counts(x, y) == x.total = y.total /\ x.producer = y.producer /\ x.cursor = y.cursor

LEMMA SameCounts ==
    ASSUME TypeOK, Books, UNCHANGED <<running, producer, counter, kills, missed>>,
           Counts(stored', stored) \/ (keyed /\ Counts(stored', mem)),
           Counts(mem', mem) /\ (keyed' => keyed)
    PROVE  Books'
BY DEF Books, CountsKills, Uncounted, Cursor, Counts, TypeOK, Sessions

LEMMA KeepsBooks ==
    ASSUME TypeOK, Process, Books, Next
    PROVE  Books'
<1>1. CASE Play
  BY <1>1, PlayKeepsBooks
<1>2. CASE StopBridge
  <2>1. ~keyed' /\ mem' = Fresh /\ UNCHANGED <<game, stored>>
    BY <1>2 DEF StopBridge, Stop
  <2>2. Fresh.total = 0 /\ Fresh.producer = 0 /\ Fresh.cursor = 0
    BY DEF Fresh
  <2> QED BY <2>1, <2>2 DEF Books, CountsKills, Uncounted, Cursor, TypeOK
<1>3. CASE InitializeSession
  <2>1. mem' = stored /\ UNCHANGED <<game, stored>>
    BY <1>3 DEF InitializeSession
  <2> QED BY <2>1 DEF Books, CountsKills, Uncounted, Cursor, TypeOK, Sessions
<1>4. CASE UNCHANGED <<game, stored, mem, keyed>>
  BY <1>4, SameCounts DEF Counts
<1>5. CASE Connection /\ ~StopBridge /\ ~InitializeSession
  <2>1. UNCHANGED <<game, stored, mem>>
    BY <1>5, ConnectionSide
  <2>2. UNCHANGED keyed
    BY <1>5 DEF Connection, StartBridge, Start, Connects, Welcome, Complete, Open, Loses, Lose,
                Hears, RoomUpdate, Reaches, ServerReceives
  <2> QED BY <1>4, <2>1, <2>2
<1>6. CASE Waits \/ Sends
  BY <1>4, <1>6, WaitingSide, SendsAreProper
<1>7. CASE ConsumeKills
  <2>1. keyed /\ running
    BY <1>7, TasksAssumption DEF ConsumeKills, Answered, Process
  <2>2. mem' = Consumed /\ (stored' = Consumed \/ stored' = stored) /\ UNCHANGED <<game, keyed>>
    BY <1>7 DEF ConsumeKills, Persist
  <2>3. /\ Consumed.total = mem.total + counter - Cursor(mem)
        /\ Consumed.producer = producer /\ Consumed.cursor = counter
    BY Uncounting
  <2> QED BY <2>1, <2>2, <2>3 DEF Books, CountsKills, Uncounted, Cursor, TypeOK, Sessions
<1>8. CASE ConsumeFails
  BY <1>4, <1>8 DEF ConsumeFails, Block
<1>9. CASE Looks
  <2>1. PICK kinds \in SUBSET Kinds : LookAt(kinds)
    BY <1>9, LooksAreLooks
  <2>2. Counts(After(kinds), mem)
    BY Afterwards DEF Counts
  <2>3. keyed /\ UNCHANGED <<game, keyed>>
    BY <2>1, TasksAssumption DEF LookAt, Process
  <2>4. (stored' = stored \/ stored' = After(kinds)) /\ (mem' = mem \/ mem' = After(kinds))
    BY <2>1 DEF LookAt
  <2>5. Counts(stored', stored) \/ Counts(stored', mem)
    BY <2>2, <2>4 DEF Counts
  <2>6. Counts(mem', mem)
    BY <2>2, <2>4 DEF Counts
  <2> QED BY <2>3, <2>5, <2>6, SameCounts
<1> QED BY <1>1, <1>2, <1>3, <1>5, <1>6, <1>7, <1>8, <1>9, Steps

-----------------------------------------------------------------------------
(* What was seen in the saves *)

\* The first part of EarnedIsKept, of one save and kind.
KeptOf(s, k) == <<s, k>> \in stored.looked =>
    (IF k = "mastery" THEN stored.last[<<s, k>>] \ before[<<s, k>>]
                      ELSE stored.last[<<s, k>>] \intersect Slot[room])
        \subseteq stored.pending[<<s, k>>] \union server[room]

LEMMA Bound ==
    ASSUME Process, EarnedOnly, keyed
    PROVE  alive /\ room \in Rooms /\ checked \subseteq server[room]
BY DEF Process, EarnedOnly

\* A look keeps of an earlier one what the server does not have, and adds what is new.
LEMMA LooksKeepEntries ==
    ASSUME TypeOK, Process, SeenInSaves, EarnedOnly, NEW kinds \in SUBSET Kinds, LookAt(kinds),
           NEW s \in Saves, NEW k \in Kinds
    PROVE  SeenIn(s, k)' /\ (KeptOf(s, k) => KeptOf(s, k)')
<1> DEFINE b == <<s, k>>
<1>0. b \in Saves \X Kinds
  OBVIOUS
<1>1. /\ keyed /\ ~broken /\ checked \subseteq server[room] /\ save \in Saves
      /\ room' = room /\ server' = server /\ completed' = completed /\ save' = save
  BY Bound, TasksAssumption DEF LookAt, Process, TypeOK
<1>2. /\ mem.last[b] = stored.last[b] /\ mem.pending[b] = stored.pending[b]
      /\ b \in mem.looked <=> b \in stored.looked
  BY <1>1 DEF SeenInSaves, Entries
<1>3. SeenIn(s, k)
  BY DEF SeenInSaves
<1>4. before'[b] = IF s = save /\ k \in kinds /\ b \notin mem.looked THEN Now(k) ELSE before[b]
  <2>1. before' = FirstSeen(kinds)
    BY DEF LookAt
  <2> QED BY <1>0, <2>1 DEF FirstSeen, Now
<1>5. CASE s = save /\ k \in kinds
  <2>1. stored' = After(kinds)
    BY <1>5 DEF LookAt
  <2>2. /\ b \in stored'.looked /\ stored'.last[b] = Now(k)
        /\ stored'.pending[b] =
              ((mem.pending[b] \union (Now(k) \intersect FirstLook(k))) \ checked)
              \union (IF b \in mem.looked THEN Now(k) \ mem.last[b] ELSE {})
    BY <1>5, <2>1, Afterwards
  <2>3. Now(k) = completed[s] \intersect Of(k)
    BY <1>5 DEF Now
  <2> HIDE DEF b
  <2>4. CASE k = "mastery"
    <3>1. FirstLook(k) = {}
      BY <2>4 DEF FirstLook
    <3>2. SeenIn(s, k)'
      BY <1>1, <1>2, <1>3, <1>4, <1>5, <2>2, <2>3, <2>4, <3>1 DEF SeenIn, b
    <3>3. KeptOf(s, k) => KeptOf(s, k)'
      BY <1>1, <1>2, <1>3, <1>4, <1>5, <2>2, <2>3, <2>4, <3>1 DEF SeenIn, KeptOf, b
    <3> QED BY <3>2, <3>3
  <2>5. CASE k = "challenge"
    <3>1. FirstLook(k) = Slot[room] \ checked
      BY <2>5 DEF FirstLook
    <3>2. SeenIn(s, k)'
      BY <1>1, <1>2, <1>3, <2>2, <2>3, <2>5 DEF SeenIn, b
    <3>3. KeptOf(s, k) => KeptOf(s, k)'
      BY <1>1, <1>2, <1>3, <2>2, <2>3, <2>5, <3>1 DEF SeenIn, KeptOf, b
    <3> QED BY <3>2, <3>3
  <2> QED BY <2>4, <2>5 DEF Kinds
<1>6. CASE ~(s = save /\ k \in kinds)
  <2>1. /\ b \in stored'.looked <=> b \in stored.looked
        /\ stored'.last[b] = stored.last[b] /\ stored'.pending[b] = stored.pending[b]
    BY <1>2, <1>6, Afterwards DEF LookAt
  <2>2. before'[b] = before[b]
    BY <1>4, <1>6
  <2> QED BY <1>1, <1>3, <2>1, <2>2 DEF SeenIn, KeptOf
<1> QED BY <1>5, <1>6

\* Only a look makes new entries.
LEMMA EntriesChange ==
    ASSUME TypeOK, Process, Books, SeenInSaves, Next
    PROVE  \/ Looks
           \/ /\ Entries(stored', stored) /\ before' = before
              /\ keyed' /\ ~broken' => Entries(mem', stored')
<1> USE DEF SeenInSaves, Entries
<1>1. CASE UNCHANGED <<stored, before>> /\ (keyed' /\ ~broken' => keyed /\ ~broken /\ mem' = mem)
  BY <1>1
<1>2. CASE StopBridge
  BY <1>1, <1>2 DEF StopBridge, Stop
<1>3. CASE InitializeSession
  BY <1>3 DEF InitializeSession
<1>4. CASE Connection /\ ~StopBridge /\ ~InitializeSession
  <2>1. UNCHANGED keyed
    BY <1>4 DEF Connection, StartBridge, Start, Connects, Welcome, Complete, Open, Loses, Lose,
                Hears, RoomUpdate, Reaches, ServerReceives
  <2> QED BY <1>1, <1>4, <2>1, ConnectionSide
<1>5. CASE Play
  BY <1>1, <1>5, GameSide
<1>6. CASE Waits \/ Sends
  BY <1>1, <1>6, WaitingSide, SendsAreProper
<1>7. CASE ConsumeKills
  <2>1. keyed /\ ~broken /\ before' = before
    BY <1>7, TasksAssumption DEF ConsumeKills, Answered, Process
  <2>2. mem' = Consumed /\ (stored' = Consumed \/ stored' = stored)
    BY <1>7 DEF ConsumeKills, Persist
  <2> QED BY <2>1, <2>2, Uncounting
<1>8. CASE ConsumeFails
  BY <1>1, <1>8 DEF ConsumeFails, Block
<1> QED BY <1>2, <1>3, <1>4, <1>5, <1>6, <1>7, <1>8, Steps

\* Neither the game nor the server takes anything back.
LEMMA OnlyMore ==
    ASSUME TypeOK, Process, Next
    PROVE  /\ kills <= kills' /\ \A s \in Saves : completed[s] \subseteq completed'[s]
           /\ \A r \in Rooms : server[r] \subseteq server'[r]
<1>1. CASE Play
  <2>1. UNCHANGED server
    BY <1>1, GameSide
  <2>2. kills' = kills \/ kills' = kills + 1
    BY <1>1 DEF Play, GameStarts, GameStops, Kill, GameSaves, LoadSave
  <2>3. completed' = completed \/ \E new \in SUBSET Records : GameSaves(new)
    BY <1>1 DEF Play, GameStarts, GameStops, Kill, LoadSave
  <2>4. \A s \in Saves : completed[s] \subseteq completed'[s]
    BY <2>3 DEF GameSaves, TypeOK
  <2> QED BY <2>1, <2>2, <2>4 DEF TypeOK
<1>2. ~Play => UNCHANGED game
  BY Steps, ConnectionSide, WaitingSide, SendsAreProper, LooksAreLooks
     DEF ConsumeKills, ConsumeFails, LookAt
<1>3. CASE ~Play /\ UNCHANGED server
  BY <1>2, <1>3 DEF TypeOK
<1>4. CASE Connection
  <2>1. UNCHANGED server \/ \E m \in wire : ServerReceives(m)
    BY <1>4 DEF Connection, StartBridge, Start, StopBridge, Stop, Connects, Welcome, Complete,
                Open, Loses, Lose, InitializeSession, Initialize, Hears, RoomUpdate, Reaches
  <2>2. \A r \in Rooms : server[r] \subseteq server'[r]
    BY <2>1 DEF ServerReceives, TypeOK, LinkTypeOK
  <2> QED BY <1>4, <2>2, ConnectionSide DEF TypeOK
<1>5. CASE Waits \/ Sends \/ ConsumeKills \/ ConsumeFails \/ Looks
  <2>1. UNCHANGED server
    BY <1>5, WaitingSide, SendsAreProper, LooksAreLooks DEF ConsumeKills, ConsumeFails, LookAt
  <2> QED BY <1>1, <1>3, <2>1
<1> QED BY <1>1, <1>4, <1>5, Steps

LEMMA KeepsSeen ==
    ASSUME TypeOK, Process, Books, SeenInSaves, EarnedOnly, Next
    PROVE  SeenInSaves'
<1>1. CASE Looks
  <2>1. PICK kinds \in SUBSET Kinds : LookAt(kinds)
    BY <1>1, LooksAreLooks
  <2>2. \A s \in Saves, k \in Kinds : SeenIn(s, k)'
    BY <2>1, LooksKeepEntries
  <2>3. keyed /\ ~broken
    BY <2>1, TasksAssumption DEF LookAt, Process
  <2>4. kinds = {} => stored' = stored /\ mem' = mem
    BY <2>1 DEF LookAt
  <2>5. kinds # {} /\ ~broken' => stored' = mem'
    BY <2>1 DEF LookAt
  <2>6. ~broken' => Entries(mem', stored')
    BY <2>3, <2>4, <2>5 DEF SeenInSaves, Entries
  <2> QED BY <2>2, <2>6 DEF SeenInSaves
<1>2. CASE ~Looks
  <2>1. /\ Entries(stored', stored) /\ before' = before
        /\ keyed' /\ ~broken' => Entries(mem', stored')
    BY <1>2, EntriesChange
  <2>2. ASSUME NEW s \in Saves, NEW k \in Kinds PROVE SeenIn(s, k)'
    BY <2>1, OnlyMore DEF SeenInSaves, SeenIn, Entries
  <2> QED BY <2>1, <2>2 DEF SeenInSaves
<1> QED BY <1>1, <1>2

\* The room of a bridge that was started once stays the one of the session.
LEMMA RoomStays ==
    ASSUME TypeOK, Process, Next, room \in Rooms
    PROVE  room' = room
<1>1. CASE StartBridge
  BY <1>1, OneRoomAssumption DEF StartBridge, Start
<1>2. CASE Connection /\ ~StartBridge
  BY <1>2 DEF Connection, StopBridge, Stop, Connects, Welcome, Complete, Open, Loses, Lose,
              InitializeSession, Initialize, Hears, RoomUpdate, Reaches, ServerReceives
<1>3. CASE Play
  BY <1>3, GameSide
<1>4. CASE Waits \/ Sends \/ ConsumeKills \/ ConsumeFails \/ Looks
  BY <1>4, WaitingSide, SendsAreProper, LooksAreLooks DEF ConsumeKills, ConsumeFails, LookAt
<1> QED BY <1>1, <1>2, <1>3, <1>4, Steps

KeptInFile == \A s \in Saves, k \in Kinds : KeptOf(s, k)

LEMMA KeepsInFile ==
    ASSUME TypeOK, Process, Books, SeenInSaves, EarnedOnly, KeptInFile, Next
    PROVE  KeptInFile'
<1>1. CASE Looks
  BY <1>1, LooksAreLooks, LooksKeepEntries DEF KeptInFile
<1>2. CASE ~Looks /\ room \in Rooms
  BY <1>2, EntriesChange, OnlyMore, RoomStays DEF KeptInFile, KeptOf, Entries
<1>3. CASE ~Looks /\ room = NoRoom
  BY <1>3, EntriesChange DEF KeptInFile, KeptOf, Entries, Process
<1> QED BY <1>1, <1>2, <1>3 DEF TypeOK, LinkTypeOK

-----------------------------------------------------------------------------
(* What was earned *)

\* What was earned stays earned.
LEMMA EarnedStays ==
    ASSUME TypeOK, Process, Books, SeenInSaves, EarnedOnly, Next, NEW r \in Rooms, NEW l, Earned(r, l)
    PROVE  Earned(r, l)'
<1>1. l \in Milestones => kills' >= Threshold[l]
  <2>1. kills' \in Nat /\ kills \in Nat /\ kills <= kills'
    BY OnlyMore, KeepsTypes DEF TypeOK
  <2>2. l \in Milestones => Threshold[l] \in Nat /\ kills >= Threshold[l]
    BY KindsAssumption DEF Earned
  <2> QED BY <2>1, <2>2
<1>2. \A s \in Saves : <<s, "mastery">> \in stored.looked =>
         <<s, "mastery">> \in stored'.looked /\ before'[<<s, "mastery">>] = before[<<s, "mastery">>]
  <2>1. CASE ~Looks
    BY <2>1, EntriesChange DEF Entries
  <2>2. CASE Looks
    <3>1. PICK kinds \in SUBSET Kinds : LookAt(kinds)
      BY <2>2, LooksAreLooks
    <3>2. keyed /\ ~broken /\ mem.looked = stored.looked
      BY <3>1, TasksAssumption DEF LookAt, Process, SeenInSaves, Entries
    <3> SUFFICES ASSUME NEW s \in Saves, <<s, "mastery">> \in stored.looked
                 PROVE  /\ <<s, "mastery">> \in stored'.looked
                        /\ before'[<<s, "mastery">>] = before[<<s, "mastery">>]
      OBVIOUS
    <3>3. before'[<<s, "mastery">>] = before[<<s, "mastery">>]
      BY <3>1, <3>2, KindsOfRecords DEF LookAt, FirstSeen
    <3>4. <<s, "mastery">> \in After(kinds).looked
      BY <3>2, Afterwards, KindsOfRecords
    <3> QED BY <3>1, <3>3, <3>4 DEF LookAt
  <2> QED BY <2>1, <2>2
<1>3. l \in Masteries => \E s \in Saves : /\ <<s, "mastery">> \in stored'.looked
                                          /\ l \in completed'[s] \ before'[<<s, "mastery">>]
  BY <1>2, OnlyMore DEF Earned
<1>4. l \in Challenges => \E s \in Saves : l \in completed'[s]
  BY OnlyMore DEF Earned
<1>5. l \in Aggregates => Children[l] \intersect Slot[r] \subseteq server'[r]
  BY OnlyMore DEF Earned
<1> QED BY <1>1, <1>3, <1>4, <1>5 DEF Earned

\* What is to be sent was earned.
LEMMA SendsAreEarned ==
    ASSUME TypeOK, Process, Books, EarnedOnly, NEW t \in Tasks, NEW q \in SUBSET Locations,
           ToBeSent(t, q), NEW l \in q
    PROVE  Earned(room, l)
<1>0. alive /\ room \in Rooms /\ checked \subseteq server[room]
  BY Bound DEF ToBeSent
<1>1. CASE l \in Milestones /\ Threshold[l] <= mem.total
  <2>1. mem.total <= kills /\ mem.total \in Nat /\ kills \in Nat
    BY Uncounting DEF Books, CountsKills, TypeOK, Sessions
  <2>2. Threshold[l] \in Nat
    BY <1>1, KindsAssumption
  <2>3. kills >= Threshold[l]
    BY <1>1, <2>1, <2>2
  <2> QED BY <1>1, <2>3, KindsAssumption DEF Earned, Records
<1>2. CASE l \in flagged
  BY <1>0, <1>2 DEF EarnedOnly
<1>3. CASE l \in Aggregates /\ AggregateReady(l)
  <2>1. Children[l] \intersect Slot[room] \subseteq server[room]
    BY <1>0, <1>3 DEF AggregateReady, Authored
  <2> QED BY <1>3, <2>1, KindsAssumption DEF Earned, Records
<1>4. \/ l \in Milestones /\ Threshold[l] <= mem.total
      \/ l \in flagged
      \/ l \in Aggregates /\ AggregateReady(l)
  BY DEF ToBeSent
<1> QED BY <1>1, <1>2, <1>3, <1>4

\* What a look flags was earned.
LEMMA FlagsAreEarned ==
    ASSUME TypeOK, Process, Books, SeenInSaves, EarnedOnly, NEW kinds \in SUBSET Kinds,
           LookAt(kinds), NEW l \in flagged', l \notin flagged
    PROVE  Earned(room, l)'
<1>1. PICK k \in kinds : l \in After(kinds).pending[<<save, k>>]
  BY DEF LookAt, FlagsAfter
<1>2. /\ stored' = After(kinds) /\ save' = save /\ save \in Saves
      /\ <<save, k>> \in After(kinds).looked
  BY <1>1, Afterwards DEF LookAt, TypeOK
<1>3. SeenIn(save, k)'
  BY <1>2, LooksKeepEntries
<1>4. /\ l \in completed'[save] \intersect Of(k)
      /\ k = "mastery" => l \notin before'[<<save, k>>]
  BY <1>1, <1>2, <1>3 DEF SeenIn
<1>5. CASE k = "mastery"
  <2>1. l \in Masteries
    BY <1>4, <1>5 DEF Of
  <2> QED BY <1>2, <1>4, <1>5, <2>1, KindsAssumption DEF Earned, Records
<1>6. CASE k = "challenge"
  <2>1. l \in Challenges
    BY <1>4, <1>6 DEF Of
  <2> QED BY <1>2, <1>4, <1>6, <2>1, KindsAssumption DEF Earned, Records
<1> QED BY <1>5, <1>6 DEF Kinds

\* The parts of EarnedOnly, of the server and of the process.
Recorded == \A r \in Rooms : \A l \in Known(r) : Earned(r, l)
Held     == wire \union submitted \union flagged \union UNION {sending[t] : t \in Tasks}

LEMMA EarnedParts ==
    EarnedOnly <=> /\ Recorded
                   /\ alive => (\A l \in Held : Earned(room, l)) /\ checked \subseteq server[room]
BY DEF EarnedOnly, Recorded, Held

LEMMA KeepsRecorded ==
    ASSUME TypeOK, Process, Books, SeenInSaves, EarnedOnly, Next
    PROVE  Recorded'
<1> SUFFICES ASSUME NEW r \in Rooms, NEW l \in Known(r)'
             PROVE  Earned(r, l)'
  BY DEF Recorded
<1>1. CASE l \in Known(r)
  BY <1>1, EarnedStays, EarnedParts DEF Recorded
<1>2. CASE l \notin Known(r)
  <2>1. server' # server
    BY <1>2 DEF Known
  <2>2. Reaches
    BY <2>1, Steps, GameSide, WaitingSide, SendsAreProper, LooksAreLooks
       DEF ConsumeKills, ConsumeFails, LookAt, Connection, StartBridge, Start, StopBridge, Stop,
           Connects, Welcome, Complete, Open, Loses, Lose, InitializeSession, Initialize, Hears,
           RoomUpdate
  <2>3. PICK m \in wire : ServerReceives(m)
    BY <2>2 DEF Reaches
  <2>4. r = room /\ l = m
    BY <1>2, <2>3 DEF Known, ServerReceives, TypeOK, LinkTypeOK
  <2>5. Earned(r, l)
    BY <2>3, <2>4, EarnedParts DEF Held, Process
  <2> QED BY <2>5, EarnedStays
<1> QED BY <1>1, <1>2

\* What the process holds after a step was held before, is being sent or was just flagged.
LEMMA HeldChanges ==
    ASSUME TypeOK, Process, Next, alive', NEW l \in Held'
    PROVE  \/ alive /\ l \in Held
           \/ \E t \in Tasks, q \in SUBSET Locations : ToBeSent(t, q) /\ l \in q
           \/ Looks /\ l \in flagged' \ flagged
<1>0. Waits \/ Sends \/ ConsumeKills \/ ConsumeFails \/ Looks => alive
  <2>1. Waits => alive
    BY TasksAssumption
       DEF Waits, AskKills, Probe, ready, ProbeOutdated, SentBy, Outdated, GivesUp, Process
  <2>2. Sends => alive
    BY SendsAreProper DEF ToBeSent, Process
  <2>3. ConsumeKills \/ ConsumeFails \/ Looks => alive
    BY LooksAreLooks, TasksAssumption DEF ConsumeKills, ConsumeFails, Answered, LookAt, Process
  <2> QED BY <2>1, <2>2, <2>3
<1>1. CASE Play
  BY <1>1, GameSide DEF Held, Process
<1>2. CASE Connection
  <2>1. CASE StartBridge
    <3>1. ~alive /\ UNCHANGED <<wire, submitted, flagged, sending>>
      BY <2>1 DEF StartBridge, Start
    <3>2. Held = {}
      BY <3>1 DEF Held, Process
    <3> QED BY <3>1, <3>2 DEF Held
  <2>2. CASE ~StartBridge
    <3>1. alive /\ UNCHANGED sending
      BY <1>2, <2>2 DEF Connection, StopBridge, Stop, Connects, Welcome, Complete, Open, Loses,
                       Lose, InitializeSession, Initialize, Hears, RoomUpdate, Reaches,
                       ServerReceives, Process
    <3>2. /\ wire' \subseteq wire \union submitted /\ submitted' = submitted
          /\ flagged' \subseteq flagged
      BY <1>2, <2>2 DEF Connection, StopBridge, Stop, Connects, Welcome, Complete, Open, Loses,
                       Lose, InitializeSession, Initialize, Hears, RoomUpdate, Reaches,
                       ServerReceives
    <3> QED BY <3>1, <3>2 DEF Held
  <2> QED BY <2>1, <2>2
<1>3. ASSUME NEW t \in Tasks, Finish(t), wire' \subseteq wire,
             submitted' \subseteq submitted \union sending[t]
      PROVE  l \in flagged' \/ l \in Held
  BY <1>3 DEF Held, Finish, TypeOK, LinkTypeOK
<1>4. CASE Waits
  <2>1. UNCHANGED flagged
    BY <1>4, WaitingSide
  <2>2. CASE AskKills \/ Probe
    <3>1. UNCHANGED <<wire, submitted, sending>>
      BY <2>2 DEF AskKills, Ask, Probe
    <3> QED BY <1>0, <1>4, <2>1, <3>1 DEF Held
  <2>3. CASE ProbeOutdated
    <3>1. Finish("monitor") /\ UNCHANGED <<wire, submitted>>
      BY <2>3 DEF ProbeOutdated
    <3> QED BY <1>0, <1>3, <1>4, <2>1, <3>1, TasksAssumption DEF Held
  <2>4. ASSUME NEW t \in Tasks, SentBy(t) \/ Outdated(t) \/ GivesUp(t) PROVE l \in Held
    <3>1. Finish(t) /\ wire' \subseteq wire
      BY <2>4 DEF SentBy, Outdated, GivesUp
    <3>2. submitted' \subseteq submitted \union sending[t]
      BY <2>4 DEF SentBy, Outdated, GivesUp, Marked
    <3> QED BY <1>3, <2>1, <2>4, <3>1, <3>2 DEF Held
  <2> QED BY <1>0, <1>4, <2>2, <2>3, <2>4 DEF Waits
<1>5. CASE Sends
  <2>1. PICK t \in Tasks, q \in SUBSET Locations : SendBy(t, q) /\ ToBeSent(t, q)
    BY <1>5, SendsAreProper
  <2>2. /\ wire' = wire \union q /\ sending' = [sending EXCEPT ![t] = q]
        /\ UNCHANGED <<submitted, flagged>>
    BY <2>1 DEF SendBy, Send
  <2>3. l \in Held \/ l \in q
    BY <2>2 DEF Held, TypeOK, LinkTypeOK
  <2> QED BY <1>0, <1>5, <2>1, <2>3
<1>6. CASE ConsumeKills \/ ConsumeFails \/ Looks
  <2>1. Finish("monitor") /\ UNCHANGED <<wire, submitted>>
    BY <1>6, LooksAreLooks DEF ConsumeKills, ConsumeFails, LookAt
  <2>2. Looks \/ UNCHANGED flagged
    BY <1>6 DEF ConsumeKills, ConsumeFails
  <2>3. l \in flagged' \/ l \in Held
    BY <1>3, <2>1, TasksAssumption
  <2> QED BY <1>0, <1>6, <2>2, <2>3 DEF Held
<1> QED BY <1>1, <1>2, <1>4, <1>5, <1>6, Steps

LEMMA KeepsEarned ==
    ASSUME TypeOK, Process, Books, SeenInSaves, EarnedOnly, Next
    PROVE  EarnedOnly'
<1>1. ASSUME alive', NEW l \in Held' PROVE Earned(room, l)'
  <2>1. room' \in Rooms
    BY <1>1, KeepsProcess DEF Process
  <2>2. CASE alive /\ l \in Held
    BY <2>1, <2>2, EarnedParts, EarnedStays, RoomStays DEF Process
  <2>3. ASSUME NEW t \in Tasks, NEW q \in SUBSET Locations, ToBeSent(t, q), l \in q
        PROVE  Earned(room, l)'
    <3>1. room \in Rooms
      BY <2>3, Bound DEF ToBeSent
    <3>2. Earned(room, l)
      BY <2>3, SendsAreEarned
    <3>3. room' = room
      BY <3>1, RoomStays
    <3> QED BY <3>1, <3>2, <3>3, EarnedStays
  <2>4. CASE Looks /\ l \in flagged' \ flagged
    BY <2>4, LooksAreLooks, FlagsAreEarned
  <2> QED BY <1>1, <2>2, <2>3, <2>4, HeldChanges
<1>2. ASSUME alive' PROVE checked' \subseteq server'[room']
  <2>1. CASE StartBridge
    BY <2>1 DEF StartBridge, Start, Process
  <2>2. CASE ~StartBridge
    <3>1. CASE Connection
      <4>1. alive /\ (checked' = checked \/ checked' = {} \/ checked' = Known(room))
        BY <1>2, <2>2, <3>1
           DEF Connection, StopBridge, Stop, Connects, Welcome, Complete, Open, Loses, Lose,
               InitializeSession, Initialize, Hears, RoomUpdate, Reaches, ServerReceives, Process
      <4> QED BY <4>1, OnlyMore, RoomStays DEF Known, EarnedOnly, Process
    <3>2. CASE ~Connection
      <4>1. UNCHANGED <<checked, alive>>
        BY <3>2, Steps, GameSide, SendsAreProper, LooksAreLooks
           DEF ConsumeKills, ConsumeFails, LookAt, Waits, AskKills, Probe, ProbeOutdated, SentBy,
               Outdated, GivesUp, SendBy
      <4> QED BY <1>2, <4>1, OnlyMore, RoomStays DEF EarnedOnly, Process
    <3> QED BY <3>1, <3>2
  <2> QED BY <2>1, <2>2
<1>3. Recorded'
  BY KeepsRecorded
<1>4. EarnedOnly' <=> /\ Recorded'
                      /\ alive' => /\ \A l \in Held' : Earned(room, l)'
                                   /\ checked' \subseteq server'[room']
  BY EarnedParts DEF EarnedOnly, Recorded, Held
<1> QED BY <1>1, <1>2, <1>3, <1>4

-----------------------------------------------------------------------------
(* What is in flight *)

\* The second part of EarnedIsKept.
KeptOnLink == link \in {"welcomed", "bound", "in"} => submitted \subseteq server[room] \union wire
Flight     == InFlight /\ KeptOnLink

LEMMA ConnectionKeepsFlight ==
    ASSUME TypeOK, Process, Flight, Connection
    PROVE  Flight'
<1> USE DEF Flight, InFlight, KeptOnLink
<1>0. link # "down" \/ wire # {} => alive /\ room \in Rooms
  BY DEF Process
<1>1. CASE StartBridge
  <2>1. /\ ~alive /\ link' = link /\ wire' = wire /\ submitted' = submitted
        /\ sending' = sending
    BY <1>1 DEF StartBridge, Start
  <2>2. /\ link = "down" /\ wire = {} /\ submitted = {}
        /\ \A t \in Tasks : sending[t] = {}
    BY <2>1 DEF Process
  <2> QED BY <2>1, <2>2, TasksAssumption
<1>2. CASE StopBridge
  <2>1. /\ link' = "down" /\ wire' = {} /\ submitted' = {}
        /\ sending' = [t \in Tasks |-> {}]
    BY <1>2 DEF StopBridge, Stop
  <2> QED BY <2>1, TasksAssumption
<1>3. CASE Connects
  <2>1. UNCHANGED <<server, room, alive, submitted, sending>>
    BY <1>3 DEF Connects, Welcome, Complete, Open
  <2>2. CASE Welcome
    <3>1. wire' = wire \union submitted /\ link = "open" /\ link' = "welcomed"
      BY <2>2 DEF Welcome
    <3> QED BY <2>1, <3>1, KindsAssumption DEF Marks, Records
  <2>3. CASE Complete
    <3>1. wire' = wire /\ link = "bound" /\ link' = "in"
      BY <2>3 DEF Complete
    <3> QED BY <2>1, <3>1
  <2>4. CASE Open /\ \A t \in Tasks : pc[t] # "send"
    <3>1. wire' = wire /\ link' = "open" /\ sending["monitor"] = {}
      BY <2>4, TasksAssumption DEF Open, Process
    <3> QED BY <2>1, <3>1
  <2> QED BY <1>3, <2>2, <2>3, <2>4 DEF Connects
<1>4. CASE Loses
  <2>1. /\ UNCHANGED <<server, room, alive, submitted, sending>>
        /\ link' = "down" /\ wire' = {}
    BY <1>4 DEF Loses, Lose
  <2> QED BY <2>1
<1>5. CASE InitializeSession
  <2>1. /\ UNCHANGED <<server, room, alive, wire, submitted, sending>>
        /\ link = "welcomed" /\ link' = "bound"
    BY <1>5 DEF InitializeSession, Initialize
  <2> QED BY <2>1
<1>6. CASE Hears
  <2>1. UNCHANGED <<server, session, wire, submitted, sending>>
    BY <1>6 DEF Hears, RoomUpdate
  <2> QED BY <2>1
<1>7. CASE Reaches
  <2>1. PICK m \in wire : ServerReceives(m)
    BY <1>7 DEF Reaches
  <2>2. UNCHANGED <<session, submitted, sending>> /\ wire' = wire \ {m} /\ alive
    BY <1>0, <2>1 DEF ServerReceives
  <2>3. /\ server[room] \subseteq server'[room]
        /\ m \in Slot[room] => m \in server'[room]
    BY <1>0, <2>1 DEF ServerReceives, TypeOK, LinkTypeOK
  <2> QED BY <2>2, <2>3, TasksAssumption
<1> QED BY <1>1, <1>2, <1>3, <1>4, <1>5, <1>6, <1>7 DEF Connection

\* A coroutine that ends its wait: what it sent is in the submitted set only if it is not
\* lost.
LEMMA FinishKeepsFlight ==
    ASSUME TypeOK, Process, Flight, NEW t \in Tasks, Finish(t), UNCHANGED <<server, session>>,
           \/ wire' = wire /\ (submitted' = submitted \/ submitted' = submitted \union Marked(t))
           \/ wire' = wire \ sending[t] /\ submitted' = submitted
    PROVE  Flight'
<1> USE DEF Flight, InFlight
<1>1. /\ sending'[t] = {} /\ \A u \in Tasks : u # t => sending'[u] = sending[u]
      /\ \A u \in Tasks : sending'[u] \subseteq sending[u]
  BY DEF Finish, TypeOK, LinkTypeOK
<1>2. Marked(t) \subseteq sending[t] \intersect Marks
  BY DEF Marked, Marks
<1>3. Marked(t) \subseteq sending["monitor"] \intersect Marks
  BY <1>2
<1>4. /\ t # "monitor" => sending[t] \intersect Marks = {}
      /\ t = "monitor" => sending[t] \intersect submitted = {}
  OBVIOUS
<1>5. link \in {"welcomed", "bound", "in"} => link # "down" /\ alive
  BY DEF Process
<1>6. /\ wire' \subseteq Locations /\ submitted' \subseteq Marks
      /\ alive => submitted' \subseteq Slot[room]
      /\ sending'["monitor"] \intersect submitted' = {}
  BY <1>1, <1>2, <1>3, <1>4, TasksAssumption
<1>7. link # "down" => sending'["monitor"] \intersect Marks \subseteq server[room] \union wire'
  BY <1>1, <1>4, TasksAssumption
<1>8. KeptOnLink'
  <2>1. CASE wire' = wire
    BY <1>3, <1>5, <2>1 DEF KeptOnLink
  <2>2. CASE wire' = wire \ sending[t] /\ submitted' = submitted
    BY <1>4, <2>2 DEF KeptOnLink
  <2> QED BY <2>1, <2>2
<1>9. \A u \in Tasks : /\ alive => sending'[u] \subseteq Slot[room]
                       /\ u # "monitor" => sending'[u] \intersect Marks = {}
  BY <1>1
<1> QED BY <1>6, <1>7, <1>8, <1>9

LEMMA SendKeepsFlight ==
    ASSUME TypeOK, Process, Flight, NEW t \in Tasks, NEW q \in SUBSET Locations,
           SendBy(t, q), ToBeSent(t, q)
    PROVE  Flight'
<1> USE DEF Flight, InFlight
<1>1. /\ wire' = wire \union q /\ UNCHANGED <<server, session, submitted>>
      /\ pc[t] = "idle" /\ q \subseteq Slot[room]
      /\ sending' = [sending EXCEPT ![t] = q]
  BY DEF SendBy, Send, ToBeSent
<1>2. sending'[t] = q /\ \A u \in Tasks : u # t => sending'[u] = sending[u]
  BY <1>1 DEF TypeOK, LinkTypeOK
<1>3. /\ q \intersect submitted = {}  \/ t # "monitor"
      /\ t # "monitor" => q \intersect Marks = {}
  BY DEF ToBeSent
<1>4. sending'["monitor"] \intersect submitted = {}
  BY <1>2, <1>3, TasksAssumption
<1>5. link # "down" => sending'["monitor"] \intersect Marks \subseteq server[room] \union wire'
  BY <1>1, <1>2, TasksAssumption
<1>6. KeptOnLink'
  BY <1>1 DEF KeptOnLink
<1>7. \A u \in Tasks : /\ alive => sending'[u] \subseteq Slot[room]
                       /\ u # "monitor" => sending'[u] \intersect Marks = {}
  BY <1>1, <1>2, <1>3
<1> QED BY <1>1, <1>4, <1>5, <1>6, <1>7

LEMMA KeepsFlight ==
    ASSUME TypeOK, Process, Flight, Next
    PROVE  Flight'
<1>1. CASE UNCHANGED <<server, session, wire, submitted, sending>>
  BY <1>1 DEF Flight, InFlight, KeptOnLink
<1>2. CASE Play
  BY <1>1, <1>2, GameSide
<1>3. CASE Connection
  BY <1>3, ConnectionKeepsFlight
<1>4. CASE Waits
  <2>1. UNCHANGED <<server, session>>
    BY <1>4, WaitingSide
  <2>2. CASE AskKills \/ Probe
    BY <1>1, <2>2 DEF AskKills, Ask, Probe
  <2>3. CASE ProbeOutdated
    <3>1. Finish("monitor") /\ wire' = wire /\ submitted' = submitted
      BY <2>3 DEF ProbeOutdated
    <3> QED BY <2>1, <3>1, FinishKeepsFlight, TasksAssumption
  <2>4. ASSUME NEW t \in Tasks, SentBy(t) \/ Outdated(t) \/ GivesUp(t) PROVE Flight'
    <3>1. /\ Finish(t)
          /\ \/ wire' = wire /\ (submitted' = submitted \/ submitted' = submitted \union Marked(t))
             \/ wire' = wire \ sending[t] /\ submitted' = submitted
      BY <2>4 DEF SentBy, Outdated, GivesUp
    <3> QED BY <2>1, <3>1, FinishKeepsFlight
  <2> QED BY <1>4, <2>2, <2>3, <2>4 DEF Waits
<1>5. CASE Sends
  BY <1>5, SendsAreProper, SendKeepsFlight
<1>6. CASE ConsumeKills \/ ConsumeFails \/ Looks
  <2>1. Finish("monitor") /\ UNCHANGED <<server, session, wire, submitted>>
    BY <1>6, LooksAreLooks DEF ConsumeKills, ConsumeFails, LookAt
  <2> QED BY <2>1, FinishKeepsFlight, TasksAssumption
<1> QED BY <1>2, <1>3, <1>4, <1>5, <1>6, Steps

-----------------------------------------------------------------------------
(* The theorems *)

LEMMA KeptParts == EarnedIsKept <=> KeptInFile /\ KeptOnLink
BY DEF EarnedIsKept, KeptInFile, KeptOf, KeptOnLink

LEMMA InitEstablishesInv ==
    ASSUME Init
    PROVE  Inv
<1> USE DEF Init, LinkInit
<1>0. (CHOOSE s \in Saves : TRUE) \in Saves
  BY SavesAssumption
<1>1. Fresh \in Sessions
  BY DEF Fresh, Sessions
<1>2. TypeOK
  BY <1>0, <1>1 DEF TypeOK, LinkTypeOK, Links, Pcs, Bounded
<1>3. Process
  BY DEF Process, Fresh
<1>4. Books
  BY DEF Books, CountsKills, Uncounted, Cursor, Fresh
<1>5. SeenInSaves
  BY DEF SeenInSaves, SeenIn, Fresh
<1>6. EarnedOnly
  BY DEF EarnedOnly, Known
<1>7. InFlight /\ KeptOnLink
  BY TasksAssumption DEF InFlight, KeptOnLink
<1>8. KeptInFile
  BY DEF KeptInFile, KeptOf, Fresh
<1> QED BY <1>2, <1>3, <1>4, <1>5, <1>6, <1>7, <1>8, KeptParts DEF Inv

LEMMA StepKeepsInv ==
    ASSUME Inv, [Next]_vars
    PROVE  Inv'
<1>1. CASE Next
  <2>1. TypeOK' /\ Process' /\ Books' /\ SeenInSaves' /\ EarnedOnly'
    BY <1>1, KeepsTypes, KeepsProcess, KeepsBooks, KeepsSeen, KeepsEarned DEF Inv
  <2>2. KeptInFile' /\ Flight'
    BY <1>1, KeepsInFile, KeepsFlight, KeptParts DEF Inv, Flight
  <2>3. EarnedIsKept' <=> KeptInFile' /\ KeptOnLink'
    BY DEF EarnedIsKept, KeptInFile, KeptOf, KeptOnLink
  <2> QED BY <2>1, <2>2, <2>3 DEF Inv, Flight
<1>2. CASE UNCHANGED vars
  <2>1. TypeOK' /\ Process' /\ Books'
    BY <1>2 DEF Inv, TypeOK, LinkTypeOK, Process, Books, CountsKills, Uncounted, Cursor
  <2>2. SeenInSaves'
    BY <1>2 DEF Inv, SeenInSaves, SeenIn, Entries
  <2>3. EarnedOnly'
    BY <1>2 DEF Inv, EarnedOnly, Earned, Known
  <2>4. InFlight' /\ EarnedIsKept'
    BY <1>2 DEF Inv, InFlight, EarnedIsKept
  <2> QED BY <2>1, <2>2, <2>3, <2>4 DEF Inv
<1> QED BY <1>1, <1>2

\* The inductive invariant holds in every reachable state.
THEOREM SaveInvariant == Spec => []Inv
<1>1. Init => Inv
  BY InitEstablishesInv
<1>2. Inv /\ [Next]_vars => Inv'
  BY StepKeepsInv
<1> QED BY <1>1, <1>2, PTL DEF Spec

\* The session, the counters and the link are of their types.
THEOREM SaveTypes == Spec => []TypeOK
<1>1. Inv => TypeOK
  BY DEF Inv
<1> QED BY <1>1, SaveInvariant, PTL

\* No kill is counted twice, and none is missing but those of games nobody read again, over
\* restarts of the game, of the bridge and of the session (Killsanity.consume).
THEOREM EveryKillIsAccounted == Spec => []KillsAccounted
<1>1. Inv => KillsAccounted
  BY DEF Inv, TypeOK, Books, CountsKills, Uncounted, Cursor, Outstanding, KillsAccounted, Sessions
<1> QED BY <1>1, SaveInvariant, PTL

\* The server is told only of milestones, masteries, challenges and aggregates that were
\* earned, whichever save was played when it was seen.
THEOREM OnlyEarnedIsReported == Spec => []OnlyEarned
<1>1. Inv => OnlyEarned
  BY DEF Inv, EarnedOnly, Earned, OnlyEarned
<1> QED BY <1>1, SaveInvariant, PTL

\* A change of the save that was seen is pending in the file until the server has it, and
\* what counts as submitted on a connection was not lost with an earlier one.
THEOREM EarnedChecksAreKept == Spec => []EarnedIsKept
<1>1. Inv => EarnedIsKept
  BY DEF Inv
<1> QED BY <1>1, SaveInvariant, PTL

=============================================================================
