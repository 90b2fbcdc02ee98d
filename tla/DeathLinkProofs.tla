--------------------------- MODULE DeathLinkProofs ---------------------------
(***************************************************************************)
(* Shared deaths for any events, rooms, limits and timings: a link is      *)
(* queued once in its room, hides no more deaths than it was handed to the *)
(* game, is not sent out again, and every Interval-th death of the         *)
(* player's own, and no other, is sent.                                    *)
(***************************************************************************)
EXTENDS DeathLink, FiniteSetTheorems, TLAPS

USE DEF vars, session, receiver, monitor, game, history

-----------------------------------------------------------------------------
(* The inductive invariant *)

Flies(q) == q # <<>> /\ Head(q).flying

\* Only the oldest link can have been handed over.
Sound(q) == Len(q) <= MaxQueue /\ \A i \in 2..Len(q) : ~q[i].flying

\* The copy the worker has is that of the receiver, unless that has changed.
Passing ==
    /\ enabled => room \in Rooms
    /\ Sound(queue) /\ (Calling => Sound(copy.queue))
    /\ pc \in {"native", "cancel"} => copy.queue # <<>>
    /\ pc = "native" /\ original # "stale" =>
          queue # <<>> /\ Head(queue) = Head(copy.queue) /\ late = copy.late
    /\ pc = "native" /\ original = "same" => queue = copy.queue

\* The suppressions a receiver has left for an event.
Due1(q, l, e) == (IF Flies(q) /\ Head(q).id = e THEN 1 ELSE 0) + (IF l.id = e THEN 1 ELSE 0)
Budget == \A e \in Events :
    /\ hidden[e] + Due1(queue, late, e) <= submitted[e]
    /\ Calling => hidden[e] + Due1(copy.queue, copy.late, e) <= submitted[e]

\* The native domain has the link that was handed over last.
Domain ==
    /\ native.st = "pending" => native.id \in Events
    /\ Flies(queue) => native.id = Head(queue).id
    /\ pc = "merge" /\ original = "same" /\ Flies(copy.queue) => native.id = Head(copy.queue).id

\* A death that a link has caused, or may yet cause, is expected.
Pending(e)       == native.st = "pending" /\ native.id = e
Covers(q, l, n)  == Flies(q) \/ (l.id # NoEvent /\ n <= l.left + 1)
Awaits(e, q, l, n) == Flies(q) \/ (l.id = e /\ n <= l.left + 1)
Open(e)          == e \notin lost /\ hidden[e] = 0 /\ ended[e] > 0
Suppressed == \A e \in Events : Open(e) =>
    /\ death = e  => Covers(queue, late, ended[e])
    /\ Pending(e) => Awaits(e, queue, late, ended[e])
    /\ pc = "merge" /\ original = "same" =>
          /\ death = e  => Covers(copy.queue, copy.late, ended[e])
          /\ Pending(e) => Awaits(e, copy.queue, copy.late, ended[e])

\* What was queued in a room, and few enough of it to be remembered.
Admitted(r) == {e \in Events : admitted[r][e] > 0}
Few(r)      == Cardinality(Admitted(r)) <= SeenLimit
Remembered ==
    /\ \A r \in Rooms : IsFiniteSet(Admitted(r))
    /\ used["fault"] = 0 =>
          /\ ~broken
          /\ \A r \in Rooms : Few(r) => /\ saved[r].seen = Admitted(r)
                                        /\ room = r => seen = Admitted(r)
          /\ room \in Rooms => deaths = saved[room].deaths

Inv == /\ TypeOK /\ Passing /\ Budget /\ Domain /\ Suppressed /\ Remembered
       /\ QueuedOnce /\ GraceIsExact

-----------------------------------------------------------------------------
(* Queues of links *)

LEMMA Constants ==
    /\ MaxQueue \in Nat /\ MaxQueue > 0 /\ SeenLimit \in Nat /\ SeenLimit > 0
    /\ Total \in Nat /\ Total > 0 /\ Grace \in Nat /\ Grace > 0 /\ Retry \in Nat /\ Retry > 0
    /\ Interval \in Nat /\ Interval > 0 /\ NoEvent \notin Events /\ Own \notin Events
    /\ NoEvent # Own /\ NoRoom \notin Rooms /\ Linked \subseteq Rooms
BY EventsAssumption, RoomsAssumption, LimitsAssumption

\* A second less: of every link's times, and of nothing else.
LEMMA Ages ==
    ASSUME NEW q \in Seq(Links)
    PROVE  /\ Aged(q) \in Seq(Links) /\ Len(Aged(q)) = Len(q) /\ (Aged(q) = <<>> <=> q = <<>>)
           /\ \A i \in 1..Len(q) : /\ Aged(q)[i].id = q[i].id
                                   /\ Aged(q)[i].flying = q[i].flying
           /\ Flies(Aged(q)) <=> Flies(q)
           /\ q # <<>> => Head(Aged(q)).id = Head(q).id
           /\ \A p \in Seq(Links) : q # <<>> /\ p # <<>> /\ Head(q) = Head(p)
                                     => Head(Aged(q)) = Head(Aged(p))
           /\ Sound(q) => Sound(Aged(q))
<1> DEFINE A(i) == [q[i] EXCEPT !.left = Less(@), !.wait = Less(@)]
<1>1. ASSUME NEW i \in 1..Len(q)
      PROVE  A(i) \in Links /\ A(i).id = q[i].id /\ A(i).flying = q[i].flying
  <2>1. q[i] \in Links
    OBVIOUS
  <2>2. \A n \in Nat : \A k \in 0..n : Less(k) \in 0..n
    BY DEF Less
  <2>3. /\ Less(q[i].left) \in 0..Total /\ Less(q[i].wait) \in 0..Retry
        /\ q[i].id \in Events /\ q[i].flying \in BOOLEAN
    BY <2>1, <2>2, Constants DEF Links
  <2>4. \A l \in Links : \A x \in 0..Total : \A y \in 0..Retry :
           LET m == [l EXCEPT !.left = x, !.wait = y]
           IN  m \in Links /\ m.id = l.id /\ m.flying = l.flying
    BY DEF Links
  <2> QED BY <2>1, <2>3, <2>4
<1> HIDE DEF A
<1>2. Aged(q) = [i \in 1..Len(q) |-> A(i)]
  BY DEF Aged, A
<1>3. Aged(q) \in Seq(Links) /\ Len(Aged(q)) = Len(q) /\ \A i \in 1..Len(q) : Aged(q)[i] = A(i)
  BY <1>1, <1>2
<1>4. q # <<>> => Len(q) > 0 /\ Head(q) = q[1] /\ Head(Aged(q)) = Aged(q)[1]
  BY <1>3
<1>5. Aged(q) = <<>> <=> q = <<>>
  BY <1>3
<1>6. ASSUME NEW p \in Seq(Links), q # <<>>, p # <<>>, Head(q) = Head(p)
      PROVE  Head(Aged(q)) = Head(Aged(p))
  <2>1. Len(p) > 0 /\ Head(p) = p[1] /\ Len(q) > 0 /\ Head(q) = q[1]
    BY <1>6
  <2>2. Head(Aged(q)) = Aged(q)[1] /\ Head(Aged(p)) = Aged(p)[1]
    BY <2>1 DEF Aged
  <2>3. /\ Aged(q)[1] = [q[1] EXCEPT !.left = Less(@), !.wait = Less(@)]
        /\ Aged(p)[1] = [p[1] EXCEPT !.left = Less(@), !.wait = Less(@)]
    <3>1. 1 \in 1..Len(q) /\ 1 \in 1..Len(p)
      BY <2>1
    <3> QED BY <3>1, Zenon DEF Aged
  <2> QED BY <1>6, <2>1, <2>2, <2>3, Zenon
<1> QED BY <1>1, <1>3, <1>4, <1>5, <1>6 DEF Flies, Sound

LEMMA Heads ==
    ASSUME NEW q \in Seq(Links), q # <<>>
    PROVE  /\ Head(q) \in Links /\ Head(q) = q[1] /\ Len(q) > 0
           /\ Tail(q) \in Seq(Links) /\ Len(Tail(q)) = Len(q) - 1
           /\ Sound(q) => Sound(Tail(q)) /\ ~Flies(Tail(q))
<1>1. /\ Head(q) \in Links /\ Head(q) = q[1] /\ Len(q) > 0
      /\ Tail(q) \in Seq(Links) /\ Len(Tail(q)) = Len(q) - 1
      /\ \A i \in 1..Len(Tail(q)) : Tail(q)[i] = q[i + 1]
  OBVIOUS
<1>2. ASSUME Sound(q) PROVE \A i \in 1..Len(Tail(q)) : ~Tail(q)[i].flying
  BY <1>1, <1>2 DEF Sound
<1>3. Tail(q) # <<>> => Head(Tail(q)) = Tail(q)[1] /\ 1 \in 1..Len(Tail(q))
  BY <1>1
<1> QED BY <1>1, <1>2, <1>3, Constants DEF Sound, Flies

LEMMA Appends ==
    ASSUME NEW q \in Seq(Links), NEW e \in Events, Sound(q), Len(q) < MaxQueue
    PROVE  /\ Append(q, Link(e)) \in Seq(Links) /\ Sound(Append(q, Link(e)))
           /\ Append(q, Link(e)) # <<>>
           /\ Flies(Append(q, Link(e))) <=> Flies(q)
           /\ q # <<>> => Head(Append(q, Link(e))) = Head(q)
<1>1. Link(e) \in Links /\ ~Link(e).flying
  BY Constants DEF Link, Links
<1>2. /\ Append(q, Link(e)) \in Seq(Links) /\ Len(Append(q, Link(e))) = Len(q) + 1
      /\ Append(q, Link(e)) # <<>> /\ Head(Append(q, Link(e))) = Append(q, Link(e))[1]
      /\ \A i \in 1..Len(q) : Append(q, Link(e))[i] = q[i]
      /\ Append(q, Link(e))[Len(q) + 1] = Link(e)
  BY <1>1
<1>3. q # <<>> => Head(q) = q[1] /\ Len(q) > 0
  OBVIOUS
<1>4. q = <<>> => Len(q) = 0
  OBVIOUS
<1> QED BY <1>1, <1>2, <1>3, <1>4, Constants DEF Sound, Flies

LEMMA Replaces ==
    ASSUME NEW q \in Seq(Links), q # <<>>, Sound(q), NEW l \in Links
    PROVE  /\ <<l>> \o Tail(q) \in Seq(Links) /\ Sound(<<l>> \o Tail(q))
           /\ <<l>> \o Tail(q) # <<>> /\ Head(<<l>> \o Tail(q)) = l
<1>1. /\ <<l>> \o Tail(q) \in Seq(Links) /\ Len(<<l>> \o Tail(q)) = Len(q) /\ Len(q) > 0
      /\ (<<l>> \o Tail(q))[1] = l
      /\ \A i \in 2..Len(q) : (<<l>> \o Tail(q))[i] = q[i]
  OBVIOUS
<1> QED BY <1>1 DEF Sound

\* The links that were handed over are at most one.
LEMMA KnownHead ==
    ASSUME NEW q \in Seq(Links), Sound(q)
    PROVE  Known(q) = IF Flies(q) THEN {Head(q).id} ELSE {}
<1>1. q # <<>> => Head(q) = q[1] /\ 1 \in 1..Len(q)
  OBVIOUS
<1>2. \A i \in 1..Len(q) : q[i].flying => i = 1 /\ Flies(q)
  BY <1>1, Constants DEF Sound, Flies
<1> QED BY <1>1, <1>2 DEF Known, Flies

\* The suppression of a finished link.
LEMMA Lateness ==
    ASSUME NEW l \in Lates
    PROVE  /\ AgedLate(l) \in Lates /\ NoLate \in Lates /\ NoLate.id = NoEvent
           /\ AgedLate(l).id = l.id \/ AgedLate(l).id = NoEvent
           /\ l.left > 0 => AgedLate(l).id = l.id /\ AgedLate(l).left = l.left - 1
           /\ l.left = 0 => AgedLate(l) = NoLate
<1>1. NoLate \in Lates /\ NoLate.id = NoEvent
  BY Constants DEF NoLate, Lates
<1>2. l.left \in 0..Grace /\ l.id \in Events \union {NoEvent}
  BY DEF Lates
<1>3. CASE l.left = 0
  BY <1>1, <1>3 DEF AgedLate
<1>4. CASE l.left > 0
  <2>1. AgedLate(l) = [l EXCEPT !.left = l.left - 1]
    BY <1>4 DEF AgedLate
  <2>2. AgedLate(l).id = l.id /\ AgedLate(l).left = l.left - 1 /\ AgedLate(l) \in Lates
    BY <1>2, <1>4, <2>1, Constants DEF Lates
  <2> QED BY <1>1, <1>4, <2>2
<1> QED BY <1>2, <1>3, <1>4, Constants

LEMMA Finishing ==
    ASSUME NEW q \in Seq(Links), q # <<>>, NEW l \in Lates, NEW suppress \in BOOLEAN
    PROVE  LET f == Finished(q, l, suppress)
           IN  /\ f.queue = Tail(q) /\ f \in Copies
               /\ f.late = IF suppress /\ Flies(q) THEN [id |-> Head(q).id, left |-> Grace] ELSE l
<1>1. Head(q) \in Links /\ Tail(q) \in Seq(Links)
  BY Heads
<1>2. [id |-> Head(q).id, left |-> Grace] \in Lates
  BY <1>1, Constants DEF Links, Lates
<1> QED BY <1>1, <1>2 DEF Finished, Flies, Copies

LEMMA Abandoning ==
    ASSUME TypeOK, Abandon
    PROVE  /\ queue' = <<>> /\ queue' \in Seq(Links) /\ Sound(queue')
           /\ late' = IF Flies(queue) THEN [id |-> Head(queue).id, left |-> Grace] ELSE late
           /\ late' \in Lates
           /\ ended' = [e \in Events |-> IF Flies(queue) /\ Head(queue).id = e THEN Grace + 1
                                                                           ELSE ended[e]]
           /\ ended' \in [Events -> 0..(Grace + 1)]
<1>1. queue \in Seq(Links) /\ late \in Lates /\ ended \in [Events -> 0..(Grace + 1)]
  BY DEF TypeOK
<1>2. late' = IF Flies(queue) THEN [id |-> Head(queue).id, left |-> Grace] ELSE late
  BY <1>1, Finishing DEF Abandon, Flies
<1>3. Flies(queue) => [id |-> Head(queue).id, left |-> Grace] \in Lates
  <2>1. Flies(queue) => Head(queue) \in Links
    BY <1>1, Heads DEF Flies
  <2> QED BY <2>1, Constants DEF Links, Lates
<1>4. queue' = <<>> /\ <<>> \in Seq(Links) /\ Len(<<>>) = 0
  BY DEF Abandon
<1>5. Sound(<<>>)
  BY <1>4, Constants DEF Sound
<1>6. ended' = [e \in Events |-> IF Flies(queue) /\ Head(queue).id = e THEN Grace + 1
                                                                  ELSE ended[e]]
  BY DEF Abandon, Flying, Flies
<1> QED BY <1>1, <1>2, <1>3, <1>4, <1>5, <1>6, Constants

\* The count of deaths of the player's own goes around.
LEMMA Wraps ==
    ASSUME NEW d \in 0..(Interval - 1)
    PROVE  (d + 1) % Interval = IF d + 1 = Interval THEN 0 ELSE d + 1
<1>1. CASE d + 1 = Interval
  BY <1>1, Constants
<1>2. CASE d + 1 < Interval
  BY <1>2, Constants
<1> QED BY <1>1, <1>2, Constants

-----------------------------------------------------------------------------
(* Types *)

SessionTypes ==
    /\ alive \in BOOLEAN /\ enabled \in BOOLEAN /\ broken \in BOOLEAN
    /\ conn \in Rooms \union {NoRoom} /\ room \in Rooms \union {NoRoom}
    /\ seen \subseteq Events /\ deaths \in 0..(Interval - 1)
    /\ saved \in [Rooms -> [seen : SUBSET Events, deaths : 0..(Interval - 1)]]
ReceiverTypes ==
    /\ queue \in Seq(Links) /\ Len(queue) <= MaxQueue
    /\ recent \in [Events -> 0..(Total + Grace)] /\ late \in Lates
MonitorTypes == pc \in Pcs /\ original \in {"same", "touched", "stale"} /\ copy \in Copies
GameTypes ==
    /\ native \in [id : Events \union {NoEvent}, st : {"idle", "pending", "done", "failed"}]
    /\ death \in Events \union {NoEvent, Own}
HistoryTypes ==
    /\ admitted \in [Rooms -> [Events -> Nat]] /\ submitted \in [Events -> Nat]
    /\ hidden \in [Events -> Nat] /\ lost \subseteq Events
    /\ ended \in [Events -> 0..(Grace + 1)]
    /\ counted \in [Rooms -> Nat] /\ begun \in [Rooms -> Nat]
UsedTypes == used \in [Bounded -> Nat]

LEMMA TypeParts ==
    /\ TypeOK <=> /\ SessionTypes /\ ReceiverTypes /\ MonitorTypes
                  /\ GameTypes /\ HistoryTypes /\ UsedTypes
    /\ TypeOK' <=> /\ SessionTypes' /\ ReceiverTypes' /\ MonitorTypes'
                   /\ GameTypes' /\ HistoryTypes' /\ UsedTypes'
BY DEF TypeOK, SessionTypes, ReceiverTypes, MonitorTypes, GameTypes, HistoryTypes, UsedTypes

LEMMA SameTypes ==
    ASSUME TypeOK
    PROVE  /\ UNCHANGED session => SessionTypes'
           /\ UNCHANGED receiver => ReceiverTypes'
           /\ UNCHANGED monitor => MonitorTypes'
           /\ UNCHANGED game => GameTypes'
           /\ UNCHANGED history => HistoryTypes'
           /\ UNCHANGED used => UsedTypes'
BY TypeParts
   DEF SessionTypes, ReceiverTypes, MonitorTypes, GameTypes, HistoryTypes, UsedTypes

LEMMA Increments ==
    ASSUME NEW S, NEW f \in [S -> Nat], NEW x
    PROVE  [f EXCEPT ![x] = @ + 1] \in [S -> Nat]
<1>1. \A y \in S : f[y] \in Nat /\ f[y] + 1 \in Nat
  OBVIOUS
<1>2. CASE x \in S
  BY <1>1, <1>2
<1>3. CASE x \notin S
  BY <1>3
<1> QED BY <1>2, <1>3

LEMMA Updates ==
    ASSUME NEW S, NEW T, NEW f \in [S -> T], NEW x, NEW v \in T
    PROVE  [f EXCEPT ![x] = v] \in [S -> T]
OBVIOUS

LEMMA Spending ==
    ASSUME TypeOK
    PROVE  /\ \A what \in Bounded : Spend(what) => UsedTypes'
           /\ UsedTypes
BY TypeParts, Increments DEF Spend, UsedTypes

\* What a change means for a call under way.
LEMMA MonitorTouched ==
    ASSUME TypeOK
    PROVE  /\ Stale \/ Touched => original' \in {"same", "touched", "stale"}
           /\ (Stale \/ Touched) /\ UNCHANGED <<pc, copy>> => MonitorTypes'
           /\ \A next \in Pcs : NoPass(next) => MonitorTypes'
<1>1. NoCopy \in Copies
  BY Constants DEF NoCopy, NoLate, Copies, Lates
<1> QED BY <1>1, TypeParts DEF MonitorTypes, Stale, Touched, NoPass

LEMMA TickKeepsTypes ==
    ASSUME TypeOK, Tick
    PROVE  TypeOK'
<1>0. \A n \in Nat : \A k \in 0..n : Less(k) \in 0..n
  BY DEF Less
<1>1. ReceiverTypes'
  <2>1. queue \in Seq(Links) /\ Len(queue) <= MaxQueue /\ late \in Lates
        /\ recent \in [Events -> 0..(Total + Grace)]
    BY TypeParts DEF ReceiverTypes
  <2>2. queue' \in Seq(Links) /\ Len(queue') <= MaxQueue /\ late' \in Lates
    BY <2>1, Ages, Lateness DEF Tick
  <2>3. \A e \in Events : Less(recent[e]) \in 0..(Total + Grace)
    BY <1>0, <2>1, Constants
  <2> QED BY <2>2, <2>3 DEF Tick, ReceiverTypes
<1>2. MonitorTypes'
  <2>1. copy.queue \in Seq(Links) /\ copy.late \in Lates
    BY TypeParts DEF MonitorTypes, Copies
  <2>2. copy' \in Copies
    BY <2>1, Ages, Lateness DEF Tick, Copies
  <2> QED BY <2>2, TypeParts DEF Tick, MonitorTypes
<1>3. HistoryTypes'
  <2>1. ended \in [Events -> 0..(Grace + 1)]
    BY TypeParts DEF HistoryTypes
  <2>2. \A e \in Events : Less(ended[e]) \in 0..(Grace + 1)
    BY <1>0, <2>1, Constants
  <2>3. ended' \in [Events -> 0..(Grace + 1)]
    BY <2>2 DEF Tick
  <2> QED BY <2>3, TypeParts DEF Tick, HistoryTypes
<1> QED BY <1>1, <1>2, <1>3, SameTypes, TypeParts DEF Tick

LEMMA SessionKeepsTypes ==
    ASSUME TypeOK, Start \/ Crash \/ Disconnect \/ (\E r \in Rooms : Connect(r)) \/ Block
    PROVE  TypeOK'
<1>0. "start" \in Bounded /\ "connect" \in Bounded /\ "fault" \in Bounded /\ "idle" \in Pcs
  BY DEF Bounded, Pcs
<1>1. CASE Start
  <2>1. SessionTypes'
    BY <1>1, TypeParts DEF Start, SessionTypes
  <2> QED BY <1>0, <1>1, <2>1, SameTypes, Spending, TypeParts DEF Start
<1>2. CASE Crash
  <2>1. SessionTypes'
    <3>1. 0 \in 0..(Interval - 1)
      BY Constants
    <3>2. /\ alive' = FALSE /\ conn' = NoRoom /\ room' = NoRoom /\ enabled' = FALSE
          /\ broken' = FALSE /\ seen' = {} /\ deaths' = 0 /\ saved' = saved
      BY <1>2 DEF Crash
    <3> QED BY <3>1, <3>2, TypeParts DEF SessionTypes
  <2>2. ReceiverTypes'
    <3>1. /\ <<>> \in Seq(Links) /\ Len(<<>>) <= MaxQueue
          /\ 0 \in 0..(Total + Grace) /\ NoLate \in Lates
      BY Constants DEF NoLate, Lates
    <3> QED BY <1>2, <3>1 DEF Crash, ReceiverTypes
  <2>3. MonitorTypes'
    BY <1>0, <1>2, MonitorTouched DEF Crash
  <2>4. HistoryTypes'
    BY <1>2, TypeParts, Constants DEF Crash, HistoryTypes
  <2> QED BY <1>2, <2>1, <2>2, <2>3, <2>4, SameTypes, TypeParts DEF Crash
<1>3. CASE Disconnect
  <2>1. Abandon /\ Stale /\ UNCHANGED <<pc, copy, game, used, recent>>
        /\ UNCHANGED <<admitted, submitted, hidden, lost, counted, begun>>
    BY <1>3 DEF Disconnect
  <2>2. SessionTypes'
    BY <1>3, TypeParts DEF Disconnect, SessionTypes
  <2>3. ReceiverTypes'
    BY <2>1, Abandoning, TypeParts DEF ReceiverTypes, Sound
  <2>4. HistoryTypes'
    BY <2>1, Abandoning, TypeParts DEF HistoryTypes
  <2> QED BY <2>1, <2>2, <2>3, <2>4, MonitorTouched, SameTypes, TypeParts
<1>4. ASSUME NEW r \in Rooms, Connect(r) PROVE TypeOK'
  <2>1. SessionTypes'
    <3>1. saved[r].seen \subseteq Events /\ saved[r].deaths \in 0..(Interval - 1)
      BY TypeParts DEF SessionTypes
    <3>2. /\ conn' = r /\ UNCHANGED <<alive, saved>>
          /\ \/ room' = r /\ seen' = saved[r].seen /\ deaths' = saved[r].deaths
             \/ UNCHANGED <<room, seen, deaths>>
      BY <1>4 DEF Connect, Bind
    <3>3. enabled' \in BOOLEAN /\ broken' \in BOOLEAN
      <4>1. enabled' = (r \in Linked) \/ enabled' = enabled
        BY <1>4 DEF Connect
      <4>2. broken' = broken \/ broken' = TRUE
        BY <1>4 DEF Connect
      <4>3. (r \in Linked) \in BOOLEAN
        OBVIOUS
      <4>4. enabled \in BOOLEAN /\ broken \in BOOLEAN
        BY TypeParts DEF SessionTypes
      <4>5. enabled' \in BOOLEAN
        BY <4>1, <4>3, <4>4, Zenon
      <4> QED BY <4>2, <4>4, <4>5
    <3> QED BY <3>1, <3>2, <3>3, TypeParts DEF SessionTypes
  <2>2. UsedTypes'
    <3>1. Spend("connect") \/ used' = [used EXCEPT !["connect"] = @ + 1, !["fault"] = @ + 1]
      BY <1>4 DEF Connect
    <3> QED BY <1>0, <3>1, Spending, Increments DEF UsedTypes
  <2> QED BY <1>4, <2>1, <2>2, MonitorTouched, SameTypes, TypeParts DEF Connect
<1>5. CASE Block
  <2>1. SessionTypes'
    BY <1>5, TypeParts DEF Block, SessionTypes
  <2> QED BY <1>0, <1>5, <2>1, MonitorTouched, SameTypes, Spending, TypeParts DEF Block
<1> QED BY <1>1, <1>2, <1>3, <1>4, <1>5

LEMMA BouncesKeepTypes ==
    ASSUME TypeOK, Passing, NEW e \in Events,
           BounceRefused(e) \/ BounceQueued(e) \/ BounceFails(e)
    PROVE  TypeOK'
<1>0. "bounce" \in Bounded /\ "fault" \in Bounded
  BY DEF Bounded
<1>1. room \in Rooms
  BY DEF BounceRefused, BounceQueued, BounceFails, Bounced, Passing
<1>2. [recent EXCEPT ![e] = Total + Grace] \in [Events -> 0..(Total + Grace)]
  BY TypeParts, Constants DEF ReceiverTypes
<1>3. CASE BounceRefused(e)
  <2>1. ReceiverTypes'
    BY <1>2, <1>3, TypeParts DEF BounceRefused, ReceiverTypes
  <2> QED BY <1>0, <1>3, <2>1, MonitorTouched, SameTypes, Spending, TypeParts DEF BounceRefused
<1>4. CASE BounceQueued(e)
  <2>1. queue \in Seq(Links) /\ Len(queue) < MaxQueue /\ Sound(queue)
    BY <1>4, TypeParts, Constants DEF BounceQueued, Full, ReceiverTypes, Passing
  <2>2. ReceiverTypes'
    <3>1. queue' \in Seq(Links) /\ Sound(queue')
      BY <1>4, <2>1, Appends DEF BounceQueued
    <3> QED BY <1>2, <1>4, <3>1, TypeParts DEF BounceQueued, ReceiverTypes, Sound
  <2>3. SessionTypes'
    <3>1. saved' \in [Rooms -> [seen : SUBSET Events, deaths : 0..(Interval - 1)]]
      <4>1. /\ saved' = [saved EXCEPT ![room] = [seen |-> Kept(seen'), deaths |-> deaths]]
            /\ Kept(seen') \subseteq seen' /\ seen' \subseteq Events
        BY <1>4, TypeParts DEF BounceQueued, PersistSeen, Kept, SessionTypes
      <4> QED BY <4>1, TypeParts DEF SessionTypes
    <3> QED BY <1>4, <3>1, TypeParts DEF BounceQueued, SessionTypes
  <2>4. HistoryTypes'
    <3>1. admitted' = [admitted EXCEPT ![room] = [admitted[room] EXCEPT ![e] = @ + 1]]
      BY <1>4 DEF BounceQueued
    <3>2. admitted[room] \in [Events -> Nat]
      BY <1>1, TypeParts DEF HistoryTypes
    <3>3. [admitted[room] EXCEPT ![e] = @ + 1] \in [Events -> Nat]
      BY <3>2, Increments
    <3>4. admitted' \in [Rooms -> [Events -> Nat]]
      BY <3>1, <3>3, TypeParts DEF HistoryTypes
    <3> QED BY <1>4, <3>4, TypeParts DEF BounceQueued, HistoryTypes
  <2> QED BY <1>0, <1>4, <2>2, <2>3, <2>4, MonitorTouched, SameTypes, Spending, TypeParts
          DEF BounceQueued
<1>5. CASE BounceFails(e)
  <2>1. Abandon /\ Stale /\ UNCHANGED <<pc, copy, game>>
        /\ UNCHANGED <<admitted, submitted, hidden, lost, counted, begun>>
    BY <1>5 DEF BounceFails
  <2>2. SessionTypes'
    BY <1>5, TypeParts DEF BounceFails, SessionTypes
  <2>3. ReceiverTypes'
    BY <1>2, <1>5, <2>1, Abandoning, TypeParts DEF BounceFails, ReceiverTypes, Sound
  <2>4. HistoryTypes'
    BY <2>1, Abandoning, TypeParts DEF HistoryTypes
  <2>5. UsedTypes'
    <3>1. Spend("bounce") \/ used' = [used EXCEPT !["bounce"] = @ + 1, !["fault"] = @ + 1]
      BY <1>5 DEF BounceFails
    <3> QED BY <1>0, <3>1, Spending, Increments DEF UsedTypes
  <2> QED BY <2>1, <2>2, <2>3, <2>4, <2>5, MonitorTouched, SameTypes, TypeParts
<1> QED BY <1>3, <1>4, <1>5

-----------------------------------------------------------------------------
(* What the worker does to its copy *)

\* Of the native event nothing changes but how far it is.
Settles == native' = native \/ (native.st = "pending" /\ native' = [native EXCEPT !.st = "done"])

Finishes == \* the oldest link is finished; it was handed over, or it was not
    /\ copy' = Finished(copy.queue, copy.late, TRUE)
    /\ ended' = [ended EXCEPT ![Oldest.id] = IF Oldest.flying THEN Grace + 1 ELSE @]
    /\ Settles /\ UNCHANGED <<submitted, lost>>

Hands ==    \* it is handed over
    /\ ~Oldest.flying /\ Request(Oldest.id) /\ lost' = lost \union {Oldest.id}
    /\ Advanced([Oldest EXCEPT !.flying = TRUE]) /\ UNCHANGED ended

Refused ==  \* it is given up, perhaps after it was handed over
    /\ ~Oldest.flying /\ copy' = Finished(copy.queue, copy.late, FALSE) /\ UNCHANGED ended
    /\ \/ UNCHANGED <<native, submitted, lost>>
       \/ Request(Oldest.id) /\ lost' = lost \union {Oldest.id}

Delays ==   \* it waits
    /\ UNCHANGED copy \/ Advanced([Oldest EXCEPT !.wait = Retry])
    /\ UNCHANGED <<native, submitted, lost, ended>>

Works == /\ pc = "native" /\ original # "stale" /\ pc' = "merge"
         /\ UNCHANGED <<session, receiver, death, original, admitted, hidden, counted, begun>>
         /\ used' = used \/ Spend("fault")
         /\ Finishes \/ Hands \/ Refused \/ Delays

LEMMA WorkerWorks ==
    ASSUME Expire \/ Apply \/ Wait \/ Dispatch \/ DispatchLater \/ DispatchFails
    PROVE  Works
<1>1. ASSUME NEW e, Cancelled(e) PROVE Settles
  BY <1>1 DEF Cancelled, Settles
<1>2. CASE Expire
  <2>1. Settles
    BY <1>1, <1>2 DEF Expire, Settles
  <2> QED BY <1>2, <2>1 DEF Expire, FinishOldest, Works, Working, Keeping, Finishes
<1>3. CASE Apply
  BY <1>3 DEF Apply, FinishOldest, Works, Working, Keeping, Finishes, Settles
<1>4. CASE Wait
  BY <1>4 DEF Wait, Idling, Works, Working, Keeping, Delays
<1>5. CASE Dispatch
  BY <1>5 DEF Dispatch, Due, Works, Working, Keeping, Hands
<1>6. CASE DispatchLater
  BY <1>6 DEF DispatchLater, Idling, Works, Working, Keeping, Delays
<1>7. CASE DispatchFails
  BY <1>7 DEF DispatchFails, Due, Works, Working, Keeping, Refused
<1> QED BY <1>2, <1>3, <1>4, <1>5, <1>6, <1>7

\* The oldest link, and what the copy becomes.
LEMMA Copying ==
    ASSUME TypeOK, Passing, Works
    PROVE  /\ copy.queue \in Seq(Links) /\ copy.queue # <<>> /\ Sound(copy.queue)
           /\ copy.late \in Lates /\ Oldest \in Links /\ Oldest.id \in Events
           /\ Oldest.flying <=> Flies(copy.queue)
           /\ copy' \in Copies /\ Sound(copy'.queue)
           /\ Finishes => /\ ~Flies(copy'.queue)
                          /\ copy'.late = IF Oldest.flying THEN [id |-> Oldest.id, left |-> Grace]
                                                           ELSE copy.late
           /\ Hands => /\ Flies(copy'.queue) /\ Head(copy'.queue).id = Oldest.id
                       /\ copy'.late = copy.late
           /\ Refused => ~Flies(copy'.queue) /\ copy'.late = copy.late
           /\ Delays => /\ Flies(copy'.queue) <=> Flies(copy.queue)
                        /\ Head(copy'.queue).id = Oldest.id /\ copy'.late = copy.late
<1>1. /\ copy.queue \in Seq(Links) /\ copy.queue # <<>> /\ Sound(copy.queue)
      /\ copy.late \in Lates /\ copy \in Copies
  BY TypeParts DEF Works, Passing, Calling, MonitorTypes, Copies
<1>2. PICK q \in Seq(Links) : q = copy.queue
  BY <1>1
<1>3. PICK l \in Lates : l = copy.late
  BY <1>1
<1>4. /\ q # <<>> /\ Sound(q) /\ Oldest = Head(q) /\ Oldest \in Links /\ Oldest.id \in Events
      /\ (Oldest.flying <=> Flies(q))
  BY <1>1, <1>2, Heads DEF Oldest, Links, Flies
<1>5. ASSUME NEW m \in Links, Advanced(m)
      PROVE  /\ copy' \in Copies /\ Sound(copy'.queue) /\ copy'.late = copy.late
             /\ copy'.queue # <<>> /\ Head(copy'.queue) = m
  <2>1. \A c \in Copies : \A x \in Seq(Links) :
           LET d == [c EXCEPT !.queue = x] IN d \in Copies /\ d.queue = x /\ d.late = c.late
    BY DEF Copies
  <2>2. copy' = [copy EXCEPT !.queue = <<m>> \o Tail(q)]
    BY <1>2, <1>5 DEF Advanced
  <2>3. <<m>> \o Tail(q) \in Seq(Links)
    BY <1>4, Replaces
  <2>4. copy' \in Copies /\ copy'.queue = <<m>> \o Tail(q) /\ copy'.late = copy.late
    BY <1>1, <2>1, <2>2, <2>3
  <2> QED BY <1>4, <2>4, Replaces
<1>6. ASSUME NEW b \in BOOLEAN, copy' = Finished(copy.queue, copy.late, b)
      PROVE  /\ copy' \in Copies /\ Sound(copy'.queue) /\ ~Flies(copy'.queue)
             /\ copy'.late = IF b /\ Oldest.flying THEN [id |-> Oldest.id, left |-> Grace]
                                                    ELSE copy.late
  <2>1. copy' = Finished(q, l, b)
    BY <1>2, <1>3, <1>6
  <2>2. /\ copy'.queue = Tail(q) /\ copy' \in Copies
        /\ copy'.late = IF b /\ Flies(q) THEN [id |-> Head(q).id, left |-> Grace] ELSE l
    BY <1>4, <2>1, Finishing
  <2>3. Sound(Tail(q)) /\ ~Flies(Tail(q))
    BY <1>4, Heads
  <2> QED BY <1>3, <1>4, <2>2, <2>3
<1>7. /\ [Oldest EXCEPT !.flying = TRUE] \in Links /\ [Oldest EXCEPT !.flying = TRUE].flying
      /\ [Oldest EXCEPT !.flying = TRUE].id = Oldest.id
      /\ [Oldest EXCEPT !.wait = Retry] \in Links
      /\ [Oldest EXCEPT !.wait = Retry].flying = Oldest.flying
      /\ [Oldest EXCEPT !.wait = Retry].id = Oldest.id
  <2>1. \A k \in Links : LET m == [k EXCEPT !.flying = TRUE]
                         IN  m \in Links /\ m.flying /\ m.id = k.id
    BY DEF Links
  <2>2. \A k \in Links : \A y \in 0..Retry :
           LET m == [k EXCEPT !.wait = y]
           IN  m \in Links /\ m.flying = k.flying /\ m.id = k.id
    BY DEF Links
  <2> QED BY <1>4, <2>1, <2>2, Constants
<1>8. ASSUME Finishes
      PROVE  /\ copy' \in Copies /\ Sound(copy'.queue) /\ ~Flies(copy'.queue)
             /\ copy'.late = IF Oldest.flying THEN [id |-> Oldest.id, left |-> Grace]
                                              ELSE copy.late
  BY <1>6, <1>8 DEF Finishes
<1>9. ASSUME Hands
      PROVE  /\ copy' \in Copies /\ Sound(copy'.queue) /\ copy'.late = copy.late
             /\ Flies(copy'.queue) /\ Head(copy'.queue).id = Oldest.id
  <2>1. Advanced([Oldest EXCEPT !.flying = TRUE])
    BY <1>9 DEF Hands
  <2> QED BY <1>5, <1>7, <2>1 DEF Flies
<1>10. ASSUME Refused
       PROVE  /\ copy' \in Copies /\ Sound(copy'.queue) /\ ~Flies(copy'.queue)
              /\ copy'.late = copy.late
  BY <1>6, <1>10 DEF Refused
<1>11. ASSUME Delays
       PROVE  /\ copy' \in Copies /\ Sound(copy'.queue) /\ copy'.late = copy.late
              /\ Flies(copy'.queue) <=> Flies(copy.queue)
              /\ Head(copy'.queue).id = Oldest.id
  <2>1. CASE UNCHANGED copy
    BY <1>1, <2>1 DEF Oldest
  <2>2. CASE Advanced([Oldest EXCEPT !.wait = Retry])
    <3>1. /\ copy' \in Copies /\ Sound(copy'.queue) /\ copy'.late = copy.late
          /\ copy'.queue # <<>> /\ Head(copy'.queue) = [Oldest EXCEPT !.wait = Retry]
      BY <1>5, <1>7, <2>2
    <3> QED BY <1>2, <1>4, <1>7, <3>1 DEF Flies
  <2> QED BY <1>11, <2>1, <2>2 DEF Delays
<1>12. Finishes \/ Hands \/ Refused \/ Delays
  BY DEF Works
<1> QED BY <1>1, <1>2, <1>4, <1>8, <1>9, <1>10, <1>11, <1>12

LEMMA WorksKeepsTypes ==
    ASSUME TypeOK, Passing, Works
    PROVE  TypeOK'
<1>0. "fault" \in Bounded /\ "merge" \in Pcs
  BY DEF Bounded, Pcs
<1>1. Oldest.id \in Events /\ copy' \in Copies
  BY Copying
<1>2. MonitorTypes'
  BY <1>0, <1>1, TypeParts DEF Works, MonitorTypes
<1>3. ASSUME Request(Oldest.id)
      PROVE  /\ native' \in [id : Events \union {NoEvent},
                         st : {"idle", "pending", "done", "failed"}]
             /\ submitted' \in [Events -> Nat]
  <2>1. submitted' = [submitted EXCEPT ![Oldest.id] = @ + 1] /\ submitted \in [Events -> Nat]
    BY <1>3, TypeParts DEF Request, HistoryTypes
  <2>2. native' = native \/ native' = [id |-> Oldest.id, st |-> "pending"]
    BY <1>3 DEF Request
  <2> QED BY <1>1, <2>1, <2>2, Increments, TypeParts DEF GameTypes
<1>4. GameTypes'
  <2>1. death' = death /\ (Settles \/ Request(Oldest.id) \/ UNCHANGED native)
    BY DEF Works, Finishes, Hands, Refused, Delays
  <2>2. ASSUME Settles
        PROVE  native' \in [id : Events \union {NoEvent},
                        st : {"idle", "pending", "done", "failed"}]
    BY <2>2, TypeParts DEF Settles, GameTypes
  <2> QED BY <1>3, <2>1, <2>2, TypeParts DEF GameTypes
<1>5. HistoryTypes'
  <2>1. /\ submitted' = submitted \/ Request(Oldest.id)
        /\ lost' = lost \/ lost' = lost \union {Oldest.id}
        /\ UNCHANGED <<admitted, hidden, counted, begun>>
    BY DEF Works, Finishes, Hands, Refused, Delays
  <2>2. ended' \in [Events -> 0..(Grace + 1)]
    <3>1. ended' = ended
          \/ ended' = [ended EXCEPT ![Oldest.id] = IF Oldest.flying THEN Grace + 1 ELSE @]
      BY DEF Works, Finishes, Hands, Refused, Delays
    <3>2. ended \in [Events -> 0..(Grace + 1)]
      BY TypeParts DEF HistoryTypes
    <3> QED BY <3>1, <3>2, Constants
  <2> QED BY <1>1, <1>3, <2>1, <2>2, TypeParts DEF HistoryTypes
<1>6. UsedTypes'
  BY <1>0, SameTypes, Spending DEF Works
<1> QED BY <1>2, <1>4, <1>5, <1>6, SameTypes, TypeParts DEF Works

\* Back from the worker thread.
LEMMA ReturnsKeepTypes ==
    ASSUME TypeOK, BeginPass \/ PassRefused \/ QueryFails \/ Merge \/ MergeStale, Passing
    PROVE  TypeOK'
<1>0. "fault" \in Bounded /\ {"idle", "observe", "native"} \subseteq Pcs
  BY DEF Bounded, Pcs
<1>1. CASE BeginPass
  <2>1. [queue |-> queue, late |-> late] \in Copies
    BY TypeParts DEF ReceiverTypes, Copies
  <2>2. MonitorTypes'
    BY <1>0, <1>1, <2>1, MonitorTouched, TypeParts DEF BeginPass, MonitorTypes
  <2> QED BY <1>1, <2>2, SameTypes, TypeParts DEF BeginPass
<1>2. CASE PassRefused
  BY <1>0, <1>2, MonitorTouched, SameTypes, TypeParts DEF PassRefused
<1>3. CASE QueryFails
  BY <1>0, <1>3, MonitorTouched, Spending, SameTypes, TypeParts DEF QueryFails, Keeping
<1>4. CASE MergeStale
  BY <1>0, <1>4, MonitorTouched, SameTypes, TypeParts DEF MergeStale
<1>5. CASE Merge
  <2>1. ReceiverTypes'
    <3>1. copy.queue \in Seq(Links) /\ copy.late \in Lates /\ Len(copy.queue) <= MaxQueue
      BY <1>5, TypeParts DEF Merge, Passing, Calling, Sound, MonitorTypes, Copies
    <3>2. recent' = recent
      BY <1>5 DEF Merge
    <3>3. \/ queue' = queue /\ late' = late
          \/ queue' = copy.queue /\ late' = copy.late
      BY <1>5 DEF Merge
    <3> QED BY <3>1, <3>2, <3>3, TypeParts DEF ReceiverTypes
  <2>2. HistoryTypes'
    <3>1. /\ lost' \subseteq Events
          /\ UNCHANGED <<admitted, submitted, hidden, ended, counted, begun>>
      BY <1>5, TypeParts DEF Merge, HistoryTypes
    <3> QED BY <3>1, TypeParts DEF HistoryTypes
  <2>3. NoPass("observe") /\ UNCHANGED session /\ UNCHANGED game /\ UNCHANGED used
    BY <1>5 DEF Merge
  <2> QED BY <1>0, <2>1, <2>2, <2>3, MonitorTouched, SameTypes, TypeParts
<1> QED BY <1>1, <1>2, <1>3, <1>4, <1>5

LEMMA GameKeepsTypes ==
    ASSUME TypeOK, Passing, Domain, Game
    PROVE  TypeOK'
<1>0. {"fault", "death", "map"} \subseteq Bounded
  BY DEF Bounded
<1>1. ASSUME NEW st \in {"done", "failed"}, native' = [native EXCEPT !.st = st]
      PROVE  native' \in [id : Events \union {NoEvent},
                      st : {"idle", "pending", "done", "failed"}]
  BY <1>1, TypeParts DEF GameTypes
<1>2. CASE OwnDeath
  <2>1. GameTypes'
    BY <1>2, TypeParts DEF OwnDeath, GameTypes
  <2> QED BY <1>0, <1>2, <2>1, SameTypes, Spending, TypeParts DEF OwnDeath
<1>3. CASE Kill
  <2>1. GameTypes'
    BY <1>1, <1>3 DEF Kill, Domain, GameTypes
  <2> QED BY <1>3, <2>1, SameTypes, TypeParts DEF Kill
<1>4. CASE Survived
  <2>1. GameTypes'
    BY <1>1, <1>4, TypeParts DEF Survived, GameTypes
  <2> QED BY <1>0, <1>4, <2>1, SameTypes, Spending, TypeParts DEF Survived
<1>5. CASE MapLoaded
  BY <1>0, <1>5, MonitorTouched, SameTypes, Spending, TypeParts DEF MapLoaded
<1> QED BY <1>2, <1>3, <1>4, <1>5 DEF Game

LEMMA DeathKeepsTypes ==
    ASSUME TypeOK, Passing, Death
    PROVE  TypeOK'
<1>0. "fault" \in Bounded /\ {"idle", "cancel"} \subseteq Pcs
  BY DEF Bounded, Pcs
<1>1. CASE SeeNothing
  <2>1. MonitorTypes'
    BY <1>0, <1>1, TypeParts DEF SeeNothing, MonitorTypes
  <2> QED BY <1>1, <2>1, SameTypes, TypeParts DEF SeeNothing
<1>2. ASSUME Seeing, UNCHANGED native PROVE GameTypes'
  BY <1>2, TypeParts DEF Seeing, GameTypes
<1>3. CASE SeeUnlinked
  <2>1. MonitorTypes'
    BY <1>0, <1>3, TypeParts DEF SeeUnlinked, MonitorTypes
  <2> QED BY <1>2, <1>3, <2>1, SameTypes, TypeParts DEF SeeUnlinked
<1>4. CASE SeeActive
  <2>1. /\ Head(queue) \in Links /\ Head(queue).id \in Events /\ Tail(queue) \in Seq(Links)
        /\ Len(Tail(queue)) <= MaxQueue /\ queue # <<>>
    <3>1. queue # <<>> /\ queue \in Seq(Links) /\ Len(queue) <= MaxQueue
      BY <1>4, TypeParts DEF SeeActive, Flying, ReceiverTypes
    <3>2. Head(queue) \in Links /\ Tail(queue) \in Seq(Links) /\ Len(Tail(queue)) = Len(queue) - 1
      BY <3>1, Heads
    <3>3. Len(queue) \in Nat
      BY <3>1
    <3> QED BY <3>1, <3>2, <3>3, Constants DEF Links
  <2>2. MonitorTypes'
    <3>1. [queue |-> <<Head(queue)>>, late |-> NoLate] \in Copies
      BY <2>1, Constants DEF Copies, NoLate, Lates
    <3> QED BY <1>0, <1>4, <3>1, TypeParts DEF SeeActive, MonitorTypes
  <2>3. ReceiverTypes'
    BY <1>4, <2>1, TypeParts DEF SeeActive, ReceiverTypes
  <2>4. HistoryTypes'
    <3>1. hidden' \in [Events -> Nat]
      BY <1>4, Increments, TypeParts DEF SeeActive, HistoryTypes
    <3>2. ended' \in [Events -> 0..(Grace + 1)]
      <4>1. ended' = [ended EXCEPT ![Head(queue).id] = 0]
            /\ ended \in [Events -> 0..(Grace + 1)]
        BY <1>4, TypeParts DEF SeeActive, HistoryTypes
      <4> QED BY <4>1, Constants, Updates
    <3>3. UNCHANGED <<admitted, submitted, lost, counted, begun>>
      BY <1>4 DEF SeeActive
    <3> QED BY <3>1, <3>2, <3>3, TypeParts DEF HistoryTypes
  <2>5. Seeing /\ UNCHANGED session /\ UNCHANGED native /\ UNCHANGED used
    BY <1>4 DEF SeeActive
  <2> QED BY <1>2, <2>2, <2>3, <2>4, <2>5, SameTypes, TypeParts
<1>5. CASE Cancel
  <2>1. GameTypes'
    <3>1. native' = native \/ native' = [native EXCEPT !.st = "done"]
      BY <1>5 DEF Cancel, Cancelled
    <3> QED BY <1>5, <3>1, TypeParts DEF Cancel, GameTypes
  <2> QED BY <1>0, <1>5, <2>1, MonitorTouched, SameTypes, TypeParts DEF Cancel
<1>6. CASE SeeLate
  <2>1. ReceiverTypes'
    BY <1>6, Constants, TypeParts DEF SeeLate, ReceiverTypes, NoLate, Lates
  <2>2. MonitorTypes'
    BY <1>0, <1>6, TypeParts DEF SeeLate, MonitorTypes
  <2>3. HistoryTypes'
    <3>1. hidden' \in [Events -> Nat]
      BY <1>6, Increments, TypeParts DEF SeeLate, HistoryTypes
    <3>2. UNCHANGED <<admitted, submitted, lost, ended, counted, begun>>
      BY <1>6 DEF SeeLate
    <3> QED BY <3>1, <3>2, TypeParts DEF HistoryTypes
  <2> QED BY <1>2, <1>6, <2>1, <2>2, <2>3, SameTypes, TypeParts DEF SeeLate
<1>7. (deaths + 1) % Interval \in 0..(Interval - 1)
  BY Wraps, TypeParts, Constants DEF SessionTypes
<1>8. ASSUME Counts PROVE counted' \in [Rooms -> Nat] /\ room \in Rooms
  BY <1>8, Increments, TypeParts DEF Counts, Passing, HistoryTypes
<1>9. CASE SeeOwn
  <2>1. Counts
    BY <1>9 DEF SeeOwn
  <2>2. SessionTypes'
    <3>1. saved' \in [Rooms -> [seen : SUBSET Events, deaths : 0..(Interval - 1)]]
      <4>1. deaths' \in 0..(Interval - 1) /\ Kept(seen) \subseteq Events
        BY <1>7, <1>9, TypeParts DEF SeeOwn, Kept, SessionTypes
      <4> QED BY <1>9, <4>1, TypeParts DEF SeeOwn, SessionTypes
    <3>2. UNCHANGED <<alive, conn, room, enabled, broken, seen>>
          /\ deaths' \in 0..(Interval - 1)
      BY <1>7, <1>9 DEF SeeOwn
    <3> QED BY <3>1, <3>2, TypeParts DEF SessionTypes
  <2>3. MonitorTypes'
    BY <1>0, <1>9, TypeParts DEF SeeOwn, Counts, MonitorTypes
  <2>4. HistoryTypes'
    <3>1. begun' \in [Rooms -> Nat]
      <4>1. begun \in [Rooms -> Nat] /\ begun[room] \in Nat
        BY <1>8, <2>1, TypeParts DEF HistoryTypes
      <4>2. begun' = [begun EXCEPT ![room] = IF deaths' = 0 THEN @ + 1 ELSE @]
        BY <1>9 DEF SeeOwn
      <4>3. \/ begun' = [begun EXCEPT ![room] = begun[room] + 1]
            \/ begun' = [begun EXCEPT ![room] = begun[room]]
        BY <4>2
      <4> QED BY <4>1, <4>3, Updates
    <3>2. UNCHANGED <<admitted, submitted, hidden, lost, ended>>
      BY <1>9 DEF SeeOwn
    <3> QED BY <1>8, <2>1, <3>1, <3>2, TypeParts DEF HistoryTypes
  <2>5. Seeing /\ UNCHANGED receiver /\ UNCHANGED native /\ UNCHANGED used
    BY <1>9 DEF SeeOwn, Counts
  <2> QED BY <1>2, <2>2, <2>3, <2>4, <2>5, SameTypes, TypeParts
<1>10. CASE SeeOwnFails
  <2>1. Counts
    BY <1>10 DEF SeeOwnFails
  <2>2. SessionTypes'
    <3>1. UNCHANGED <<alive, conn, room, enabled, seen, saved>> /\ broken' = TRUE
          /\ deaths' \in 0..(Interval - 1)
      BY <1>7, <1>10 DEF SeeOwnFails
    <3> QED BY <3>1, TypeParts DEF SessionTypes
  <2>3. MonitorTypes'
    BY <1>0, <1>10, TypeParts DEF SeeOwnFails, Counts, MonitorTypes
  <2>4. HistoryTypes'
    <3>1. UNCHANGED <<admitted, submitted, hidden, lost, ended, begun>>
      BY <1>10 DEF SeeOwnFails
    <3> QED BY <1>8, <2>1, <3>1, TypeParts DEF HistoryTypes
  <2>5. Seeing /\ UNCHANGED receiver /\ UNCHANGED native
    BY <1>10 DEF SeeOwnFails, Counts
  <2>6. UsedTypes'
    BY <1>0, <1>10, SameTypes, Spending DEF SeeOwnFails
  <2> QED BY <1>2, <2>2, <2>3, <2>4, <2>5, <2>6, SameTypes, TypeParts
<1> QED BY <1>1, <1>3, <1>4, <1>5, <1>6, <1>9, <1>10 DEF Death

LEMMA StepKeepsTypes ==
    ASSUME TypeOK, Passing, Domain, [Next]_vars
    PROVE  TypeOK'
<1>1. CASE Worker
  BY <1>1, WorkerWorks, WorksKeepsTypes, ReturnsKeepTypes DEF Worker
<1>2. CASE UNCHANGED vars
  BY <1>2, SameTypes, TypeParts
<1>3. CASE Tick
  BY <1>3, TickKeepsTypes
<1>4. CASE Start \/ Crash \/ Disconnect \/ Block \/ \E r \in Rooms : Connect(r)
  BY <1>4, SessionKeepsTypes
<1>5. CASE BeginPass
  BY <1>5, ReturnsKeepTypes
<1>6. CASE Death
  BY <1>6, DeathKeepsTypes
<1>7. CASE Game
  BY <1>7, GameKeepsTypes
<1>8. CASE \E e \in Events : BounceRefused(e) \/ BounceQueued(e) \/ BounceFails(e)
  BY <1>8, BouncesKeepTypes
<1> QED BY <1>1, <1>2, <1>3, <1>4, <1>5, <1>6, <1>7, <1>8 DEF Next

-----------------------------------------------------------------------------
(* The receiver and the copy of it *)

LEMMA PassingNext ==
    Passing' <=>
        /\ enabled' => room' \in Rooms
        /\ Sound(queue') /\ (pc' \in {"native", "merge"} => Sound(copy'.queue))
        /\ pc' \in {"native", "cancel"} => copy'.queue # <<>>
        /\ pc' = "native" /\ original' # "stale" =>
              queue' # <<>> /\ Head(queue') = Head(copy'.queue) /\ late' = copy'.late
        /\ pc' = "native" /\ original' = "same" => queue' = copy'.queue
BY DEF Passing, Sound, Calling

LEMMA StaleCalls ==
    ASSUME Stale, UNCHANGED pc
    PROVE  /\ pc' \in {"native", "merge"} => original' = "stale"
           /\ pc' = "native" => original' = "stale"
           /\ pc' = "merge" => original' = "stale"
BY DEF Stale, Calling

LEMMA StepKeepsPassing ==
    ASSUME TypeOK, Passing, [Next]_vars
    PROVE  Passing'
<1>0. /\ queue \in Seq(Links) /\ copy.queue \in Seq(Links)
  BY TypeParts DEF ReceiverTypes, MonitorTypes, Copies
<1>1. CASE Tick
  <2>1. /\ queue' = Aged(queue) /\ late' = AgedLate(late)
        /\ copy'.queue = Aged(copy.queue) /\ copy'.late = AgedLate(copy.late)
        /\ UNCHANGED <<enabled, room, pc, original>>
    BY <1>1 DEF Tick
  <2>2. Sound(queue') /\ (Calling => Sound(copy'.queue))
    BY <1>0, <2>1, Ages DEF Passing
  <2>3. pc \in {"native", "cancel"} => copy'.queue # <<>>
    BY <1>0, <2>1, Ages DEF Passing
  <2>4. pc = "native" /\ original # "stale" =>
              queue' # <<>> /\ Head(queue') = Head(copy'.queue) /\ late' = copy'.late
    BY <1>0, <2>1, Ages DEF Passing
  <2>5. pc = "native" /\ original = "same" => queue' = copy'.queue
    BY <2>1 DEF Passing
  <2> QED BY <2>1, <2>2, <2>3, <2>4, <2>5, PassingNext DEF Passing, Calling
<1>2. ASSUME NEW e \in Events, BounceQueued(e)
      PROVE  Passing'
  <2>1. Len(queue) < MaxQueue /\ queue' = Append(queue, Link(e)) /\ Touched
        /\ UNCHANGED <<enabled, room, pc, copy, late>>
    BY <1>0, <1>2, Constants DEF BounceQueued, Full
  <2>2. Sound(queue') /\ queue' # <<>> /\ (queue # <<>> => Head(queue') = Head(queue))
    BY <1>0, <2>1, Appends DEF Passing
  <2>3. Calling => original' # "same" /\ (original' # "stale" => original # "stale")
    BY <2>1 DEF Touched
  <2> QED BY <2>1, <2>2, <2>3, PassingNext DEF Passing, Calling
<1>3. ASSUME Stale, UNCHANGED <<pc, copy>>, queue' = queue \/ Sound(queue'),
             enabled' => room' \in Rooms
      PROVE  Passing'
  BY <1>3, StaleCalls, PassingNext DEF Passing, Calling
<1>4. ASSUME pc' \in {"idle", "observe"}, enabled' => room' \in Rooms, Sound(queue')
      PROVE  Passing'
  BY <1>4, PassingNext
<1>5. CASE Start \/ Crash \/ Disconnect \/ Block
  <2>1. CASE Start
    BY <2>1, PassingNext DEF Start, Passing, Calling
  <2>2. CASE Crash
    <3>1. Sound(<<>>)
      BY Constants DEF Sound
    <3> QED BY <1>4, <2>2, <3>1 DEF Crash, NoPass
  <2>3. CASE Disconnect
    BY <1>3, <2>3, Abandoning DEF Disconnect, Passing
  <2>4. CASE Block
    BY <1>3, <2>4 DEF Block, Passing
  <2> QED BY <1>5, <2>1, <2>2, <2>3, <2>4
<1>6. ASSUME NEW r \in Rooms, Connect(r) PROVE Passing'
  <2>1. enabled' => room' \in Rooms
    BY <1>6 DEF Connect, Bind, Passing
  <2> QED BY <1>3, <1>6, <2>1 DEF Connect
<1>7. ASSUME NEW e \in Events, BounceRefused(e) PROVE Passing'
  <2>1. Touched /\ UNCHANGED <<enabled, room, queue, late, pc, copy>>
    BY <1>7 DEF BounceRefused
  <2>2. Calling => original' # "same" /\ (original' # "stale" => original # "stale")
    BY <2>1 DEF Touched
  <2> QED BY <2>1, <2>2, PassingNext DEF Passing, Calling
<1>8. ASSUME NEW e \in Events, BounceFails(e) PROVE Passing'
  BY <1>3, <1>8, Abandoning DEF BounceFails, Passing
<1>9. CASE BeginPass
  BY <1>9, PassingNext DEF BeginPass, NoPass, Passing
<1>10. CASE Worker
  <2>1. ASSUME Works PROVE Passing'
    <3>1. pc' = "merge" /\ Sound(copy'.queue) /\ UNCHANGED <<enabled, room, queue>>
      BY <2>1, Copying DEF Works
    <3> QED BY <3>1, PassingNext DEF Passing
  <2>2. CASE PassRefused \/ QueryFails \/ MergeStale
    <3>1. pc' \in {"idle", "observe"} /\ UNCHANGED <<enabled, room, queue>>
      BY <2>2 DEF PassRefused, QueryFails, MergeStale, NoPass, Keeping
    <3> QED BY <1>4, <3>1 DEF Passing
  <2>3. CASE Merge
    <3>1. pc' = "observe" /\ UNCHANGED <<enabled, room>> /\ queue' \in {queue, copy.queue}
          /\ Sound(copy.queue)
      BY <2>3 DEF Merge, NoPass, Passing, Calling
    <3> QED BY <1>4, <3>1 DEF Passing
  <2> QED BY <1>10, <2>1, <2>2, <2>3, WorkerWorks DEF Worker
<1>11. CASE Death
  <2>1. CASE SeeActive
    <3>1. /\ pc' = "cancel" /\ copy'.queue # <<>> /\ UNCHANGED <<enabled, room>>
          /\ queue # <<>> /\ queue' = Tail(queue)
      BY <2>1 DEF SeeActive, Flying
    <3> QED BY <1>0, <3>1, Heads, PassingNext DEF Passing
  <2>2. CASE SeeNothing \/ SeeUnlinked \/ Cancel \/ SeeLate \/ SeeOwn \/ SeeOwnFails
    <3>1. pc' = "idle" /\ UNCHANGED <<enabled, room, queue>>
      BY <2>2 DEF SeeNothing, SeeUnlinked, Cancel, SeeLate, SeeOwn, SeeOwnFails, Counts, NoPass
    <3> QED BY <1>4, <3>1 DEF Passing
  <2> QED BY <1>11, <2>1, <2>2 DEF Death
<1>12. CASE Game
  <2>1. CASE MapLoaded
    BY <1>3, <2>1 DEF MapLoaded, Passing
  <2>2. CASE OwnDeath \/ Kill \/ Survived
    BY <2>2, PassingNext DEF OwnDeath, Kill, Survived, Passing, Calling
  <2> QED BY <1>12, <2>1, <2>2 DEF Game
<1>13. CASE UNCHANGED vars
  BY <1>13, PassingNext DEF Passing, Calling
<1> QED BY <1>1, <1>2, <1>5, <1>6, <1>7, <1>8, <1>9, <1>10, <1>11, <1>12, <1>13 DEF Next

\* What is left of the suppressions for an event does not grow when a receiver loses links,
\* grows older or finishes its oldest link.
LEMMA Dues ==
    ASSUME NEW q, NEW l, NEW p, NEW k, NEW e \in Events
    PROVE  /\ Due1(q, l, e) \in 0..2
           /\ /\ Flies(p) => Flies(q) /\ Head(p).id = Head(q).id
              /\ k.id \in {l.id, NoEvent}
              => Due1(p, k, e) <= Due1(q, l, e)
           /\ /\ ~Flies(p)
              /\ k = IF Flies(q) THEN [id |-> Head(q).id, left |-> Grace] ELSE l
              => Due1(p, k, e) <= Due1(q, l, e)
BY Constants DEF Due1

LEMMA BudgetNext ==
    Budget' <=> \A e \in Events :
        /\ hidden'[e] + Due1(queue', late', e) <= submitted'[e]
        /\ pc' \in {"native", "merge"} =>
              hidden'[e] + Due1(copy'.queue, copy'.late, e) <= submitted'[e]
BY DEF Budget, Due1, Flies, Calling

\* No suppression is added, or as many links are handed over.
LEMMA BudgetKept ==
    ASSUME TypeOK, Budget, hidden' = hidden, submitted' \in [Events -> Nat],
           \A e \in Events : submitted[e] <= submitted'[e],
           \A e \in Events : \/ Due1(queue', late', e) <= Due1(queue, late, e)
                             \/ /\ Calling
                                /\ Due1(queue', late', e) <= Due1(copy.queue, copy.late, e),
           \A e \in Events : pc' \in {"native", "merge"} =>
               \/ /\ Due1(copy'.queue, copy'.late, e) + submitted[e]
                      <= Due1(copy.queue, copy.late, e) + submitted'[e]
                  /\ Calling
               \/ Due1(copy'.queue, copy'.late, e) <= Due1(queue, late, e)
    PROVE  Budget'
<1> SUFFICES ASSUME NEW e \in Events
             PROVE  /\ hidden'[e] + Due1(queue', late', e) <= submitted'[e]
                    /\ pc' \in {"native", "merge"} =>
                          hidden'[e] + Due1(copy'.queue, copy'.late, e) <= submitted'[e]
  BY BudgetNext
<1>1. hidden[e] \in Nat /\ submitted[e] \in Nat /\ submitted'[e] \in Nat
  BY TypeParts DEF HistoryTypes
<1>2. /\ Due1(queue, late, e) \in 0..2 /\ Due1(queue', late', e) \in 0..2
      /\ Due1(copy.queue, copy.late, e) \in 0..2 /\ Due1(copy'.queue, copy'.late, e) \in 0..2
  BY Dues
<1>3. /\ hidden[e] + Due1(queue, late, e) <= submitted[e]
      /\ Calling => hidden[e] + Due1(copy.queue, copy.late, e) <= submitted[e]
  BY DEF Budget
<1> QED BY <1>1, <1>2, <1>3

\* The native domain.
LEMMA Natives ==
    ASSUME TypeOK
    PROVE  /\ Settles \/ Kill \/ Survived \/ Cancel \/ UNCHANGED native =>
                 native'.id = native.id /\ (native'.st = "pending" => native.st = "pending")
           /\ Kill \/ Survived => native'.st # "pending"
           /\ \A e \in Events : Request(e) =>
                 /\ native'.id = e
                 /\ submitted' = [submitted EXCEPT ![e] = @ + 1]
                 /\ submitted' \in [Events -> Nat]
<1>1. \A n \in [id : Events \union {NoEvent}, st : {"idle", "pending", "done", "failed"}] :
        \A st \in {"done", "failed"} :
           LET m == [n EXCEPT !.st = st] IN m.id = n.id /\ m.st = st
  OBVIOUS
<1>2. native \in [id : Events \union {NoEvent}, st : {"idle", "pending", "done", "failed"}]
  BY TypeParts DEF GameTypes
<1>3. /\ [native EXCEPT !.st = "done"].id = native.id /\ [native EXCEPT !.st = "done"].st = "done"
      /\ [native EXCEPT !.st = "failed"].id = native.id
      /\ [native EXCEPT !.st = "failed"].st = "failed"
  BY <1>1, <1>2
<1>4. ASSUME NEW e \in Events, Request(e)
      PROVE  /\ native'.id = e
             /\ submitted' = [submitted EXCEPT ![e] = @ + 1]
             /\ submitted' \in [Events -> Nat]
  <2>1. submitted \in [Events -> Nat]
    BY TypeParts DEF HistoryTypes
  <2> QED BY <1>4, <2>1, Increments DEF Request
<1> QED BY <1>3, <1>4 DEF Settles, Kill, Survived, Cancel, Cancelled

\* What the worker asks of the domain is for a link that was not handed over yet.
LEMMA Requests ==
    ASSUME TypeOK, Passing, Works, Request(Oldest.id), Hands \/ Refused
    PROVE  /\ ~Flies(queue) /\ ~Flies(copy.queue) /\ native'.id = Oldest.id
           /\ \A e \in Events : submitted[e] <= submitted'[e]
           /\ submitted'[Oldest.id] = submitted[Oldest.id] + 1
           /\ submitted' \in [Events -> Nat]
<1>1. Oldest.id \in Events /\ (Oldest.flying <=> Flies(copy.queue)) /\ ~Oldest.flying
  BY Copying DEF Hands, Refused
<1>2. queue # <<>> /\ Head(queue) = Head(copy.queue) /\ copy.queue # <<>>
  BY DEF Works, Passing
<1>3. /\ native'.id = Oldest.id /\ submitted' \in [Events -> Nat]
      /\ submitted' = [submitted EXCEPT ![Oldest.id] = @ + 1]
  BY <1>1, Natives
<1>4. submitted \in [Events -> Nat]
  BY TypeParts DEF HistoryTypes
<1> QED BY <1>1, <1>2, <1>3, <1>4 DEF Flies

\* A step of the worker hands over one link, for which one more request is made, or none.
LEMMA WorkKeepsBudget ==
    ASSUME TypeOK, Passing, Budget, Works
    PROVE  Budget'
<1>1. Calling /\ hidden' = hidden /\ queue' = queue /\ late' = late
  BY DEF Works, Calling
<1>2. Oldest.id \in Events /\ (Oldest.flying <=> Flies(copy.queue)) /\ Oldest = Head(copy.queue)
  BY Copying DEF Oldest
<1>3. submitted \in [Events -> Nat]
  BY TypeParts DEF HistoryTypes
<1>4. \A e \in Events : /\ Due1(queue', late', e) <= Due1(queue, late, e)
                        /\ Due1(copy.queue, copy.late, e) \in 0..2
                        /\ Due1(copy'.queue, copy'.late, e) \in 0..2
                        /\ submitted[e] \in Nat
  <2>1. \A e \in Events : Due1(queue, late, e) \in 0..2
    BY Dues
  <2> QED BY <1>1, <1>3, <2>1, Dues
<1>5. CASE Finishes \/ Delays
  <2>1. submitted' = submitted
    BY <1>5 DEF Finishes, Delays
  <2>2. \A e \in Events : Due1(copy'.queue, copy'.late, e) <= Due1(copy.queue, copy.late, e)
    <3>1. CASE Finishes
      BY <1>2, <3>1, Copying, Dues
    <3>2. CASE Delays
      <4>1. /\ Flies(copy'.queue) =>
                  Flies(copy.queue) /\ Head(copy'.queue).id = Head(copy.queue).id
            /\ copy'.late = copy.late
        BY <1>2, <3>2, Copying
      <4> QED BY <4>1, Dues
    <3> QED BY <1>5, <3>1, <3>2
  <2>3. \A e \in Events : submitted[e] <= submitted'[e] /\ submitted' \in [Events -> Nat]
    BY <1>3, <2>1
  <2>4. \A e \in Events : Due1(copy'.queue, copy'.late, e) + submitted[e]
                           <= Due1(copy.queue, copy.late, e) + submitted'[e]
    BY <1>4, <2>1, <2>2
  <2> QED BY <1>1, <1>3, <1>4, <2>1, <2>3, <2>4, BudgetKept
<1>6. CASE Refused
  <2>1. ~Flies(copy'.queue) /\ copy'.late = copy.late
    BY <1>6, Copying
  <2>2. /\ submitted' \in [Events -> Nat]
        /\ \A e \in Events : submitted[e] <= submitted'[e]
    <3>1. CASE UNCHANGED submitted
      BY <1>3, <3>1
    <3>2. CASE Request(Oldest.id)
      BY <1>6, <3>2, Requests
    <3> QED BY <1>6, <3>1, <3>2 DEF Refused
  <2>3. \A e \in Events : Due1(copy'.queue, copy'.late, e) <= Due1(copy.queue, copy.late, e)
    BY <2>1, Dues
  <2>4. \A e \in Events : Due1(copy'.queue, copy'.late, e) + submitted[e]
                           <= Due1(copy.queue, copy.late, e) + submitted'[e]
    BY <1>4, <2>2, <2>3
  <2> QED BY <1>1, <1>4, <2>2, <2>4, BudgetKept
<1>7. CASE Hands
  <2>1. /\ Flies(copy'.queue) /\ Head(copy'.queue).id = Oldest.id /\ copy'.late = copy.late
        /\ Request(Oldest.id)
    BY <1>7, Copying DEF Hands
  <2>2. /\ ~Flies(copy.queue) /\ submitted' \in [Events -> Nat]
        /\ \A e \in Events : submitted[e] <= submitted'[e]
        /\ submitted'[Oldest.id] = submitted[Oldest.id] + 1
    BY <1>7, <2>1, Requests
  <2>3. \A e \in Events : Due1(copy'.queue, copy'.late, e) + submitted[e]
                           <= Due1(copy.queue, copy.late, e) + submitted'[e]
    <3> SUFFICES ASSUME NEW e \in Events
                 PROVE  Due1(copy'.queue, copy'.late, e) + submitted[e]
                           <= Due1(copy.queue, copy.late, e) + submitted'[e]
      OBVIOUS
    <3>1. submitted[e] \in Nat /\ submitted'[e] \in Nat
      BY <1>3, <2>2
    <3> QED BY <1>4, <2>1, <2>2, <3>1 DEF Due1
  <2> QED BY <1>1, <1>4, <2>2, <2>3, BudgetKept
<1> QED BY <1>5, <1>6, <1>7 DEF Works

LEMMA StepKeepsBudget ==
    ASSUME TypeOK, Passing, Budget, [Next]_vars
    PROVE  Budget'
<1>0. /\ queue \in Seq(Links) /\ copy.queue \in Seq(Links)
      /\ late \in Lates /\ copy.late \in Lates
      /\ submitted \in [Events -> Nat] /\ hidden \in [Events -> Nat]
      /\ \A e \in Events : submitted[e] \in Nat /\ hidden[e] \in Nat
  BY TypeParts DEF ReceiverTypes, MonitorTypes, HistoryTypes, Copies
<1>00. \A e \in Events : /\ Due1(queue, late, e) \in 0..2
                         /\ Due1(copy.queue, copy.late, e) \in 0..2
  BY Dues
<1>1. CASE Tick
  <2>1. /\ queue' = Aged(queue) /\ late' = AgedLate(late) /\ hidden' = hidden
        /\ copy'.queue = Aged(copy.queue) /\ copy'.late = AgedLate(copy.late)
        /\ submitted' = submitted /\ pc' = pc
    BY <1>1 DEF Tick
  <2>2. \A e \in Events : /\ Due1(queue', late', e) <= Due1(queue, late, e)
                          /\ Due1(copy'.queue, copy'.late, e) <= Due1(copy.queue, copy.late, e)
    <3>1. /\ Flies(Aged(queue)) => Flies(queue) /\ Head(Aged(queue)).id = Head(queue).id
          /\ AgedLate(late).id \in {late.id, NoEvent}
      BY <1>0, Ages, Lateness DEF Flies
    <3>2. /\ Flies(Aged(copy.queue)) =>
                Flies(copy.queue) /\ Head(Aged(copy.queue)).id = Head(copy.queue).id
          /\ AgedLate(copy.late).id \in {copy.late.id, NoEvent}
      BY <1>0, Ages, Lateness DEF Flies
    <3> QED BY <2>1, <3>1, <3>2, Dues
  <2>3. \A e \in Events : Due1(copy'.queue, copy'.late, e) \in 0..2
    BY Dues
  <2>4. \A e \in Events : Due1(copy'.queue, copy'.late, e) + submitted[e]
                           <= Due1(copy.queue, copy.late, e) + submitted'[e]
    <3> SUFFICES ASSUME NEW e \in Events
                 PROVE  Due1(copy'.queue, copy'.late, e) + submitted[e]
                           <= Due1(copy.queue, copy.late, e) + submitted'[e]
      OBVIOUS
    <3>1. submitted[e] \in Nat /\ submitted'[e] = submitted[e]
      BY <1>0, <2>1
    <3>2. /\ Due1(copy'.queue, copy'.late, e) \in 0..2 /\ Due1(copy.queue, copy.late, e) \in 0..2
          /\ Due1(copy'.queue, copy'.late, e) <= Due1(copy.queue, copy.late, e)
      BY <1>00, <2>2, <2>3
    <3> HIDE DEF Due1
    <3> QED BY <3>1, <3>2
  <2>5. submitted' \in [Events -> Nat] /\ \A e \in Events : submitted[e] <= submitted'[e]
    BY <1>0, <2>1
  <2> QED BY <2>1, <2>2, <2>4, <2>5, BudgetKept DEF Calling
<1>2. ASSUME UNCHANGED <<hidden, submitted, pc, copy>>,
             \A e \in Events : Due1(queue', late', e) <= Due1(queue, late, e)
      PROVE  Budget'
  <2>1. \A e \in Events : Due1(copy'.queue, copy'.late, e) = Due1(copy.queue, copy.late, e)
    BY <1>2
  <2> QED BY <1>0, <1>00, <1>2, <2>1, BudgetKept DEF Calling
<1>3. ASSUME UNCHANGED <<hidden, submitted, pc, copy, queue, late>>
      PROVE  Budget'
  <2>1. \A e \in Events : Due1(queue', late', e) <= Due1(queue, late, e)
    BY <1>00, <1>3
  <2> QED BY <1>2, <1>3, <2>1
<1>4. ASSUME UNCHANGED <<hidden, submitted>>, pc' \notin {"native", "merge"},
             \/ queue' = queue /\ late' = late
             \/ Calling /\ queue' = copy.queue /\ late' = copy.late
             \/ queue' = <<>> /\ late' = NoLate
      PROVE  Budget'
  <2>1. \A e \in Events : Due1(<<>>, NoLate, e) = 0
    BY Constants DEF Due1, Flies, NoLate
  <2>2. \A e \in Events : \/ Due1(queue', late', e) <= Due1(queue, late, e)
                          \/ Calling /\ Due1(queue', late', e) <= Due1(copy.queue, copy.late, e)
    BY <1>00, <1>4, <2>1
  <2> QED BY <1>0, <1>4, <2>2, BudgetKept
<1>5. ASSUME Abandon, UNCHANGED <<hidden, submitted, pc, copy>> PROVE Budget'
  <2>1. /\ ~Flies(queue')
        /\ late' = IF Flies(queue) THEN [id |-> Head(queue).id, left |-> Grace] ELSE late
    BY <1>5, Abandoning DEF Flies
  <2>2. \A e \in Events : Due1(queue', late', e) <= Due1(queue, late, e)
    BY <2>1, Dues
  <2> QED BY <1>2, <1>5, <2>2
<1>6. CASE Start \/ Crash \/ Disconnect \/ Block
  <2>1. CASE Start
    BY <1>3, <2>1 DEF Start
  <2>2. CASE Crash
    BY <1>4, <2>2 DEF Crash, NoPass
  <2>3. CASE Disconnect
    BY <1>5, <2>3 DEF Disconnect
  <2>4. CASE Block
    BY <1>3, <2>4 DEF Block
  <2> QED BY <1>6, <2>1, <2>2, <2>3, <2>4
<1>7. ASSUME NEW r \in Rooms, Connect(r) PROVE Budget'
  BY <1>3, <1>7 DEF Connect
<1>8. ASSUME NEW e \in Events, BounceRefused(e) \/ BounceQueued(e) \/ BounceFails(e)
      PROVE  Budget'
  <2>1. CASE BounceRefused(e)
    BY <1>3, <2>1 DEF BounceRefused
  <2>2. CASE BounceQueued(e)
    <3>1. Len(queue) < MaxQueue /\ Sound(queue) /\ queue' = Append(queue, Link(e)) /\ late' = late
          /\ UNCHANGED <<hidden, submitted, pc, copy>>
      BY <1>0, <2>2, Constants DEF BounceQueued, Full, Passing
    <3>2. Flies(queue') => Flies(queue) /\ Head(queue').id = Head(queue).id
      BY <1>0, <3>1, Appends DEF Flies
    <3>3. \A d \in Events : Due1(queue', late', d) <= Due1(queue, late, d)
      BY <3>1, <3>2, Dues
    <3> QED BY <1>2, <3>1, <3>3
  <2>3. CASE BounceFails(e)
    BY <1>5, <2>3 DEF BounceFails
  <2> QED BY <1>8, <2>1, <2>2, <2>3
<1>9. CASE BeginPass
  <2>1. CASE queue = <<>>
    BY <1>4, <1>9, <2>1 DEF BeginPass, NoPass
  <2>2. CASE queue # <<>>
    <3>1. /\ copy'.queue = queue /\ copy'.late = late
          /\ UNCHANGED <<hidden, submitted, queue, late>>
      BY <1>9, <2>2 DEF BeginPass
    <3>2. \A e \in Events : /\ Due1(queue', late', e) <= Due1(queue, late, e)
                            /\ Due1(copy'.queue, copy'.late, e) <= Due1(queue, late, e)
      BY <1>00, <3>1
    <3> QED BY <1>0, <3>1, <3>2, BudgetKept
  <2> QED BY <2>1, <2>2
<1>10. CASE Worker
  <2>1. CASE PassRefused \/ QueryFails \/ MergeStale
    <3>1. pc' \notin {"native", "merge"} /\ UNCHANGED <<hidden, submitted, queue, late>>
      BY <2>1 DEF PassRefused, QueryFails, MergeStale, NoPass, Keeping
    <3> QED BY <1>4, <3>1
  <2>2. CASE Merge
    BY <1>4, <2>2 DEF Merge, NoPass, Calling
  <2> QED BY <1>10, <2>1, <2>2, WorkerWorks, WorkKeepsBudget DEF Worker
<1>11. CASE Game
  <2>1. UNCHANGED <<hidden, submitted, pc, copy, queue, late>>
    BY <1>11 DEF Game, OwnDeath, Kill, Survived, MapLoaded
  <2> QED BY <1>3, <2>1
<1>12. CASE SeeNothing \/ SeeUnlinked \/ Cancel \/ SeeOwn \/ SeeOwnFails
  <2>1. pc' \notin {"native", "merge"} /\ UNCHANGED <<hidden, submitted, queue, late>>
    BY <1>12 DEF SeeNothing, SeeUnlinked, Cancel, SeeOwn, SeeOwnFails, Counts, NoPass
  <2> QED BY <1>4, <2>1
<1>13. CASE SeeActive
  <2>1. /\ Flies(queue) /\ queue' = Tail(queue) /\ late' = late /\ submitted' = submitted
        /\ hidden' = [hidden EXCEPT ![Head(queue).id] = @ + 1] /\ pc' = "cancel"
    BY <1>13 DEF SeeActive, Flying, Flies
  <2>2. ~Flies(queue')
    BY <1>0, <2>1, Heads DEF Passing, Flies
  <2>3. ASSUME NEW e \in Events
        PROVE  hidden'[e] + Due1(queue', late', e) <= submitted'[e]
    <3>1. hidden[e] + Due1(queue, late, e) <= submitted[e]
      BY DEF Budget
    <3>2. hidden'[e] = IF e = Head(queue).id THEN hidden[e] + 1 ELSE hidden[e]
      BY <1>0, <2>1
    <3> QED BY <1>0, <2>1, <2>2, <3>1, <3>2 DEF Due1
  <2> QED BY <2>1, <2>3, BudgetNext
<1>14. CASE SeeLate
  <2>1. /\ queue' = queue /\ late' = NoLate /\ submitted' = submitted /\ pc' = "idle"
        /\ hidden' = [hidden EXCEPT ![late.id] = @ + 1]
    BY <1>14 DEF SeeLate
  <2>2. ASSUME NEW e \in Events
        PROVE  hidden'[e] + Due1(queue', late', e) <= submitted'[e]
    <3>1. hidden[e] + Due1(queue, late, e) <= submitted[e]
      BY DEF Budget
    <3>2. hidden'[e] = IF e = late.id THEN hidden[e] + 1 ELSE hidden[e]
      BY <1>0, <2>1
    <3>3. late'.id # e
      BY <2>1, Constants DEF NoLate
    <3> QED BY <1>0, <2>1, <3>1, <3>2, <3>3 DEF Due1
  <2> QED BY <2>1, <2>2, BudgetNext
<1>15. CASE UNCHANGED vars
  BY <1>3, <1>15
<1> QED BY <1>1, <1>6, <1>7, <1>8, <1>9, <1>10, <1>11, <1>12, <1>13, <1>14, <1>15 DEF Next, Death

-----------------------------------------------------------------------------
(* The native domain and what the receiver takes it to be *)

LEMMA DomainNext ==
    Domain' <=>
        /\ native'.st = "pending" => native'.id \in Events
        /\ Flies(queue') => native'.id = Head(queue').id
        /\ pc' = "merge" /\ original' = "same" /\ Flies(copy'.queue) =>
              native'.id = Head(copy'.queue).id
BY DEF Domain, Flies

\* The domain keeps its event, and the receiver its oldest link or none that was handed over.
LEMMA DomainKept ==
    ASSUME Domain, native'.id = native.id, native'.st = "pending" => native.st = "pending",
           Flies(queue') => Flies(queue) /\ Head(queue').id = Head(queue).id,
           pc' = "merge" /\ original' = "same" /\ Flies(copy'.queue) =>
              /\ pc = "merge" /\ original = "same" /\ Flies(copy.queue)
              /\ Head(copy'.queue).id = Head(copy.queue).id
    PROVE  Domain'
BY DomainNext DEF Domain

LEMMA WorkKeepsDomain ==
    ASSUME TypeOK, Passing, Domain, Works
    PROVE  Domain'
<1>1. /\ queue' = queue /\ queue # <<>> /\ Head(queue) = Head(copy.queue) /\ copy.queue # <<>>
      /\ Oldest = Head(copy.queue) /\ Oldest.id \in Events /\ (Flies(queue) <=> Flies(copy.queue))
  BY Copying DEF Works, Passing, Oldest, Flies
<1>2. ASSUME Request(Oldest.id), Hands \/ Refused
      PROVE  native'.id \in Events /\ ~Flies(queue') /\ native'.id = Oldest.id
  BY <1>1, <1>2, Requests
<1>3. CASE Finishes
  <2>1. ~Flies(copy'.queue) /\ Settles
    BY <1>3, Copying DEF Finishes
  <2> QED BY <1>1, <2>1, Natives, DomainNext DEF Domain
<1>4. CASE Delays
  <2>1. /\ Flies(copy'.queue) => Flies(copy.queue) /\ Head(copy'.queue).id = Oldest.id
        /\ native' = native
    BY <1>4, Copying DEF Delays
  <2> QED BY <1>1, <2>1, DomainNext DEF Domain
<1>5. CASE Refused
  <2>1. ~Flies(copy'.queue)
    BY <1>5, Copying
  <2>2. CASE UNCHANGED native
    BY <1>1, <2>1, <2>2, DomainNext DEF Domain
  <2>3. CASE Request(Oldest.id)
    BY <1>2, <1>5, <2>1, <2>3, DomainNext
  <2> QED BY <1>5, <2>2, <2>3 DEF Refused
<1>6. CASE Hands
  <2>1. Head(copy'.queue).id = Oldest.id /\ Request(Oldest.id)
    BY <1>6, Copying DEF Hands
  <2> QED BY <1>2, <1>6, <2>1, DomainNext
<1> QED BY <1>3, <1>4, <1>5, <1>6 DEF Works

LEMMA StepKeepsDomain ==
    ASSUME TypeOK, Passing, Domain, [Next]_vars
    PROVE  Domain'
<1>0. queue \in Seq(Links) /\ copy.queue \in Seq(Links)
  BY TypeParts DEF ReceiverTypes, MonitorTypes, Copies
<1>1. CASE Tick
  <2>1. /\ queue' = Aged(queue) /\ copy'.queue = Aged(copy.queue)
        /\ UNCHANGED <<native, pc, original>>
    BY <1>1 DEF Tick
  <2>2. /\ Flies(queue') => Flies(queue) /\ Head(queue').id = Head(queue).id
        /\ Flies(copy'.queue) => Flies(copy.queue) /\ Head(copy'.queue).id = Head(copy.queue).id
    BY <1>0, <2>1, Ages DEF Flies
  <2> QED BY <2>1, <2>2, DomainKept
<1>2. ASSUME native' = native, queue' = queue \/ ~Flies(queue'),
             pc' # "merge" \/ original' # "same"
      PROVE  Domain'
  BY <1>2, DomainKept
<1>3. CASE Start \/ Crash \/ Disconnect \/ Block
  <2>1. CASE Start
    BY <2>1, DomainKept DEF Start
  <2>2. CASE Crash
    BY <1>2, <2>2 DEF Crash, NoPass, Flies
  <2>3. CASE Disconnect
    BY <1>2, <2>3, Abandoning, StaleCalls DEF Disconnect, Flies
  <2>4. CASE Block
    BY <1>2, <2>4, StaleCalls DEF Block
  <2> QED BY <1>3, <2>1, <2>2, <2>3, <2>4
<1>4. ASSUME NEW r \in Rooms, Connect(r) PROVE Domain'
  BY <1>2, <1>4, StaleCalls DEF Connect
<1>5. ASSUME NEW e \in Events, BounceRefused(e) \/ BounceQueued(e) \/ BounceFails(e)
      PROVE  Domain'
  <2>1. Touched => pc # "merge" \/ original' # "same"
    BY DEF Touched, Calling
  <2>2. CASE BounceRefused(e)
    BY <1>2, <2>1, <2>2 DEF BounceRefused
  <2>3. CASE BounceQueued(e)
    <3>1. Len(queue) < MaxQueue /\ Sound(queue) /\ queue' = Append(queue, Link(e))
          /\ UNCHANGED <<native, pc, copy>> /\ Touched
      BY <1>0, <2>3, Constants DEF BounceQueued, Full, Passing
    <3>2. Flies(queue') => Flies(queue) /\ Head(queue').id = Head(queue).id
      BY <1>0, <3>1, Appends DEF Flies
    <3> QED BY <2>1, <3>1, <3>2, DomainKept
  <2>4. CASE BounceFails(e)
    BY <1>2, <2>4, Abandoning, StaleCalls DEF BounceFails, Flies
  <2> QED BY <1>5, <2>2, <2>3, <2>4
<1>6. CASE BeginPass
  BY <1>2, <1>6 DEF BeginPass, NoPass
<1>7. CASE Worker
  <2>1. CASE PassRefused \/ QueryFails \/ MergeStale
    <3>1. pc' # "merge" /\ UNCHANGED <<native, queue>>
      BY <2>1 DEF PassRefused, QueryFails, MergeStale, NoPass, Keeping
    <3> QED BY <1>2, <3>1
  <2>2. CASE Merge
    <3>1. /\ pc' # "merge" /\ native' = native /\ pc = "merge" /\ original # "stale"
          /\ original = "touched" => queue' = queue
          /\ original # "touched" => queue' = copy.queue
      BY <2>2 DEF Merge, NoPass
    <3>2. original # "touched" => original = "same"
      BY <3>1, TypeParts DEF MonitorTypes
    <3> QED BY <3>1, <3>2, DomainNext DEF Domain
  <2> QED BY <1>7, <2>1, <2>2, WorkerWorks, WorkKeepsDomain DEF Worker
<1>8. CASE Death
  <2>1. pc' # "merge" /\ (queue' = queue \/ ~Flies(queue')) /\ (UNCHANGED native \/ Cancel)
    <3>1. CASE SeeActive
      <4>1. queue # <<>> /\ queue' = Tail(queue) /\ UNCHANGED native /\ pc' = "cancel"
        BY <3>1 DEF SeeActive, Flying
      <4> QED BY <1>0, <4>1, Heads DEF Passing
    <3>2. CASE SeeNothing \/ SeeUnlinked \/ Cancel \/ SeeLate \/ SeeOwn \/ SeeOwnFails
      BY <3>2 DEF SeeNothing, SeeUnlinked, Cancel, SeeLate, SeeOwn, SeeOwnFails, Counts, NoPass
    <3> QED BY <1>8, <3>1, <3>2 DEF Death
  <2> QED BY <2>1, Natives, DomainKept
<1>9. CASE Game
  <2>1. CASE MapLoaded
    BY <1>2, <2>1, StaleCalls DEF MapLoaded
  <2>2. CASE OwnDeath \/ Kill \/ Survived
    <3>1. UNCHANGED <<queue, pc, copy, original>> /\ (UNCHANGED native \/ Kill \/ Survived)
      BY <2>2 DEF OwnDeath, Kill, Survived
    <3> QED BY <3>1, Natives, DomainKept
  <2> QED BY <1>9, <2>1, <2>2 DEF Game
<1>10. CASE UNCHANGED vars
  BY <1>10, DomainKept
<1> QED BY <1>1, <1>3, <1>4, <1>5, <1>6, <1>7, <1>8, <1>9, <1>10 DEF Next

-----------------------------------------------------------------------------
(* The deaths that links cause *)

LEMMA SuppressedNext ==
    Suppressed' <=> \A e \in Events :
        e \notin lost' /\ hidden'[e] = 0 /\ ended'[e] > 0 =>
            /\ death' = e => Covers(queue', late', ended'[e])
            /\ native'.st = "pending" /\ native'.id = e => Awaits(e, queue', late', ended'[e])
            /\ pc' = "merge" /\ original' = "same" =>
                  /\ death' = e => Covers(copy'.queue, copy'.late, ended'[e])
                  /\ native'.st = "pending" /\ native'.id = e =>
                        Awaits(e, copy'.queue, copy'.late, ended'[e])
BY DEF Suppressed, Open, Pending, Covers, Awaits, Flies

\* Nothing new is to be expected, and the receiver keeps what it expects.
LEMMA SuppressedKept ==
    ASSUME Suppressed, lost \subseteq lost', UNCHANGED <<hidden, ended, late>>,
           death' = death \/ death' \notin Events,
           native'.st = "pending" => native.st = "pending" /\ native'.id = native.id,
           Flies(queue) => Flies(queue'),
           pc' = "merge" /\ original' = "same" =>
              pc = "merge" /\ original = "same" /\ copy' = copy
    PROVE  Suppressed'
BY SuppressedNext DEF Suppressed, Open, Pending, Covers, Awaits

\* All is given up: what was handed over last is expected for as long as can be.
LEMMA AbandonKeepsSuppressed ==
    ASSUME TypeOK, Domain, Suppressed, Abandon, Stale,
           UNCHANGED <<pc, hidden, lost, death, native>>
    PROVE  Suppressed'
<1> SUFFICES ASSUME NEW e \in Events, e \notin lost, hidden[e] = 0, ended'[e] > 0
             PROVE  /\ death = e => Covers(queue', late', ended'[e])
                    /\ Pending(e) => Awaits(e, queue', late', ended'[e])
  BY SuppressedNext, StaleCalls DEF Pending
<1>1. /\ late' = IF Flies(queue) THEN [id |-> Head(queue).id, left |-> Grace] ELSE late
      /\ ended'[e] = IF Flies(queue) /\ Head(queue).id = e THEN Grace + 1 ELSE ended[e]
      /\ ended'[e] \in 0..(Grace + 1)
  BY Abandoning
<1>2. CASE Flies(queue)
  <2>1. Head(queue).id \in Events
    BY <1>2, Heads, TypeParts DEF Flies, ReceiverTypes, Links
  <2>2. Pending(e) => Head(queue).id = e
    BY <1>2 DEF Domain, Pending
  <2>3. late'.id = Head(queue).id /\ late'.id # NoEvent /\ ended'[e] <= late'.left + 1
    BY <1>1, <1>2, <2>1, Constants
  <2> QED BY <2>2, <2>3 DEF Covers, Awaits
<1>3. CASE ~Flies(queue)
  BY <1>1, <1>3 DEF Suppressed, Open, Covers, Awaits
<1> QED BY <1>2, <1>3

LEMMA TickKeepsSuppressed ==
    ASSUME TypeOK, Suppressed, Tick
    PROVE  Suppressed'
<1>1. /\ queue' = Aged(queue) /\ late' = AgedLate(late)
      /\ copy'.queue = Aged(copy.queue) /\ copy'.late = AgedLate(copy.late)
      /\ ended' = [e \in Events |-> Less(ended[e])]
      /\ UNCHANGED <<pc, original, native, death, hidden, lost>>
  BY DEF Tick
<1>2. /\ queue \in Seq(Links) /\ copy.queue \in Seq(Links)
      /\ late \in Lates /\ copy.late \in Lates
      /\ ended \in [Events -> 0..(Grace + 1)]
  BY TypeParts DEF ReceiverTypes, MonitorTypes, HistoryTypes, Copies
<1>3. ASSUME NEW e \in Events, ended'[e] > 0
      PROVE  ended[e] > 1 /\ ended'[e] = ended[e] - 1 /\ ended[e] \in Nat
  BY <1>1, <1>2, <1>3, Constants DEF Less
<1>4. ASSUME NEW q \in Seq(Links), NEW l \in Lates, NEW e \in Events, ended'[e] > 0
      PROVE  /\ Covers(q, l, ended[e]) => Covers(Aged(q), AgedLate(l), ended'[e])
             /\ Awaits(e, q, l, ended[e]) => Awaits(e, Aged(q), AgedLate(l), ended'[e])
  <2>1. Flies(q) => Flies(Aged(q))
    BY Ages
  <2>2. l.left \in Nat
    BY Constants DEF Lates
  <2>3. ended[e] <= l.left + 1 =>
           /\ AgedLate(l).id = l.id /\ ended'[e] <= AgedLate(l).left + 1
    <3>1. ended[e] <= l.left + 1 => l.left > 0
      BY <1>3, <1>4, <2>2
    <3>2. l.left > 0 => AgedLate(l).id = l.id /\ AgedLate(l).left = l.left - 1
      BY Lateness
    <3> QED BY <1>3, <1>4, <2>2, <3>1, <3>2
  <2> QED BY <2>1, <2>3 DEF Covers, Awaits
<1>5. \A e \in Events : ended'[e] > 0 => ended[e] > 0
  BY <1>3, Constants
<1> QED BY <1>1, <1>2, <1>4, <1>5, SuppressedNext DEF Suppressed, Open, Pending

\* The worker hands over a link, of which the receiver does not know yet; or it finishes one.
LEMMA WorkKeepsSuppressed ==
    ASSUME TypeOK, Passing, Domain, Suppressed, Works
    PROVE  Suppressed'
<1>1. /\ UNCHANGED <<queue, late, death, hidden, original>>
      /\ Head(queue) = Head(copy.queue) /\ late = copy.late
      /\ Oldest.id \in Events
      /\ (Oldest.flying <=> Flies(queue)) /\ (Flies(queue) <=> Flies(copy.queue))
      /\ Oldest = Head(queue)
  BY Copying DEF Works, Passing, Oldest, Flies
<1>2. ended \in [Events -> 0..(Grace + 1)]
  BY TypeParts DEF HistoryTypes
<1>3. lost \subseteq lost'
  BY DEF Works, Finishes, Hands, Refused, Delays
\* What may be pending now was pending before, but for the link that is handed over.
<1>4. ASSUME NEW e \in Events, e \notin lost', native'.st = "pending", native'.id = e
      PROVE  Pending(e)
  <2>1. ASSUME Request(Oldest.id), lost' = lost \union {Oldest.id}, Hands \/ Refused
        PROVE  FALSE
    BY <1>4, <2>1, Requests
  <2>2. Settles \/ UNCHANGED native
    BY <2>1 DEF Works, Finishes, Hands, Refused, Delays
  <2> QED BY <1>4, <2>2, Natives DEF Pending
<1>5. ASSUME NEW e \in Events, Pending(e), Flies(queue) PROVE e = Oldest.id
  BY <1>1, <1>5 DEF Domain, Pending
<1> SUFFICES ASSUME NEW e \in Events, e \notin lost', hidden[e] = 0, ended'[e] > 0
             PROVE  /\ death = e => /\ Covers(queue, late, ended'[e])
                                    /\ Covers(copy'.queue, copy'.late, ended'[e])
                    /\ Pending(e) => /\ Awaits(e, queue, late, ended'[e])
                                     /\ Awaits(e, copy'.queue, copy'.late, ended'[e])
  BY <1>1, <1>4, SuppressedNext
<1>6. ended' # ended => Finishes /\ Flies(queue)
  BY <1>1, <1>2 DEF Works, Finishes, Hands, Refused, Delays
<1>7. ended' = ended => Open(e)
  BY <1>3 DEF Open
<1>8. CASE Flies(queue)
  <2>1. Covers(queue, late, ended'[e]) /\ Awaits(e, queue, late, ended'[e])
    BY <1>8 DEF Covers, Awaits
  <2>2. CASE Finishes
    <3>1. copy'.late = [id |-> Oldest.id, left |-> Grace]
      BY <1>1, <1>8, <2>2, Copying
    <3>2. ended'[e] \in 0..(Grace + 1)
      BY <1>1, <1>2, <2>2, Constants DEF Finishes
    <3>3. copy'.late.id # NoEvent /\ ended'[e] <= copy'.late.left + 1
      BY <1>1, <3>1, <3>2, Constants
    <3>4. Pending(e) => copy'.late.id = e
      BY <1>5, <1>8, <3>1
    <3> QED BY <2>1, <3>3, <3>4 DEF Covers, Awaits
  <2>3. CASE Delays
    BY <1>1, <1>8, <2>1, <2>3, Copying DEF Covers, Awaits
  <2>4. ~Hands /\ ~Refused
    BY <1>1, <1>8 DEF Hands, Refused
  <2> QED BY <2>2, <2>3, <2>4 DEF Works
<1>9. CASE ~Flies(queue)
  <2>1. ended' = ended
    BY <1>6, <1>9
  <2>2. copy'.late = late
    BY <1>1, <1>9, Copying DEF Works
  <2>3. /\ death = e => Covers(queue, late, ended[e])
        /\ Pending(e) => Awaits(e, queue, late, ended[e])
    BY <1>7, <2>1 DEF Suppressed
  <2> QED BY <1>9, <2>1, <2>2, <2>3 DEF Covers, Awaits
<1> QED BY <1>8, <1>9

LEMMA StepKeepsSuppressed ==
    ASSUME TypeOK, Passing, Domain, Suppressed, [Next]_vars
    PROVE  Suppressed'
<1>0. /\ queue \in Seq(Links) /\ copy.queue \in Seq(Links) /\ late \in Lates
      /\ hidden \in [Events -> Nat]
  BY TypeParts DEF ReceiverTypes, MonitorTypes, HistoryTypes, Copies
<1>1. ASSUME UNCHANGED <<lost, hidden, ended, late, death, native, queue>>,
             pc' # "merge" \/ original' # "same"
      PROVE  Suppressed'
  BY <1>1, SuppressedKept
<1>2. CASE Start \/ Crash \/ Disconnect \/ Block
  <2>1. CASE Start
    BY <2>1, SuppressedKept DEF Start
  <2>2. CASE Crash
    <3>1. \A e \in Events : ended'[e] = 0
      BY <2>2 DEF Crash
    <3> QED BY <3>1, SuppressedNext
  <2>3. CASE Disconnect
    BY <2>3, AbandonKeepsSuppressed DEF Disconnect
  <2>4. CASE Block
    BY <1>1, <2>4, StaleCalls DEF Block
  <2> QED BY <1>2, <2>1, <2>2, <2>3, <2>4
<1>3. ASSUME NEW r \in Rooms, Connect(r) PROVE Suppressed'
  BY <1>1, <1>3, StaleCalls DEF Connect
<1>4. ASSUME NEW e \in Events, BounceRefused(e) \/ BounceQueued(e) \/ BounceFails(e)
      PROVE  Suppressed'
  <2>1. Touched => pc # "merge" \/ original' # "same"
    BY DEF Touched, Calling
  <2>2. CASE BounceRefused(e)
    BY <1>1, <2>1, <2>2 DEF BounceRefused
  <2>3. CASE BounceQueued(e)
    <3>1. Len(queue) < MaxQueue /\ Sound(queue) /\ queue' = Append(queue, Link(e)) /\ Touched
          /\ UNCHANGED <<native, pc, copy, lost, hidden, ended, late, death>>
      BY <1>0, <2>3, Constants DEF BounceQueued, Full, Passing
    <3>2. Flies(queue) => Flies(queue')
      BY <1>0, <3>1, Appends
    <3> QED BY <2>1, <3>1, <3>2, SuppressedKept
  <2>4. CASE BounceFails(e)
    BY <2>4, AbandonKeepsSuppressed DEF BounceFails
  <2> QED BY <1>4, <2>2, <2>3, <2>4
<1>5. CASE BeginPass
  BY <1>1, <1>5 DEF BeginPass, NoPass
<1>6. CASE Worker
  <2>1. CASE PassRefused \/ QueryFails \/ MergeStale
    <3>1. pc' # "merge" /\ UNCHANGED <<lost, hidden, ended, late, death, native, queue>>
      BY <2>1 DEF PassRefused, QueryFails, MergeStale, NoPass, Keeping
    <3> QED BY <1>1, <3>1
  <2>2. CASE Merge
    <3>1. /\ UNCHANGED <<hidden, ended, death, native>> /\ pc' # "merge"
          /\ pc = "merge" /\ original # "stale"
          /\ original = "touched" => UNCHANGED <<queue, late, lost>>
          /\ original # "touched" => /\ queue' = copy.queue /\ late' = copy.late
                                     /\ lost' = lost \ Known(copy.queue)
      BY <2>2 DEF Merge, NoPass
    <3>2. CASE original = "touched"
      BY <1>1, <3>1, <3>2
    <3>3. CASE original = "same"
      <4>1. ~Flies(copy.queue) => Known(copy.queue) = {}
        BY <1>0, <3>1, KnownHead DEF Passing, Calling
      <4>2. ASSUME NEW e \in Events, e \notin lost', hidden[e] = 0, ended[e] > 0
            PROVE  /\ death = e => Covers(copy.queue, copy.late, ended[e])
                   /\ Pending(e) => Awaits(e, copy.queue, copy.late, ended[e])
        <5>1. CASE Flies(copy.queue)
          BY <5>1 DEF Covers, Awaits
        <5>2. CASE ~Flies(copy.queue)
          BY <3>1, <3>3, <4>1, <4>2, <5>2 DEF Suppressed, Open
        <5> QED BY <5>1, <5>2
      <4> QED BY <3>1, <3>3, <4>2, SuppressedNext DEF Pending
    <3> QED BY <3>1, <3>2, <3>3, TypeParts DEF MonitorTypes
  <2> QED BY <1>6, <2>1, <2>2, WorkerWorks, WorkKeepsSuppressed DEF Worker
<1>7. CASE Game
  <2>1. CASE MapLoaded
    BY <1>1, <2>1, StaleCalls DEF MapLoaded
  <2>2. CASE OwnDeath
    BY <2>2, SuppressedKept, Constants DEF OwnDeath
  <2>3. CASE Survived
    <3>1. /\ UNCHANGED <<lost, hidden, ended, late, death, queue, pc, copy, original>>
          /\ native'.st # "pending"
      BY <2>3, Natives DEF Survived
    <3> QED BY <3>1, SuppressedKept
  <2>4. CASE Kill
    <3>1. /\ UNCHANGED <<lost, hidden, ended, late, queue, pc, copy, original>>
          /\ native'.st # "pending" /\ native.st = "pending" /\ death' = native.id
      BY <2>4, Natives DEF Kill
    <3>2. ASSUME NEW e \in Events, e \notin lost, hidden[e] = 0, ended[e] > 0, death' = e
          PROVE  /\ Covers(queue, late, ended[e])
                 /\ pc = "merge" /\ original = "same" => Covers(copy.queue, copy.late, ended[e])
      <4>1. Open(e) /\ Pending(e) /\ e # NoEvent
        BY <3>1, <3>2, Constants DEF Open, Pending
      <4> QED BY <4>1 DEF Suppressed, Covers, Awaits
    <3> QED BY <3>1, <3>2, SuppressedNext
  <2> QED BY <1>7, <2>1, <2>2, <2>3, <2>4 DEF Game
<1>8. CASE Death
  <2>1. CASE SeeActive
    <3>1. /\ Flies(queue) /\ late' = late /\ lost' = lost /\ native' = native /\ death' = NoEvent
          /\ hidden' = [hidden EXCEPT ![Head(queue).id] = @ + 1] /\ pc' = "cancel"
          /\ ended' = [ended EXCEPT ![Head(queue).id] = 0]
      BY <2>1 DEF SeeActive, Flying, Flies, Seeing
    <3>2. ASSUME NEW e \in Events, hidden'[e] = 0, native.st = "pending", native.id = e
          PROVE  FALSE
      <4>1. e = Head(queue).id
        BY <3>1, <3>2 DEF Domain
      <4>2. hidden'[e] = hidden[e] + 1 /\ hidden[e] \in Nat
        BY <1>0, <3>1, <4>1
      <4> QED BY <3>2, <4>2
    <3> QED BY <3>1, <3>2, Constants, SuppressedNext
  <2>2. CASE SeeLate
    <3>1. /\ ~Flies(queue) /\ lost' = lost /\ native' = native /\ death' = NoEvent /\ pc' = "idle"
          /\ hidden' = [hidden EXCEPT ![late.id] = @ + 1] /\ ended' = ended
      BY <2>2 DEF SeeLate, Flying, Flies, Seeing
    <3>2. ASSUME NEW e \in Events, e \notin lost, hidden'[e] = 0, ended[e] > 0,
                 native.st = "pending", native.id = e
          PROVE  FALSE
      <4>1. hidden[e] \in Nat /\ (hidden'[e] = hidden[e] \/ hidden'[e] = hidden[e] + 1)
        BY <1>0, <3>1
      <4>2. Open(e) /\ Pending(e)
        BY <3>2, <4>1 DEF Open, Pending
      <4>3. late.id = e
        BY <3>1, <4>2 DEF Suppressed, Awaits
      <4>4. hidden'[e] = hidden[e] + 1
        BY <1>0, <3>1, <4>3
      <4> QED BY <3>2, <4>1, <4>4
    <3> QED BY <3>1, <3>2, Constants, SuppressedNext
  <2>3. CASE SeeNothing \/ SeeUnlinked \/ SeeOwn \/ SeeOwnFails
    <3>1. /\ UNCHANGED <<lost, hidden, ended, late, native, queue>> /\ pc' # "merge"
          /\ death' = death \/ death' = NoEvent
      BY <2>3 DEF SeeNothing, SeeUnlinked, SeeOwn, SeeOwnFails, Counts, Seeing
    <3> QED BY <3>1, Constants, SuppressedKept
  <2>4. CASE Cancel
    <3>1. UNCHANGED <<lost, hidden, ended, late, death, queue>> /\ pc' # "merge"
      BY <2>4 DEF Cancel, NoPass
    <3> QED BY <2>4, <3>1, Natives, SuppressedKept
  <2> QED BY <1>8, <2>1, <2>2, <2>3, <2>4 DEF Death
<1>9. CASE UNCHANGED vars
  BY <1>9, SuppressedKept
<1>10. CASE Tick
  BY <1>10, TickKeepsSuppressed
<1> QED BY <1>2, <1>3, <1>4, <1>5, <1>6, <1>7, <1>8, <1>9, <1>10 DEF Next

-----------------------------------------------------------------------------
(* What client_state.json holds *)

RememberedWith(adm, bro, sav, rm, sn, dth, faults) ==
    /\ \A r \in Rooms : IsFiniteSet({e \in Events : adm[r][e] > 0})
    /\ faults = 0 =>
          /\ ~bro
          /\ \A r \in Rooms : Cardinality({e \in Events : adm[r][e] > 0}) <= SeenLimit =>
                /\ sav[r].seen = {e \in Events : adm[r][e] > 0}
                /\ rm = r => sn = {e \in Events : adm[r][e] > 0}
                /\ \A e \in Events : adm[r][e] <= 1
          /\ rm \in Rooms => dth = sav[rm].deaths

Exact(beg, sav, cnt, faults) == faults = 0 =>
    \A r \in Rooms : beg[r] * Interval + sav[r].deaths = cnt[r]

LEMMA BooksNow ==
    Remembered /\ QueuedOnce /\ GraceIsExact <=>
        /\ RememberedWith(admitted, broken, saved, room, seen, deaths, used["fault"])
        /\ Exact(begun, saved, counted, used["fault"])
BY DEF Remembered, QueuedOnce, GraceIsExact, RememberedWith, Exact, Admitted, Few

LEMMA BooksNext ==
    (Remembered /\ QueuedOnce /\ GraceIsExact)' <=>
        /\ RememberedWith(admitted', broken', saved', room', seen', deaths', used'["fault"])
        /\ Exact(begun', saved', counted', used'["fault"])
BY DEF Remembered, QueuedOnce, GraceIsExact, RememberedWith, Exact, Admitted, Few

\* While the ids are few enough, none is dropped.
LEMMA KeptAll ==
    ASSUME NEW S \in SUBSET Events, IsFiniteSet(S), Cardinality(S) <= SeenLimit
    PROVE  Kept(S) = S
<1> SUFFICES ASSUME NEW e \in S
             PROVE  Cardinality({d \in S : d > e}) < SeenLimit
  BY DEF Kept
<1>1. {d \in S : d > e} \subseteq S \ {e}
  BY EventsAssumption
<1>2. IsFiniteSet(S \ {e}) /\ Cardinality(S \ {e}) = Cardinality(S) - 1 /\ Cardinality(S) \in Nat
  BY FS_RemoveElement, FS_CardinalityType
<1>3. Cardinality({d \in S : d > e}) <= Cardinality(S \ {e}) /\ IsFiniteSet({d \in S : d > e})
  BY <1>1, <1>2, FS_Subset
<1>4. Cardinality({d \in S : d > e}) \in Nat
  BY <1>3, FS_CardinalityType
<1> QED BY <1>2, <1>3, <1>4, Constants

\* A fault is never forgotten.
LEMMA Faults ==
    ASSUME TypeOK
    PROVE  /\ used["fault"] \in Nat
           /\ \A what \in Bounded : Spend(what) =>
                 /\ used'["fault"] = 0 => used["fault"] = 0
                 /\ used'["fault"] = 0 => what # "fault"
           /\ \A what \in Bounded :
                 used' = [used EXCEPT ![what] = @ + 1, !["fault"] = @ + 1] => used'["fault"] # 0
<1>1. used \in [Bounded -> Nat] /\ "fault" \in Bounded
  BY TypeParts DEF UsedTypes, Bounded
<1>2. used["fault"] \in Nat
  BY <1>1
<1>3. ASSUME NEW what \in Bounded, Spend(what)
      PROVE  /\ used'["fault"] = 0 => used["fault"] = 0
             /\ used'["fault"] = 0 => what # "fault"
  <2>1. used'["fault"] = IF what = "fault" THEN used["fault"] + 1 ELSE used["fault"]
    BY <1>1, <1>3 DEF Spend
  <2> QED BY <1>2, <2>1
<1>4. ASSUME NEW what \in Bounded, used' = [used EXCEPT ![what] = @ + 1, !["fault"] = @ + 1]
      PROVE  used'["fault"] # 0
  <2>1. used'["fault"] = used["fault"] + 1 \/ used'["fault"] = used["fault"] + 2
    BY <1>1, <1>2, <1>4
  <2> QED BY <1>2, <2>1
<1> QED BY <1>2, <1>3, <1>4

\* Steps that touch none of it.
LEMMA BooksKept ==
    ASSUME TypeOK, Remembered, QueuedOnce, GraceIsExact,
           UNCHANGED <<admitted, broken, saved, room, seen, deaths, begun, counted>>,
           used' = used \/ \E what \in Bounded : Spend(what)
    PROVE  (Remembered /\ QueuedOnce /\ GraceIsExact)'
<1>1. used'["fault"] = 0 => used["fault"] = 0
  BY Faults
<1> QED BY <1>1, BooksNow, BooksNext DEF RememberedWith, Exact

\* What a failed write leaves behind, nothing is said of.
LEMMA BooksFail ==
    ASSUME TypeOK, Remembered, QueuedOnce, GraceIsExact, admitted' = admitted, used'["fault"] # 0
    PROVE  (Remembered /\ QueuedOnce /\ GraceIsExact)'
BY BooksNow, BooksNext DEF RememberedWith, Exact

LEMMA SessionKeepsBooks ==
    ASSUME TypeOK, Remembered, QueuedOnce, GraceIsExact,
           Crash \/ (\E r \in Rooms : Connect(r)) \/ Block
    PROVE  (Remembered /\ QueuedOnce /\ GraceIsExact)'
<1>0. "connect" \in Bounded /\ "fault" \in Bounded
  BY DEF Bounded
<1>1. CASE Crash
  <2>1. UNCHANGED <<admitted, saved, begun, counted, used>> /\ room' \notin Rooms /\ ~broken'
    BY <1>1, Constants DEF Crash
  <2>2. RememberedWith(admitted', broken', saved', room', seen', deaths', used'["fault"])
    BY <2>1, BooksNow DEF RememberedWith
  <2> QED BY <2>1, <2>2, BooksNow, BooksNext
<1>2. ASSUME NEW r \in Rooms, Connect(r) PROVE (Remembered /\ QueuedOnce /\ GraceIsExact)'
  <2>1. UNCHANGED <<admitted, saved, begun, counted>>
    BY <1>2 DEF Connect
  <2>2. CASE Bind(r) /\ Spend("connect") /\ UNCHANGED broken
    <3>1. used'["fault"] = 0 => used["fault"] = 0
      BY <1>0, <2>2, Faults
    <3>2. room' = r /\ seen' = saved[r].seen /\ deaths' = saved[r].deaths
      BY <2>2 DEF Bind
    <3>3. RememberedWith(admitted', broken', saved', room', seen', deaths', used'["fault"])
      BY <2>1, <2>2, <3>1, <3>2, BooksNow DEF RememberedWith
    <3> QED BY <2>1, <3>1, <3>3, BooksNow, BooksNext DEF Exact
  <2>3. CASE used' = [used EXCEPT !["connect"] = @ + 1, !["fault"] = @ + 1]
    BY <1>0, <2>1, <2>3, BooksFail, Faults
  <2>4. CASE Spend("connect") /\ UNCHANGED <<room, enabled, broken, seen, deaths>>
    BY <1>0, <2>1, <2>4, BooksKept
  <2> QED BY <1>2, <2>2, <2>3, <2>4 DEF Connect
<1>3. CASE Block
  BY <1>0, <1>3, BooksFail, Faults DEF Block
<1> QED BY <1>1, <1>2, <1>3

\* A link is queued and its id written; those written before are still there.
LEMMA BounceKeepsBooks ==
    ASSUME TypeOK, Passing, Remembered, QueuedOnce, GraceIsExact, NEW e \in Events,
           BounceQueued(e)
    PROVE  (Remembered /\ QueuedOnce /\ GraceIsExact)'
<1> DEFINE A(r)  == {d \in Events : admitted[r][d] > 0}
           AA(r) == {d \in Events : admitted'[r][d] > 0}
<1>1. /\ room \in Rooms /\ e \notin seen /\ Spend("bounce") /\ "bounce" \in Bounded
      /\ seen' = seen \union {e}
      /\ saved' = [saved EXCEPT ![room] = [seen |-> Kept(seen'), deaths |-> deaths]]
      /\ UNCHANGED <<room, broken, deaths, begun, counted>>
  BY DEF BounceQueued, Bounced, Passing, PersistSeen, Bounded
<1>2. /\ saved \in [Rooms -> [seen : SUBSET Events, deaths : 0..(Interval - 1)]]
      /\ admitted \in [Rooms -> [Events -> Nat]]
  BY TypeParts DEF SessionTypes, HistoryTypes
<1>3. /\ \A r \in Rooms : r # room => admitted'[r] = admitted[r] /\ saved'[r] = saved[r]
      /\ saved'[room].seen = Kept(seen') /\ saved'[room].deaths = deaths
  <2>1. admitted' = [admitted EXCEPT ![room][e] = @ + 1]
    BY DEF BounceQueued
  <2> QED BY <1>1, <1>2, <2>1
<1>4. /\ \A d \in Events : d # e => admitted'[room][d] = admitted[room][d]
      /\ admitted'[room][e] = admitted[room][e] + 1
      /\ \A d \in Events : admitted[room][d] \in Nat
  <2>1. admitted' = [admitted EXCEPT ![room] = [admitted[room] EXCEPT ![e] = @ + 1]]
    BY DEF BounceQueued
  <2>2. /\ admitted'[room] = [admitted[room] EXCEPT ![e] = @ + 1]
        /\ admitted[room] \in [Events -> Nat]
    BY <1>1, <1>2, <2>1
  <2> QED BY <2>2
<1>5. AA(room) = A(room) \union {e} /\ \A r \in Rooms : r # room => AA(r) = A(r)
  BY <1>3, <1>4
<1>6. \A r \in Rooms : IsFiniteSet(A(r))
  BY BooksNow DEF RememberedWith
<1>7. /\ IsFiniteSet(AA(room)) /\ Cardinality(AA(room)) \in Nat /\ Cardinality(A(room)) \in Nat
      /\ Cardinality(A(room)) <= Cardinality(AA(room))
  <2>1. IsFiniteSet(A(room))
    BY <1>1, <1>6
  <2>2. IsFiniteSet(A(room) \union {e})
    BY <2>1, FS_AddElement
  <2> HIDE DEF A, AA
  <2>3. A(room) \in SUBSET AA(room)
    BY <1>5
  <2> QED BY <1>5, <2>1, <2>2, <2>3, FS_Subset, FS_CardinalityType
<1>8. used'["fault"] = 0 => used["fault"] = 0
  BY <1>1, Faults
<1>9. ASSUME used'["fault"] = 0, Cardinality(AA(room)) <= SeenLimit
      PROVE  /\ saved'[room].seen = AA(room) /\ seen' = AA(room)
             /\ \A d \in Events : admitted'[room][d] <= 1
  <2>1. Cardinality(A(room)) <= SeenLimit
    BY <1>7, <1>9, Constants
  <2>2. seen = A(room) /\ \A d \in Events : admitted[room][d] <= 1
    BY <1>1, <1>8, <1>9, <2>1, BooksNow DEF RememberedWith
  <2>3. admitted[room][e] = 0
    BY <1>1, <1>4, <2>2
  <2>4. seen' = AA(room)
    BY <1>1, <1>5, <2>2
  <2>5. Kept(AA(room)) = AA(room)
    BY <1>7, <1>9, KeptAll
  <2> QED BY <1>3, <1>4, <2>2, <2>3, <2>4, <2>5
<1>10. used'["fault"] = 0 => deaths = saved[room].deaths /\ ~broken
  BY <1>1, <1>8, BooksNow DEF RememberedWith
<1>11. RememberedWith(admitted', broken', saved', room', seen', deaths', used'["fault"])
  <2>1. \A r \in Rooms : IsFiniteSet(AA(r))
    BY <1>5, <1>6, <1>7
  <2>2. ASSUME used'["fault"] = 0, NEW r \in Rooms, Cardinality(AA(r)) <= SeenLimit
        PROVE  /\ saved'[r].seen = AA(r) /\ (room' = r => seen' = AA(r))
               /\ \A d \in Events : admitted'[r][d] <= 1
    <3>1. CASE r = room
      BY <1>9, <2>2, <3>1
    <3>2. CASE r # room
      <4>1. saved[r].seen = A(r) /\ \A d \in Events : admitted[r][d] <= 1
        BY <1>5, <1>8, <2>2, <3>2, BooksNow DEF RememberedWith
      <4> QED BY <1>1, <1>3, <1>5, <3>2, <4>1
    <3> QED BY <3>1, <3>2
  <2> QED BY <1>1, <1>3, <1>10, <2>1, <2>2 DEF RememberedWith
<1>12. Exact(begun', saved', counted', used'["fault"])
  <2>1. ASSUME used'["fault"] = 0, NEW r \in Rooms
        PROVE  begun[r] * Interval + saved'[r].deaths = counted[r]
    <3>1. begun[r] * Interval + saved[r].deaths = counted[r]
      BY <1>8, <2>1, BooksNow DEF Exact
    <3>2. saved'[r].deaths = saved[r].deaths
      BY <1>3, <1>10, <2>1
    <3> QED BY <3>1, <3>2
  <2> QED BY <1>1, <2>1 DEF Exact
<1> QED BY <1>11, <1>12, BooksNext

\* A death of the player's own is counted, and the count is written; or nothing is said.
LEMMA OwnDeathsKeepBooks ==
    ASSUME TypeOK, Passing, Remembered, QueuedOnce, GraceIsExact, SeeOwn \/ SeeOwnFails
    PROVE  (Remembered /\ QueuedOnce /\ GraceIsExact)'
<1>0. "fault" \in Bounded
  BY DEF Bounded
<1>1. CASE SeeOwnFails
  <2>1. used'["fault"] # 0 \/ (broken /\ UNCHANGED used)
    BY <1>0, <1>1, Faults DEF SeeOwnFails
  <2>2. broken => used["fault"] # 0
    BY BooksNow DEF RememberedWith
  <2>3. admitted' = admitted
    BY <1>1 DEF SeeOwnFails
  <2> QED BY <2>1, <2>2, <2>3, BooksFail
<1>2. CASE SeeOwn
  <2>1. /\ UNCHANGED <<admitted, broken, room, seen, used>> /\ room \in Rooms
        /\ deaths' = (deaths + 1) % Interval
        /\ counted' = [counted EXCEPT ![room] = @ + 1]
        /\ begun' = [begun EXCEPT ![room] = IF deaths' = 0 THEN @ + 1 ELSE @]
        /\ saved' = IF Interval = 1 THEN saved
                    ELSE [saved EXCEPT ![room] = [seen |-> Kept(seen), deaths |-> deaths']]
    BY <1>2 DEF SeeOwn, Counts, Passing
  <2>2. /\ saved \in [Rooms -> [seen : SUBSET Events, deaths : 0..(Interval - 1)]]
        /\ counted \in [Rooms -> Nat] /\ begun \in [Rooms -> Nat]
        /\ deaths \in 0..(Interval - 1) /\ seen \subseteq Events
    BY TypeParts DEF SessionTypes, HistoryTypes
  <2>3. deaths' = IF deaths + 1 = Interval THEN 0 ELSE deaths + 1
    BY <2>1, <2>2, Wraps
  <2>4. /\ saved'[room].deaths = deaths' \/ Interval = 1
        /\ saved'[room].seen = saved[room].seen \/ saved'[room].seen = Kept(seen)
        /\ \A r \in Rooms : r # room => saved'[r] = saved[r]
    <3>1. CASE Interval = 1
      BY <2>1, <3>1
    <3>2. CASE Interval # 1
      BY <2>1, <2>2, <3>2
    <3> QED BY <3>1, <3>2
  <2>5. used["fault"] = 0 => saved'[room].deaths = deaths'
    <3>1. CASE Interval = 1
      <4>1. saved[room].deaths \in 0..0 /\ deaths \in 0..0 /\ saved' = saved
        BY <2>1, <2>2, <3>1
      <4> QED BY <2>3, <3>1, <4>1
    <3> QED BY <2>4, <3>1
  <2>6. ASSUME used["fault"] = 0, NEW r \in Rooms,
               Cardinality({e \in Events : admitted[r][e] > 0}) <= SeenLimit
        PROVE  saved'[r].seen = {e \in Events : admitted[r][e] > 0}
    <3> DEFINE S == {e \in Events : admitted[r][e] > 0}
    <3>1. saved[r].seen = S /\ (room = r => seen = S) /\ IsFiniteSet(S)
      BY <2>6, BooksNow DEF RememberedWith
    <3>2. Kept(S) = S
      BY <2>6, <3>1, KeptAll
    <3> QED BY <2>4, <3>1, <3>2
  <2>7. RememberedWith(admitted', broken', saved', room', seen', deaths', used'["fault"])
    BY <2>1, <2>5, <2>6, BooksNow DEF RememberedWith
  <2>8. Exact(begun', saved', counted', used'["fault"])
    <3>1. ASSUME used["fault"] = 0, NEW r \in Rooms
          PROVE  begun'[r] * Interval + saved'[r].deaths = counted'[r]
      <4>1. /\ begun[r] * Interval + saved[r].deaths = counted[r]
            /\ room = r => deaths = saved[r].deaths
        BY <3>1, BooksNow DEF RememberedWith, Exact
      <4>2. CASE r # room
        BY <2>1, <2>2, <2>4, <4>1, <4>2
      <4>3. CASE r = room
        <5>1. begun[r] \in Nat /\ counted[r] \in Nat /\ counted'[r] = counted[r] + 1
          BY <2>1, <2>2, <4>3
        <5>2. begun'[r] = IF deaths' = 0 THEN begun[r] + 1 ELSE begun[r]
          BY <2>1, <2>2, <4>3
        <5>3. saved'[r].deaths = deaths'
          BY <2>5, <3>1, <4>3
        <5>4. (begun[r] + 1) * Interval = begun[r] * Interval + Interval
          BY <5>1, Constants
        <5>5. begun[r] * Interval \in Nat
          BY <5>1, Constants
        <5>6. begun[r] * Interval + deaths = counted[r]
          BY <4>1, <4>3
        <5>7. CASE deaths + 1 = Interval
          BY <2>2, <2>3, <5>1, <5>2, <5>3, <5>4, <5>5, <5>6, <5>7, Constants
        <5>8. CASE deaths + 1 # Interval
          <6>1. deaths' = deaths + 1 /\ deaths' # 0
            BY <2>2, <2>3, <5>8, Constants
          <6> QED BY <2>2, <5>1, <5>2, <5>3, <5>5, <5>6, <6>1
        <5> QED BY <5>7, <5>8
      <4> QED BY <4>2, <4>3
    <3> QED BY <2>1, <3>1 DEF Exact
  <2> QED BY <2>7, <2>8, BooksNext
<1> QED BY <1>1, <1>2

LEMMA StepKeepsBooks ==
    ASSUME TypeOK, Passing, Remembered, QueuedOnce, GraceIsExact, [Next]_vars
    PROVE  (Remembered /\ QueuedOnce /\ GraceIsExact)'
<1> DEFINE Same == /\ UNCHANGED <<admitted, broken, saved, room, seen, deaths, begun, counted>>
                   /\ used' = used \/ \E what \in Bounded : Spend(what)
<1>0. {"start", "bounce", "death", "map", "fault"} \subseteq Bounded
  BY DEF Bounded
<1>1. Same => (Remembered /\ QueuedOnce /\ GraceIsExact)'
  BY BooksKept
<1>2. CASE Tick \/ Start \/ Disconnect \/ BeginPass
  BY <1>0, <1>1, <1>2 DEF Tick, Start, Disconnect, BeginPass
<1>3. CASE Crash \/ Block \/ \E r \in Rooms : Connect(r)
  BY <1>3, SessionKeepsBooks
<1>4. CASE Worker
  <2>1. ASSUME Works PROVE Same
    BY <1>0, <2>1 DEF Works
  <2>2. ASSUME PassRefused \/ QueryFails \/ Merge \/ MergeStale PROVE Same
    BY <1>0, <2>2 DEF PassRefused, QueryFails, Merge, MergeStale, Keeping
  <2> QED BY <1>1, <1>4, <2>1, <2>2, WorkerWorks DEF Worker
<1>5. CASE Game
  BY <1>0, <1>1, <1>5 DEF Game, OwnDeath, Kill, Survived, MapLoaded
<1>6. CASE SeeNothing \/ SeeUnlinked \/ SeeActive \/ Cancel \/ SeeLate
  BY <1>1, <1>6 DEF SeeNothing, SeeUnlinked, SeeActive, Cancel, SeeLate
<1>7. CASE SeeOwn \/ SeeOwnFails
  BY <1>7, OwnDeathsKeepBooks
<1>8. ASSUME NEW e \in Events, BounceRefused(e) \/ BounceQueued(e) \/ BounceFails(e)
      PROVE  (Remembered /\ QueuedOnce /\ GraceIsExact)'
  <2>1. CASE BounceRefused(e)
    BY <1>0, <1>1, <2>1 DEF BounceRefused
  <2>2. CASE BounceQueued(e)
    BY <2>2, BounceKeepsBooks
  <2>3. CASE BounceFails(e)
    <3>1. admitted' = admitted
      BY <2>3 DEF BounceFails
    <3>2. CASE broken /\ Spend("bounce")
      <4>1. used["fault"] # 0
        BY <3>2, BooksNow DEF RememberedWith
      <4>2. used'["fault"] # 0
        BY <1>0, <3>2, <4>1, Faults
      <4> QED BY <3>1, <4>2, BooksFail
    <3>3. CASE used' = [used EXCEPT !["bounce"] = @ + 1, !["fault"] = @ + 1]
      BY <1>0, <3>1, <3>3, BooksFail, Faults
    <3> QED BY <2>3, <3>2, <3>3 DEF BounceFails
  <2> QED BY <1>8, <2>1, <2>2, <2>3
<1>9. CASE UNCHANGED vars
  BY <1>1, <1>9
<1> HIDE DEF Same
<1> QED BY <1>2, <1>3, <1>4, <1>5, <1>6, <1>7, <1>8, <1>9 DEF Next, Death

-----------------------------------------------------------------------------
(* The theorems *)

LEMMA InitHolds ==
    ASSUME Init
    PROVE  Inv
<1>1. TypeOK
  <2>1. SessionTypes
    <3>1. Blank \in [seen : SUBSET Events, deaths : 0..(Interval - 1)]
      BY Constants DEF Blank
    <3>2. saved \in [Rooms -> [seen : SUBSET Events, deaths : 0..(Interval - 1)]]
      BY <3>1 DEF Init
    <3>3. deaths \in 0..(Interval - 1) /\ seen \subseteq Events
      BY Constants DEF Init
    <3> QED BY <3>2, <3>3 DEF Init, SessionTypes
  <2>2. ReceiverTypes /\ MonitorTypes
    BY Constants DEF Init, ReceiverTypes, MonitorTypes, NoCopy, NoLate, Lates, Copies, Pcs
  <2>3. GameTypes /\ UsedTypes
    BY DEF Init, GameTypes, UsedTypes
  <2>4. HistoryTypes
    BY Constants DEF Init, HistoryTypes
  <2> QED BY <2>1, <2>2, <2>3, <2>4, TypeParts
<1>2. Passing
  BY Constants DEF Init, Passing, Sound, Calling
<1>3. Budget
  BY Constants DEF Init, Budget, Due1, Flies, Calling, NoLate
<1>4. Domain
  BY DEF Init, Domain, Flies
<1>5. Suppressed
  BY DEF Init, Suppressed, Open
<1>6. Remembered /\ QueuedOnce /\ GraceIsExact
  <2>1. \A r \in Rooms : {e \in Events : admitted[r][e] > 0} = {}
    BY DEF Init
  <2>2. \A r \in Rooms : saved[r].seen = {} /\ saved[r].deaths = 0
    BY DEF Init, Blank
  <2>3. RememberedWith(admitted, broken, saved, room, seen, deaths, used["fault"])
    <3>1. \A r \in Rooms : /\ IsFiniteSet({e \in Events : admitted[r][e] > 0})
                           /\ saved[r].seen = {e \in Events : admitted[r][e] > 0}
                           /\ \A e \in Events : admitted[r][e] <= 1
      <4> TAKE r \in Rooms
      <4>1. IsFiniteSet({e \in Events : admitted[r][e] > 0})
        BY <2>1, FS_EmptySet, Zenon
      <4>2. \A e \in Events : admitted[r][e] <= 1
        BY DEF Init
      <4> QED BY <2>1, <2>2, <4>1, <4>2
    <3>2. ~broken /\ room \notin Rooms /\ \A r \in Rooms : room # r
      BY Constants DEF Init
    <3> QED BY <3>1, <3>2, Zenon DEF RememberedWith
  <2>4. Exact(begun, saved, counted, used["fault"])
    BY <2>2, Constants DEF Init, Exact
  <2> QED BY <2>3, <2>4, BooksNow
<1> QED BY <1>1, <1>2, <1>3, <1>4, <1>5, <1>6 DEF Inv

LEMMA NextKeepsInv == Inv /\ [Next]_vars => Inv'
BY StepKeepsTypes, StepKeepsPassing, StepKeepsBudget, StepKeepsDomain, StepKeepsSuppressed,
   StepKeepsBooks DEF Inv

\* The inductive invariant: of all links only the oldest can have been handed over; the
\* copy a worker advances is that of the receiver, unless that is known to have changed;
\* the suppressions that are left are covered by requests; whatever the domain may still
\* do on account of a link is expected; and the state file holds what was queued.
THEOREM DeathLinkInvariant == Spec => []Inv
<1>1. Init => Inv
  BY InitHolds
<1>2. Inv /\ [Next]_vars => Inv'
  BY NextKeepsInv
<1> QED BY <1>1, <1>2, PTL DEF Spec

\* Type correctness of the receiver, the monitor's copy and the books.
THEOREM DeathLinkTypes == Spec => []TypeOK
<1>1. Inv => TypeOK
  BY DEF Inv
<1> QED BY <1>1, DeathLinkInvariant, PTL

\* A link hides no more local deaths than times it was handed to the native domain,
\* whatever copies are thrown away and whatever suppressions are left over.
THEOREM NoLinkHidesTwoDeaths == Spec => []HidesOneDeath
<1>1. Inv => HidesOneDeath
  <2> SUFFICES ASSUME Inv, NEW e \in Events PROVE hidden[e] <= submitted[e]
    BY DEF HidesOneDeath
  <2>1. Due1(queue, late, e) \in 0..2 /\ hidden[e] + Due1(queue, late, e) <= submitted[e]
    BY Dues DEF Inv, Budget
  <2>2. hidden[e] \in Nat /\ submitted[e] \in Nat
    BY TypeParts DEF Inv, HistoryTypes
  <2> QED BY <2>1, <2>2
<1> QED BY <1>1, DeathLinkInvariant, PTL

\* A link is queued once in its room, across restarts, as long as client_state.json could
\* be written and holds all the ids of the room.
THEOREM NoLinkIsQueuedTwice == Spec => []QueuedOnce
<1>1. Inv => QueuedOnce
  BY DEF Inv
<1> QED BY <1>1, DeathLinkInvariant, PTL

\* Every Interval-th death of the player's own is sent, and no other, across restarts and
\* reconnections, as long as the count could be written.
THEOREM EveryIntervalthIsSent == Spec => []GraceIsExact
<1>1. Inv => GraceIsExact
  BY DEF Inv
<1> QED BY <1>1, DeathLinkInvariant, PTL

\* The death a link causes is not counted as the player's own, but for the cases the
\* property names.
THEOREM LinksAreNotEchoed == Spec => NoEcho
<1>1. ASSUME Inv, [Next]_vars, NEW e \in Events, death = e, counted' # counted
      PROVE  e \in lost \/ hidden[e] > 0 \/ (ended[e] = 0 /\ e \notin Known(queue))
  <2>1. Counts
    <3>1. CASE Worker
      BY <1>1, <3>1, WorkerWorks
         DEF Worker, Works, PassRefused, QueryFails, Merge, MergeStale, Keeping
    <3>2. CASE Death
      BY <1>1, <3>2
         DEF Death, SeeNothing, SeeUnlinked, SeeActive, Cancel, SeeLate, SeeOwn, SeeOwnFails
    <3>3. CASE Game
      BY <1>1, <3>3 DEF Game, OwnDeath, Kill, Survived, MapLoaded
    <3>4. CASE \E d \in Events : BounceRefused(d) \/ BounceQueued(d) \/ BounceFails(d)
      BY <1>1, <3>4 DEF BounceRefused, BounceQueued, BounceFails
    <3>5. CASE \E r \in Rooms : Connect(r)
      BY <1>1, <3>5 DEF Connect
    <3>6. CASE Tick \/ Start \/ Crash \/ Disconnect \/ Block \/ BeginPass
      BY <1>1, <3>6 DEF Tick, Start, Crash, Disconnect, Block, BeginPass
    <3> QED BY <1>1, <3>1, <3>2, <3>3, <3>4, <3>5, <3>6 DEF Next
  <2>2. ~Flies(queue) /\ late.id = NoEvent
    BY <2>1 DEF Counts, Flying, Flies, NoLate
  <2>3. Known(queue) = {}
    BY <1>1, <2>2, KnownHead, TypeParts DEF Inv, Passing, ReceiverTypes
  <2>4. ~Open(e)
    BY <1>1, <2>2 DEF Inv, Suppressed, Covers
  <2>5. hidden[e] \in Nat /\ ended[e] \in Nat
    BY <1>1, TypeParts, Constants DEF Inv, HistoryTypes
  <2> QED BY <2>3, <2>4, <2>5 DEF Open
<1>2. Inv /\ [Next]_vars =>
         [\A e \in Events :
             /\ death = e /\ counted' # counted
             => e \in lost \/ hidden[e] > 0 \/ (ended[e] = 0 /\ e \notin Known(queue))]_vars
  BY <1>1
<1> QED BY <1>2, DeathLinkInvariant, PTL DEF Spec, NoEcho

=============================================================================
