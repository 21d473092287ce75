---------------------------- MODULE OutboxProofs ----------------------------
(***************************************************************************)
(* Proofs about module Outbox, for any number of events, overlapping runs, *)
(* consumer slots, copies and faults.                                      *)
(*                                                                         *)
(* Two invariants carry them.  WorkIsFirst says that the INSERT into       *)
(* processed_events lets one slot work on an event, ever.  Traced follows  *)
(* an event from the run that wrote it to where it ended.                  *)
(***************************************************************************)
EXTENDS Outbox, FiniteSetTheorems, TLAPS

RunRow == [pc : {"rest", "fetched", "publish", "mark", "fail"}, batch : SUBSET Events,
           via : Callers \cup {NoConn}]
SlotRow == [pc : {"free", "check", "work", "ack", "reject"}, event : 0..MaxEvent]

\* A slot that is not free has an event, and a free one has none.
SlotsHoldEvents == \A s \in Slots : slot[s].pc # "free" <=> slot[s].event \in Events

\* A connection is closed only by a fault.
FaultsAreCounted == closed # {} => faults > 0

\* A caller is in getRabbitMQChannel only while it asks for a channel, and the consumer
\* asks before it has one.
CallsAreAsked ==
    /\ \A k \in Callers : asks[k] # "no" => Asking(k)
    /\ consumer = "starting" => tap = NoConn

OutboxTypes == TypeOK /\ SlotsHoldEvents /\ FaultsAreCounted /\ CallsAreAsked

LEMMA EventIds ==
    /\ Events \subseteq Nat \ {0} /\ Events \subseteq 0..MaxEvent /\ 0 \in 0..MaxEvent
    /\ MaxEvent \in Nat /\ MaxCopies \in Nat /\ MaxFaults \in Nat
    /\ 0 \notin Events
    /\ Consumer \notin Runs /\ NoConn \notin Callers /\ Runs \subseteq Callers /\ Consumer \in Callers
    /\ Callers = Runs \cup {Consumer}
BY OutboxAssumption DEF Events, Callers

LEMMA TypeParts ==
    TypeOK <=>
    /\ outbox \in [Events -> {"NONE", "PENDING", "PUBLISHED", "FAILED"}]
    /\ run \in [Runs -> RunRow]
    /\ \A r \in Runs : run[r].batch = {} <=> run[r].pc = "rest"
    /\ channel \in Callers \cup {NoConn}
    /\ asks \in [Callers -> {"no", "connect", "setup"}]
    /\ tap \in Callers \cup {NoConn}
    /\ closed \in SUBSET Callers
    /\ bound \in BOOLEAN
    /\ wire \in [Callers -> SUBSET Events]
    /\ \A k \in closed : wire[k] = {}
    /\ queue \in [Events -> Nat]
    /\ consumer \in {"starting", "on", "off"}
    /\ slot \in [Slots -> SlotRow]
    /\ notified \in [Events -> Nat]
    /\ processed \in SUBSET Events /\ dlq \in SUBSET Events
    /\ lost \in SUBSET Events /\ cutOff \in SUBSET Events
    /\ faults \in 0..MaxFaults
BY DEF TypeOK, RunRow, SlotRow

\* A run with events is at one of them: a set of numbers has a least one.
LEMMA FirstIsOfBatch ==
    ASSUME NEW B \in SUBSET Events, B # {}
    PROVE  First(B) \in B
<1>1. B \in SUBSET Nat
  BY EventIds
<1> DEFINE Less == {p \in Nat \X Nat : p[1] < p[2]}
<1>2. IsWellFoundedOn(Less, Nat)
  <2>1. OpToRel(<, Nat) = Less
    BY DEF OpToRel
  <2> QED BY <2>1, NatLessThanWellFounded
<1>3. \E e \in B : \A f \in B : e <= f
  <2>1. PICK e \in B : \A f \in B : ~(<<f, e>> \in Less)
    <3> HIDE DEF Less
    <3> QED BY <1>1, <1>2, WFMin
  <2>2. ASSUME NEW f \in B PROVE e <= f
    <3>1. e \in Nat /\ f \in Nat /\ ~(<<f, e>> \in Less)
      BY <1>1, <2>1
    <3>2. ~(f < e)
      BY <3>1
    <3> QED BY <3>1, <3>2
  <2> QED BY <2>2
<1> QED BY <1>3 DEF First

\* The events the consumer holds go back to the queue, at least one copy of each.
LEMMA RequeuedCounts ==
    ASSUME OutboxTypes
    PROVE  /\ Requeued \in [Events -> Nat]
           /\ \A e \in Events : Requeued[e] >= queue[e]
           /\ \A s \in Slots : slot[s].event \in Events => Requeued[slot[s].event] > 0
<1> DEFINE H(e) == {s \in Slots : slot[s].event = e}
<1>1. queue \in [Events -> Nat]
  BY TypeParts DEF OutboxTypes
<1>2. \A e \in Events : IsFiniteSet(H(e)) /\ Cardinality(H(e)) \in Nat
  <2> TAKE e \in Events
  <2>1. H(e) \subseteq Slots /\ IsFiniteSet(Slots)
    BY OutboxAssumption
  <2>2. IsFiniteSet(H(e))
    BY <2>1, FS_Subset
  <2> QED BY <2>2, FS_CardinalityType
<1>3. \A e \in Events : Requeued[e] = queue[e] + Cardinality(H(e))
  BY DEF Requeued
<1>4. \A e \in Events : Requeued[e] \in Nat /\ Requeued[e] >= queue[e]
  <2> TAKE e \in Events
  <2> DEFINE n == Cardinality(H(e))
  <2>1. n \in Nat /\ queue[e] \in Nat /\ Requeued[e] = queue[e] + n
    BY <1>1, <1>2, <1>3
  <2> HIDE DEF n
  <2> QED BY <2>1
<1>5. Requeued \in [Events -> Nat]
  BY <1>4 DEF Requeued
<1>6. ASSUME NEW s \in Slots, slot[s].event \in Events PROVE Requeued[slot[s].event] > 0
  <2> DEFINE e == slot[s].event
  <2>1. H(e) # {}
    OBVIOUS
  <2>2. Cardinality(H(e)) # 0
    BY <1>2, <1>6, <2>1, FS_EmptySet
  <2>3. Cardinality(H(e)) \in Nat /\ queue[e] \in Nat /\ Requeued[e] = queue[e] + Cardinality(H(e))
    BY <1>1, <1>2, <1>3, <1>6
  <2> HIDE DEF H, e
  <2>4. Requeued[e] > 0
    BY <2>2, <2>3
  <2> QED BY <2>4 DEF e
<1> QED BY <1>4, <1>5, <1>6

LEMMA InitOutboxTypes == Init => OutboxTypes
<1> SUFFICES ASSUME Init PROVE OutboxTypes
  OBVIOUS
<1>1. None \in [Events -> Nat]
  BY EventIds DEF None
<1>2. Rest \in RunRow /\ Free \in SlotRow
  BY EventIds DEF Rest, RunRow, Free, SlotRow
<1>3. TypeOK
  <2>1. /\ asks \in [Callers -> {"no", "connect", "setup"}]
        /\ wire \in [Callers -> SUBSET Events] /\ \A k \in closed : wire[k] = {}
        /\ run \in [Runs -> RunRow] /\ \A r \in Runs : run[r].batch = {} <=> run[r].pc = "rest"
    BY <1>2 DEF Init, Rest
  <2>2. /\ outbox \in [Events -> {"NONE", "PENDING", "PUBLISHED", "FAILED"}]
        /\ slot \in [Slots -> SlotRow] /\ queue \in [Events -> Nat] /\ notified \in [Events -> Nat]
        /\ faults \in 0..MaxFaults
    BY <1>1, <1>2, EventIds DEF Init
  <2> QED BY <2>1, <2>2, TypeParts DEF Init
<1>4. SlotsHoldEvents /\ FaultsAreCounted /\ CallsAreAsked
  BY EventIds DEF Init, SlotsHoldEvents, FaultsAreCounted, CallsAreAsked, Free
<1> QED BY <1>3, <1>4 DEF OutboxTypes

\* What a run is after a step: the fields that are left alone stay.
LEMMA RunMoves ==
    ASSUME OutboxTypes, NEW r \in Runs
    PROVE  /\ Rest \in RunRow /\ Rest.pc = "rest" /\ Rest.batch = {}
           /\ run[r] \in RunRow /\ (run[r].batch = {} <=> run[r].pc = "rest")
           /\ \A pc \in {"fetched", "publish", "mark", "fail"} :
                /\ [run[r] EXCEPT !.pc = pc] \in RunRow
                /\ [run[r] EXCEPT !.pc = pc].pc = pc
                /\ [run[r] EXCEPT !.pc = pc].batch = run[r].batch
           /\ \A pc \in {"fetched", "publish"}, B \in SUBSET Events :
                LET j == [run[r] EXCEPT !.pc = pc, !.batch = B]
                IN  j \in RunRow /\ j.pc = pc /\ j.batch = B
           /\ \A k \in Callers \cup {NoConn} :
                LET j == [run[r] EXCEPT !.pc = "publish", !.via = k]
                IN  j \in RunRow /\ j.pc = "publish" /\ j.batch = run[r].batch
<1>1. run[r] \in RunRow /\ (run[r].batch = {} <=> run[r].pc = "rest")
  BY TypeParts DEF OutboxTypes
<1> QED BY <1>1 DEF RunRow, Rest

\* A run is set to a row of its type: the others stay.
LEMMA RunSet ==
    ASSUME OutboxTypes, NEW r \in Runs, NEW j \in RunRow, j.batch = {} <=> j.pc = "rest",
           run' = [run EXCEPT ![r] = j]
    PROVE  /\ run' \in [Runs -> RunRow]
           /\ \A q \in Runs : run'[q].batch = {} <=> run'[q].pc = "rest"
           /\ \A q \in Runs \ {r} : run'[q] = run[q]
           /\ run'[r] = j
<1>1. run \in [Runs -> RunRow] /\ \A q \in Runs : run[q].batch = {} <=> run[q].pc = "rest"
  BY TypeParts DEF OutboxTypes
<1> QED BY <1>1

LEMMA AdvanceMoves ==
    ASSUME OutboxTypes, NEW r \in Runs, Advance(r)
    PROVE  /\ run' \in [Runs -> RunRow]
           /\ \A q \in Runs : run'[q].batch = {} <=> run'[q].pc = "rest"
           /\ \A q \in Runs \ {r} : run'[q] = run[q]
           /\ run'[r].pc \in {"rest", "publish"}
<1> DEFINE left == run[r].batch \ {First(run[r].batch)}
           j == IF left = {} THEN Rest ELSE [run[r] EXCEPT !.pc = "publish", !.batch = left]
<1>1. left \in SUBSET Events
  BY RunMoves DEF RunRow
<1>2. run' = [run EXCEPT ![r] = j]
  BY DEF Advance
<1>3. j \in RunRow /\ (j.batch = {} <=> j.pc = "rest") /\ j.pc \in {"rest", "publish"}
  <2>1. CASE left = {}
    BY <2>1, RunMoves
  <2>2. CASE left # {}
    <3> DEFINE k == [run[r] EXCEPT !.pc = "publish", !.batch = left]
    <3> HIDE DEF left
    <3>1. k \in RunRow /\ k.pc = "publish" /\ k.batch = left
      BY <1>1, RunMoves
    <3>2. j = k
      BY <2>2
    <3> HIDE DEF j, k
    <3> QED BY <2>2, <3>1, <3>2
  <2> QED BY <2>1, <2>2
<1> HIDE DEF j
<1> QED BY <1>2, <1>3, RunSet

\* What a caller is after it got a channel, or an error.
LEMMA GetsMoves ==
    ASSUME OutboxTypes, NEW k \in Callers, Asking(k),
           (\E c \in Callers \cup {NoConn} : Gets(k, c)) \/ (GetsNone(k) /\ tap' = tap)
    PROVE  /\ run' \in [Runs -> RunRow]
           /\ \A q \in Runs : run'[q].batch = {} <=> run'[q].pc = "rest"
           /\ \A q \in Runs : run'[q] # run[q] => q = k /\ run'[q].pc \in {"rest", "publish"}
           /\ consumer' \in {"starting", "on", "off"} /\ tap' \in Callers \cup {NoConn}
           /\ consumer' # consumer => k = Consumer
           /\ consumer' = "starting" => consumer = "starting"
           /\ tap' # tap => k = Consumer /\ tap = NoConn
           /\ consumer' = "starting" => tap' = NoConn
<1>0. /\ run \in [Runs -> RunRow] /\ \A q \in Runs : run[q].batch = {} <=> run[q].pc = "rest"
      /\ consumer \in {"starting", "on", "off"} /\ tap \in Callers \cup {NoConn}
      /\ consumer = "starting" => tap = NoConn
  BY TypeParts DEF OutboxTypes, CallsAreAsked
<1>1. CASE k = Consumer
  <2>1. consumer = "starting" /\ tap = NoConn
    BY <1>0, <1>1 DEF Asking
  <2>2. run' = run /\ consumer' \in {"on", "off"} /\ tap' \in Callers \cup {NoConn}
    <3>1. CASE \E c \in Callers \cup {NoConn} : Gets(k, c)
      BY <1>1, <3>1 DEF Gets
    <3>2. CASE GetsNone(k) /\ tap' = tap
      BY <1>0, <1>1, <3>2 DEF GetsNone
    <3> QED BY <3>1, <3>2
  <2> QED BY <1>0, <1>1, <2>1, <2>2
<1>2. CASE k # Consumer
  <2>1. k \in Runs /\ run[k].pc = "fetched"
    BY <1>2, EventIds DEF Asking
  <2> DEFINE Row(j) == /\ run' = [run EXCEPT ![k] = j] /\ (j.batch = {} <=> j.pc = "rest")
                       /\ j.pc \in {"rest", "publish"}
  <2>2. \E j \in RunRow : Row(j)
    <3>1. ASSUME NEW c \in Callers \cup {NoConn}, Gets(k, c) PROVE \E j \in RunRow : Row(j)
      <4> DEFINE j == [run[k] EXCEPT !.pc = "publish", !.via = c]
      <4>1. run' = [run EXCEPT ![k] = j]
        BY <1>2, <3>1 DEF Gets
      <4>2. j \in RunRow /\ j.pc = "publish" /\ j.batch = run[k].batch
        BY <2>1, RunMoves
      <4>3. run[k].batch # {}
        BY <2>1, RunMoves
      <4> HIDE DEF j
      <4> QED BY <4>1, <4>2, <4>3
    <3>2. CASE GetsNone(k)
      <4>1. run' = [run EXCEPT ![k] = Rest]
        BY <1>2, <3>2 DEF GetsNone
      <4>2. Rest \in RunRow /\ Rest.pc = "rest" /\ Rest.batch = {}
        BY <2>1, RunMoves
      <4> QED BY <4>1, <4>2
    <3> QED BY <3>1, <3>2
  <2>3. consumer' = consumer /\ tap' = tap
    BY <1>2 DEF Gets, GetsNone
  <2>4. PICK j \in RunRow : Row(j)
    BY <2>2
  <2> QED BY <1>0, <2>1, <2>3, <2>4, RunSet
<1> QED BY <1>1, <1>2

\* What a slot is after a step.
LEMMA SlotMoves ==
    ASSUME OutboxTypes, NEW s \in Slots
    PROVE  /\ slot[s] \in SlotRow /\ (slot[s].pc # "free" => slot[s].event \in Events)
           /\ Free \in SlotRow /\ Free.pc = "free" /\ Free.event \notin Events
           /\ \A e \in Events : [pc |-> "check", event |-> e] \in SlotRow
           /\ \A pc \in {"work", "ack", "reject"} :
                LET j == [slot[s] EXCEPT !.pc = pc]
                IN  j \in SlotRow /\ j.pc = pc /\ j.event = slot[s].event
<1>1. slot[s] \in SlotRow /\ (slot[s].pc # "free" => slot[s].event \in Events)
  BY TypeParts DEF OutboxTypes, SlotsHoldEvents
<1> QED BY <1>1, EventIds DEF SlotRow, Free

\* The process starts again.
LEMMA RestartTypes ==
    ASSUME OutboxTypes, Restart, faults' \in 0..MaxFaults
    PROVE  OutboxTypes'
<1>1. /\ outbox \in [Events -> {"NONE", "PENDING", "PUBLISHED", "FAILED"}]
      /\ queue \in [Events -> Nat] /\ processed \in SUBSET Events /\ bound \in BOOLEAN
      /\ notified \in [Events -> Nat] /\ dlq \in SUBSET Events /\ lost \in SUBSET Events
      /\ cutOff \in SUBSET Events /\ wire \in [Callers -> SUBSET Events]
  BY TypeParts DEF OutboxTypes
<1>2. Rest \in RunRow /\ Free \in SlotRow /\ Rest.pc = "rest" /\ Rest.batch = {}
      /\ Free.pc = "free" /\ Free.event \notin Events
  BY EventIds DEF Rest, RunRow, Free, SlotRow
<1>3. queue' \in [Events -> Nat]
  BY <1>1, RequeuedCounts DEF Restart
<1>4. lost' \in SUBSET Events /\ cutOff' \in SUBSET Events
  BY <1>1 DEF Restart, AtWork
<1>5. TypeOK'
  BY <1>1, <1>2, <1>3, <1>4 DEF Restart, TypeOK, RunRow, SlotRow
<1>6. SlotsHoldEvents' /\ FaultsAreCounted' /\ CallsAreAsked'
  BY <1>2 DEF Restart, SlotsHoldEvents, FaultsAreCounted, CallsAreAsked
<1> QED BY <1>5, <1>6 DEF OutboxTypes

LEMMA NextOutboxTypes == OutboxTypes /\ [Next]_vars => OutboxTypes'
<1> SUFFICES ASSUME OutboxTypes, [Next]_vars PROVE OutboxTypes'
  OBVIOUS
<1>0. /\ outbox \in [Events -> {"NONE", "PENDING", "PUBLISHED", "FAILED"}]
      /\ run \in [Runs -> RunRow]
      /\ \A r \in Runs : run[r].batch = {} <=> run[r].pc = "rest"
      /\ channel \in Callers \cup {NoConn} /\ asks \in [Callers -> {"no", "connect", "setup"}]
      /\ tap \in Callers \cup {NoConn} /\ closed \in SUBSET Callers /\ bound \in BOOLEAN
      /\ wire \in [Callers -> SUBSET Events] /\ \A k \in closed : wire[k] = {}
      /\ queue \in [Events -> Nat]
      /\ consumer \in {"starting", "on", "off"}
      /\ slot \in [Slots -> SlotRow]
      /\ processed \in SUBSET Events /\ notified \in [Events -> Nat]
      /\ dlq \in SUBSET Events /\ lost \in SUBSET Events /\ cutOff \in SUBSET Events
      /\ faults \in 0..MaxFaults
      /\ MaxFaults \in Nat
  BY TypeParts, EventIds DEF OutboxTypes
<1>00. SlotsHoldEvents /\ FaultsAreCounted /\ CallsAreAsked
  BY DEF OutboxTypes
\* The parts of a step, by the process that takes it.
<1>a. ASSUME outbox' \in [Events -> {"NONE", "PENDING", "PUBLISHED", "FAILED"}],
             run' \in [Runs -> RunRow],
             \A r \in Runs : run'[r].batch = {} <=> run'[r].pc = "rest",
             \A r \in Runs : run[r].pc = "fetched" => run'[r] = run[r],
             wire' \in [Callers -> SUBSET Events], \A k \in closed : wire'[k] = {},
             UNCHANGED <<channelVars, queue, dlq, lost, consumerVars, faults>>
      PROVE  OutboxTypes'
  <2>1. TypeOK'
    BY <1>0, <1>a DEF channelVars, consumerVars, TypeOK, RunRow, SlotRow
  <2>2. SlotsHoldEvents' /\ FaultsAreCounted'
    BY <1>00, <1>a DEF channelVars, consumerVars, SlotsHoldEvents, FaultsAreCounted
  <2>3. CallsAreAsked'
    BY <1>00, <1>a, EventIds DEF channelVars, consumerVars, CallsAreAsked, Asking
  <2> QED BY <2>1, <2>2, <2>3 DEF OutboxTypes
<1>b. ASSUME UNCHANGED <<publisherVars, channelVars, wire, lost, consumer, cutOff, faults>>,
             slot' \in [Slots -> SlotRow], SlotsHoldEvents',
             queue' \in [Events -> Nat], processed' \in SUBSET Events,
             notified' \in [Events -> Nat], dlq' \in SUBSET Events
      PROVE  OutboxTypes'
  <2>1. TypeOK'
    BY <1>0, <1>b DEF publisherVars, channelVars, TypeOK, RunRow, SlotRow
  <2>2. FaultsAreCounted' /\ CallsAreAsked'
    BY <1>00, <1>b DEF publisherVars, channelVars, FaultsAreCounted, CallsAreAsked, Asking
  <2> QED BY <1>b, <2>1, <2>2 DEF OutboxTypes
<1>c. ASSUME UNCHANGED <<outbox, closed, brokerVars, slot, processed, notified, cutOff, faults>>,
             run' \in [Runs -> RunRow],
             \A r \in Runs : run'[r].batch = {} <=> run'[r].pc = "rest",
             consumer' \in {"starting", "on", "off"}, tap' \in Callers \cup {NoConn},
             channel' \in Callers \cup {NoConn}, bound' \in BOOLEAN,
             asks' \in [Callers -> {"no", "connect", "setup"}], CallsAreAsked'
      PROVE  OutboxTypes'
  <2>1. TypeOK'
    BY <1>0, <1>c DEF brokerVars, TypeOK, RunRow, SlotRow
  <2>2. SlotsHoldEvents' /\ FaultsAreCounted'
    BY <1>00, <1>c DEF SlotsHoldEvents, FaultsAreCounted
  <2> QED BY <1>c, <2>1, <2>2 DEF OutboxTypes
<1>1. ASSUME NEW e \in Events, CreateEvent(e) PROVE OutboxTypes'
  BY <1>0, <1>a, <1>1 DEF CreateEvent, brokerVars
<1>2. ASSUME NEW r \in Runs, Fetch(r) PROVE OutboxTypes'
  <2> DEFINE B == {e \in Events : outbox[e] = "PENDING"}
             j == [run[r] EXCEPT !.pc = "fetched", !.batch = B]
  <2>1. B \in SUBSET Events /\ B # {} /\ run[r] = Rest
    BY <1>2 DEF Fetch
  <2>2. run' = [run EXCEPT ![r] = j]
    BY <1>2 DEF Fetch
  <2>3. j \in RunRow /\ (j.batch = {} <=> j.pc = "rest")
    <3> HIDE DEF B
    <3> QED BY <2>1, RunMoves
  <2> HIDE DEF B, j
  <2>4. /\ run' \in [Runs -> RunRow] /\ \A q \in Runs : run'[q].batch = {} <=> run'[q].pc = "rest"
        /\ \A q \in Runs \ {r} : run'[q] = run[q]
    BY <2>2, <2>3, RunSet
  <2>5. \A q \in Runs : run[q].pc = "fetched" => run'[q] = run[q]
    BY <2>1, <2>4 DEF Rest
  <2> QED BY <1>0, <1>a, <1>2, <2>4, <2>5 DEF Fetch, brokerVars
\* A run's own step on its way from one event to the next.
<1>d. ASSUME NEW r \in Runs, run[r].pc \in {"publish", "mark", "fail"}, NEW pc \in {"mark", "fail"},
             Advance(r) \/ run' = [run EXCEPT ![r].pc = pc]
      PROVE  /\ run' \in [Runs -> RunRow] /\ \A q \in Runs : run'[q].batch = {} <=> run'[q].pc = "rest"
             /\ \A q \in Runs : run[q].pc = "fetched" => run'[q] = run[q]
  <2>1. CASE run' = [run EXCEPT ![r].pc = pc]
    <3> DEFINE j == [run[r] EXCEPT !.pc = pc]
    <3>1. run' = [run EXCEPT ![r] = j]
      BY <2>1
    <3>2. j \in RunRow /\ j.pc = pc /\ j.batch = run[r].batch
      <4>1. run[r] \in RunRow
        BY RunMoves
      <4> QED BY <1>d, <4>1 DEF RunRow
    <3>3. run[r].batch # {}
      BY <1>d, RunMoves
    <3> HIDE DEF j
    <3> QED BY <1>d, <3>1, <3>2, <3>3, RunSet
  <2>2. CASE Advance(r)
    BY <1>d, <2>2, AdvanceMoves
  <2> QED BY <1>d, <2>1, <2>2
<1>3. ASSUME NEW r \in Runs, Publish(r) PROVE OutboxTypes'
  <2> DEFINE e == First(run[r].batch)
             k == run[r].via
  <2>1. run[r].pc = "publish" /\ Open(k) /\ k \in Callers \cup {NoConn}
    BY <1>0, <1>3 DEF Publish, RunRow
  <2>2. wire' = [wire EXCEPT ![k] = wire[k] \cup {e}]
    BY <1>3 DEF Publish
  <2>3. /\ run' \in [Runs -> RunRow] /\ \A q \in Runs : run'[q].batch = {} <=> run'[q].pc = "rest"
        /\ \A q \in Runs : run[q].pc = "fetched" => run'[q] = run[q]
    BY <1>d, <1>3 DEF Publish
  <2>4. e \in Events
    <3>1. run[r].batch # {} /\ run[r].batch \subseteq Events
      BY <2>1, RunMoves DEF RunRow
    <3> QED BY <3>1, FirstIsOfBatch
  <2>5. k \in Callers /\ k \notin closed
    BY <2>1 DEF Open
  <2> HIDE DEF e, k
  <2>6. wire' \in [Callers -> SUBSET Events] /\ \A c \in closed : wire'[c] = {}
    BY <1>0, <2>2, <2>4, <2>5
  <2> QED BY <1>0, <1>a, <1>3, <2>3, <2>6 DEF Publish
<1>4. ASSUME NEW r \in Runs, PublishThrows(r) \/ MarkThrows(r) PROVE OutboxTypes'
  <2>1. run' = [run EXCEPT ![r].pc = "fail"] /\ run[r].pc \in {"publish", "mark"}
    BY <1>4 DEF PublishThrows, MarkThrows
  <2>2. /\ run' \in [Runs -> RunRow] /\ \A q \in Runs : run'[q].batch = {} <=> run'[q].pc = "rest"
        /\ \A q \in Runs : run[q].pc = "fetched" => run'[q] = run[q]
    BY <1>d, <2>1
  <2> QED BY <1>0, <1>a, <1>4, <2>2 DEF PublishThrows, MarkThrows, brokerVars
<1>5. ASSUME NEW r \in Runs, Mark(r) PROVE OutboxTypes'
  <2>1. outbox' \in [Events -> {"NONE", "PENDING", "PUBLISHED", "FAILED"}]
    BY <1>0, <1>5 DEF Mark
  <2>2. run[r].pc \in {"mark", "fail"} /\ Advance(r)
    BY <1>5 DEF Mark
  <2>3. /\ run' \in [Runs -> RunRow] /\ \A q \in Runs : run'[q].batch = {} <=> run'[q].pc = "rest"
        /\ \A q \in Runs : run[q].pc = "fetched" => run'[q] = run[q]
    BY <1>d, <2>2
  <2> QED BY <1>0, <1>a, <1>5, <2>1, <2>3 DEF Mark, brokerVars
\* A caller is answered: its call is over, and others ask as before.
<1>e. ASSUME NEW k \in Callers, Asking(k),
             (\E c \in Callers \cup {NoConn} : Gets(k, c)) \/ (GetsNone(k) /\ tap' = tap),
             asks' \in [Callers -> {"no", "connect", "setup"}], asks'[k] = "no",
             \A c \in Callers \ {k} : asks'[c] = asks[c],
             UNCHANGED <<outbox, channel, closed, bound, brokerVars, slot, processed, notified,
                         cutOff, faults>>
      PROVE  OutboxTypes'
  <2>1. CallsAreAsked'
    BY <1>00, <1>e, GetsMoves, EventIds DEF CallsAreAsked, Asking
  <2> QED BY <1>0, <1>c, <1>e, <2>1, GetsMoves
<1>6. ASSUME NEW k \in Callers, CachedChannel(k) PROVE OutboxTypes'
  <2>1. Asking(k) /\ Gets(k, channel) /\ asks' = asks /\ asks[k] = "no"
    BY <1>6 DEF CachedChannel
  <2> QED BY <1>0, <1>e, <1>6, <2>1 DEF CachedChannel
<1>7. ASSUME NEW k \in Callers, SetUp(k) PROVE OutboxTypes'
  <2>1. Asking(k) /\ Gets(k, channel) /\ asks' = [asks EXCEPT ![k] = "no"]
    BY <1>00, <1>7 DEF SetUp, CallsAreAsked
  <2> QED BY <1>0, <1>e, <1>7, <2>1 DEF SetUp
<1>8. ASSUME NEW k \in Callers, NotConnected(k) PROVE OutboxTypes'
  <2>1. Asking(k) /\ GetsNone(k) /\ tap' = tap /\ asks' = [asks EXCEPT ![k] = "no"]
    BY <1>0, <1>00, <1>8 DEF NotConnected, CallsAreAsked
  <2> QED BY <1>0, <1>e, <1>8, <2>1 DEF NotConnected
<1>9. ASSUME NEW k \in Callers, Connect(k) \/ Connected(k) \/ Bind(k) PROVE OutboxTypes'
  <2>1. /\ UNCHANGED <<publisherVars, tap, closed, brokerVars, consumerVars, faults>>
        /\ channel' \in Callers \cup {NoConn} /\ bound' \in BOOLEAN
        /\ asks' \in [Callers -> {"no", "connect", "setup"}]
        /\ \A c \in Callers : asks'[c] # "no" => asks[c] # "no" \/ Asking(c)
    BY <1>0, <1>9 DEF Connect, Connected, Bind
  <2>2. CallsAreAsked'
    BY <1>00, <2>1 DEF CallsAreAsked, Asking, publisherVars, consumerVars
  <2> QED BY <1>0, <1>c, <2>1, <2>2 DEF publisherVars, consumerVars
<1>10. ASSUME NEW k \in Callers, NEW e \in Events, Arrive(k, e) PROVE OutboxTypes'
  <2>1. wire' \in [Callers -> SUBSET Events] /\ (\A c \in closed : wire'[c] = {})
        /\ queue' \in [Events -> Nat] /\ lost' \in SUBSET Events
    BY <1>0, <1>10 DEF Arrive
  <2>2. UNCHANGED <<publisherVars, channelVars, dlq, consumerVars, faults>>
    BY <1>10 DEF Arrive
  <2>3. TypeOK'
    BY <1>0, <2>1, <2>2 DEF publisherVars, channelVars, consumerVars, TypeOK, RunRow, SlotRow
  <2>4. SlotsHoldEvents' /\ FaultsAreCounted' /\ CallsAreAsked'
    BY <1>00, <2>2 DEF publisherVars, channelVars, consumerVars, SlotsHoldEvents, FaultsAreCounted,
                       CallsAreAsked, Asking
  <2> QED BY <2>3, <2>4 DEF OutboxTypes
<1>11. ASSUME NEW k \in Callers, ConnectionLost(k) PROVE OutboxTypes'
  <2>1. /\ UNCHANGED <<publisherVars, channel, asks, tap, bound, dlq, consumerVars>>
        /\ closed' \in SUBSET Callers /\ faults' \in 0..MaxFaults /\ faults' > 0
        /\ lost' \in SUBSET Events
        /\ wire' \in [Callers -> SUBSET Events] /\ \A c \in closed' : wire'[c] = {}
    BY <1>0, <1>11 DEF ConnectionLost
  <2>2. queue' \in [Events -> Nat]
    BY <1>0, <1>11, RequeuedCounts DEF ConnectionLost
  <2>3. TypeOK'
    BY <1>0, <2>1, <2>2 DEF publisherVars, consumerVars, TypeOK, RunRow, SlotRow
  <2>4. SlotsHoldEvents' /\ FaultsAreCounted' /\ CallsAreAsked'
    BY <1>00, <2>1 DEF publisherVars, consumerVars, SlotsHoldEvents, FaultsAreCounted, CallsAreAsked, Asking
  <2> QED BY <2>3, <2>4 DEF OutboxTypes
<1>12. CASE ConsumeFails
  BY <1>0, <1>12, RestartTypes DEF ConsumeFails
<1>13. CASE Crash
  <2>1. faults' \in 0..MaxFaults
    BY <1>0, <1>13 DEF Crash
  <2> QED BY <1>13, <2>1, RestartTypes DEF Crash
<1>14. ASSUME NEW s \in Slots, NEW e \in Events, Deliver(s, e) PROVE OutboxTypes'
  <2>1. slot' = [slot EXCEPT ![s] = [pc |-> "check", event |-> e]]
    BY <1>14 DEF Deliver
  <2>2. slot' \in [Slots -> SlotRow] /\ SlotsHoldEvents'
    BY <1>0, <1>00, <2>1, SlotMoves DEF SlotsHoldEvents
  <2>3. queue' \in [Events -> Nat]
    BY <1>0, <1>14 DEF Deliver
  <2> QED BY <1>0, <1>b, <1>14, <2>2, <2>3 DEF Deliver
<1>f. ASSUME NEW s \in Slots, NEW pc \in {"work", "ack", "reject"}, slot[s].pc # "free",
             slot' = [slot EXCEPT ![s].pc = pc]
      PROVE  slot' \in [Slots -> SlotRow] /\ SlotsHoldEvents'
  <2>1. slot' = [slot EXCEPT ![s] = [slot[s] EXCEPT !.pc = pc]]
    BY <1>f
  <2> DEFINE j == [slot[s] EXCEPT !.pc = pc]
  <2>2. j \in SlotRow /\ j.pc # "free" /\ j.event \in Events
    BY <1>f, SlotMoves
  <2>3. slot' = [slot EXCEPT ![s] = j]
    BY <2>1
  <2> HIDE DEF j
  <2> QED BY <1>0, <1>00, <2>2, <2>3 DEF SlotsHoldEvents
<1>15. ASSUME NEW s \in Slots, ConsumerCheck(s) PROVE OutboxTypes'
  <2>1. slot' \in [Slots -> SlotRow] /\ SlotsHoldEvents'
    BY <1>f, <1>15 DEF ConsumerCheck
  <2>2. processed' \in SUBSET Events
    <3>1. slot[s].event \in Events
      BY <1>15, SlotMoves DEF ConsumerCheck
    <3>2. processed' \in {processed, processed \cup {slot[s].event}}
      BY <1>15 DEF ConsumerCheck
    <3> QED BY <1>0, <3>1, <3>2
  <2> QED BY <1>0, <1>b, <1>15, <2>1, <2>2 DEF ConsumerCheck, brokerVars
<1>16. ASSUME NEW s \in Slots, ConsumerWork(s) PROVE OutboxTypes'
  <2>1. slot' \in [Slots -> SlotRow] /\ SlotsHoldEvents'
    BY <1>f, <1>16 DEF ConsumerWork
  <2>2. notified' \in [Events -> Nat]
    BY <1>0, <1>16 DEF ConsumerWork
  <2> QED BY <1>0, <1>b, <1>16, <2>1, <2>2 DEF ConsumerWork, brokerVars
<1>17. ASSUME NEW s \in Slots, ConsumerAnswer(s) PROVE OutboxTypes'
  <2>1. slot' \in [Slots -> SlotRow] /\ SlotsHoldEvents'
    BY <1>0, <1>00, <1>17, SlotMoves DEF ConsumerAnswer, SlotsHoldEvents
  <2>2. dlq' \in SUBSET Events
    BY <1>0, <1>17, SlotMoves DEF ConsumerAnswer
  <2> QED BY <1>0, <1>b, <1>17, <2>1, <2>2 DEF ConsumerAnswer
<1>18. ASSUME NEW s \in Slots, ConsumerAnswerThrows(s) PROVE OutboxTypes'
  BY <1>0, <1>18, RestartTypes DEF ConsumerAnswerThrows
<1>19. CASE UNCHANGED vars
  BY <1>0, <1>a, <1>19 DEF vars, publisherVars, brokerVars
<1> QED BY <1>1, <1>2, <1>3, <1>4, <1>5, <1>6, <1>7, <1>8, <1>9, <1>10, <1>11, <1>12, <1>13, <1>14,
           <1>15, <1>16, <1>17, <1>18, <1>19 DEF Next

\* In every reachable state the variables have their types, a slot at work has an
\* event, and no connection is closed without a fault.
THEOREM OutboxTypeCorrect == Spec => []OutboxTypes
<1>1. Init => OutboxTypes
  BY InitOutboxTypes
<1>2. OutboxTypes /\ [Next]_vars => OutboxTypes'
  BY NextOutboxTypes
<1> QED BY <1>1, <1>2, PTL DEF Spec

-----------------------------------------------------------------------------
(* The consumer: one slot works on an event, once.                         *)

\* What a slot has checked is in processed_events.
CheckedIsRecorded ==
    \A s \in Slots : slot[s].pc \in {"work", "ack"} => slot[s].event \in processed

\* The work on an event is done by one slot, which no other has done before.
WorkIsFirst ==
    /\ \A s \in Slots : slot[s].pc = "work" => notified[slot[s].event] = 0
    /\ \A s, t \in Slots :
        slot[s].pc = "work" /\ slot[t].pc = "work" /\ slot[s].event = slot[t].event => s = t
    /\ \A e \in Events : notified[e] <= 1 /\ (e \notin processed => notified[e] = 0)

\* A slot of a channel that is gone has its event back in the queue.
CutOffIsQueued ==
    ~Open(tap) => \A s \in Slots : slot[s].event \in Events => queue[slot[s].event] > 0

Consumed ==
    OutboxTypes /\ CheckedIsRecorded /\ WorkIsFirst /\ CutOffIsQueued /\ RecordedIsAnswered

\* A new process has no slot at work.
LEMMA RestartConsumed ==
    ASSUME Consumed, Restart
    PROVE  CheckedIsRecorded' /\ WorkIsFirst' /\ CutOffIsQueued' /\ RecordedIsAnswered'
<1>1. /\ \A s \in Slots : slot'[s].pc = "free" /\ slot'[s].event \notin Events
      /\ processed' = processed /\ notified' = notified
  BY EventIds DEF Restart, Free
<1>2. CheckedIsRecorded' /\ CutOffIsQueued'
  BY <1>1 DEF CheckedIsRecorded, CutOffIsQueued
<1>3. WorkIsFirst'
  BY <1>1 DEF Consumed, WorkIsFirst
<1>4. RecordedIsAnswered'
  <2>1. cutOff' = cutOff \cup AtWork /\ dlq' = dlq
    BY DEF Restart
  <2>2. processed \in SUBSET Events
    BY TypeParts DEF Consumed, OutboxTypes
  <2> QED BY <1>1, <2>1, <2>2 DEF Consumed, RecordedIsAnswered, AtWork
<1> QED BY <1>2, <1>3, <1>4

LEMMA NextConsumed == Consumed /\ [Next]_vars => Consumed'
<1> SUFFICES ASSUME Consumed, [Next]_vars PROVE Consumed'
  OBVIOUS
<1>0. /\ OutboxTypes /\ CheckedIsRecorded /\ WorkIsFirst /\ CutOffIsQueued /\ RecordedIsAnswered
      /\ OutboxTypes'
  BY NextOutboxTypes DEF Consumed
<1>00. /\ slot \in [Slots -> SlotRow] /\ notified \in [Events -> Nat] /\ queue \in [Events -> Nat]
       /\ queue' \in [Events -> Nat]
       /\ processed \in SUBSET Events
       /\ \A s \in Slots : slot[s].pc # "free" <=> slot[s].event \in Events
  BY <1>0, TypeParts DEF OutboxTypes, SlotsHoldEvents, TypeOK
\* A step of another process, which leaves the consumer alone.
<1>a. ASSUME UNCHANGED <<slot, processed, notified, dlq, cutOff>>,
             \A e \in Events : queue'[e] >= queue[e],
             ~Open(tap)' => ~Open(tap)
      PROVE  Consumed'
  <2>1. CheckedIsRecorded' /\ WorkIsFirst'
    BY <1>0, <1>a DEF CheckedIsRecorded, WorkIsFirst
  <2>2. CutOffIsQueued'
    BY <1>0, <1>00, <1>a DEF CutOffIsQueued
  <2>3. RecordedIsAnswered'
    BY <1>0, <1>00, <1>a DEF RecordedIsAnswered
  <2> QED BY <1>0, <2>1, <2>2, <2>3 DEF Consumed
<1>1. ASSUME NEW e \in Events, CreateEvent(e) PROVE Consumed'
  BY <1>a, <1>00, <1>1 DEF CreateEvent, channelVars, brokerVars, consumerVars, Open
<1>2. ASSUME NEW r \in Runs, Fetch(r) \/ Publish(r) \/ PublishThrows(r) \/ Mark(r) \/ MarkThrows(r)
      PROVE  Consumed'
  BY <1>a, <1>00, <1>2 DEF Fetch, Publish, PublishThrows, Mark, MarkThrows, channelVars, brokerVars,
                           consumerVars, Open
\* The consumer got a channel only if it had none before.
<1>3. ASSUME NEW k \in Callers, CachedChannel(k) \/ SetUp(k) \/ NotConnected(k) PROVE Consumed'
  <2>1. UNCHANGED <<queue, slot, processed, notified, dlq, cutOff, closed>>
    BY <1>3 DEF CachedChannel, SetUp, NotConnected, brokerVars
  <2>2. Asking(k)
    BY <1>0, <1>3 DEF CachedChannel, SetUp, NotConnected, OutboxTypes, CallsAreAsked, TypeOK
  <2>3. tap' = tap \/ tap = NoConn
    BY <1>0, <1>3, <2>2 DEF CachedChannel, SetUp, NotConnected, Gets, Asking, OutboxTypes, CallsAreAsked
  <2> QED BY <1>a, <1>00, <2>1, <2>3 DEF Open
<1>4. ASSUME NEW k \in Callers, Connect(k) \/ Connected(k) \/ Bind(k) PROVE Consumed'
  BY <1>a, <1>00, <1>4 DEF Connect, Connected, Bind, brokerVars, consumerVars, Open
<1>5. ASSUME NEW k \in Callers, NEW e \in Events, Arrive(k, e) PROVE Consumed'
  <2>1. UNCHANGED <<slot, processed, notified, dlq, cutOff, tap, closed>>
    BY <1>5 DEF Arrive, channelVars, consumerVars
  <2>2. \A f \in Events : queue'[f] >= queue[f]
    BY <1>00, <1>5 DEF Arrive
  <2> QED BY <1>a, <2>1, <2>2 DEF Open
<1>6. ASSUME NEW k \in Callers, ConnectionLost(k) PROVE Consumed'
  <2>1. /\ UNCHANGED <<slot, processed, notified, dlq, cutOff, tap>> /\ closed' = closed \cup {k}
        /\ queue' = IF tap = k THEN Requeued ELSE queue
    BY <1>6 DEF ConnectionLost, consumerVars
  <2>2. CASE tap = k
    <3>1. CutOffIsQueued'
      BY <1>0, <2>1, <2>2, RequeuedCounts DEF CutOffIsQueued
    <3>2. CheckedIsRecorded' /\ WorkIsFirst'
      BY <1>0, <2>1 DEF CheckedIsRecorded, WorkIsFirst
    <3>3. RecordedIsAnswered'
      BY <1>0, <2>1 DEF RecordedIsAnswered
    <3> QED BY <1>0, <3>1, <3>2, <3>3 DEF Consumed
  <2>3. CASE tap # k
    BY <1>a, <1>00, <2>1, <2>3 DEF Open
  <2> QED BY <2>2, <2>3
<1>7. ASSUME Restart PROVE Consumed'
  BY <1>0, <1>7, RestartConsumed DEF Consumed
<1>8. CASE Crash \/ ConsumeFails
  BY <1>7, <1>8 DEF Crash, ConsumeFails
<1>9. ASSUME NEW s \in Slots, NEW e \in Events, Deliver(s, e) PROVE Consumed'
  <2>1. /\ Open(tap)' /\ processed' = processed /\ notified' = notified
        /\ dlq' = dlq /\ cutOff' = cutOff
        /\ slot[s].pc = "free"
        /\ slot'[s].pc = "check" /\ slot'[s].event = e
        /\ \A t \in Slots \ {s} : slot'[t] = slot[t]
    BY <1>00, <1>9 DEF Deliver, channelVars, Open
  <2>2. CheckedIsRecorded' /\ CutOffIsQueued'
    BY <1>0, <2>1 DEF CheckedIsRecorded, CutOffIsQueued
  <2>3. WorkIsFirst'
    BY <1>0, <2>1 DEF WorkIsFirst
  <2>4. RecordedIsAnswered'
    BY <1>0, <2>1 DEF RecordedIsAnswered
  <2> QED BY <1>0, <2>2, <2>3, <2>4 DEF Consumed
<1>10. ASSUME NEW s \in Slots, ConsumerCheck(s) PROVE Consumed'
  <2> DEFINE e == slot[s].event
  <2>1. slot[s].pc = "check" /\ e \in Events
    BY <1>00, <1>10 DEF ConsumerCheck
  <2>2. /\ UNCHANGED <<tap, closed, queue, dlq, notified, cutOff>>
        /\ processed' \in {processed, processed \cup {e}}
        /\ slot'[s].event = e
        /\ \/ slot'[s].pc = "reject"
           \/ slot'[s].pc = "ack" /\ e \in processed
           \/ slot'[s].pc = "work" /\ e \notin processed /\ processed' = processed \cup {e}
        /\ \A t \in Slots \ {s} : slot'[t] = slot[t]
    <3>1. UNCHANGED <<tap, closed, queue, dlq, notified, cutOff>>
          /\ processed' \in {processed, processed \cup {e}}
      BY <1>10 DEF ConsumerCheck, channelVars, brokerVars
    <3>2. \E pc \in {"work", "ack", "reject"} :
            /\ slot' = [slot EXCEPT ![s].pc = pc]
            /\ pc = "ack" => e \in processed
            /\ pc = "work" => e \notin processed /\ processed' = processed \cup {e}
      BY <1>10 DEF ConsumerCheck
    <3>3. PICK pc \in {"work", "ack", "reject"} :
            /\ slot' = [slot EXCEPT ![s].pc = pc]
            /\ pc = "ack" => e \in processed
            /\ pc = "work" => e \notin processed /\ processed' = processed \cup {e}
      BY <3>2
    <3>4. slot'[s].event = e /\ slot'[s].pc = pc /\ \A t \in Slots \ {s} : slot'[t] = slot[t]
      BY <1>00, <3>3 DEF SlotRow
    <3> QED BY <3>1, <3>3, <3>4
  <2> HIDE DEF e
  <2>3. CheckedIsRecorded'
    BY <1>0, <2>2 DEF CheckedIsRecorded
  <2>4. CutOffIsQueued'
    BY <1>0, <2>1, <2>2 DEF CutOffIsQueued, Open, e
  <2>5. WorkIsFirst'
    <3>1. \A t \in Slots \ {s} : slot'[t].pc = "work" => slot'[t].event \in processed
      BY <1>0, <2>2 DEF CheckedIsRecorded
    <3>2. slot'[s].pc = "work" => e \notin processed /\ notified[e] = 0
      BY <1>0, <2>1, <2>2 DEF WorkIsFirst
    <3>3. \A t \in Slots : slot'[t].pc = "work" => notified'[slot'[t].event] = 0
      BY <1>0, <2>2, <3>2 DEF WorkIsFirst
    <3>4. \A t, u \in Slots :
            slot'[t].pc = "work" /\ slot'[u].pc = "work" /\ slot'[t].event = slot'[u].event => t = u
      BY <1>0, <2>2, <3>1, <3>2 DEF WorkIsFirst
    <3>5. \A f \in Events : notified'[f] <= 1 /\ (f \notin processed' => notified'[f] = 0)
      BY <1>0, <2>2 DEF WorkIsFirst
    <3> QED BY <3>3, <3>4, <3>5 DEF WorkIsFirst
  <2>6. RecordedIsAnswered'
    <3> SUFFICES ASSUME NEW f \in processed', f \notin dlq' \cup cutOff', notified'[f] # 1
                 PROVE  \E t \in Slots : slot'[t].event = f /\ slot'[t].pc \in {"work", "reject"}
      BY DEF RecordedIsAnswered
    <3>1. CASE f \in processed
      <4>1. PICK t \in Slots : slot[t].event = f /\ slot[t].pc \in {"work", "reject"}
        BY <1>0, <2>2, <3>1 DEF RecordedIsAnswered
      <4>2. t # s
        BY <2>1, <4>1
      <4> QED BY <2>2, <4>1, <4>2
    <3>2. CASE f \notin processed
      BY <2>2, <3>2
    <3> QED BY <3>1, <3>2
  <2> QED BY <1>0, <2>3, <2>4, <2>5, <2>6 DEF Consumed
<1>11. ASSUME NEW s \in Slots, ConsumerWork(s) PROVE Consumed'
  <2> DEFINE e == slot[s].event
  <2>1. slot[s].pc = "work" /\ e \in Events /\ e \in processed /\ notified[e] = 0
    BY <1>0, <1>00, <1>11 DEF ConsumerWork, CheckedIsRecorded, WorkIsFirst
  <2>2. /\ UNCHANGED <<tap, closed, queue, dlq, processed, cutOff>>
        /\ slot'[s].event = e
        /\ \/ slot'[s].pc = "reject"
           \/ slot'[s].pc = "ack" /\ notified'[e] = 1
        /\ notified'[e] \in {0, 1}
        /\ \A f \in Events \ {e} : notified'[f] = notified[f]
        /\ \A t \in Slots \ {s} : slot'[t] = slot[t]
    <3>1. UNCHANGED <<tap, closed, queue, dlq, processed, cutOff>>
      BY <1>11 DEF ConsumerWork, channelVars, brokerVars
    <3>2. \/ notified' = [notified EXCEPT ![e] = 1]
          \/ notified' = notified /\ slot' = [slot EXCEPT ![s].pc = "reject"]
      BY <1>11, <2>1 DEF ConsumerWork
    <3>3. \/ slot' = [slot EXCEPT ![s].pc = "ack"]
          \/ slot' = [slot EXCEPT ![s].pc = "reject"]
      BY <1>11 DEF ConsumerWork
    <3>4. ASSUME slot' = [slot EXCEPT ![s].pc = "ack"]
          PROVE  /\ slot'[s].event = e /\ slot'[s].pc = "ack" /\ notified'[e] = 1
                 /\ \A t \in Slots \ {s} : slot'[t] = slot[t]
      <4>1. slot'[s].event = e /\ slot'[s].pc = "ack" /\ \A t \in Slots \ {s} : slot'[t] = slot[t]
        BY <1>00, <3>4 DEF SlotRow
      <4>2. slot' # [slot EXCEPT ![s].pc = "reject"]
        <5>1. [slot EXCEPT ![s].pc = "reject"][s].pc = "reject"
          BY <1>00 DEF SlotRow
        <5> QED BY <4>1, <5>1
      <4>3. notified' = [notified EXCEPT ![e] = 1]
        BY <3>2, <4>2
      <4>4. notified'[e] = 1
        BY <1>00, <2>1, <4>3
      <4> QED BY <4>1, <4>4
    <3>5. ASSUME slot' = [slot EXCEPT ![s].pc = "reject"]
          PROVE  /\ slot'[s].event = e /\ slot'[s].pc = "reject"
                 /\ \A t \in Slots \ {s} : slot'[t] = slot[t]
      BY <1>00, <3>5 DEF SlotRow
    <3>6. slot'[s].event = e /\ \A t \in Slots \ {s} : slot'[t] = slot[t]
      BY <3>3, <3>4, <3>5
    <3>7. slot'[s].pc = "reject" \/ (slot'[s].pc = "ack" /\ notified'[e] = 1)
      BY <3>3, <3>4, <3>5
    <3>8. notified'[e] \in {0, 1} /\ \A f \in Events \ {e} : notified'[f] = notified[f]
      BY <1>00, <2>1, <3>2
    <3> QED BY <3>1, <3>6, <3>7, <3>8
  <2> HIDE DEF e
  <2>3. CheckedIsRecorded'
    BY <1>0, <2>1, <2>2 DEF CheckedIsRecorded
  <2>4. CutOffIsQueued'
    BY <1>0, <2>1, <2>2 DEF CutOffIsQueued, Open, e
  <2>5. WorkIsFirst'
    <3>1. \A t \in Slots \ {s} : slot[t].pc = "work" => slot[t].event # e /\ slot[t].event \in Events
      BY <1>0, <1>00, <2>1 DEF WorkIsFirst, e
    <3>2. \A t \in Slots : slot'[t].pc = "work" => t # s
      BY <2>2
    <3>3. \A t \in Slots : slot'[t].pc = "work" => notified'[slot'[t].event] = 0
      BY <1>0, <2>2, <3>1, <3>2 DEF WorkIsFirst
    <3>4. \A t, u \in Slots :
            slot'[t].pc = "work" /\ slot'[u].pc = "work" /\ slot'[t].event = slot'[u].event => t = u
      BY <1>0, <2>2, <3>2 DEF WorkIsFirst
    <3>5. \A f \in Events : notified'[f] <= 1 /\ (f \notin processed' => notified'[f] = 0)
      BY <1>0, <2>1, <2>2 DEF WorkIsFirst
    <3> QED BY <3>3, <3>4, <3>5 DEF WorkIsFirst
  <2>6. RecordedIsAnswered'
    <3> SUFFICES ASSUME NEW f \in processed', f \notin dlq' \cup cutOff', notified'[f] # 1
                 PROVE  \E t \in Slots : slot'[t].event = f /\ slot'[t].pc \in {"work", "reject"}
      BY DEF RecordedIsAnswered
    <3>1. CASE f = e
      BY <2>2, <3>1
    <3>2. CASE f # e
      <4>1. f \in Events /\ notified[f] # 1 /\ f \in processed
        BY <1>00, <2>2, <3>2
      <4>2. PICK t \in Slots : slot[t].event = f /\ slot[t].pc \in {"work", "reject"}
        BY <1>0, <2>2, <4>1 DEF RecordedIsAnswered
      <4>3. t # s
        BY <3>2, <4>2 DEF e
      <4> QED BY <2>2, <4>2, <4>3
    <3> QED BY <3>1, <3>2
  <2> QED BY <1>0, <2>3, <2>4, <2>5, <2>6 DEF Consumed
<1>12. ASSUME NEW s \in Slots, ConsumerAnswer(s) PROVE Consumed'
  <2>1. /\ Open(tap)'
        /\ UNCHANGED <<processed, notified, cutOff>>
        /\ slot[s].pc \in {"ack", "reject"}
        /\ slot'[s].pc = "free"
        /\ \A t \in Slots \ {s} : slot'[t] = slot[t]
        /\ dlq \subseteq dlq' /\ (slot[s].pc = "reject" => slot[s].event \in dlq')
    BY <1>00, <1>12 DEF ConsumerAnswer, channelVars, Open, Free
  <2>2. CheckedIsRecorded' /\ CutOffIsQueued'
    BY <1>0, <2>1 DEF CheckedIsRecorded, CutOffIsQueued
  <2>3. WorkIsFirst'
    <3>1. \A t \in Slots : slot'[t].pc = "work" => t # s
      BY <2>1
    <3> QED BY <1>0, <2>1, <3>1 DEF WorkIsFirst
  <2>4. RecordedIsAnswered'
    <3> SUFFICES ASSUME NEW f \in processed', f \notin dlq' \cup cutOff', notified'[f] # 1
                 PROVE  \E t \in Slots : slot'[t].event = f /\ slot'[t].pc \in {"work", "reject"}
      BY DEF RecordedIsAnswered
    <3>1. PICK t \in Slots : slot[t].event = f /\ slot[t].pc \in {"work", "reject"}
      BY <1>0, <2>1 DEF RecordedIsAnswered
    <3>2. t # s
      BY <2>1, <3>1
    <3> QED BY <2>1, <3>1, <3>2
  <2> QED BY <1>0, <2>2, <2>3, <2>4 DEF Consumed
<1>13. ASSUME NEW s \in Slots, ConsumerAnswerThrows(s) PROVE Consumed'
  BY <1>7, <1>13 DEF ConsumerAnswerThrows
<1>14. CASE UNCHANGED vars
  BY <1>a, <1>00, <1>14 DEF vars, channelVars, brokerVars, consumerVars, Open
<1> QED BY <1>1, <1>2, <1>3, <1>4, <1>5, <1>6, <1>7, <1>8, <1>9, <1>10, <1>11, <1>12, <1>13,
           <1>14 DEF Next

LEMMA InitConsumed == Init => Consumed
<1> SUFFICES ASSUME Init PROVE Consumed
  OBVIOUS
<1>1. \A e \in Events : notified[e] = 0
  BY DEF Init, None
<1>2. \A s \in Slots : slot[s].pc = "free" /\ slot[s].event \notin Events
  BY EventIds DEF Init, Free
<1> QED BY <1>1, <1>2, InitOutboxTypes DEF Init, Consumed, CheckedIsRecorded, WorkIsFirst,
                                          CutOffIsQueued, RecordedIsAnswered

LEMMA ConsumedAlways == Spec => []Consumed
BY InitConsumed, NextConsumed, PTL DEF Spec

\* However often an event is published and redelivered, by however many runs, its
\* customer is notified once at most.
THEOREM NotifiedAtMostOnce == Spec => []NotifiedOnce
<1>1. Consumed => NotifiedOnce
  BY DEF Consumed, WorkIsFirst, NotifiedOnce
<1> QED BY <1>1, ConsumedAlways, PTL

\* An event the consumer has recorded is notified, dead-lettered, at work, or was at
\* work when the process ended.
THEOREM RecordedWereAnswered == Spec => []RecordedIsAnswered
<1>1. Consumed => RecordedIsAnswered
  BY DEF Consumed
<1> QED BY <1>1, ConsumedAlways, PTL

-----------------------------------------------------------------------------
(* The publisher: what it wrote can be found.                              *)

\* An event that was written is on its way, at the consumer, in a table, or lost
\* with a socket or for want of a queue.
Somewhere(e) ==
    \/ OnItsWay(e)
    \/ \E s \in Slots : slot[s].event = e
    \/ e \in processed \cup dlq \cup lost

\* What a run is about to record is true, and so is what the rows say.
WritesAreTraced ==
    /\ \A r \in Runs, e \in Events :
        /\ run[r].pc = "mark" /\ e = First(run[r].batch) => Somewhere(e)
        /\ run[r].pc = "fail" /\ e = First(run[r].batch) => faults > 0 \/ Somewhere(e)
    /\ \A e \in Events :
        /\ outbox[e] = "PUBLISHED" => Somewhere(e)
        /\ outbox[e] = "FAILED" => faults > 0 \/ Somewhere(e)

Traced == Consumed /\ WritesAreTraced

\* An event whose copies are kept, and that no slot lets go, stays somewhere.
LEMMA KeptStays ==
    ASSUME NEW e \in Events, Somewhere(e),
           OnItsWay(e) => OnItsWay(e)' \/ e \in lost',
           \A s \in Slots : slot[s].event = e => slot'[s].event = e,
           processed \subseteq processed', dlq \subseteq dlq', lost \subseteq lost'
    PROVE  Somewhere(e)'
BY DEF Somewhere

\* The copies in the queue are not fewer, and those on the connections are carried on or
\* recorded as lost.
LEMMA CopiesStay ==
    ASSUME NEW e \in Events, queue[e] \in Nat, queue'[e] \in Nat, queue'[e] >= queue[e],
           \A k \in Callers : e \in wire[k] => e \in wire'[k] \/ e \in lost'
    PROVE  OnItsWay(e) => OnItsWay(e)' \/ e \in lost'
BY DEF OnItsWay, Carriers

\* When the process ends, what was written is lost or in the queue again.
LEMMA ProcessGone ==
    ASSUME Consumed, NEW e \in Events, Somewhere(e), Restart
    PROVE  Somewhere(e)'
<1>1. /\ queue \in [Events -> Nat] /\ Requeued \in [Events -> Nat]
      /\ Requeued[e] >= queue[e] /\ wire \in [Callers -> SUBSET Events]
  BY TypeParts, RequeuedCounts DEF Consumed, OutboxTypes
<1>2. /\ queue' = (IF Open(tap) THEN Requeued ELSE queue)
      /\ lost' = lost \cup UNION {wire[k] : k \in Callers}
      /\ processed' = processed /\ dlq' = dlq
  BY DEF Restart
<1>3. queue[e] \in Nat /\ queue'[e] \in Nat /\ queue'[e] >= queue[e]
  BY <1>1, <1>2
<1>4. CASE OnItsWay(e)
  <2>1. \A k \in Callers : e \in wire[k] => e \in lost'
    BY <1>2
  <2> QED BY <1>3, <1>4, <2>1, CopiesStay DEF Somewhere
<1>5. CASE \E s \in Slots : slot[s].event = e
  <2>1. queue'[e] > 0
    BY <1>1, <1>2, <1>5, RequeuedCounts DEF Consumed, CutOffIsQueued
  <2> QED BY <2>1 DEF OnItsWay, Somewhere
<1>6. CASE e \in processed \cup dlq \cup lost
  BY <1>2, <1>6 DEF Somewhere
<1> QED BY <1>4, <1>5, <1>6 DEF Somewhere

\* No step makes an event disappear.
LEMMA SomewhereStays ==
    ASSUME Consumed, [Next]_vars, NEW e \in Events, Somewhere(e)
    PROVE  Somewhere(e)'
<1>0. /\ wire \in [Callers -> SUBSET Events] /\ queue \in [Events -> Nat] /\ slot \in [Slots -> SlotRow]
      /\ wire' \in [Callers -> SUBSET Events] /\ queue' \in [Events -> Nat]
      /\ CheckedIsRecorded
      /\ \A s \in Slots : slot[s].pc # "free" <=> slot[s].event \in Events
  <2>1. OutboxTypes'
    BY NextOutboxTypes DEF Consumed
  <2>2. wire' \in [Callers -> SUBSET Events] /\ queue' \in [Events -> Nat]
    BY <2>1 DEF OutboxTypes, TypeOK
  <2> QED BY <2>2, TypeParts DEF Consumed, OutboxTypes, SlotsHoldEvents
<1>a. ASSUME UNCHANGED <<wire, queue, slot, processed, dlq, lost>> PROVE Somewhere(e)'
  BY <1>0, <1>a, KeptStays DEF OnItsWay, Carriers
<1>b. ASSUME UNCHANGED <<slot, processed, dlq>>, lost \subseteq lost', queue'[e] >= queue[e],
             \A k \in Callers : e \in wire[k] => e \in wire'[k] \/ e \in lost'
      PROVE  Somewhere(e)'
  <2>1. OnItsWay(e) => OnItsWay(e)' \/ e \in lost'
    BY <1>0, <1>b, CopiesStay
  <2> QED BY <1>b, <2>1, KeptStays
<1>1. ASSUME NEW f \in Events, CreateEvent(f) PROVE Somewhere(e)'
  BY <1>a, <1>1 DEF CreateEvent, brokerVars, consumerVars
<1>2. ASSUME NEW r \in Runs, Fetch(r) \/ PublishThrows(r) \/ Mark(r) \/ MarkThrows(r)
      PROVE  Somewhere(e)'
  BY <1>a, <1>2 DEF Fetch, PublishThrows, Mark, MarkThrows, brokerVars, consumerVars
<1>3. ASSUME NEW k \in Callers,
             CachedChannel(k) \/ Connect(k) \/ Connected(k) \/ Bind(k) \/ SetUp(k) \/ NotConnected(k)
      PROVE  Somewhere(e)'
  BY <1>a, <1>3 DEF CachedChannel, Connect, Connected, Bind, SetUp, NotConnected, brokerVars, consumerVars
<1>4. ASSUME NEW r \in Runs, Publish(r) PROVE Somewhere(e)'
  <2>1. UNCHANGED <<queue, slot, processed, dlq, lost>>
        /\ wire' = [wire EXCEPT ![run[r].via] = @ \cup {First(run[r].batch)}]
    BY <1>4 DEF Publish, consumerVars
  <2>2. \A k \in Callers : wire[k] \subseteq wire'[k]
    BY <1>0, <2>1
  <2> QED BY <1>0, <1>b, <2>1, <2>2
<1>5. ASSUME NEW k \in Callers, NEW f \in Events, Arrive(k, f) PROVE Somewhere(e)'
  <2>1. UNCHANGED <<slot, processed, dlq>> /\ lost \subseteq lost' /\ queue'[e] >= queue[e]
    BY <1>0, <1>5 DEF Arrive, consumerVars
  <2>2. wire' = [wire EXCEPT ![k] = @ \ {f}]
    BY <1>5 DEF Arrive
  <2>3. CASE e = f
    <3>1. queue'[e] > 0 \/ e \in lost'
      BY <1>0, <1>5, <2>3 DEF Arrive
    <3> QED BY <3>1 DEF Somewhere, OnItsWay
  <2>4. CASE e # f
    <3>1. \A c \in Callers : e \in wire[c] => e \in wire'[c]
      BY <1>0, <2>2, <2>4
    <3> QED BY <1>b, <2>1, <3>1
  <2> QED BY <2>3, <2>4
<1>6. ASSUME NEW k \in Callers, ConnectionLost(k) PROVE Somewhere(e)'
  <2>1. /\ UNCHANGED <<slot, processed, dlq>> /\ lost' = lost \cup wire[k]
        /\ wire' = [wire EXCEPT ![k] = {}]
        /\ queue' = IF tap = k THEN Requeued ELSE queue
    BY <1>6 DEF ConnectionLost, consumerVars
  <2>2. Requeued[e] >= queue[e]
    BY RequeuedCounts DEF Consumed
  <2>3. queue'[e] >= queue[e]
    BY <1>0, <2>1, <2>2
  <2>4. \A c \in Callers : e \in wire[c] => e \in wire'[c] \/ e \in lost'
    BY <1>0, <2>1
  <2> QED BY <1>b, <2>1, <2>3, <2>4
<1>7. ASSUME Restart PROVE Somewhere(e)'
  BY <1>7, ProcessGone
<1>8. ASSUME NEW s \in Slots, NEW f \in Events, Deliver(s, f) PROVE Somewhere(e)'
  <2>1. /\ UNCHANGED <<wire, processed, dlq, lost>>
        /\ slot[s].pc = "free" /\ slot'[s].event = f
        /\ \A t \in Slots \ {s} : slot'[t] = slot[t]
        /\ \A g \in Events \ {f} : queue'[g] = queue[g]
    BY <1>0, <1>8 DEF Deliver
  <2>2. CASE e = f
    BY <2>1, <2>2 DEF Somewhere
  <2>3. CASE e # f
    <3>1. \A t \in Slots : slot[t].event = e => slot'[t].event = e
      BY <1>0, <2>1
    <3>2. OnItsWay(e) => OnItsWay(e)'
      BY <1>0, <2>1, <2>3 DEF OnItsWay, Carriers
    <3> QED BY <2>1, <3>1, <3>2, KeptStays
  <2> QED BY <2>2, <2>3
<1>9. ASSUME NEW s \in Slots, ConsumerCheck(s) \/ ConsumerWork(s) PROVE Somewhere(e)'
  <2>1. UNCHANGED <<wire, queue, dlq, lost>> /\ processed \subseteq processed'
    BY <1>0, <1>9 DEF ConsumerCheck, ConsumerWork, brokerVars
  <2>2. \E pc \in {"work", "ack", "reject"} : slot' = [slot EXCEPT ![s].pc = pc]
    BY <1>9 DEF ConsumerCheck, ConsumerWork
  <2>3. \A t \in Slots : slot'[t].event = slot[t].event
    BY <1>0, <2>2 DEF SlotRow
  <2>4. OnItsWay(e) => OnItsWay(e)'
    BY <2>1 DEF OnItsWay, Carriers
  <2> QED BY <2>1, <2>3, <2>4, KeptStays
<1>10. ASSUME NEW s \in Slots, ConsumerAnswer(s) PROVE Somewhere(e)'
  <2>1. /\ UNCHANGED <<wire, queue, processed, lost>> /\ dlq \subseteq dlq'
        /\ slot[s].event \in processed \cup dlq'
        /\ \A t \in Slots \ {s} : slot'[t] = slot[t]
    BY <1>0, <1>10 DEF ConsumerAnswer, CheckedIsRecorded
  <2>2. CASE slot[s].event = e
    BY <2>1, <2>2 DEF Somewhere
  <2>3. CASE slot[s].event # e
    <3>1. OnItsWay(e) => OnItsWay(e)'
      BY <2>1 DEF OnItsWay, Carriers
    <3> QED BY <2>1, <2>3, <3>1, KeptStays
  <2> QED BY <2>2, <2>3
<1> QED BY <1>a, <1>1, <1>2, <1>3, <1>4, <1>5, <1>6, <1>7, <1>8, <1>9, <1>10
    DEF Next, Crash, ConsumeFails, ConsumerAnswerThrows, vars, brokerVars, consumerVars

LEMMA NextTraced == Traced /\ [Next]_vars => Traced'
<1> SUFFICES ASSUME Traced, [Next]_vars PROVE Traced'
  OBVIOUS
<1>1. Consumed /\ Consumed' /\ WritesAreTraced
  BY NextConsumed DEF Traced
<1>2. /\ outbox \in [Events -> {"NONE", "PENDING", "PUBLISHED", "FAILED"}]
      /\ run \in [Runs -> RunRow] /\ wire \in [Callers -> SUBSET Events]
      /\ faults \in Nat /\ faults' \in Nat
      /\ closed # {} => faults > 0
  BY <1>1, EventIds, TypeParts DEF Consumed, OutboxTypes, TypeOK, FaultsAreCounted
<1>3. \A e \in Events : Somewhere(e) => Somewhere(e)'
  BY <1>1, SomewhereStays
<1>4. faults' >= faults
  <2>1. ASSUME NEW k \in Callers,
               \/ CachedChannel(k) \/ Connect(k) \/ Connected(k) \/ Bind(k) \/ SetUp(k) \/ NotConnected(k)
               \/ \E e \in Events : Arrive(k, e)
        PROVE  faults' = faults
    BY <2>1 DEF CachedChannel, Connect, Connected, Bind, SetUp, NotConnected, Arrive
  <2>2. ASSUME NEW r \in Runs,
               Fetch(r) \/ Publish(r) \/ PublishThrows(r) \/ Mark(r) \/ MarkThrows(r)
        PROVE  faults' = faults
    BY <2>2 DEF Fetch, Publish, PublishThrows, Mark, MarkThrows
  <2>3. ASSUME NEW s \in Slots,
               \/ ConsumerCheck(s) \/ ConsumerWork(s) \/ ConsumerAnswer(s) \/ ConsumerAnswerThrows(s)
               \/ \E e \in Events : Deliver(s, e)
        PROVE  faults' = faults
    BY <2>3 DEF ConsumerCheck, ConsumerWork, ConsumerAnswer, ConsumerAnswerThrows, Deliver
  <2>4. ASSUME (\E e \in Events : CreateEvent(e)) \/ ConsumeFails \/ UNCHANGED vars PROVE faults' = faults
    BY <2>4 DEF CreateEvent, ConsumeFails, vars
  <2>5. ASSUME (\E k \in Callers : ConnectionLost(k)) \/ Crash PROVE faults' = faults + 1
    BY <2>5 DEF ConnectionLost, Crash
  <2> QED BY <1>2, <2>1, <2>2, <2>3, <2>4, <2>5 DEF Next
\* A step that gives the rows and the runs nothing new to record.
<1>a. ASSUME \A e \in Events : outbox'[e] \in {"PUBLISHED", "FAILED"} => outbox'[e] = outbox[e],
             \A r \in Runs : run'[r].pc \in {"mark", "fail"} => run'[r] = run[r]
      PROVE  WritesAreTraced'
  <2>1. ASSUME NEW r \in Runs, NEW e \in Events, run'[r].pc \in {"mark", "fail"},
               e = First(run'[r].batch)
        PROVE  /\ run'[r].pc = "mark" => Somewhere(e)'
               /\ run'[r].pc = "fail" => faults' > 0 \/ Somewhere(e)'
    BY <1>a, <1>1, <1>2, <1>3, <1>4, <2>1 DEF WritesAreTraced
  <2>2. ASSUME NEW e \in Events
        PROVE  /\ outbox'[e] = "PUBLISHED" => Somewhere(e)'
               /\ outbox'[e] = "FAILED" => faults' > 0 \/ Somewhere(e)'
    BY <1>a, <1>1, <1>2, <1>3, <1>4 DEF WritesAreTraced
  <2> QED BY <2>1, <2>2 DEF WritesAreTraced
\* A run that leaves one event behind has no other to record yet.
<1>b. ASSUME NEW r \in Runs, Advance(r) PROVE \A q \in Runs : run'[q].pc \in {"mark", "fail"} => run'[q] = run[q]
  BY <1>b, <1>1, AdvanceMoves DEF Consumed
<1>5. ASSUME NEW e \in Events, CreateEvent(e) PROVE WritesAreTraced'
  BY <1>a, <1>2, <1>5 DEF CreateEvent
<1>6. ASSUME NEW r \in Runs, Fetch(r) PROVE WritesAreTraced'
  <2> DEFINE B == {e \in Events : outbox[e] = "PENDING"}
  <2>1. outbox' = outbox /\ run' = [run EXCEPT ![r].pc = "fetched", ![r].batch = B]
    BY <1>6 DEF Fetch
  <2> HIDE DEF B
  <2>2. run'[r].pc = "fetched" /\ \A q \in Runs \ {r} : run'[q] = run[q]
    BY <1>2, <2>1 DEF RunRow
  <2> QED BY <1>a, <2>1, <2>2
<1>7. ASSUME NEW k \in Callers, CachedChannel(k) \/ SetUp(k) \/ NotConnected(k) PROVE WritesAreTraced'
  <2>1. outbox' = outbox
    BY <1>7 DEF CachedChannel, SetUp, NotConnected
  <2>2. Asking(k)
    BY <1>1, <1>7 DEF CachedChannel, SetUp, NotConnected, Consumed, OutboxTypes, CallsAreAsked, TypeOK
  <2>3. \/ \E c \in Callers \cup {NoConn} : Gets(k, c)
        \/ GetsNone(k) /\ tap' = tap
    BY <1>1, <1>7 DEF CachedChannel, SetUp, NotConnected, Consumed, OutboxTypes, TypeOK
  <2>4. \A q \in Runs : run'[q].pc \in {"mark", "fail"} => run'[q] = run[q]
    BY <1>1, <2>2, <2>3, GetsMoves DEF Consumed
  <2> QED BY <1>a, <2>1, <2>4
<1>17. ASSUME NEW k \in Callers, Connect(k) \/ Connected(k) \/ Bind(k) PROVE WritesAreTraced'
  BY <1>a, <1>17 DEF Connect, Connected, Bind, publisherVars
<1>8. ASSUME NEW r \in Runs, Publish(r) PROVE WritesAreTraced'
  <2>1. outbox' = outbox
    BY <1>8 DEF Publish
  <2>2. CASE Advance(r)
    BY <1>a, <1>b, <2>1, <2>2
  <2>3. CASE run' = [run EXCEPT ![r].pc = "mark"]
    <3> DEFINE f == First(run[r].batch)
    <3>1. ASSUME NEW e \in Events, e = f PROVE Somewhere(e)'
      <4> DEFINE k == run[r].via
      <4>1. wire' = [wire EXCEPT ![k] = wire[k] \cup {f}] /\ Open(k)
        BY <1>8 DEF Publish
      <4>2. k \in Callers
        BY <1>2, <4>1 DEF Open, RunRow
      <4>3. e \in wire'[k]
        BY <1>2, <3>1, <4>1, <4>2
      <4> QED BY <4>2, <4>3 DEF Somewhere, OnItsWay, Carriers
    <3>2. run'[r].pc = "mark" /\ run'[r].batch = run[r].batch
          /\ \A q \in Runs \ {r} : run'[q] = run[q]
      BY <1>2, <2>3 DEF RunRow
    <3>3. ASSUME NEW q \in Runs, NEW e \in Events, e = First(run'[q].batch)
          PROVE  /\ run'[q].pc = "mark" => Somewhere(e)'
                 /\ run'[q].pc = "fail" => faults' > 0 \/ Somewhere(e)'
      <4>1. CASE q = r
        BY <3>1, <3>2, <3>3, <4>1
      <4>2. CASE q # r
        BY <1>1, <1>2, <1>3, <1>4, <3>2, <3>3, <4>2 DEF WritesAreTraced
      <4> QED BY <4>1, <4>2
    <3>4. \A e \in Events :
            /\ outbox'[e] = "PUBLISHED" => Somewhere(e)'
            /\ outbox'[e] = "FAILED" => faults' > 0 \/ Somewhere(e)'
      BY <1>1, <1>2, <1>3, <1>4, <2>1 DEF WritesAreTraced
    <3> QED BY <3>3, <3>4 DEF WritesAreTraced
  <2> QED BY <1>8, <2>2, <2>3 DEF Publish
<1>9. ASSUME NEW r \in Runs, PublishThrows(r) \/ MarkThrows(r) PROVE WritesAreTraced'
  <2>1. /\ outbox' = outbox
        /\ run' = [run EXCEPT ![r].pc = "fail"]
        /\ run[r].pc = "mark" \/ faults' > 0
    BY <1>2, <1>4, <1>9 DEF PublishThrows, MarkThrows
  <2>2. run'[r].pc = "fail" /\ run'[r].batch = run[r].batch
        /\ \A q \in Runs \ {r} : run'[q] = run[q]
    BY <1>2, <2>1 DEF RunRow
  <2>3. ASSUME NEW q \in Runs, NEW e \in Events, e = First(run'[q].batch)
        PROVE  /\ run'[q].pc = "mark" => Somewhere(e)'
               /\ run'[q].pc = "fail" => faults' > 0 \/ Somewhere(e)'
    <3>1. CASE q = r
      BY <1>1, <1>3, <2>1, <2>2, <2>3, <3>1 DEF WritesAreTraced
    <3>2. CASE q # r
      BY <1>1, <1>2, <1>3, <1>4, <2>2, <2>3, <3>2 DEF WritesAreTraced
    <3> QED BY <3>1, <3>2
  <2>4. \A e \in Events :
          /\ outbox'[e] = "PUBLISHED" => Somewhere(e)'
          /\ outbox'[e] = "FAILED" => faults' > 0 \/ Somewhere(e)'
    BY <1>1, <1>2, <1>3, <1>4, <2>1 DEF WritesAreTraced
  <2> QED BY <2>3, <2>4 DEF WritesAreTraced
<1>10. ASSUME NEW r \in Runs, Mark(r) PROVE WritesAreTraced'
  <2> DEFINE f == First(run[r].batch)
  <2>1. \/ run[r].pc = "mark" /\ outbox' = [outbox EXCEPT ![f] = "PUBLISHED"]
        \/ run[r].pc = "fail" /\ outbox' = [outbox EXCEPT ![f] = "FAILED"]
    BY <1>10 DEF Mark
  <2>2. \A e \in Events : e = f =>
          /\ run[r].pc = "mark" => Somewhere(e)'
          /\ run[r].pc = "fail" => faults' > 0 \/ Somewhere(e)'
    BY <1>1, <1>2, <1>3, <1>4 DEF WritesAreTraced
  <2> HIDE DEF f
  <2>3. \A e \in Events :
          /\ outbox'[e] = "PUBLISHED" => Somewhere(e)'
          /\ outbox'[e] = "FAILED" => faults' > 0 \/ Somewhere(e)'
    BY <1>1, <1>2, <1>3, <1>4, <2>1, <2>2 DEF WritesAreTraced
  <2>4. \A q \in Runs : run'[q].pc \in {"mark", "fail"} => run'[q] = run[q]
    BY <1>b, <1>10 DEF Mark
  <2>5. ASSUME NEW q \in Runs, NEW e \in Events, e = First(run'[q].batch)
        PROVE  /\ run'[q].pc = "mark" => Somewhere(e)'
               /\ run'[q].pc = "fail" => faults' > 0 \/ Somewhere(e)'
    BY <1>1, <1>2, <1>3, <1>4, <2>4, <2>5 DEF WritesAreTraced
  <2> QED BY <2>3, <2>5 DEF WritesAreTraced
<1>11. ASSUME NEW k \in Callers, NEW e \in Events, Arrive(k, e) PROVE WritesAreTraced'
  BY <1>a, <1>11 DEF Arrive, publisherVars
<1>12. ASSUME NEW k \in Callers, ConnectionLost(k) PROVE WritesAreTraced'
  BY <1>a, <1>12 DEF ConnectionLost, publisherVars
<1>13. ASSUME Restart PROVE WritesAreTraced'
  BY <1>a, <1>13 DEF Restart, Rest
<1>14. ASSUME NEW s \in Slots, NEW e \in Events, Deliver(s, e) PROVE WritesAreTraced'
  BY <1>a, <1>14 DEF Deliver, publisherVars
<1>15. ASSUME NEW s \in Slots, ConsumerCheck(s) \/ ConsumerWork(s) \/ ConsumerAnswer(s) PROVE WritesAreTraced'
  BY <1>a, <1>15 DEF ConsumerCheck, ConsumerWork, ConsumerAnswer, publisherVars
<1>16. ASSUME UNCHANGED vars PROVE WritesAreTraced'
  BY <1>a, <1>16 DEF vars, publisherVars
<1>18. WritesAreTraced'
  BY <1>5, <1>6, <1>7, <1>8, <1>9, <1>10, <1>11, <1>12, <1>13, <1>14, <1>15, <1>16, <1>17
     DEF Next, Crash, ConsumeFails, ConsumerAnswerThrows
<1> QED BY <1>1, <1>18 DEF Traced

LEMMA TracedAlways == Spec => []Traced
<1>1. Init => Traced
  BY InitConsumed DEF Init, Rest, WritesAreTraced, Traced
<1> QED BY <1>1, NextTraced, PTL DEF Spec

\* An event marked PUBLISHED is on its way, at the consumer, settled, was lost with a
\* socket, or was sent before its queue was bound: the worker loses it nowhere else.
THEOREM PublishedCanBeFound == Spec => []PublishedIsSomewhere
<1>1. Traced => PublishedIsSomewhere
  BY DEF Traced, WritesAreTraced, Somewhere, PublishedIsSomewhere
<1> QED BY <1>1, TracedAlways, PTL

\* Without a fault no event is given up that was not written.
THEOREM GivenUpOnlyAfterFaults == Spec => []GivenUpWasWrittenOrCutOff
<1>1. Traced => GivenUpWasWrittenOrCutOff
  BY DEF Traced, WritesAreTraced, Somewhere, GivenUpWasWrittenOrCutOff
<1> QED BY <1>1, TracedAlways, PTL
=============================================================================
