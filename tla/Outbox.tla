------------------------------- MODULE Outbox -------------------------------
(***************************************************************************)
(* From outbox_events to a notification: the publisher of the worker       *)
(* (backend/src/workers/outboxPublisher.js), its RabbitMQ channel          *)
(* (backend/src/config/rabbitmq.js) and a consumer                         *)
(* (notificationConsumer.js; analyticsConsumer.js is the same without      *)
(* ConsumerWork).                                                          *)
(*                                                                         *)
(* The publisher runs on setInterval without waiting for the run before    *)
(* it: Runs are the ones that overlap.  They and the consumer are the      *)
(* callers of getRabbitMQChannel; they share one process and the channel   *)
(* it caches.  A caller that finds none opens a connection of its own, so  *)
(* a connection is named by the caller that opened it.  The broker keeps   *)
(* durable queues; a message the client wrote and the broker has not read  *)
(* is in wire, and there are no publisher confirms.                        *)
(***************************************************************************)
EXTENDS Naturals, FiniteSets

CONSTANTS
    MaxEvent,   \* bound: rows ever inserted in outbox_events, ids 1..MaxEvent
    Runs,       \* runs of processOutboxEvents that may overlap
    Consumer,   \* startNotificationConsumer, the other caller for a channel
    NoConn,     \* no connection
    Slots,      \* messages a consumer works on at a time (prefetch)
    MaxCopies,  \* bound: copies of one event on the connections and in the queue
    MaxFaults   \* bound: crashes of the worker and connections lost

Callers == Runs \cup {Consumer}

ASSUME OutboxAssumption ==
    /\ MaxEvent \in Nat /\ MaxCopies \in Nat /\ MaxFaults \in Nat
    /\ IsFiniteSet(Slots)
    /\ Consumer \notin Runs /\ NoConn \notin Callers

VARIABLES
    outbox,     \* outbox_events.status
    run,        \* what each run has fetched and is doing
    channel,    \* the module's channel, by its connection
    asks,       \* where each caller is in getRabbitMQChannel
    tap,        \* the channel the consumer got
    closed,     \* the connections that are closed again
    bound,      \* whether the broker has the queue and its binding
    wire,       \* the events written to each connection (bound: one copy on each)
    queue,      \* copies of each event in the queue of the broker
    consumer,   \* whether the consumer was started
    slot,       \* what each slot of the consumer is doing
    processed,  \* processed_events of the consumer
    notified,   \* notifications written for each event
    dlq,        \* events in the dead letter queue
    lost,       \* history: events that went down with a socket, or that the
                \* exchange had no queue for
    cutOff,     \* history: events the consumer had recorded when the process ended
    faults      \* crashes and lost connections so far

publisherVars == <<outbox, run>>
channelVars == <<channel, asks, tap, closed, bound>>
brokerVars == <<wire, queue, dlq, lost>>
consumerVars == <<consumer, slot, processed, notified, cutOff>>

vars == <<publisherVars, channelVars, brokerVars, consumerVars, faults>>

Events == 1..MaxEvent

Rest == [pc |-> "rest", batch |-> {}, via |-> NoConn]
Free == [pc |-> "free", event |-> 0]

None == [e \in Events |-> 0]

\* The event a run is at: ORDER BY id ASC.
First(batch) == CHOOSE e \in batch : \A f \in batch : e <= f

Carriers(e) == {k \in Callers : e \in wire[k]}

OnItsWay(e) == queue[e] > 0 \/ Carriers(e) # {}

Open(k) == k # NoConn /\ k \notin closed

Init ==
    /\ outbox = [e \in Events |-> "NONE"]
    /\ run = [r \in Runs |-> Rest]
    /\ channel = NoConn
    /\ asks = [k \in Callers |-> "no"]
    /\ tap = NoConn
    /\ closed = {}
    /\ bound = FALSE
    /\ wire = [k \in Callers |-> {}] /\ queue = None
    /\ consumer = "starting"
    /\ slot = [s \in Slots |-> Free]
    /\ processed = {} /\ dlq = {} /\ lost = {} /\ cutOff = {}
    /\ notified = None
    /\ faults = 0

\* createEventTx: a service commits a transaction with an event in it.
CreateEvent(e) ==
    /\ outbox[e] = "NONE"
    /\ outbox' = [outbox EXCEPT ![e] = "PENDING"]
    /\ UNCHANGED <<run, channelVars, brokerVars, consumerVars, faults>>

\* fetchPendingEvents: the row locks end with its COMMIT, before anything is sent.
Fetch(r) ==
    /\ run[r] = Rest
    /\ \E e \in Events : outbox[e] = "PENDING"
    /\ run' = [run EXCEPT ![r].pc = "fetched",
                           ![r].batch = {e \in Events : outbox[e] = "PENDING"}]
    /\ UNCHANGED <<outbox, channelVars, brokerVars, consumerVars, faults>>

-----------------------------------------------------------------------------
\* What was not settled on the consumer's channel goes back to the queue.
Requeued ==
    [e \in Events |-> queue[e] + Cardinality({s \in Slots : slot[s].event = e})]

\* What the consumer recorded and has not answered.
AtWork == {e \in Events : \E s \in Slots : slot[s].event = e /\ slot[s].pc \in {"work", "reject"}}

\* The process ends and docker starts it again: its variables are new.
Restart ==
    /\ run' = [r \in Runs |-> Rest]
    /\ channel' = NoConn
    /\ asks' = [k \in Callers |-> "no"]
    /\ tap' = NoConn
    /\ closed' = {}
    /\ wire' = [k \in Callers |-> {}]
    /\ lost' = lost \cup UNION {wire[k] : k \in Callers}
    /\ queue' = IF Open(tap) THEN Requeued ELSE queue
    /\ consumer' = "starting"
    /\ slot' = [s \in Slots |-> Free]
    /\ cutOff' = cutOff \cup AtWork
    /\ UNCHANGED <<outbox, bound, dlq, processed, notified>>

-----------------------------------------------------------------------------
\* getRabbitMQChannel, asked for by a run with events and by the consumer once per process.
Asking(k) == IF k = Consumer THEN consumer = "starting" ELSE run[k].pc = "fetched"

\* With a channel the run publishes and the consumer consumes, unless it is closed.
Gets(k, c) ==
    IF k = Consumer
    THEN consumer' = (IF c \in closed THEN "off" ELSE "on") /\ tap' = c /\ UNCHANGED run
    ELSE run' = [run EXCEPT ![k].pc = "publish", ![k].via = c] /\ UNCHANGED <<consumer, tap>>

\* Mutant: without a channel the run marks its events FAILED.
GetsNone_GivesUp(k) ==
    IF k = Consumer
    THEN consumer' = "off" /\ UNCHANGED run
    ELSE run' = [run EXCEPT ![k].pc = "fail"] /\ UNCHANGED consumer

\* Without one the run ends and leaves its events; the consumer gives up.
GetsNone(k) ==
    IF k = Consumer
    THEN consumer' = "off" /\ UNCHANGED run
    ELSE run' = [run EXCEPT ![k] = Rest] /\ UNCHANGED consumer

\* The cached channel, whatever became of it and however far its setup is.
CachedChannel(k) ==
    /\ Asking(k) /\ asks[k] = "no" /\ channel # NoConn
    /\ Gets(k, channel)
    /\ UNCHANGED <<outbox, channel, asks, closed, bound, brokerVars, slot, processed,
                   notified, cutOff, faults>>

\* None is cached: the caller starts to connect, as others may be doing.
Connect(k) ==
    /\ Asking(k) /\ asks[k] = "no" /\ channel = NoConn
    /\ asks' = [asks EXCEPT ![k] = "connect"]
    /\ UNCHANGED <<publisherVars, channel, tap, closed, bound, brokerVars, consumerVars, faults>>

\* createChannel answers: the channel is the module's before its setup begins.
Connected(k) ==
    /\ asks[k] = "connect"
    /\ asks' = [asks EXCEPT ![k] = "setup"]
    /\ channel' = k
    /\ UNCHANGED <<publisherVars, tap, closed, bound, brokerVars, consumerVars, faults>>

\* The asserts and binds of a setup reach the broker, on the module's channel.
Bind(k) ==
    /\ asks[k] = "setup" /\ Open(channel) /\ ~bound
    /\ bound' = TRUE
    /\ UNCHANGED <<publisherVars, channel, asks, tap, closed, brokerVars, consumerVars, faults>>

\* The setup is answered: the caller gets what is the module's channel by now.
SetUp(k) ==
    /\ asks[k] = "setup" /\ Open(channel) /\ bound
    /\ asks' = [asks EXCEPT ![k] = "no"]
    /\ Gets(k, channel)
    /\ UNCHANGED <<outbox, channel, closed, bound, brokerVars, slot, processed, notified,
                   cutOff, faults>>

\* The broker takes no connection, or the module's channel was closed during the
\* setup; then it stays cached.
NotConnected(k) ==
    /\ asks[k] = "connect" \/ (asks[k] = "setup" /\ channel \in closed)
    /\ asks' = [asks EXCEPT ![k] = "no"]
    /\ GetsNone(k)
    /\ UNCHANGED <<outbox, channel, tap, closed, bound, brokerVars, slot, processed,
                   notified, cutOff, faults>>

\* The consumer got a channel before the queue was there: the broker answers with
\* a 404, an 'error' event nobody listens to.
ConsumeFails ==
    /\ consumer = "on" /\ Open(tap) /\ ~bound
    /\ UNCHANGED faults
    /\ Restart

-----------------------------------------------------------------------------
\* The rest of a run once it is done with its first event.
Advance(r) ==
    LET left == run[r].batch \ {First(run[r].batch)}
    IN  run' = [run EXCEPT ![r] = IF left = {} THEN Rest
                                  ELSE [@ EXCEPT !.pc = "publish", !.batch = left]]

\* channel.publish writes the message; false means the buffer is full, and the
\* row stays PENDING though the message is on its way.
Publish(r) ==
    LET e == First(run[r].batch)
        k == run[r].via
    IN  /\ run[r].pc = "publish" /\ Open(k)
        /\ e \notin wire[k] /\ Cardinality(Carriers(e)) + queue[e] < MaxCopies
        /\ wire' = [wire EXCEPT ![k] = @ \cup {e}]
        /\ \/ run' = [run EXCEPT ![r].pc = "mark"]
           \/ Advance(r)
        /\ UNCHANGED <<outbox, channelVars, queue, dlq, lost, consumerVars, faults>>

\* Mutant: the error is swallowed and the row marked PUBLISHED.
PublishThrows_Ignored(r) ==
    /\ run[r].pc = "publish" /\ run[r].via \in closed
    /\ run' = [run EXCEPT ![r].pc = "mark"]
    /\ UNCHANGED <<outbox, channelVars, brokerVars, consumerVars, faults>>

\* channel.publish throws on a closed channel.
PublishThrows(r) ==
    /\ run[r].pc = "publish" /\ run[r].via \in closed
    /\ run' = [run EXCEPT ![r].pc = "fail"]
    /\ UNCHANGED <<outbox, channelVars, brokerVars, consumerVars, faults>>

\* markPublished and markFailed: UPDATE by id, whatever the status is.
Mark(r) ==
    /\ \/ /\ run[r].pc = "mark"
          /\ outbox' = [outbox EXCEPT ![First(run[r].batch)] = "PUBLISHED"]
       \/ /\ run[r].pc = "fail"
          /\ outbox' = [outbox EXCEPT ![First(run[r].batch)] = "FAILED"]
    /\ Advance(r)
    /\ UNCHANGED <<channelVars, brokerVars, consumerVars, faults>>

\* markPublished fails: the catch marks the event FAILED.
MarkThrows(r) ==
    /\ run[r].pc = "mark"
    /\ run' = [run EXCEPT ![r].pc = "fail"]
    /\ UNCHANGED <<outbox, channelVars, brokerVars, consumerVars, faults>>

-----------------------------------------------------------------------------
\* The broker reads a message off a connection; the exchange drops what no queue
\* is bound for.
Arrive(k, e) ==
    /\ e \in wire[k]
    /\ wire' = [wire EXCEPT ![k] = @ \ {e}]
    /\ IF bound
       THEN queue' = [queue EXCEPT ![e] = @ + 1] /\ UNCHANGED lost
       ELSE lost' = lost \cup {e} /\ UNCHANGED queue
    /\ UNCHANGED <<publisherVars, channelVars, dlq, consumerVars, faults>>

\* The connections that somebody holds or that carry something.
InUse ==
    {k \in Callers : k \in {channel, tap} \/ wire[k] # {} \/ \E r \in Runs : run[r].via = k}

\* The broker closes a connection in good order: no 'error' event, so the worker
\* lives on with the channel it cached.
ConnectionLost(k) ==
    /\ k \in InUse \ closed /\ faults < MaxFaults
    /\ closed' = closed \cup {k}
    /\ lost' = lost \cup wire[k]
    /\ wire' = [wire EXCEPT ![k] = {}]
    /\ queue' = IF tap = k THEN Requeued ELSE queue
    /\ faults' = faults + 1
    /\ UNCHANGED <<publisherVars, channel, asks, tap, bound, dlq, consumerVars>>

\* SIGTERM, a lost socket (an 'error' event nobody listens to), a markFailed that
\* throws: every rejection in a timer callback ends the process.
Crash ==
    /\ faults < MaxFaults
    /\ faults' = faults + 1
    /\ Restart

-----------------------------------------------------------------------------
Deliver(s, e) ==
    /\ consumer = "on" /\ Open(tap)
    /\ slot[s].pc = "free" /\ queue[e] > 0
    /\ queue' = [queue EXCEPT ![e] = @ - 1]
    /\ slot' = [slot EXCEPT ![s] = [pc |-> "check", event |-> e]]
    /\ UNCHANGED <<publisherVars, channelVars, wire, dlq, lost, consumer,
                   processed, notified, cutOff, faults>>

\* Mutant: a lookup that records nothing.
ConsumerCheck_Lookup(s) ==
    /\ slot[s].pc = "check"
    /\ slot' = [slot EXCEPT ![s].pc = IF slot[s].event \in processed THEN "ack" ELSE "work"]
    /\ UNCHANGED <<publisherVars, channelVars, brokerVars, consumer, processed, notified,
                   cutOff, faults>>

\* isEventProcessed: INSERT ON CONFLICT DO NOTHING, committed before the work.  When
\* it throws, the message is rejected, recorded or not.
ConsumerCheck(s) ==
    /\ slot[s].pc = "check"
    /\ \/ /\ processed' = processed \cup {slot[s].event}
          /\ slot' = [slot EXCEPT ![s].pc = IF slot[s].event \in processed THEN "ack" ELSE "work"]
       \/ /\ processed' \in {processed, processed \cup {slot[s].event}}
          /\ slot' = [slot EXCEPT ![s].pc = "reject"]
    /\ UNCHANGED <<publisherVars, channelVars, brokerVars, consumer, notified, cutOff, faults>>

\* Mutant: a message whose work failed is acknowledged.
ConsumerWork_AcksFailure(s) ==
    /\ slot[s].pc = "work"
    /\ slot' = [slot EXCEPT ![s].pc = "ack"]
    /\ \/ notified' = [notified EXCEPT ![slot[s].event] = @ + 1]
       \/ UNCHANGED notified
    /\ UNCHANGED <<publisherVars, channelVars, brokerVars, consumer, processed, cutOff, faults>>

\* createNotification and recordDeliveryAttempt; either may fail, the second
\* after the first has committed.
ConsumerWork(s) ==
    /\ slot[s].pc = "work"
    /\ \/ /\ notified' = [notified EXCEPT ![slot[s].event] = @ + 1]
          /\ \/ slot' = [slot EXCEPT ![s].pc = "ack"]
             \/ slot' = [slot EXCEPT ![s].pc = "reject"]
       \/ /\ slot' = [slot EXCEPT ![s].pc = "reject"]
          /\ UNCHANGED notified
    /\ UNCHANGED <<publisherVars, channelVars, brokerVars, consumer, processed, cutOff, faults>>

\* channel.ack, or channel.reject without requeue: to the dead letter queue.
ConsumerAnswer(s) ==
    /\ slot[s].pc \in {"ack", "reject"} /\ Open(tap)
    /\ slot' = [slot EXCEPT ![s] = Free]
    /\ dlq' = IF slot[s].pc = "reject" THEN dlq \cup {slot[s].event} ELSE dlq
    /\ UNCHANGED <<publisherVars, channelVars, wire, queue, lost, consumer,
                   processed, notified, cutOff, faults>>

\* On a closed channel ack throws, and so does the reject of the catch.
ConsumerAnswerThrows(s) ==
    /\ slot[s].pc \in {"ack", "reject"} /\ tap \in closed
    /\ UNCHANGED faults
    /\ Restart

Next ==
    \/ \E e \in Events :
        \/ CreateEvent(e)
        \/ \E k \in Callers : Arrive(k, e)
        \/ \E s \in Slots : Deliver(s, e)
    \/ \E r \in Runs :
        \/ Fetch(r)
        \/ Publish(r)
        \/ PublishThrows(r)
        \/ Mark(r)
        \/ MarkThrows(r)
    \/ \E k \in Callers :
        \/ CachedChannel(k)
        \/ Connect(k)
        \/ Connected(k)
        \/ Bind(k)
        \/ SetUp(k)
        \/ NotConnected(k)
        \/ ConnectionLost(k)
    \/ ConsumeFails
    \/ Crash
    \/ \E s \in Slots :
        \/ ConsumerCheck(s)
        \/ ConsumerWork(s)
        \/ ConsumerAnswer(s)
        \/ ConsumerAnswerThrows(s)

Spec == Init /\ [][Next]_vars

-----------------------------------------------------------------------------
\* The variables have their types, and only an open connection carries anything.
TypeOK ==
    /\ outbox \in [Events -> {"NONE", "PENDING", "PUBLISHED", "FAILED"}]
    /\ run \in [Runs -> [pc : {"rest", "fetched", "publish", "mark", "fail"}, batch : SUBSET Events,
                      via : Callers \cup {NoConn}]]
    /\ \A r \in Runs : run[r].batch = {} <=> run[r].pc = "rest"
    /\ channel \in Callers \cup {NoConn}
    /\ asks \in [Callers -> {"no", "connect", "setup"}]
    /\ tap \in Callers \cup {NoConn}
    /\ closed \in SUBSET Callers
    /\ bound \in BOOLEAN
    /\ wire \in [Callers -> SUBSET Events]
    /\ \A k \in closed : wire[k] = {}
    /\ queue \in [Events -> Nat]
    /\ consumer \in {"starting", "on", "off"}
    /\ slot \in [Slots -> [pc : {"free", "check", "work", "ack", "reject"}, event : 0..MaxEvent]]
    /\ notified \in [Events -> Nat]
    /\ processed \in SUBSET Events /\ dlq \in SUBSET Events
    /\ lost \in SUBSET Events /\ cutOff \in SUBSET Events
    /\ faults \in 0..MaxFaults

\* However often an event is published or redelivered, by overlapping runs, a
\* full buffer, a lost connection or a crash, its customer is notified once at
\* most (notificationConsumer.js:23-29).
NotifiedOnce == \A e \in Events : notified[e] <= 1

\* An event marked PUBLISHED was written: it is on its way or at the consumer, it
\* was recorded or dead-lettered, it went down with a socket, or the exchange
\* dropped it because a channel is handed out before its queue is bound
\* (rabbitmq.js:13).  The worker loses it nowhere else (outboxPublisher.js:36-49).
PublishedIsSomewhere ==
    \A e \in Events : outbox[e] = "PUBLISHED" =>
        \/ OnItsWay(e)
        \/ \E s \in Slots : slot[s].event = e
        \/ e \in processed \cup dlq \cup lost

\* An event the consumer has recorded, whose redeliveries it skips from then on, is
\* notified, in the dead letter queue, being worked on, or was being worked on when
\* the process ended: no other event is skipped without a trace
\* (notificationConsumer.js:24-70).
RecordedIsAnswered ==
    \A e \in processed :
        \/ notified[e] = 1
        \/ e \in dlq \cup cutOff
        \/ \E s \in Slots : slot[s].event = e /\ slot[s].pc \in {"work", "reject"}

\* An event is given up (FAILED is never fetched again) only if it was written
\* all the same, or if a connection had been lost by then: a broker that cannot be
\* reached costs no event its turn ("Outbox events remain PENDING",
\* outboxPublisher.js:21, 44-49).
GivenUpWasWrittenOrCutOff ==
    \A e \in Events : outbox[e] = "FAILED" =>
        \/ faults > 0
        \/ OnItsWay(e)
        \/ \E s \in Slots : slot[s].event = e
        \/ e \in processed \cup dlq \cup lost
=============================================================================
