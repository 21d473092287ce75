------------------------------ MODULE Webhooks ------------------------------
(***************************************************************************)
(* How a payment callback travels: the gateway's senders, which retry with *)
(* a growing delay (sendWebhookWithRetry and /charge in gateway/server.js),*)
(* the limiter every replica keeps in its own memory                       *)
(* (backend/src/middleware/rateLimiter.js) and the handler of              *)
(* /webhooks/payment, whose transaction makes an event act once            *)
(* (processWebhookCallback in backend/src/services/paymentService.js).     *)
(*                                                                         *)
(* A charge has a first sender and, when the gateway draws a duplicate, a  *)
(* second one.  A sender whose request fails goes on to its next attempt   *)
(* while the handler of the failed one may still be running.  What acting  *)
(* on an event does is the matter of Checkout; here it is counted.         *)
(***************************************************************************)
EXTENDS Naturals

CONSTANTS
    Charges,     \* charges made at the gateway
    Replicas,    \* API processes behind the callback URL
    Handlers,    \* webhook requests served at the same time
    MaxRetries,  \* attempts of a sender, 8 in the code
    MaxHooks     \* webhooks a replica admits per window, 60 in the code

ASSUME WebhooksAssumption == MaxRetries \in Nat \ {0} /\ MaxHooks \in Nat \ {0}

VARIABLES
    verdict,   \* the status in the event of a charge, once /charge answered 202
    sender,    \* the loop of sendWebhookWithRetry, per charge and copy
    hook,      \* what each handler is doing
    used,      \* requests counted by the limiter of a replica in this window
    recorded,  \* payment_events, committed
    acts       \* history: transactions that acted on the event of a charge

vars == <<verdict, sender, hook, used, recorded, acts>>

Copies == 1..2
Verdicts == {"SUCCEEDED", "FAILED"}

\* timer: a setTimeout runs.  out: fetch has not returned.
Sender == [pc : {"none", "timer", "out", "delivered", "gaveUp", "gone"}, tries : 0..MaxRetries]
Ended == {"none", "delivered", "gaveUp", "gone"}

\* heard: the sender still waits for the answer of this handler.
Idle == [pc |-> "idle"]
Hook == {Idle} \cup [pc : {"begun", "tx", "ok", "bad"}, charge : Charges, copy : Copies,
                     replica : Replicas, heard : BOOLEAN]

Init ==
    /\ verdict = [c \in Charges |-> "NONE"]
    /\ sender = [c \in Charges |-> [i \in Copies |-> [pc |-> "none", tries |-> 0]]]
    /\ hook = [h \in Handlers |-> Idle]
    /\ used = [r \in Replicas |-> 0]
    /\ recorded = {}
    /\ acts = [c \in Charges |-> 0]

Sends(c, i, pc) == sender' = [sender EXCEPT ![c][i].pc = pc]
Serves(h, pc) == hook' = [hook EXCEPT ![h].pc = pc]

-----------------------------------------------------------------------------
\* Mutant: a charge asked for again is decided again.
Charge_Again(c, v) ==
    /\ verdict' = [verdict EXCEPT ![c] = v]
    /\ Sends(c, 1, "timer")
    /\ UNCHANGED <<hook, used, recorded, acts>>

\* /charge up to the 202: the verdict, and the timer of the first sender.  The
\* 400 and 500 answers leave nothing behind.
Charge(c, v) ==
    /\ verdict[c] = "NONE"
    /\ verdict' = [verdict EXCEPT ![c] = v]
    /\ Sends(c, 1, "timer")
    /\ UNCHANGED <<hook, used, recorded, acts>>

\* One turn of the loop: the attempt is counted before the call.  When the first
\* timer of a charge fires, the gateway may start a second sender as well.
Attempt(c, i, pc) ==
    LET turn == [pc |-> pc, tries |-> sender[c][i].tries + 1] IN
    /\ sender[c][i].pc = "timer" /\ sender[c][i].tries < MaxRetries
    /\ \/ sender' = [sender EXCEPT ![c][i] = turn]
       \/ /\ i = 1 /\ sender[c][1].tries = 0
          /\ sender' = [sender EXCEPT ![c] =
                          [j \in Copies |-> IF j = 1 THEN turn ELSE [pc |-> "timer", tries |-> 0]]]

\* The request reaches a replica, whose limiter lets it through to the handler.
Arrive(c, i, h, r) ==
    /\ hook[h] = Idle
    /\ used[r] < MaxHooks
    /\ Attempt(c, i, "out")
    /\ used' = [used EXCEPT ![r] = @ + 1]
    /\ hook' = [hook EXCEPT ![h] = [pc |-> "begun", charge |-> c, copy |-> i,
                                    replica |-> r, heard |-> TRUE]]
    /\ UNCHANGED <<verdict, recorded, acts>>

\* 429 of a replica whose window is full: the sender waits for its next attempt.
Limited(c, i, r) ==
    /\ used[r] = MaxHooks
    /\ Attempt(c, i, "timer")
    /\ UNCHANGED <<verdict, hook, used, recorded, acts>>

\* fetch throws before anything has arrived.
Unreachable(c, i) ==
    /\ Attempt(c, i, "timer")
    /\ UNCHANGED <<verdict, hook, used, recorded, acts>>

\* The loop ends after its last delay; the event is never sent again.
GiveUp(c, i) ==
    /\ sender[c][i].pc = "timer" /\ sender[c][i].tries = MaxRetries
    /\ Sends(c, i, "gaveUp")
    /\ UNCHANGED <<verdict, hook, used, recorded, acts>>

\* Mutant: payment_events is looked up, and nothing waits for anybody.
Insert_Unlocked(h) ==
    /\ hook[h].pc = "begun"
    /\ Serves(h, IF hook[h].charge \in recorded THEN "ok" ELSE "tx")
    /\ UNCHANGED <<verdict, sender, used, recorded, acts>>

\* BEGIN and INSERT ... ON CONFLICT DO NOTHING: it waits for a transaction that
\* has inserted the same event_id, then either it is the first or a duplicate,
\* which is answered 200 like the first.
Insert(h) ==
    /\ hook[h].pc = "begun"
    /\ \A g \in Handlers : hook[g].pc = "tx" => hook[g].charge # hook[h].charge
    /\ Serves(h, IF hook[h].charge \in recorded THEN "ok" ELSE "tx")
    /\ UNCHANGED <<verdict, sender, used, recorded, acts>>

\* COMMIT: the event and what it did, together.
Commit(h) ==
    /\ hook[h].pc = "tx"
    /\ Serves(h, "ok")
    /\ recorded' = recorded \cup {hook[h].charge}
    /\ acts' = [acts EXCEPT ![hook[h].charge] = @ + 1]
    /\ UNCHANGED <<verdict, sender, used>>

\* ROLLBACK on any error of the database, and 500.
Rollback(h) ==
    /\ hook[h].pc \in {"begun", "tx"}
    /\ Serves(h, "bad")
    /\ UNCHANGED <<verdict, sender, used, recorded, acts>>

\* Mutant: any answer ends the loop.
Answer_AnyStatus(h) ==
    /\ hook[h].pc \in {"ok", "bad"}
    /\ hook' = [hook EXCEPT ![h] = Idle]
    /\ IF hook[h].heard THEN Sends(hook[h].charge, hook[h].copy, "delivered")
                        ELSE UNCHANGED sender
    /\ UNCHANGED <<verdict, used, recorded, acts>>

\* Mutant: a sender that was refused forgets to set its timer.
Answer_NoTimer(h) ==
    /\ hook[h].pc \in {"ok", "bad"}
    /\ hook' = [hook EXCEPT ![h] = Idle]
    /\ IF hook[h].heard /\ hook[h].pc = "ok"
       THEN Sends(hook[h].charge, hook[h].copy, "delivered") ELSE UNCHANGED sender
    /\ UNCHANGED <<verdict, used, recorded, acts>>

\* The answer: response.ok ends the loop, anything else sets the next timer.
Answer(h) ==
    /\ hook[h].pc \in {"ok", "bad"}
    /\ hook' = [hook EXCEPT ![h] = Idle]
    /\ IF hook[h].heard
       THEN Sends(hook[h].charge, hook[h].copy, IF hook[h].pc = "ok" THEN "delivered" ELSE "timer")
       ELSE UNCHANGED sender
    /\ UNCHANGED <<verdict, used, recorded, acts>>

\* Mutant: the answer to an attempt given up still ends the loop.
AnswerLost_Heard(h) ==
    /\ hook[h] # Idle /\ hook[h].heard
    /\ Sends(hook[h].charge, hook[h].copy, "timer")
    /\ UNCHANGED <<verdict, hook, used, recorded, acts>>

\* fetch throws while the handler works on: its answer will reach nobody.
AnswerLost(h) ==
    /\ hook[h] # Idle /\ hook[h].heard
    /\ hook' = [hook EXCEPT ![h].heard = FALSE]
    /\ Sends(hook[h].charge, hook[h].copy, "timer")
    /\ UNCHANGED <<verdict, used, recorded, acts>>

\* A replica dies and comes back: its transactions are rolled back, its senders
\* see the connection break, and its limiter starts from nothing.
ReplicaCrash(r) ==
    LET here == {h \in Handlers : hook[h] # Idle /\ hook[h].replica = r} IN
    /\ hook' = [h \in Handlers |-> IF h \in here THEN Idle ELSE hook[h]]
    /\ sender' = [c \in Charges |-> [i \in Copies |->
                    IF \E h \in here : hook[h].charge = c /\ hook[h].copy = i /\ hook[h].heard
                    THEN [sender[c][i] EXCEPT !.pc = "timer"] ELSE sender[c][i]]]
    /\ used' = [used EXCEPT ![r] = 0]
    /\ UNCHANGED <<verdict, recorded, acts>>

\* The gateway dies: senders and timers were only in its memory.
GatewayCrash ==
    /\ sender' = [c \in Charges |-> [i \in Copies |->
                    [sender[c][i] EXCEPT !.pc = IF @ \in Ended THEN @ ELSE "gone"]]]
    /\ hook' = [h \in Handlers |-> IF hook[h] = Idle THEN Idle ELSE [hook[h] EXCEPT !.heard = FALSE]]
    /\ UNCHANGED <<verdict, used, recorded, acts>>

\* A minute is over; an OTP callback takes from the same window.
WindowResets(r) ==
    /\ used' = [used EXCEPT ![r] = 0]
    /\ UNCHANGED <<verdict, sender, hook, recorded, acts>>

OtherHook(r) ==
    /\ used[r] < MaxHooks
    /\ used' = [used EXCEPT ![r] = @ + 1]
    /\ UNCHANGED <<verdict, sender, hook, recorded, acts>>

\* One pass of the sender's loop, however it turns out.
Send(c, i) ==
    \/ \E r \in Replicas : (\E h \in Handlers : Arrive(c, i, h, r)) \/ Limited(c, i, r)
    \/ Unreachable(c, i)
    \/ GiveUp(c, i)

Next ==
    \/ \E c \in Charges :
        \/ \E v \in Verdicts : Charge(c, v)
        \/ \E i \in Copies : Send(c, i)
    \/ \E h \in Handlers :
        \/ Insert(h)
        \/ Commit(h)
        \/ Rollback(h)
        \/ Answer(h)
        \/ AnswerLost(h)
    \/ \E r \in Replicas : ReplicaCrash(r) \/ WindowResets(r) \/ OtherHook(r)
    \/ GatewayCrash

Spec == Init /\ [][Next]_vars

\* The request a sender waits for.
Awaited(c, i, h) ==
    hook[h] # Idle /\ hook[h].heard /\ hook[h].charge = c /\ hook[h].copy = i

Served(c, i) == \E h \in Handlers : Awaited(c, i, h) /\ (Insert(h) \/ Commit(h) \/ Rollback(h))
Answered(c, i) == \E h \in Handlers : Awaited(c, i, h) /\ Answer(h)

\* Timers fire, and a request somebody waits for is served and answered.
SenderFairness(c, i) ==
    WF_vars(Send(c, i)) /\ WF_vars(Served(c, i)) /\ WF_vars(Answered(c, i))

Fairness == \A c \in Charges, i \in Copies : SenderFairness(c, i)

FairSpec == Spec /\ Fairness

-----------------------------------------------------------------------------
\* The variables have their types.
TypeOK ==
    /\ verdict \in [Charges -> Verdicts \cup {"NONE"}]
    /\ sender \in [Charges -> [Copies -> Sender]]
    /\ hook \in [Handlers -> Hook]
    /\ used \in [Replicas -> 0..MaxHooks]
    /\ recorded \in SUBSET Charges
    /\ acts \in [Charges -> Nat]

\* Nothing is sent of a charge that is not decided, and the duplicate only once
\* the first sender is on its way (gateway/server.js:112-118).
SentWasDecided ==
    /\ \A c \in Charges, i \in Copies : sender[c][i].pc # "none" => verdict[c] # "NONE"
    /\ \A c \in Charges : sender[c][1].tries = 0 => sender[c][2].pc = "none"
    /\ \A h \in Handlers : hook[h] # Idle => verdict[hook[h].charge] # "NONE"

\* An answer ends the attempt that asked for it and no other: a handler that is
\* heard has a sender waiting, and no two handlers have the same one, though
\* lost answers, crashes and retries leave old requests running
\* (gateway/server.js:23-48).
AnswersTheAttempt ==
    /\ \A h \in Handlers : hook[h] # Idle /\ hook[h].heard =>
          sender[hook[h].charge][hook[h].copy].pc = "out"
    /\ \A g, h \in Handlers :
          /\ hook[g] # Idle /\ hook[h] # Idle /\ hook[g].heard /\ hook[h].heard
          /\ hook[g].charge = hook[h].charge /\ hook[g].copy = hook[h].copy
          => g = h

\* Two copies of an event, or an attempt and the one before it that was taken
\* for lost, are never both inside the transaction of the event
\* (paymentRepository.js:72-81).
OneTransaction ==
    \A g, h \in Handlers :
        hook[g].pc = "tx" /\ hook[h].pc = "tx" /\ hook[g].charge = hook[h].charge => g = h

\* ... and the one that is inside is the first to act on it.
TransactionIsFirst == \A h \in Handlers : hook[h].pc = "tx" => hook[h].charge \notin recorded

\* However often an event is sent, and on however many replicas its copies run
\* at once, what it does is done once, and exactly when it is recorded.
EventActsOnce == \A c \in Charges : acts[c] = IF c \in recorded THEN 1 ELSE 0

\* The gateway stops sending as delivered only what is committed: a 200 is never
\* given before the COMMIT, nor for a rolled back or refused request
\* (webhookController.js:11).
DeliveredWasRecorded ==
    /\ \A c \in Charges, i \in Copies : sender[c][i].pc = "delivered" => c \in recorded
    /\ \A h \in Handlers : hook[h].pc = "ok" => hook[h].charge \in recorded

\* A callback comes to an end: every sender delivers, gives up after its last
\* attempt, or is lost with the gateway; none waits for ever.
SendersEnd == \A c \in Charges, i \in Copies : []<>(sender[c][i].pc \in Ended)

\* The guards of what fairness asks for: a timer is followed by an attempt or the
\* end of the loop, a request at work by a step of its handler.
CallbacksCanRun ==
    \A c \in Charges, i \in Copies :
        /\ sender[c][i].pc = "timer" => ENABLED <<Send(c, i)>>_vars
        /\ \A h \in Handlers : Awaited(c, i, h) =>
              IF hook[h].pc \in {"begun", "tx"} THEN ENABLED <<Served(c, i)>>_vars
                                                ELSE ENABLED <<Answered(c, i)>>_vars

\* The abstract callbacks, and that this module implements them.
Promise == INSTANCE Callbacks WITH acted <- {c \in Charges : acts[c] > 0}

CallbacksAreKept == Promise!Spec
=============================================================================
