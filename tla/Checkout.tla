------------------------------ MODULE Checkout ------------------------------
(***************************************************************************)
(* Buying a held seat: the payments and payment_events tables, the API     *)
(* handlers of charge, payment webhook and refund                          *)
(* (backend/src/services/paymentService.js), the reconciler of the worker  *)
(* (backend/src/workers/paymentReconciler.js) and the gateway              *)
(* (gateway/server.js), over the seats and bookings of SeatBooking.        *)
(*                                                                         *)
(* A handler is a request some API replica is serving.  It holds in        *)
(* job[h] what it has read so far; any other request may run between two   *)
(* of its steps.  Transactions are single steps, as in SeatBooking.  The   *)
(* timer of the reconciler does not wait for its last run: runs overlap,   *)
(* each with a list of its own.                                            *)
(***************************************************************************)
EXTENDS SeatBooking, Sequences

CONSTANTS
    Keys,         \* idempotency keys the clients send
    Handlers,     \* requests served at the same time
    Reconcilers,  \* runs of the reconciler under way at the same time
    MaxPayments,  \* bound: rows ever inserted in payments
    StuckAge      \* the two minutes of the reconciler, in ticks

ASSUME PaymentAssumption == MaxPayments \in Nat /\ StuckAge \in Nat

ASSUME ReconcilerAssumption == Reconcilers # {} /\ Reconcilers \cap Handlers = {}

\* Who runs the transactions of paymentService.
Jobs == Handlers \cup Reconcilers

VARIABLES
    pay,       \* payments, in the order of created_at
    gateway,   \* the gateway's verdict on the charge of a payment, once it has one
    recorded,  \* payment_events: the gateway events seen
    job,       \* what each handler, and each run of the reconciler, is doing
    stuck      \* the payments each run of the reconciler still has to fail

payVars == <<pay, gateway, recorded, job, stuck>>
vars == <<now, seat, booking, cancelling, sweep, trespass, pay, gateway, recorded, job, stuck>>

PaymentIds == 1..MaxPayments

PaymentRow ==
    [booking : Bookings, key : Keys, created : Nat,
     status : {"PENDING", "SUCCEEDED", "FAILED", "REFUNDED"}]

Verdicts == {"SUCCEEDED", "FAILED"}

\* The gateway sends one event per charge it accepts, named by the payment.
\* The reconciler makes up a fresh event_id each time: it is never a duplicate.
ReconcileEvent == 0

Idle == [pc |-> "idle"]

Job ==
    {Idle}
        \cup [pc : {"charge"}, booking : Bookings, key : Keys]
        \cup [pc : {"send"}, pay : PaymentIds]
        \cup [pc : {"hook"}, event : PaymentIds \cup {ReconcileEvent}, booking : Bookings,
              status : Verdicts, pay : PaymentIds,
              seen : {"PENDING", "SUCCEEDED", "FAILED", "REFUNDED"}]
        \cup [pc : {"refund"}, pay : PaymentIds]

-----------------------------------------------------------------------------
\* findByBookingRef: the newest payment of the booking.
Newest(p, b) ==
    /\ p \in DOMAIN pay /\ pay[p].booking = b
    /\ \A q \in DOMAIN pay : pay[q].booking = b => q <= p

\* findByIdempotencyKey, and the UNIQUE constraint on the column.
KeyUsed(k) == \E p \in DOMAIN pay : pay[p].key = k

\* updateStatusTx of payments: no guard on the status the row has.
SetPayment(p, status) == pay' = [pay EXCEPT ![p].status = status]

\* The job of a handler once it ends.
Done(h) == job' = [job EXCEPT ![h] = Idle]

Init ==
    /\ SeatInit
    /\ pay = <<>>
    /\ gateway = [p \in PaymentIds |-> "NONE"]
    /\ recorded = {}
    /\ job = [h \in Jobs |-> Idle]
    /\ stuck = [r \in Reconcilers |-> {}]

\* initiateCharge up to BEGIN: the booking is PENDING and the key is new.  That
\* the hold still runs is not asked.
ChargeRead(h, b, k) ==
    /\ job[h] = Idle
    /\ booking[b].status = "PENDING"
    /\ ~KeyUsed(k)
    /\ job' = [job EXCEPT ![h] = [pc |-> "charge", booking |-> b, key |-> k]]
    /\ UNCHANGED <<seatVars, pay, gateway, recorded, stuck>>

\* initiateCharge, the INSERT: the row is there before the gateway is called.
\* If the key came into use meanwhile the INSERT fails (ChargeRejected).
ChargeCreate(h) ==
    /\ job[h].pc = "charge"
    /\ ~KeyUsed(job[h].key)
    /\ Len(pay) < MaxPayments
    /\ pay' = Append(pay, [booking |-> job[h].booking, key |-> job[h].key,
                           created |-> now, status |-> "PENDING"])
    /\ job' = [job EXCEPT ![h] = [pc |-> "send", pay |-> Len(pay) + 1]]
    /\ UNCHANGED <<seatVars, gateway, recorded, stuck>>

ChargeRejected(h) ==
    /\ job[h].pc = "charge"
    /\ KeyUsed(job[h].key)
    /\ Done(h)
    /\ UNCHANGED <<seatVars, pay, gateway, recorded, stuck>>

\* Mutant: a charge whose answer timed out is sent again.
ChargeSend_Retried(h, verdict) ==
    /\ job[h].pc = "send"
    /\ gateway' = [gateway EXCEPT ![job[h].pay] = verdict]
    /\ UNCHANGED <<seatVars, pay, recorded, job, stuck>>

\* The gateway takes the charge, whether or not its answer arrives in time: the
\* answer only adds gateway_payment_id to the row.
ChargeSend(h, verdict) ==
    /\ job[h].pc = "send"
    /\ gateway' = [gateway EXCEPT ![job[h].pay] = verdict]
    /\ Done(h)
    /\ UNCHANGED <<seatVars, pay, recorded, stuck>>

\* processWebhookCallback from BEGIN to the reads: the event of payment p comes
\* in, for the first time, duplicated or retried.  The row found is the newest
\* of the booking, which need not be p.
HookRead(h, p) ==
    /\ job[h] = Idle
    /\ gateway[p] \in Verdicts
    /\ \E q \in DOMAIN pay :
        /\ Newest(q, pay[p].booking)
        /\ job' = [job EXCEPT ![h] =
                     [pc |-> "hook", event |-> p, booking |-> pay[p].booking,
                      status |-> gateway[p], pay |-> q, seen |-> pay[q].status]]
    /\ UNCHANGED <<seatVars, pay, gateway, recorded, stuck>>

\* Mutant: duplicates are not noticed.
Record_Twice(e) == recorded' = recorded \cup ({e} \ {ReconcileEvent})

\* recordPaymentEventTx: ON CONFLICT DO NOTHING, the event is inserted once.
Record(e) ==
    /\ e \notin recorded
    /\ recorded' = recorded \cup ({e} \ {ReconcileEvent})

\* The event was there: COMMIT and 200, nothing else.
HookDuplicate(h) ==
    /\ job[h].pc = "hook"
    /\ job[h].event \in recorded
    /\ Done(h)
    /\ UNCHANGED <<seatVars, pay, gateway, recorded, stuck>>

\* Mutant: what is settled is taken for done, a payment given up on as well.
HookAgain_Settled(h) ==
    /\ job[h].pc = "hook"
    /\ job[h].status = "SUCCEEDED" /\ job[h].seen # "PENDING"
    /\ Record(job[h].event)
    /\ Done(h)
    /\ UNCHANGED <<seatVars, pay, gateway, stuck>>

\* The state machine check: the payment read was SUCCEEDED already.  The row is
\* not locked by that read, nor looked at again.
HookAgain(h) ==
    /\ job[h].pc = "hook"
    /\ job[h].status = "SUCCEEDED" /\ job[h].seen = "SUCCEEDED"
    /\ Record(job[h].event)
    /\ Done(h)
    /\ UNCHANGED <<seatVars, pay, gateway, stuck>>

\* Mutant: any callback of a charge counts as paid.
HookSucceeded_AnyStatus(h) ==
    /\ job[h].pc = "hook" /\ job[h].seen # "SUCCEEDED"
    /\ Record(job[h].event)
    /\ SetPayment(job[h].pay, "SUCCEEDED")
    /\ ConfirmBooking(job[h].booking)
    /\ Done(h)
    /\ UNCHANGED <<gateway, stuck>>

\* A SUCCEEDED callback: the payment read, the booking and its seats are written.
HookSucceeded(h) ==
    /\ job[h].pc = "hook"
    /\ job[h].status = "SUCCEEDED" /\ job[h].seen # "SUCCEEDED"
    /\ Record(job[h].event)
    /\ SetPayment(job[h].pay, "SUCCEEDED")
    /\ ConfirmBooking(job[h].booking)
    /\ Done(h)
    /\ UNCHANGED <<gateway, stuck>>

\* Mutant: the seats stay HELD or BOOKED.
HookFailed_KeepsSeats(h) ==
    /\ job[h].pc = "hook" /\ job[h].status = "FAILED"
    /\ Record(job[h].event)
    /\ SetPayment(job[h].pay, "FAILED")
    /\ booking' = [booking EXCEPT ![job[h].booking].status = "CANCELLED"]
    /\ Done(h)
    /\ UNCHANGED <<now, seat, cancelling, sweep, trespass, gateway, stuck>>

\* Mutant: the payment stays as it was.
HookFailed_KeepsPayment(h) ==
    /\ job[h].pc = "hook" /\ job[h].status = "FAILED"
    /\ Record(job[h].event)
    /\ FailBooking(job[h].booking)
    /\ Done(h)
    /\ UNCHANGED <<pay, gateway, stuck>>

\* A FAILED callback, of the gateway or of the reconciler.
HookFailed(h) ==
    /\ job[h].pc = "hook"
    /\ job[h].status = "FAILED"
    /\ Record(job[h].event)
    /\ SetPayment(job[h].pay, "FAILED")
    /\ FailBooking(job[h].booking)
    /\ Done(h)
    /\ UNCHANGED <<gateway, stuck>>

\* findStuckPendingPayments and the age test of reconcileStuckPayments.
Stuck(p) == p \in DOMAIN pay /\ pay[p].status = "PENDING" /\ now - pay[p].created > StuckAge

\* A run begins, whatever others are at.
ReconcileFind(r) ==
    /\ job[r] = Idle /\ stuck[r] = {}
    /\ \E p \in DOMAIN pay : Stuck(p)
    /\ stuck' = [stuck EXCEPT ![r] = {p \in DOMAIN pay : Stuck(p)}]
    /\ UNCHANGED <<seatVars, pay, gateway, recorded, job>>

\* The loop: processWebhookCallback with a FAILED event of its own, by the
\* booking_ref of the stuck payment, whatever became of that since it was listed.
ReconcileNext(r, p) ==
    /\ job[r] = Idle /\ p \in stuck[r]
    /\ stuck' = [stuck EXCEPT ![r] = @ \ {p}]
    /\ \E q \in DOMAIN pay :
        /\ Newest(q, pay[p].booking)
        /\ job' = [job EXCEPT ![r] =
                     [pc |-> "hook", event |-> ReconcileEvent, booking |-> pay[p].booking,
                      status |-> "FAILED", pay |-> q, seen |-> pay[q].status]]
    /\ UNCHANGED <<seatVars, pay, gateway, recorded>>

\* requestRefund up to the answer of the gateway.
RefundRead(h, p) ==
    /\ job[h] = Idle
    /\ p \in DOMAIN pay /\ pay[p].status = "SUCCEEDED"
    /\ job' = [job EXCEPT ![h] = [pc |-> "refund", pay |-> p]]
    /\ UNCHANGED <<seatVars, pay, gateway, recorded, stuck>>

\* Mutant: the booking keeps its ticket.
RefundApply_KeepsBooking(h) ==
    /\ job[h].pc = "refund"
    /\ SetPayment(job[h].pay, "REFUNDED")
    /\ Done(h)
    /\ UNCHANGED <<seatVars, gateway, recorded, stuck>>

\* requestRefund, BEGIN to COMMIT: neither status is read again.
RefundApply(h) ==
    /\ job[h].pc = "refund"
    /\ SetPayment(job[h].pay, "REFUNDED")
    /\ FailBooking(pay[job[h].pay].booking)
    /\ Done(h)
    /\ UNCHANGED <<gateway, recorded, stuck>>

\* A request ends early: replica crash, database error, deadlock victim, gateway
\* down or breaker open.  A run of the reconciler gives up the rest of its list.
RequestLost(h) ==
    /\ job[h] # Idle
    /\ Done(h)
    /\ stuck' = [r \in Reconcilers |-> IF r = h THEN {} ELSE stuck[r]]
    /\ UNCHANGED <<seatVars, pay, gateway, recorded>>

\* Holds, cancellations, the sweeper and the clock leave the payments alone.
SeatStep ==
    /\ \/ \E b \in Bookings :
            \/ \E S \in SUBSET Seats : CreateHold(b, S)
            \/ CancelRead(b)
            \/ CancelApply(b)
            \/ CancelDropped(b)
       \/ \E w \in Sweepers : SweepFind(w) \/ SweepCommit(w) \/ SweepAbort(w)
       \/ Tick
    /\ UNCHANGED payVars

HookApply(h) == HookDuplicate(h) \/ HookAgain(h) \/ HookSucceeded(h) \/ HookFailed(h)

Next ==
    \/ SeatStep
    \/ \E h \in Handlers :
        \/ \E b \in Bookings, k \in Keys : ChargeRead(h, b, k)
        \/ ChargeCreate(h)
        \/ ChargeRejected(h)
        \/ \E verdict \in Verdicts : ChargeSend(h, verdict)
        \/ \E p \in PaymentIds : HookRead(h, p)
        \/ \E p \in PaymentIds : RefundRead(h, p)
        \/ RefundApply(h)
    \/ \E h \in Jobs : HookApply(h) \/ RequestLost(h)
    \/ \E r \in Reconcilers :
        \/ ReconcileFind(r)
        \/ \E p \in PaymentIds : ReconcileNext(r, p)

Spec == Init /\ [][Next]_vars

\* The loop goes on with some payment of its list.
ReconcileOn(r) == \E p \in PaymentIds : ReconcileNext(r, p)

\* No transaction of the worker is rolled back for ever: neither a sweep nor the
\* reconciler's on any one payment.  That some payment is settled over and over
\* would not do, for one that is not the newest of its booking stays on every list.
PaymentFairness(r, p) ==
    /\ SF_vars(ReconcileNext(r, p))
    /\ SF_vars(HookApply(r) /\ job[r].pay = p)

EveryPaymentFair(r) == \A p \in PaymentIds : PaymentFairness(r, p)

\* The timers and loops of the worker keep running.
ReconcilerFairness(r) ==
    /\ WF_vars(ReconcileFind(r))
    /\ WF_vars(ReconcileOn(r))
    /\ WF_vars(HookApply(r))
    /\ EveryPaymentFair(r)

SweeperFairness(w) ==
    /\ WF_vars(SweepFind(w) /\ UNCHANGED payVars)
    /\ SF_vars(SweepCommit(w) /\ UNCHANGED payVars)

ReconcilersGoOn == \A r \in Reconcilers : ReconcilerFairness(r)

SweepersGoOn == \A w \in Sweepers : SweeperFairness(w)

\* And time passes.
Fairness ==
    /\ WF_vars(Tick /\ UNCHANGED payVars)
    /\ SF_vars(LockingCommit /\ UNCHANGED payVars)
    /\ SweepersGoOn
    /\ ReconcilersGoOn

FairSpec == Spec /\ Fairness

\* When sweeps can take their steps, as in SeatBooking.
SweeperCanRun ==
    /\ Locked # {} => ENABLED <<LockingCommit /\ UNCHANGED payVars>>_vars
    /\ \A w \in Sweepers :
          /\ sweep[w] = NoSweep /\ Locked = {} /\ SweepIsDue =>
                ENABLED <<SweepFind(w) /\ UNCHANGED payVars>>_vars
          /\ sweep[w] # NoSweep => ENABLED <<SweepCommit(w) /\ UNCHANGED payVars>>_vars

\* When the clock can tick, and a run of the reconciler list, take up and settle
\* payments: its transaction waits for the seats a sweep has locked.
ReconcilerCanRun ==
    /\ now < MaxTime => ENABLED <<Tick /\ UNCHANGED payVars>>_vars
    /\ \A r \in Reconcilers :
          /\ job[r] = Idle /\ stuck[r] = {} /\ (\E p \in PaymentIds : Stuck(p)) =>
                ENABLED <<ReconcileFind(r)>>_vars
          /\ job[r] = Idle /\ stuck[r] # {} => ENABLED <<ReconcileOn(r)>>_vars
          /\ job[r] # Idle /\ Locked = {} => ENABLED <<HookApply(r)>>_vars
          /\ \A p \in PaymentIds :
                /\ job[r] = Idle /\ p \in stuck[r] => ENABLED <<ReconcileNext(r, p)>>_vars
                /\ job[r] # Idle /\ job[r].pay = p /\ Locked = {} =>
                      ENABLED <<HookApply(r) /\ job[r].pay = p>>_vars

-----------------------------------------------------------------------------
\* The variables have their types; a charge known to the gateway, an event
\* seen, a stuck payment and a payment a handler works on are rows of the table.
TypeOK ==
    /\ SeatTypeOK
    /\ pay \in Seq(PaymentRow) /\ Len(pay) <= MaxPayments
    /\ gateway \in [PaymentIds -> Verdicts \cup {"NONE"}]
    /\ recorded \in SUBSET DOMAIN pay
    /\ job \in [Jobs -> Job]
    /\ stuck \in [Reconcilers -> SUBSET DOMAIN pay]
    /\ \A p \in PaymentIds : gateway[p] \in Verdicts => p \in DOMAIN pay
    /\ \A h \in Jobs :
          /\ job[h].pc \in {"send", "hook", "refund"} => job[h].pay \in DOMAIN pay
          /\ job[h].pc = "hook" => job[h].event \in DOMAIN pay \cup {ReconcileEvent}

\* However many requests race with one idempotency key, and however the client
\* retries, the gateway is asked to charge it once (paymentService.js:30-51).
OneChargePerKey ==
    \A p, q \in DOMAIN pay : pay[p].key = pay[q].key => p = q

\* A handler about to call the gateway is the only one for its payment, and the
\* gateway has not seen that payment.
ChargedOnce ==
    \A h \in Jobs : job[h].pc = "send" =>
        /\ gateway[job[h].pay] = "NONE"
        /\ \A g \in Jobs :
              job[g].pc = "send" /\ job[g].pay = job[h].pay => g = h

\* A callback acts on what the gateway really decided: from its reads to its
\* commit, the charge it names stays a charge of the booking it is about to
\* write, and its verdict stands.  Only the reconciler makes one up, and then a
\* FAILED one (paymentService.js:96-193, paymentReconciler.js:30).
CallbackCarriesVerdict ==
    \A h \in Jobs : job[h].pc = "hook" =>
        \/ job[h].event = ReconcileEvent /\ job[h].status = "FAILED"
        \/ /\ job[h].event \in DOMAIN pay
           /\ pay[job[h].event].booking = job[h].booking
           /\ gateway[job[h].event] = job[h].status

\* Nobody gets a ticket without paying: a CONFIRMED booking has a charge that
\* the gateway took and told us of, whichever row the callback was booked on.
ConfirmedWasPaid ==
    \A b \in Bookings : booking[b].status = "CONFIRMED" =>
        \E p \in recorded : pay[p].booking = b /\ gateway[p] = "SUCCEEDED"

\* The inductive invariant of module CheckoutProofs.
PayInv ==
    /\ TypeOK
    /\ OneChargePerKey
    /\ ChargedOnce
    /\ CallbackCarriesVerdict
    /\ ConfirmedWasPaid

\* An event acts once: each step into CONFIRMED uses up an event of a charge of
\* that booking, so a duplicate or a retry after a refund or a cancellation
\* revives nothing (docs/architecture.md:150).
EachConfirmHasItsEvent ==
    [][\A b \in Bookings :
         booking[b].status # "CONFIRMED" /\ booking'[b].status = "CONFIRMED"
             => \E p \in recorded' \ recorded :
                   pay[p].booking = b /\ gateway[p] = "SUCCEEDED"]_vars

\* An event takes effect: once recorded it is dropped if it comes again, so the
\* step that records a FAILED one cancels its booking, and a SUCCEEDED one is let
\* go without confirming only if an earlier one had confirmed.  The status the
\* callback goes by is older than its commit, other callbacks, refunds and the
\* reconciler having written the row since (paymentService.js:109,138).
EventsTakeEffect ==
    [][\A p \in recorded' \ recorded :
         LET b == pay[p].booking
         IN  IF gateway[p] = "FAILED"
             THEN booking'[b].status = "CANCELLED"
             ELSE \/ booking'[b].status = "CONFIRMED"
                  \/ \E q \in recorded : pay[q].booking = b /\ gateway[q] = "SUCCEEDED"]_vars

\* A payment leaves PENDING by an event or by the reconciler, and the row
\* changed is of the booking the event names.
PaymentMovesWithItsBooking ==
    [][\A p \in DOMAIN pay : pay'[p].status # pay[p].status =>
         booking'[pay[p].booking].status =
             IF pay'[p].status = "SUCCEEDED" THEN "CONFIRMED" ELSE "CANCELLED"]_vars

\* The callbacks Checkout acts on are those of the abstract module, which
\* Webhooks implements too: what it needs of the gateway and of the way there is
\* what they give.
Promise == INSTANCE Callbacks
           WITH Charges <- PaymentIds, verdict <- gateway, acted <- recorded

CallbacksAreKept == Promise!Spec

\* The newest payment of a booking does not stay PENDING: a callback or the
\* reconciler settles it, or a newer charge takes its place.
NewestPaymentSettles ==
    \A p \in PaymentIds :
        Stuck(p) ~> ~Stuck(p) \/ ~Newest(p, pay[p].booking)

-----------------------------------------------------------------------------
(* What the repository says of the program, and the program does not do.   *)

\* "the same seat is never sold twice" (README.md:3).
NeverSoldTwice ==
    \A b, c \in Bookings :
        booking[b].status = "CONFIRMED" /\ booking[c].status = "CONFIRMED"
            /\ booking[b].seats \cap booking[c].seats # {} => b = c

\* "Cannot cancel a confirmed booking directly. Please request a refund."
\* (bookingService.js:127).
CancelSparesConfirmed ==
    [][\A b \in Bookings :
         CancelApply(b) => booking[b].status # "CONFIRMED"]_vars
=============================================================================
