--------------------------- MODULE CheckoutProofs ---------------------------
(***************************************************************************)
(* Proofs about module Checkout, for any number of seats, bookings, keys   *)
(* and concurrent requests.  Checkout implements SeatBooking: each of its  *)
(* steps writes seats and bookings as an action of SeatBooking does, so    *)
(* the theorems of SeatBookingProofs hold of it.  That a handler names a   *)
(* booking there is, which SeatBooking asks of a write, needs TypeOK.      *)
(*                                                                         *)
(* The last two sections are about liveness: what fairness asks of the     *)
(* sweeper and of the reconciler, whose runs may overlap, is enough.       *)
(***************************************************************************)
EXTENDS Checkout, SeatBookingProofs, FiniteSets, FiniteSetTheorems

\* TypeOK without what it says of seats and bookings.
PayTypeOK ==
    /\ pay \in Seq(PaymentRow) /\ Len(pay) <= MaxPayments
    /\ gateway \in [PaymentIds -> Verdicts \cup {"NONE"}]
    /\ recorded \in SUBSET DOMAIN pay
    /\ job \in [Jobs -> Job]
    /\ stuck \in [Reconcilers -> SUBSET DOMAIN pay]
    /\ \A p \in PaymentIds : gateway[p] \in Verdicts => p \in DOMAIN pay
    /\ \A h \in Jobs :
          /\ job[h].pc \in {"send", "hook", "refund"} => job[h].pay \in DOMAIN pay
          /\ job[h].pc = "hook" => job[h].event \in DOMAIN pay \cup {ReconcileEvent}

\* The conjunct above, of the next state.
JobsNameRows ==
    \A h \in Jobs :
        /\ job[h].pc \in {"send", "hook", "refund"} => job[h].pay \in DOMAIN pay
        /\ job[h].pc = "hook" => job[h].event \in DOMAIN pay \cup {ReconcileEvent}

LEMMA TypeOKParts == TypeOK <=> SeatTypeOK /\ PayTypeOK
BY DEF TypeOK, PayTypeOK, Jobs

\* What job[h].pc says of the other fields.
LEMMA JobFields ==
    ASSUME NEW j \in Job
    PROVE  /\ j.pc = "idle" => j = Idle
           /\ j.pc = "charge" => j.booking \in Bookings /\ j.key \in Keys
           /\ j.pc = "send" => j.pay \in PaymentIds
           /\ j.pc = "hook" => /\ j.event \in PaymentIds \cup {ReconcileEvent}
                               /\ j.booking \in Bookings
                               /\ j.status \in Verdicts
                               /\ j.pay \in PaymentIds
           /\ j.pc = "refund" => j.pay \in PaymentIds
BY DEF Job, Idle

\* The rows of payments are numbered without gaps, within the bound.
LEMMA PayDomain ==
    ASSUME PayTypeOK
    PROVE  /\ DOMAIN pay = 1..Len(pay)
           /\ Len(pay) \in Nat
           /\ DOMAIN pay \subseteq PaymentIds
           /\ \A p \in DOMAIN pay : pay[p] \in PaymentRow
BY PaymentAssumption DEF PayTypeOK, PaymentIds

\* A new status in one row changes nothing else of the table.
LEMMA SetPaymentType ==
    ASSUME PayTypeOK, NEW p \in DOMAIN pay,
           NEW status \in {"PENDING", "SUCCEEDED", "FAILED", "REFUNDED"},
           SetPayment(p, status)
    PROVE  /\ pay' \in Seq(PaymentRow)
           /\ Len(pay') = Len(pay)
           /\ DOMAIN pay' = DOMAIN pay
           /\ \A q \in DOMAIN pay : /\ pay'[q].booking = pay[q].booking
                                    /\ pay'[q].key = pay[q].key
<1>1. pay \in Seq(PaymentRow) /\ pay[p] \in PaymentRow
  BY PayDomain DEF PayTypeOK
<1>2. [pay[p] EXCEPT !.status = status] \in PaymentRow
  BY <1>1 DEF PaymentRow
<1>3. pay' = [pay EXCEPT ![p] = [pay[p] EXCEPT !.status = status]]
  BY DEF SetPayment
<1>4. /\ pay' \in Seq(PaymentRow)
      /\ Len(pay') = Len(pay)
      /\ DOMAIN pay' = DOMAIN pay
  BY <1>1, <1>2, <1>3
<1>5. ASSUME NEW q \in DOMAIN pay
      PROVE  /\ pay'[q].booking = pay[q].booking
             /\ pay'[q].key = pay[q].key
  <2>1. pay[q] \in PaymentRow
    BY PayDomain
  <2> QED BY <1>3, <2>1 DEF PaymentRow
<1> QED BY <1>4, <1>5

LEMMA InitTypeOK == Init => TypeOK
<1> SUFFICES ASSUME Init PROVE TypeOK
  OBVIOUS
<1>1. SeatTypeOK
  BY InitSeatTypeOK DEF Init
<1>2. PayTypeOK
  BY PaymentAssumption DEF Init, PayTypeOK, Jobs, Job, Idle, Verdicts
<1> QED BY <1>1, <1>2, TypeOKParts

-----------------------------------------------------------------------------
(* Every step is one that SeatBooking allows. *)

\* The handlers write only bookings there are.
LEMMA HandlerStepIsSeatStep ==
    ASSUME PayTypeOK, NEW h \in Jobs,
           HookSucceeded(h) \/ HookFailed(h) \/ RefundApply(h)
    PROVE  SeatNext
<1>1. job[h] \in Job
  BY DEF PayTypeOK
<1>2. CASE HookSucceeded(h)
  <2>1. job[h].booking \in Bookings
    BY <1>1, <1>2, JobFields DEF HookSucceeded
  <2> QED BY <1>2, <2>1 DEF HookSucceeded, SeatNext
<1>3. CASE HookFailed(h)
  <2>1. job[h].booking \in Bookings
    BY <1>1, <1>3, JobFields DEF HookFailed
  <2> QED BY <1>3, <2>1 DEF HookFailed, SeatNext
<1>4. CASE RefundApply(h)
  <2>1. job[h].pay \in DOMAIN pay
    BY <1>4 DEF RefundApply, PayTypeOK
  <2>2. pay[job[h].pay].booking \in Bookings
    BY <2>1, PayDomain DEF PaymentRow
  <2> QED BY <1>4, <2>2 DEF RefundApply, SeatNext
<1> QED BY <1>2, <1>3, <1>4

LEMMA StepIsSeatStep ==
    ASSUME PayTypeOK, [Next]_vars
    PROVE  [SeatNext]_seatVars
<1>1. CASE SeatStep
  BY <1>1 DEF SeatStep, SeatNext
<1>2. ASSUME NEW h \in Handlers,
             \/ \E b \in Bookings, k \in Keys : ChargeRead(h, b, k)
             \/ ChargeCreate(h)
             \/ ChargeRejected(h)
             \/ \E verdict \in Verdicts : ChargeSend(h, verdict)
             \/ \E p \in PaymentIds : HookRead(h, p)
             \/ \E p \in PaymentIds : RefundRead(h, p)
      PROVE  UNCHANGED seatVars
  BY <1>2 DEF ChargeRead, ChargeCreate, ChargeRejected, ChargeSend, HookRead, RefundRead
<1>3. ASSUME NEW h \in Handlers, RefundApply(h) PROVE SeatNext
  BY <1>3, HandlerStepIsSeatStep DEF Jobs
<1>4. ASSUME NEW h \in Jobs, HookApply(h) \/ RequestLost(h) PROVE [SeatNext]_seatVars
  BY <1>4, HandlerStepIsSeatStep DEF HookApply, HookDuplicate, HookAgain, RequestLost
<1>5. ASSUME NEW r \in Reconcilers, ReconcileFind(r) PROVE UNCHANGED seatVars
  BY <1>5 DEF ReconcileFind
<1>6. ASSUME NEW r \in Reconcilers, NEW p \in PaymentIds, ReconcileNext(r, p)
      PROVE  UNCHANGED seatVars
  BY <1>6 DEF ReconcileNext
<1>7. CASE UNCHANGED vars
  BY <1>7 DEF vars, seatVars
<1> QED BY <1>1, <1>2, <1>3, <1>4, <1>5, <1>6, <1>7 DEF Next, Jobs

-----------------------------------------------------------------------------
(* Type correctness. *)

\* A handler takes up a job, or ends one; rows are never taken out of payments.
LEMMA JobStep ==
    ASSUME PayTypeOK, NEW h \in Jobs, NEW j \in Job,
           job' = [job EXCEPT ![h] = j],
           DOMAIN pay \subseteq DOMAIN pay',
           j.pc \in {"send", "hook", "refund"} => j.pay \in DOMAIN pay',
           j.pc = "hook" => j.event \in DOMAIN pay \cup {ReconcileEvent}
    PROVE  /\ job' \in [Jobs -> Job]
           /\ JobsNameRows'
BY DEF PayTypeOK, JobsNameRows

LEMMA DoneStep ==
    ASSUME PayTypeOK, NEW h \in Jobs, Done(h), DOMAIN pay \subseteq DOMAIN pay'
    PROVE  /\ job' \in [Jobs -> Job]
           /\ JobsNameRows'
<1>1. Idle \in Job /\ Idle.pc = "idle"
  BY DEF Job, Idle
<1> QED BY <1>1, JobStep DEF Done

LEMMA ChargeCreateType ==
    ASSUME SeatTypeOK, PayTypeOK, NEW h \in Jobs, ChargeCreate(h)
    PROVE  PayTypeOK'
<1> DEFINE row == [booking |-> job[h].booking, key |-> job[h].key,
                   created |-> now, status |-> "PENDING"]
           j == [pc |-> "send", pay |-> Len(pay) + 1]
<1>1. Len(pay) \in Nat /\ DOMAIN pay = 1..Len(pay) /\ Len(pay) < MaxPayments
  BY PayDomain DEF ChargeCreate
<1>2. row \in PaymentRow
  <2>1. job[h].booking \in Bookings /\ job[h].key \in Keys
    BY JobFields DEF ChargeCreate, PayTypeOK
  <2> QED BY <2>1 DEF PaymentRow, SeatTypeOK
<1>3. pay' = Append(pay, row)
  BY DEF ChargeCreate
<1>4. /\ pay' \in Seq(PaymentRow)
      /\ Len(pay') = Len(pay) + 1
      /\ DOMAIN pay' = 1..(Len(pay) + 1)
  BY <1>1, <1>2, <1>3 DEF PayTypeOK
<1>5. Len(pay') <= MaxPayments
  BY <1>1, <1>4, PaymentAssumption
<1>6. Len(pay) + 1 \in PaymentIds
  BY <1>1, PaymentAssumption DEF PaymentIds
<1>7. j \in Job /\ j.pc = "send" /\ j.pay = Len(pay) + 1
  BY <1>6 DEF Job
<1>8. DOMAIN pay \subseteq DOMAIN pay' /\ Len(pay) + 1 \in DOMAIN pay'
  BY <1>1, <1>4
<1>9. job' = [job EXCEPT ![h] = j]
  BY DEF ChargeCreate
<1>10. /\ job' \in [Jobs -> Job]
       /\ JobsNameRows'
  BY <1>7, <1>8, <1>9, JobStep
<1>11. UNCHANGED <<gateway, recorded, stuck>>
  BY DEF ChargeCreate
<1> QED BY <1>4, <1>5, <1>8, <1>10, <1>11 DEF PayTypeOK, JobsNameRows

LEMMA ChargeSendType ==
    ASSUME PayTypeOK, NEW h \in Jobs, NEW verdict \in Verdicts, ChargeSend(h, verdict)
    PROVE  PayTypeOK'
<1>1. job[h].pay \in DOMAIN pay /\ job[h].pay \in PaymentIds
  BY PayDomain DEF ChargeSend, PayTypeOK
<1>2. pay' = pay /\ recorded' = recorded /\ stuck' = stuck
  BY DEF ChargeSend
<1>3. /\ gateway' \in [PaymentIds -> Verdicts \cup {"NONE"}]
      /\ \A p \in PaymentIds : gateway'[p] \in Verdicts => p \in DOMAIN pay
  BY <1>1 DEF ChargeSend, PayTypeOK
<1>4. /\ job' \in [Jobs -> Job]
      /\ JobsNameRows'
  BY <1>2, DoneStep DEF ChargeSend
<1> QED BY <1>2, <1>3, <1>4 DEF PayTypeOK, JobsNameRows

\* A webhook, of the gateway or of the reconciler, has found the newest payment.
LEMMA HookReadType ==
    ASSUME PayTypeOK, NEW h \in Jobs, NEW p \in DOMAIN pay, NEW q \in DOMAIN pay,
           NEW e \in DOMAIN pay \cup {ReconcileEvent}, NEW status \in Verdicts,
           job' = [job EXCEPT ![h] =
                     [pc |-> "hook", event |-> e, booking |-> pay[p].booking,
                      status |-> status, pay |-> q, seen |-> pay[q].status]],
           pay' = pay
    PROVE  /\ job' \in [Jobs -> Job]
           /\ JobsNameRows'
<1> DEFINE j == [pc |-> "hook", event |-> e, booking |-> pay[p].booking,
                 status |-> status, pay |-> q, seen |-> pay[q].status]
<1>1. pay[p] \in PaymentRow /\ pay[q] \in PaymentRow /\ q \in PaymentIds
  BY PayDomain
<1>2. /\ pay[p].booking \in Bookings
      /\ pay[q].status \in {"PENDING", "SUCCEEDED", "FAILED", "REFUNDED"}
  BY <1>1 DEF PaymentRow
<1>3. j \in Job /\ j.pay = q /\ j.event = e
  BY <1>1, <1>2, PayDomain DEF Job
<1> QED BY <1>3, JobStep

\* A webhook or a refund writes its payment.
LEMMA SettleType ==
    ASSUME PayTypeOK, NEW h \in Jobs,
           HookSucceeded(h) \/ HookFailed(h) \/ RefundApply(h)
    PROVE  PayTypeOK'
<1>1. job[h] \in Job /\ job[h].pay \in DOMAIN pay
  BY DEF PayTypeOK, HookSucceeded, HookFailed, RefundApply
<1>2. \E status \in {"PENDING", "SUCCEEDED", "FAILED", "REFUNDED"} : SetPayment(job[h].pay, status)
  BY DEF HookSucceeded, HookFailed, RefundApply
<1>3. /\ pay' \in Seq(PaymentRow)
      /\ Len(pay') = Len(pay)
      /\ DOMAIN pay' = DOMAIN pay
  BY <1>1, <1>2, SetPaymentType
<1>4. /\ job' \in [Jobs -> Job]
      /\ JobsNameRows'
  BY <1>3, DoneStep DEF HookSucceeded, HookFailed, RefundApply
<1>5. gateway' = gateway /\ stuck' = stuck
  BY DEF HookSucceeded, HookFailed, RefundApply
<1>6. recorded' \in SUBSET DOMAIN pay
  <2>1. CASE RefundApply(h)
    BY <2>1 DEF RefundApply, PayTypeOK
  <2>2. CASE HookSucceeded(h) \/ HookFailed(h)
    <3>1. recorded' = recorded \cup ({job[h].event} \ {ReconcileEvent})
      BY <2>2 DEF HookSucceeded, HookFailed, Record
    <3>2. job[h].event \in DOMAIN pay \cup {ReconcileEvent}
      BY <2>2 DEF HookSucceeded, HookFailed, PayTypeOK
    <3> QED BY <3>1, <3>2 DEF PayTypeOK
  <2> QED BY <2>1, <2>2
<1> QED BY <1>3, <1>4, <1>5, <1>6 DEF PayTypeOK, JobsNameRows

LEMMA HookStartType ==
    ASSUME PayTypeOK, NEW h \in Jobs, NEW p \in PaymentIds,
           \/ HookRead(h, p)
           \/ h \in Reconcilers /\ ReconcileNext(h, p)
    PROVE  PayTypeOK'
<1>1. CASE HookRead(h, p)
  <2>1. p \in DOMAIN pay /\ gateway[p] \in Verdicts /\ pay' = pay
    BY <1>1 DEF HookRead, PayTypeOK
  <2>2. PICK q \in DOMAIN pay :
          job' = [job EXCEPT ![h] =
                    [pc |-> "hook", event |-> p, booking |-> pay[p].booking,
                     status |-> gateway[p], pay |-> q, seen |-> pay[q].status]]
    BY <1>1 DEF HookRead
  <2>3. job' \in [Jobs -> Job] /\ JobsNameRows'
    BY <2>1, <2>2, HookReadType
  <2> QED BY <1>1, <2>1, <2>3 DEF HookRead, PayTypeOK, JobsNameRows
<1>2. CASE h \in Reconcilers /\ ReconcileNext(h, p)
  <2>1. /\ p \in DOMAIN pay /\ pay' = pay
        /\ stuck' \in [Reconcilers -> SUBSET DOMAIN pay]
    BY <1>2 DEF ReconcileNext, PayTypeOK
  <2>2. PICK q \in DOMAIN pay :
          job' = [job EXCEPT ![h] =
                    [pc |-> "hook", event |-> ReconcileEvent, booking |-> pay[p].booking,
                     status |-> "FAILED", pay |-> q, seen |-> pay[q].status]]
    BY <1>2 DEF ReconcileNext
  <2>3. job' \in [Jobs -> Job] /\ JobsNameRows'
    BY <2>1, <2>2, HookReadType DEF Verdicts
  <2> QED BY <1>2, <2>1, <2>3 DEF ReconcileNext, PayTypeOK, JobsNameRows
<1> QED BY <1>1, <1>2

\* The steps that leave the table alone and only change a job.
LEMMA JobOnlyType ==
    ASSUME PayTypeOK, NEW h \in Jobs,
           \/ \E b \in Bookings, k \in Keys : ChargeRead(h, b, k)
           \/ ChargeRejected(h)
           \/ \E p \in PaymentIds : RefundRead(h, p)
           \/ HookDuplicate(h)
           \/ HookAgain(h)
           \/ RequestLost(h)
    PROVE  PayTypeOK'
<1>1. CASE \E b \in Bookings, k \in Keys : ChargeRead(h, b, k)
  <2>1. PICK b \in Bookings, k \in Keys : ChargeRead(h, b, k)
    BY <1>1
  <2> DEFINE j == [pc |-> "charge", booking |-> b, key |-> k]
  <2>2. j \in Job /\ j.pc = "charge"
    BY DEF Job
  <2>3. job' \in [Jobs -> Job] /\ JobsNameRows'
    BY <2>1, <2>2, JobStep DEF ChargeRead
  <2> QED BY <2>1, <2>3 DEF ChargeRead, PayTypeOK, JobsNameRows
<1>2. CASE \E p \in PaymentIds : RefundRead(h, p)
  <2>1. PICK p \in PaymentIds : RefundRead(h, p)
    BY <1>2
  <2> DEFINE j == [pc |-> "refund", pay |-> p]
  <2>2. j \in Job /\ j.pc = "refund" /\ j.pay = p
    BY DEF Job
  <2>3. job' \in [Jobs -> Job] /\ JobsNameRows'
    BY <2>1, <2>2, JobStep DEF RefundRead
  <2> QED BY <2>1, <2>3 DEF RefundRead, PayTypeOK, JobsNameRows
<1>3. CASE ChargeRejected(h) \/ HookDuplicate(h) \/ RequestLost(h)
  <2>1. Done(h) /\ UNCHANGED <<pay, gateway, recorded>>
    BY <1>3 DEF ChargeRejected, HookDuplicate, RequestLost
  <2>2. job' \in [Jobs -> Job] /\ JobsNameRows'
    BY <2>1, DoneStep
  <2>3. stuck' \in [Reconcilers -> SUBSET DOMAIN pay]
    BY <1>3 DEF ChargeRejected, HookDuplicate, RequestLost, PayTypeOK
  <2> QED BY <2>1, <2>2, <2>3 DEF PayTypeOK, JobsNameRows
<1>4. CASE HookAgain(h)
  <2>1. Done(h) /\ UNCHANGED <<pay, gateway, stuck>>
    BY <1>4 DEF HookAgain
  <2>2. job' \in [Jobs -> Job] /\ JobsNameRows'
    BY <2>1, DoneStep
  <2>3. recorded' \in SUBSET DOMAIN pay
    BY <1>4 DEF HookAgain, Record, PayTypeOK
  <2> QED BY <2>1, <2>2, <2>3 DEF PayTypeOK, JobsNameRows
<1> QED BY <1>1, <1>2, <1>3, <1>4

LEMMA NextTypeOK == TypeOK /\ [Next]_vars => TypeOK'
<1> SUFFICES ASSUME TypeOK, [Next]_vars PROVE TypeOK'
  OBVIOUS
<1>1. SeatTypeOK /\ PayTypeOK
  BY TypeOKParts
<1>2. SeatTypeOK'
  BY <1>1, StepIsSeatStep, NextSeatTypeOK
<1>3. ASSUME SeatStep \/ UNCHANGED vars PROVE PayTypeOK'
  <2>1. UNCHANGED payVars
    BY <1>3 DEF SeatStep, vars, payVars
  <2> QED BY <1>1, <2>1 DEF PayTypeOK, payVars
<1>4. ASSUME NEW h \in Jobs, ChargeCreate(h) PROVE PayTypeOK'
  BY <1>1, <1>4, ChargeCreateType
<1>5. ASSUME NEW h \in Jobs, NEW verdict \in Verdicts, ChargeSend(h, verdict) PROVE PayTypeOK'
  BY <1>1, <1>5, ChargeSendType
<1>6. ASSUME NEW h \in Jobs, NEW p \in PaymentIds, HookRead(h, p) PROVE PayTypeOK'
  BY <1>1, <1>6, HookStartType
<1>7. ASSUME NEW r \in Reconcilers, NEW p \in PaymentIds, ReconcileNext(r, p) PROVE PayTypeOK'
  BY <1>1, <1>7, HookStartType DEF Jobs
<1>8. ASSUME NEW h \in Jobs, HookSucceeded(h) \/ HookFailed(h) \/ RefundApply(h)
      PROVE  PayTypeOK'
  BY <1>1, <1>8, SettleType
<1>9. ASSUME NEW r \in Reconcilers, ReconcileFind(r) PROVE PayTypeOK'
  BY <1>1, <1>9 DEF ReconcileFind, PayTypeOK
<1>10. PayTypeOK'
  BY <1>1, <1>3, <1>4, <1>5, <1>6, <1>7, <1>8, <1>9, JobOnlyType
     DEF Next, HookApply, Jobs
<1> QED BY <1>2, <1>10 DEF TypeOK, PayTypeOK, Jobs

\* Every reachable state is well typed: handlers work on rows that exist, and
\* no event or charge names a payment that was never inserted.
THEOREM TypeCorrect == Spec => []TypeOK
BY InitTypeOK, NextTypeOK, PTL DEF Spec

-----------------------------------------------------------------------------
(* Checkout implements SeatBooking. *)

\* Whatever the payment handlers, the gateway and the reconciler do, the tables
\* of seats and bookings change only as SeatBooking allows.
THEOREM CheckoutImplementsSeatBooking == Spec => SeatSpec
<1>1. Init => SeatInit
  BY DEF Init
<1>2. TypeOK /\ [Next]_vars => [SeatNext]_seatVars
  BY TypeOKParts, StepIsSeatStep
<1> QED BY <1>1, <1>2, TypeCorrect, PTL DEF Spec, SeatSpec

\* With payments too, a seat no blind UPDATE has trespassed on has one owner.
THEOREM CheckoutOneOwner == Spec => []OneOwner
BY CheckoutImplementsSeatBooking, SeatHasOneOwner, PTL

\* What a seat sold twice comes from: if two bookings with a ticket share a
\* seat, a late write was made over it while another booking owned it, or a sweep
\* expired a booking that had it.  Nothing else in the code leads there.
THEOREM SoldTwiceWasOverwritten ==
    Spec => [](\A b, c \in Bookings :
                 booking[b].status = "CONFIRMED" /\ booking[c].status = "CONFIRMED" /\ b # c
                     => booking[b].seats \cap booking[c].seats \subseteq trespass)
<1>1. SeatInv => \A b, c \in Bookings :
                   booking[b].status = "CONFIRMED" /\ booking[c].status = "CONFIRMED" /\ b # c
                       => booking[b].seats \cap booking[c].seats \subseteq trespass
  BY SeatsApart DEF SeatsOf, Owns
<1> QED BY <1>1, CheckoutImplementsSeatBooking, SeatInvariant, PTL

\* Through charges, callbacks, refunds and the reconciler the seats are still
\* allocated as module SeatAllocation says.
THEOREM CheckoutKeepsAllocation == Spec => AllocationIsKept
BY CheckoutImplementsSeatBooking, SeatBookingKeepsAllocation, PTL

\* With payments too, the sweeper only ever frees holds that ran out.
THEOREM CheckoutSweepSparesLiveHolds == Spec => []SweepsOnlyLapsed
BY CheckoutImplementsSeatBooking, SweepSparesLiveHolds, PTL

-----------------------------------------------------------------------------
(***************************************************************************)
(* Nobody gets a ticket without paying.  ConfirmedWasPaid is not inductive *)
(* by itself: a webhook confirms from what it read earlier.  That the      *)
(* verdict it read still stands needs ChargedOnce (the gateway decides a   *)
(* charge once), and that in turn needs the types of the rows.             *)
(***************************************************************************)

LEMMA InitPayInv == Init => PayInv
<1> SUFFICES ASSUME Init PROVE PayInv
  OBVIOUS
<1>1. TypeOK
  BY InitTypeOK
<1>2. DOMAIN pay = {}
  BY DEF Init
<1>3. \A h \in Jobs : job[h].pc = "idle"
  BY DEF Init, Jobs, Idle
<1>4. \A b \in Bookings : booking[b].status = "NONE"
  BY DEF Init, SeatInit
<1> QED BY <1>1, <1>2, <1>3, <1>4
        DEF PayInv, OneChargePerKey, ChargedOnce, CallbackCarriesVerdict, ConfirmedWasPaid, Jobs

\* A row keeps its booking and its key for ever.
RowsKept ==
    /\ DOMAIN pay \subseteq DOMAIN pay'
    /\ \A p \in DOMAIN pay : /\ pay'[p].booking = pay[p].booking
                            /\ pay'[p].key = pay[p].key

\* Only ChargeCreate adds a row.
LEMMA NextRows ==
    ASSUME PayTypeOK, [Next]_vars
    PROVE  RowsKept /\ (\/ DOMAIN pay' = DOMAIN pay
                        \/ \E h \in Handlers : ChargeCreate(h))
<1>1. ASSUME pay' = pay PROVE RowsKept /\ DOMAIN pay' = DOMAIN pay
  BY <1>1 DEF RowsKept
<1>2. ASSUME NEW h \in Jobs, HookSucceeded(h) \/ HookFailed(h) \/ RefundApply(h)
      PROVE  RowsKept /\ DOMAIN pay' = DOMAIN pay
  <2>1. job[h].pay \in DOMAIN pay
    BY <1>2 DEF PayTypeOK, HookSucceeded, HookFailed, RefundApply
  <2>2. \E status \in {"PENDING", "SUCCEEDED", "FAILED", "REFUNDED"} :
           SetPayment(job[h].pay, status)
    BY <1>2 DEF HookSucceeded, HookFailed, RefundApply
  <2> QED BY <2>1, <2>2, SetPaymentType DEF RowsKept
<1>3. ASSUME NEW h \in Handlers, ChargeCreate(h) PROVE RowsKept
  <2> DEFINE row == [booking |-> job[h].booking, key |-> job[h].key,
                     created |-> now, status |-> "PENDING"]
  <2> HIDE DEF row
  <2>1. pay' = Append(pay, row)
    BY <1>3 DEF ChargeCreate, row
  <2>2. \A p \in DOMAIN pay : p \in DOMAIN pay' /\ pay'[p] = pay[p]
    BY <2>1, PayDomain
  <2> QED BY <2>2 DEF RowsKept
<1>4. ASSUME NEW h \in Handlers,
             \/ \E b \in Bookings, k \in Keys : ChargeRead(h, b, k)
             \/ ChargeRejected(h)
             \/ \E verdict \in Verdicts : ChargeSend(h, verdict)
             \/ \E p \in PaymentIds : HookRead(h, p)
             \/ \E p \in PaymentIds : RefundRead(h, p)
      PROVE  pay' = pay
  BY <1>4 DEF ChargeRead, ChargeRejected, ChargeSend, HookRead, RefundRead
<1>5. ASSUME NEW h \in Jobs, HookDuplicate(h) \/ HookAgain(h) \/ RequestLost(h)
      PROVE  pay' = pay
  BY <1>5 DEF HookDuplicate, HookAgain, RequestLost
<1>6. ASSUME \/ SeatStep
             \/ \E r \in Reconcilers : ReconcileFind(r) \/ ReconcileOn(r)
             \/ UNCHANGED vars
      PROVE  pay' = pay
  BY <1>6 DEF SeatStep, payVars, ReconcileFind, ReconcileOn, ReconcileNext, vars
<1> QED BY <1>1, <1>2, <1>3, <1>4, <1>5, <1>6 DEF Next, HookApply, ReconcileOn, Jobs

LEMMA NextOneChargePerKey ==
    ASSUME PayTypeOK, OneChargePerKey, [Next]_vars
    PROVE  OneChargePerKey'
<1>1. RowsKept
  BY NextRows
<1>2. CASE DOMAIN pay' = DOMAIN pay
  BY <1>1, <1>2 DEF RowsKept, OneChargePerKey
<1>3. ASSUME NEW h \in Handlers, ChargeCreate(h) PROVE OneChargePerKey'
  <2> DEFINE row == [booking |-> job[h].booking, key |-> job[h].key,
                     created |-> now, status |-> "PENDING"]
  <2>1. row.key = job[h].key
    OBVIOUS
  <2> HIDE DEF row
  <2>2. pay' = Append(pay, row) /\ ~KeyUsed(row.key)
    BY <1>3, <2>1 DEF ChargeCreate, row
  <2>3. pay'[Len(pay) + 1] = row /\ DOMAIN pay' = DOMAIN pay \cup {Len(pay) + 1}
    BY <2>2, PayDomain
  <2> QED BY <1>1, <2>2, <2>3 DEF RowsKept, OneChargePerKey, KeyUsed
<1> QED BY <1>2, <1>3, NextRows

\* The gateway decides only the charge of a handler that is sending one.
LEMMA NextGateway ==
    ASSUME [Next]_vars
    PROVE  \/ gateway' = gateway
           \/ \E h \in Handlers, verdict \in Verdicts : ChargeSend(h, verdict)
BY DEF Next, SeatStep, payVars, ChargeRead, ChargeCreate, ChargeRejected, HookRead, RefundRead,
       RefundApply, HookApply, HookDuplicate, HookAgain, HookSucceeded, HookFailed, RequestLost,
       ReconcileFind, ReconcileNext, vars

\* Only ChargeCreate makes a handler send.
LEMMA NextSender ==
    ASSUME PayTypeOK, [Next]_vars, NEW g \in Jobs, job'[g].pc = "send"
    PROVE  \/ job[g] = job'[g]
           \/ g \in Handlers /\ ChargeCreate(g)
<1> USE DEF PayTypeOK
<1>1. ASSUME NEW h \in Jobs, Done(h) PROVE job[g] = job'[g]
  BY <1>1 DEF Done, Idle
<1>2. ASSUME NEW h \in Handlers, ChargeCreate(h) PROVE h = g \/ job[g] = job'[g]
  BY <1>2 DEF ChargeCreate, Jobs
<1>3. ASSUME NEW h \in Handlers, NEW b \in Bookings, NEW k \in Keys, ChargeRead(h, b, k)
      PROVE  job[g] = job'[g]
  BY <1>3 DEF ChargeRead, Jobs
<1>4. ASSUME NEW h \in Handlers, NEW p \in PaymentIds, HookRead(h, p) \/ RefundRead(h, p)
      PROVE  job[g] = job'[g]
  BY <1>4 DEF HookRead, RefundRead, Jobs
<1>5. ASSUME NEW r \in Reconcilers, NEW p \in PaymentIds, ReconcileNext(r, p)
      PROVE  job[g] = job'[g]
  BY <1>5 DEF ReconcileNext, Jobs
<1>6. ASSUME SeatStep \/ (\E r \in Reconcilers : ReconcileFind(r)) \/ UNCHANGED vars
      PROVE  job[g] = job'[g]
  BY <1>6 DEF SeatStep, payVars, ReconcileFind, vars
<1> QED BY <1>1, <1>2, <1>3, <1>4, <1>5, <1>6
        DEF Next, HookApply, HookDuplicate, HookAgain, HookSucceeded, HookFailed, RequestLost,
            ChargeRejected, ChargeSend, RefundApply, Jobs

LEMMA NextChargedOnce ==
    ASSUME PayTypeOK, ChargedOnce, [Next]_vars
    PROVE  ChargedOnce'
<1> SUFFICES ASSUME NEW h \in Jobs, job'[h].pc = "send"
             PROVE  /\ gateway'[job'[h].pay] = "NONE"
                    /\ \A g \in Jobs : job'[g].pc = "send" /\ job'[g].pay = job'[h].pay => g = h
  BY DEF ChargedOnce, Jobs
<1>1. \A g \in Jobs : job[g].pc = "send" =>
          /\ job[g].pay \in DOMAIN pay
          /\ job[g].pay \in PaymentIds
          /\ gateway[job[g].pay] = "NONE"
          /\ \A f \in Jobs : job[f].pc = "send" /\ job[f].pay = job[g].pay => f = g
  BY PayDomain DEF PayTypeOK, ChargedOnce, Jobs
<1>2. CASE \E g \in Handlers : ChargeCreate(g)
  <2>1. PICK g \in Handlers : ChargeCreate(g)
    BY <1>2
  <2>2. /\ Len(pay) + 1 \in PaymentIds
        /\ Len(pay) + 1 \notin DOMAIN pay
    BY <2>1, PayDomain, PaymentAssumption DEF ChargeCreate, PaymentIds
  <2>3. gateway[Len(pay) + 1] = "NONE"
    BY <2>2 DEF PayTypeOK
  <2>4. /\ gateway' = gateway
        /\ job'[g].pay = Len(pay) + 1
        /\ \A f \in Jobs \ {g} : job'[f] = job[f]
    BY <2>1 DEF ChargeCreate, PayTypeOK, Jobs
  <2> QED BY <1>1, <2>1, <2>2, <2>3, <2>4 DEF Jobs
<1>3. CASE ~ \E g \in Handlers : ChargeCreate(g)
  <2>1. \A g \in Jobs : job'[g].pc = "send" => job[g] = job'[g]
    BY <1>3, NextSender
  <2>2. \A g \in Jobs : job'[g].pc = "send" /\ job'[g].pay = job'[h].pay => g = h
    BY <1>1, <2>1
  <2>3. ASSUME NEW g \in Handlers, NEW verdict \in Verdicts, ChargeSend(g, verdict)
        PROVE  gateway'[job'[h].pay] = "NONE"
    <3>1. job[g].pc = "send" /\ job'[g].pc = "idle"
      BY <2>3 DEF ChargeSend, Done, Idle, PayTypeOK, Jobs
    <3>2. job[h].pay # job[g].pay
      BY <1>1, <2>1, <3>1 DEF Jobs
    <3>3. gateway' = [gateway EXCEPT ![job[g].pay] = verdict]
      BY <2>3 DEF ChargeSend
    <3> QED BY <1>1, <2>1, <3>2, <3>3 DEF PayTypeOK
  <2>4. CASE gateway' = gateway
    BY <1>1, <2>1, <2>4
  <2> QED BY <2>2, <2>3, <2>4, NextGateway
<1> QED BY <1>2, <1>3

\* Once the gateway has decided a charge, the verdict stands.
LEMMA VerdictStands ==
    ASSUME PayTypeOK, ChargedOnce, [Next]_vars,
           NEW p \in PaymentIds, gateway[p] \in Verdicts
    PROVE  gateway'[p] = gateway[p]
<1>1. ASSUME NEW g \in Handlers, NEW verdict \in Verdicts, ChargeSend(g, verdict)
      PROVE  gateway'[p] = gateway[p]
  <2>1. gateway[job[g].pay] = "NONE"
    BY <1>1 DEF ChargeSend, ChargedOnce, Jobs
  <2>2. p # job[g].pay
    BY <2>1 DEF Verdicts
  <2> QED BY <1>1, <2>2 DEF ChargeSend, PayTypeOK
<1> QED BY <1>1, NextGateway

\* Only HookRead and ReconcileNext start a callback.
LEMMA NextCallback ==
    ASSUME PayTypeOK, [Next]_vars, NEW g \in Jobs, job'[g].pc = "hook"
    PROVE  \/ job[g] = job'[g]
           \/ \E p \in PaymentIds : HookRead(g, p)
           \/ /\ job'[g].event = ReconcileEvent /\ job'[g].status = "FAILED"
              /\ g \in Reconcilers /\ ReconcileOn(g)
<1> USE DEF PayTypeOK
<1>1. ASSUME NEW h \in Jobs, Done(h) PROVE job[g] = job'[g]
  BY <1>1 DEF Done, Idle
<1>2. ASSUME NEW h \in Handlers, ChargeCreate(h) PROVE job[g] = job'[g]
  BY <1>2 DEF ChargeCreate, Jobs
<1>3. ASSUME NEW h \in Handlers, NEW b \in Bookings, NEW k \in Keys, ChargeRead(h, b, k)
      PROVE  job[g] = job'[g]
  BY <1>3 DEF ChargeRead, Jobs
<1>4. ASSUME NEW h \in Handlers, NEW p \in PaymentIds, RefundRead(h, p)
      PROVE  job[g] = job'[g]
  BY <1>4 DEF RefundRead, Jobs
<1>5. ASSUME NEW h \in Handlers, NEW p \in PaymentIds, HookRead(h, p)
      PROVE  job[g] = job'[g] \/ h = g
  BY <1>5 DEF HookRead, Jobs
<1>6. ASSUME NEW r \in Reconcilers, NEW p \in PaymentIds, ReconcileNext(r, p)
      PROVE  \/ job[g] = job'[g]
             \/ job'[g].event = ReconcileEvent /\ job'[g].status = "FAILED" /\ g = r
  BY <1>6 DEF ReconcileNext, Jobs
<1>7. ASSUME SeatStep \/ (\E r \in Reconcilers : ReconcileFind(r)) \/ UNCHANGED vars
      PROVE  job[g] = job'[g]
  BY <1>7 DEF SeatStep, payVars, ReconcileFind, vars
<1> QED BY <1>1, <1>2, <1>3, <1>4, <1>5, <1>6, <1>7
        DEF Next, HookApply, HookDuplicate, HookAgain, HookSucceeded, HookFailed, RequestLost,
            ChargeRejected, ChargeSend, RefundApply, ReconcileOn, Jobs

LEMMA NextCallbackCarriesVerdict ==
    ASSUME PayTypeOK, ChargedOnce, CallbackCarriesVerdict, [Next]_vars
    PROVE  CallbackCarriesVerdict'
<1> SUFFICES ASSUME NEW h \in Jobs, job'[h].pc = "hook",
                    ~(job'[h].event = ReconcileEvent /\ job'[h].status = "FAILED")
             PROVE  /\ job'[h].event \in DOMAIN pay'
                    /\ pay'[job'[h].event].booking = job'[h].booking
                    /\ gateway'[job'[h].event] = job'[h].status
  BY DEF CallbackCarriesVerdict, Jobs
<1>1. RowsKept
  BY NextRows
<1>2. ASSUME NEW p \in DOMAIN pay, gateway[p] \in Verdicts
      PROVE  p \in DOMAIN pay' /\ pay'[p].booking = pay[p].booking /\ gateway'[p] = gateway[p]
  <2>1. p \in PaymentIds
    BY <1>2, PayDomain
  <2> QED BY <1>1, <1>2, <2>1, VerdictStands DEF RowsKept
<1>3. CASE job[h] = job'[h]
  <2>1. /\ job[h].event \in DOMAIN pay
        /\ pay[job[h].event].booking = job[h].booking
        /\ gateway[job[h].event] = job[h].status
    BY <1>3 DEF CallbackCarriesVerdict, Jobs
  <2>2. job[h].status \in Verdicts
    BY <1>3, JobFields DEF PayTypeOK
  <2> QED BY <1>2, <1>3, <2>1, <2>2
<1>4. ASSUME NEW p \in PaymentIds, HookRead(h, p)
      PROVE  /\ job'[h].event = p /\ p \in DOMAIN pay
             /\ job'[h].booking = pay[p].booking
             /\ job'[h].status = gateway[p] /\ gateway[p] \in Verdicts
  BY <1>4 DEF HookRead, PayTypeOK
<1> QED BY <1>2, <1>3, <1>4, NextCallback

\* A booking turns CONFIRMED only in HookSucceeded.
LEMMA NextConfirms ==
    ASSUME TypeOK, [Next]_vars, NEW b \in Bookings, booking'[b].status = "CONFIRMED"
    PROVE  \/ booking[b].status = "CONFIRMED" /\ recorded \subseteq recorded'
           \/ \E h \in Jobs : HookSucceeded(h) /\ job[h].booking = b
<1> USE DEF TypeOK, SeatTypeOK, BookingRow
<1>1. ASSUME NEW h \in Jobs, HookSucceeded(h), job[h].booking # b
      PROVE  booking[b].status = "CONFIRMED" /\ recorded \subseteq recorded'
  BY <1>1 DEF HookSucceeded, ConfirmBooking, WriteBooking, Record
<1>2. ASSUME NEW h \in Jobs, HookFailed(h)
      PROVE  booking[b].status = "CONFIRMED" /\ recorded \subseteq recorded'
  BY <1>2 DEF HookFailed, FailBooking, WriteBooking, Record
<1>3. ASSUME NEW h \in Jobs, RefundApply(h)
      PROVE  booking[b].status = "CONFIRMED" /\ recorded \subseteq recorded'
  BY <1>3 DEF RefundApply, FailBooking, WriteBooking
<1>4. ASSUME NEW h \in Jobs, HookDuplicate(h) \/ HookAgain(h) \/ RequestLost(h)
      PROVE  booking[b].status = "CONFIRMED" /\ recorded \subseteq recorded'
  BY <1>4 DEF HookDuplicate, HookAgain, RequestLost, seatVars, Record
<1>5. ASSUME NEW h \in Handlers,
             \/ \E c \in Bookings, k \in Keys : ChargeRead(h, c, k)
             \/ ChargeCreate(h)
             \/ ChargeRejected(h)
             \/ \E verdict \in Verdicts : ChargeSend(h, verdict)
             \/ \E p \in PaymentIds : HookRead(h, p) \/ RefundRead(h, p)
      PROVE  booking[b].status = "CONFIRMED" /\ recorded \subseteq recorded'
  BY <1>5 DEF ChargeRead, ChargeCreate, ChargeRejected, ChargeSend, HookRead, RefundRead, seatVars
<1>6. ASSUME SeatStep
      PROVE  booking[b].status = "CONFIRMED" /\ recorded \subseteq recorded'
  <2>1. recorded' = recorded
    BY <1>6 DEF SeatStep, payVars
  <2>2. ASSUME NEW c \in Bookings, NEW S \in SUBSET Seats, CreateHold(c, S)
        PROVE  booking[b].status = "CONFIRMED"
    BY <2>2 DEF CreateHold
  <2>3. ASSUME NEW c \in Bookings, CancelApply(c)
        PROVE  booking[b].status = "CONFIRMED"
    BY <2>3 DEF CancelApply, WriteBooking
  <2>4. ASSUME NEW w \in Sweepers, SweepCommit(w) PROVE booking[b].status = "CONFIRMED"
    BY <2>4 DEF SweepCommit
  <2>5. ASSUME \/ \E c \in Bookings : CancelRead(c) \/ CancelDropped(c)
               \/ \E w \in Sweepers : SweepFind(w) \/ SweepAbort(w)
               \/ Tick
        PROVE  booking' = booking
    BY <2>5 DEF CancelRead, CancelDropped, SweepFind, SweepAbort, Tick
  <2> QED BY <1>6, <2>1, <2>2, <2>3, <2>4, <2>5 DEF SeatStep
<1>7. ASSUME \/ \E r \in Reconcilers : ReconcileFind(r) \/ ReconcileOn(r)
             \/ UNCHANGED vars
      PROVE  booking[b].status = "CONFIRMED" /\ recorded \subseteq recorded'
  BY <1>7 DEF ReconcileFind, ReconcileOn, ReconcileNext, vars, seatVars
<1> QED BY <1>1, <1>2, <1>3, <1>4, <1>5, <1>6, <1>7 DEF Next, HookApply, ReconcileOn, Jobs

LEMMA NextConfirmedWasPaid ==
    ASSUME PayInv, [Next]_vars
    PROVE  ConfirmedWasPaid'
<1>1. PayTypeOK
  BY TypeOKParts DEF PayInv
<1>2. RowsKept
  BY <1>1, NextRows
<1> SUFFICES ASSUME NEW b \in Bookings, booking'[b].status = "CONFIRMED"
             PROVE  \E p \in recorded' : pay'[p].booking = b /\ gateway'[p] = "SUCCEEDED"
  BY DEF ConfirmedWasPaid
<1>3. ASSUME NEW p \in DOMAIN pay, gateway[p] = "SUCCEEDED"
      PROVE  pay'[p].booking = pay[p].booking /\ gateway'[p] = "SUCCEEDED"
  <2>1. p \in PaymentIds /\ gateway[p] \in Verdicts
    BY <1>1, <1>3, PayDomain DEF Verdicts
  <2> QED BY <1>1, <1>2, <1>3, <2>1, VerdictStands DEF RowsKept, PayInv
<1>4. CASE booking[b].status = "CONFIRMED" /\ recorded \subseteq recorded'
  <2>1. PICK p \in recorded : pay[p].booking = b /\ gateway[p] = "SUCCEEDED"
    BY <1>4 DEF PayInv, ConfirmedWasPaid
  <2>2. p \in DOMAIN pay
    BY <1>1, <2>1 DEF PayTypeOK
  <2> QED BY <1>3, <1>4, <2>1, <2>2
<1>5. ASSUME NEW h \in Jobs, HookSucceeded(h), job[h].booking = b
      PROVE  \E p \in recorded' : pay'[p].booking = b /\ gateway'[p] = "SUCCEEDED"
  <2>1. job[h].pc = "hook" /\ job[h].status = "SUCCEEDED"
    BY <1>5 DEF HookSucceeded
  <2>2. /\ job[h].event \in DOMAIN pay
        /\ pay[job[h].event].booking = b
        /\ gateway[job[h].event] = "SUCCEEDED"
    BY <1>5, <2>1 DEF PayInv, CallbackCarriesVerdict, Jobs
  <2>3. job[h].event # ReconcileEvent
    BY <1>1, <2>2, PayDomain DEF PaymentIds, ReconcileEvent
  <2>4. job[h].event \in recorded'
    BY <1>5, <2>3 DEF HookSucceeded, Record
  <2> QED BY <1>3, <2>2, <2>4
<1> QED BY <1>4, <1>5, NextConfirms DEF PayInv

LEMMA NextPayInv == PayInv /\ [Next]_vars => PayInv'
<1> SUFFICES ASSUME PayInv, [Next]_vars PROVE PayInv'
  OBVIOUS
<1>1. TypeOK /\ PayTypeOK
  BY TypeOKParts DEF PayInv
<1>2. TypeOK'
  BY <1>1, NextTypeOK
<1>3. OneChargePerKey'
  BY <1>1, NextOneChargePerKey DEF PayInv
<1>4. ChargedOnce'
  BY <1>1, NextChargedOnce DEF PayInv
<1>5. CallbackCarriesVerdict'
  BY <1>1, NextCallbackCarriesVerdict DEF PayInv
<1>6. ConfirmedWasPaid'
  BY NextConfirmedWasPaid
<1> QED BY <1>2, <1>3, <1>4, <1>5, <1>6 DEF PayInv

\* The invariant the theorems below are parts of.
THEOREM PayInvariant == Spec => []PayInv
BY InitPayInv, NextPayInv, PTL DEF Spec

\* One idempotency key, one row in payments (paymentService.js:30-51).
THEOREM KeyChargesOnce == Spec => []OneChargePerKey
<1>1. PayInv => OneChargePerKey
  BY DEF PayInv
<1> QED BY <1>1, PayInvariant, PTL

\* The gateway is called once for a payment, by one handler.
THEOREM GatewayCalledOnce == Spec => []ChargedOnce
<1>1. PayInv => ChargedOnce
  BY DEF PayInv
<1> QED BY <1>1, PayInvariant, PTL

\* A booking is CONFIRMED only by a charge of its own that the gateway took.
THEOREM TicketsArePaid == Spec => []ConfirmedWasPaid
<1>1. PayInv => ConfirmedWasPaid
  BY DEF PayInv
<1> QED BY <1>1, PayInvariant, PTL

\* A callback carries what the gateway decided, of a charge of its booking.
THEOREM CallbacksCarryVerdicts == Spec => []CallbackCarriesVerdict
<1>1. PayInv => CallbackCarriesVerdict
  BY DEF PayInv
<1> QED BY <1>1, PayInvariant, PTL

-----------------------------------------------------------------------------
(* The callbacks Checkout acts on are those of module Callbacks. *)

\* Only a callback that records its event changes recorded, by that event.
LEMMA NextRecorded ==
    ASSUME [Next]_vars
    PROVE  \/ recorded' = recorded
           \/ \E h \in Jobs : job[h].pc = "hook" /\ Record(job[h].event) /\ gateway' = gateway
BY DEF Next, SeatStep, payVars, ChargeRead, ChargeCreate, ChargeRejected, ChargeSend, HookRead,
       RefundRead, RefundApply, HookApply, HookDuplicate, HookAgain, HookSucceeded, HookFailed,
       RequestLost, ReconcileFind, ReconcileNext, vars, Jobs

LEMMA NextPromise == PayInv /\ [Next]_vars => [Promise!Next]_(Promise!callbackVars)
<1> SUFFICES ASSUME PayInv, [Next]_vars PROVE [Promise!Next]_(Promise!callbackVars)
  OBVIOUS
<1>0. PayTypeOK /\ ChargedOnce /\ CallbackCarriesVerdict
  BY TypeOKParts DEF PayInv
<1>1. ASSUME NEW h \in Handlers, NEW v \in Verdicts, ChargeSend(h, v)
      PROVE  Promise!Next
  <2>1. PICK p \in PaymentIds : p = job[h].pay /\ gateway[p] = "NONE"
    BY <1>0, <1>1, PayDomain DEF ChargeSend, ChargedOnce, PayTypeOK, Jobs
  <2>2. Promise!Decide(p, v)
    BY <1>1, <2>1 DEF ChargeSend, Promise!Decide
  <2> QED BY <2>2 DEF Promise!Next, Verdicts
<1>2. ASSUME NEW h \in Jobs, job[h].pc = "hook", Record(job[h].event), gateway' = gateway
      PROVE  [Promise!Next]_(Promise!callbackVars)
  <2>1. CASE job[h].event = ReconcileEvent
    <3>1. recorded' = recorded
      BY <1>2, <2>1 DEF Record
    <3> QED BY <1>2, <3>1 DEF Promise!callbackVars
  <2>2. CASE job[h].event # ReconcileEvent
    <3>1. PICK p \in PaymentIds : p = job[h].event /\ gateway[p] = job[h].status
      BY <1>0, <1>2, <2>2, PayDomain DEF CallbackCarriesVerdict, Jobs
    <3>2. gateway[p] # "NONE"
      BY <1>0, <1>2, <3>1, JobFields DEF PayTypeOK, Verdicts
    <3>3. Promise!Act(p)
      BY <1>2, <2>2, <3>1, <3>2 DEF Record, Promise!Act
    <3> QED BY <3>3 DEF Promise!Next
  <2> QED BY <2>1, <2>2
<1>3. CASE UNCHANGED <<gateway, recorded>>
  BY <1>3 DEF Promise!callbackVars
<1>4. ASSUME NEW h \in Handlers, NEW v \in Verdicts, ChargeSend(h, v) PROVE recorded' = recorded
  BY <1>4 DEF ChargeSend
<1> QED BY <1>1, <1>2, <1>3, <1>4, NextGateway, NextRecorded

\* One verdict per charge, and each event acts once, after its verdict.
THEOREM CheckoutKeepsCallbacks == Spec => CallbacksAreKept
<1>1. Init => Promise!Init
  BY DEF Init, Promise!Init
<1> QED BY <1>1, InitPayInv, NextPayInv, NextPromise, PTL DEF Spec, CallbacksAreKept, Promise!Spec

-----------------------------------------------------------------------------
(* What a step may do to payments and bookings. *)

\* The row a callback has read is one of the booking it writes.
CallbackReadItsBooking ==
    \A h \in Jobs : job[h].pc = "hook" => pay[job[h].pay].booking = job[h].booking

LEMMA NextCallbackReadItsBooking ==
    ASSUME PayInv, CallbackReadItsBooking, [Next]_vars
    PROVE  CallbackReadItsBooking'
<1>1. PayTypeOK
  BY TypeOKParts DEF PayInv
<1> SUFFICES ASSUME NEW h \in Jobs, job'[h].pc = "hook"
             PROVE  pay'[job'[h].pay].booking = job'[h].booking
  BY DEF CallbackReadItsBooking, Jobs
<1>2. CASE job[h] = job'[h]
  <2>1. job[h].pay \in DOMAIN pay /\ pay[job[h].pay].booking = job[h].booking
    BY <1>1, <1>2 DEF CallbackReadItsBooking, PayTypeOK
  <2> QED BY <1>1, <1>2, <2>1, NextRows DEF RowsKept
<1>3. ASSUME NEW p \in PaymentIds, HookRead(h, p) \/ (h \in Reconcilers /\ ReconcileNext(h, p))
      PROVE  pay'[job'[h].pay].booking = job'[h].booking
  <2>1. PICK q \in DOMAIN pay : Newest(q, pay[p].booking) /\ job'[h].pay = q
                                /\ job'[h].booking = pay[p].booking /\ pay' = pay
    BY <1>1, <1>3 DEF HookRead, ReconcileNext, PayTypeOK
  <2> QED BY <2>1 DEF Newest
<1> QED BY <1>1, <1>2, <1>3, NextCallback DEF ReconcileOn

\* Every confirmation uses up an event of a charge that the gateway took.
LEMMA NextConfirmHasItsEvent ==
    ASSUME PayInv, [Next]_vars, NEW b \in Bookings,
           booking[b].status # "CONFIRMED", booking'[b].status = "CONFIRMED"
    PROVE  \E p \in recorded' \ recorded : pay[p].booking = b /\ gateway[p] = "SUCCEEDED"
<1>1. PayTypeOK /\ TypeOK
  BY TypeOKParts DEF PayInv
<1>2. PICK h \in Jobs : HookSucceeded(h) /\ job[h].booking = b
  BY <1>1, NextConfirms
<1>3. job[h].pc = "hook" /\ job[h].status = "SUCCEEDED" /\ Record(job[h].event)
  BY <1>2 DEF HookSucceeded
<1>4. /\ job[h].event \in DOMAIN pay
      /\ pay[job[h].event].booking = b
      /\ gateway[job[h].event] = "SUCCEEDED"
  BY <1>2, <1>3 DEF PayInv, CallbackCarriesVerdict, Jobs
<1>5. job[h].event # ReconcileEvent
  BY <1>1, <1>4, PayDomain DEF PaymentIds, ReconcileEvent
<1>6. job[h].event \in recorded' \ recorded
  BY <1>3, <1>5 DEF Record
<1> QED BY <1>4, <1>6

\* A duplicate or a retry, after a refund or a cancellation as well, confirms nothing.
THEOREM ConfirmsUseUpEvents == Spec => EachConfirmHasItsEvent
<1>1. PayInv /\ [Next]_vars
        => [\A b \in Bookings :
              booking[b].status # "CONFIRMED" /\ booking'[b].status = "CONFIRMED"
                => \E p \in recorded' \ recorded :
                     pay[p].booking = b /\ gateway[p] = "SUCCEEDED"]_vars
  BY NextConfirmHasItsEvent
<1> QED BY <1>1, InitPayInv, NextPayInv, PTL DEF Spec, EachConfirmHasItsEvent

\* What a callback that says "again" goes by: a row once SUCCEEDED, now or when it
\* was read, is of a booking that a recorded event has paid.
Paid(b) == \E p \in recorded : pay[p].booking = b /\ gateway[p] = "SUCCEEDED"

\* The same of the next state, of a booking named in this one.
PaidNext(b) == \E p \in recorded' : pay'[p].booking = b /\ gateway'[p] = "SUCCEEDED"

SucceededWasPaid ==
    /\ \A p \in DOMAIN pay : pay[p].status = "SUCCEEDED" => Paid(pay[p].booking)
    /\ \A h \in Jobs : job[h].pc = "hook" /\ job[h].seen = "SUCCEEDED" => Paid(job[h].booking)

\* Recorded events and their verdicts are kept, so a booking stays paid.
LEMMA PaidStays ==
    ASSUME PayInv, [Next]_vars, NEW b, Paid(b)
    PROVE  PaidNext(b)
<1>1. PayTypeOK /\ ChargedOnce
  BY TypeOKParts DEF PayInv
<1>2. PICK p \in recorded : pay[p].booking = b /\ gateway[p] = "SUCCEEDED"
  BY DEF Paid
<1>3. p \in DOMAIN pay /\ p \in PaymentIds /\ gateway[p] \in Verdicts
  BY <1>1, <1>2, PayDomain DEF PayTypeOK, Verdicts
<1>4. gateway'[p] = "SUCCEEDED"
  BY <1>1, <1>2, <1>3, VerdictStands
<1>5. pay'[p].booking = b
  BY <1>1, <1>2, <1>3, NextRows DEF RowsKept
<1>6. p \in recorded'
  BY <1>2, NextRecorded DEF Record
<1> QED BY <1>4, <1>5, <1>6 DEF PaidNext

\* The callback that confirms has its event recorded.
LEMMA SucceededPays ==
    ASSUME PayInv, [Next]_vars, NEW h \in Jobs, HookSucceeded(h)
    PROVE  PaidNext(job[h].booking)
<1>1. PayTypeOK /\ ChargedOnce
  BY TypeOKParts DEF PayInv
<1>2. job[h].pc = "hook" /\ job[h].status = "SUCCEEDED" /\ Record(job[h].event)
  BY DEF HookSucceeded
<1>3. PICK p \in DOMAIN pay : /\ p = job[h].event
                             /\ pay[p].booking = job[h].booking
                             /\ gateway[p] = "SUCCEEDED"
  BY <1>2 DEF PayInv, CallbackCarriesVerdict
<1>4. p \in PaymentIds /\ p # ReconcileEvent /\ gateway[p] \in Verdicts
  BY <1>1, <1>3, PayDomain DEF PaymentIds, ReconcileEvent, Verdicts
<1>5. p \in recorded'
  BY <1>2, <1>3, <1>4 DEF Record
<1>6. gateway'[p] = "SUCCEEDED" /\ pay'[p].booking = job[h].booking
  BY <1>1, <1>3, <1>4, VerdictStands, NextRows DEF RowsKept
<1> QED BY <1>5, <1>6 DEF PaidNext

\* A row turns SUCCEEDED only in HookSucceeded.
LEMMA NextSucceeds ==
    ASSUME PayInv, CallbackReadItsBooking, [Next]_vars,
           NEW p \in DOMAIN pay', pay'[p].status = "SUCCEEDED"
    PROVE  \/ p \in DOMAIN pay /\ pay[p].status = "SUCCEEDED"
           \/ \E h \in Jobs : HookSucceeded(h) /\ pay'[p].booking = job[h].booking
<1>1. PayTypeOK
  BY TypeOKParts DEF PayInv
<1>2. CASE pay' = pay
  BY <1>2
<1>3. ASSUME NEW h \in Jobs, HookFailed(h) \/ RefundApply(h)
      PROVE  p \in DOMAIN pay /\ pay[p].status = "SUCCEEDED"
  <2>1. \/ pay' = [pay EXCEPT ![job[h].pay].status = "FAILED"]
        \/ pay' = [pay EXCEPT ![job[h].pay].status = "REFUNDED"]
    BY <1>3 DEF HookFailed, RefundApply, SetPayment
  <2>2. job[h].pay \in DOMAIN pay /\ pay[job[h].pay] \in PaymentRow /\ DOMAIN pay' = DOMAIN pay
    BY <1>1, <1>3, <2>1, PayDomain DEF HookFailed, RefundApply, PayTypeOK
  <2>3. p # job[h].pay
    BY <2>1, <2>2 DEF PaymentRow
  <2> QED BY <2>1, <2>2, <2>3
<1>4. ASSUME NEW h \in Jobs, HookSucceeded(h)
      PROVE  \/ p \in DOMAIN pay /\ pay[p].status = "SUCCEEDED"
             \/ pay'[p].booking = job[h].booking
  <2>1. /\ job[h].pay \in DOMAIN pay
        /\ pay[job[h].pay].booking = job[h].booking
    BY <1>1, <1>4 DEF CallbackReadItsBooking, HookSucceeded, PayTypeOK
  <2>2. SetPayment(job[h].pay, "SUCCEEDED")
    BY <1>4 DEF HookSucceeded
  <2>3. DOMAIN pay' = DOMAIN pay /\ pay'[job[h].pay].booking = job[h].booking
    BY <1>1, <2>1, <2>2, SetPaymentType
  <2>4. p # job[h].pay => pay'[p] = pay[p]
    BY <2>2, <2>3 DEF SetPayment
  <2> QED BY <2>3, <2>4
<1>5. ASSUME NEW h \in Handlers, ChargeCreate(h)
      PROVE  p \in DOMAIN pay /\ pay[p].status = "SUCCEEDED"
  <2> DEFINE row == [booking |-> job[h].booking, key |-> job[h].key,
                     created |-> now, status |-> "PENDING"]
  <2>1. row.status = "PENDING"
    OBVIOUS
  <2> HIDE DEF row
  <2>2. pay' = Append(pay, row)
    BY <1>5 DEF ChargeCreate, row
  <2> QED BY <1>1, <2>1, <2>2, PayDomain
<1> QED BY <1>2, <1>3, <1>4, <1>5
    DEF Next, Jobs, HookApply, ChargeRead, ChargeRejected, ChargeSend, HookRead, RefundRead,
        HookDuplicate, HookAgain, RequestLost, SeatStep, payVars, ReconcileFind, ReconcileNext, vars

LEMMA NextSucceededWasPaid ==
    ASSUME PayInv, CallbackReadItsBooking, SucceededWasPaid, [Next]_vars
    PROVE  SucceededWasPaid'
<1>1. PayTypeOK
  BY TypeOKParts DEF PayInv
<1>2. ASSUME NEW p \in DOMAIN pay', pay'[p].status = "SUCCEEDED"
      PROVE  PaidNext(pay'[p].booking)
  <2>1. CASE p \in DOMAIN pay /\ pay[p].status = "SUCCEEDED"
    <3>1. PaidNext(pay[p].booking)
      BY <2>1, PaidStays DEF SucceededWasPaid
    <3>2. pay'[p].booking = pay[p].booking
      BY <1>1, <2>1, NextRows DEF RowsKept
    <3> QED BY <3>1, <3>2 DEF PaidNext
  <2>2. ASSUME NEW h \in Jobs, HookSucceeded(h), pay'[p].booking = job[h].booking
        PROVE  PaidNext(pay'[p].booking)
    BY <2>2, SucceededPays DEF PaidNext
  <2> QED BY <1>2, <2>1, <2>2, NextSucceeds
<1>3. ASSUME NEW h \in Jobs, job'[h].pc = "hook", job'[h].seen = "SUCCEEDED"
      PROVE  PaidNext(job'[h].booking)
  <2>1. CASE job[h] = job'[h]
    <3>1. PaidNext(job[h].booking)
      BY <1>3, <2>1, PaidStays DEF SucceededWasPaid
    <3> QED BY <2>1, <3>1 DEF PaidNext
  <2>2. ASSUME NEW p \in PaymentIds, HookRead(h, p) \/ (h \in Reconcilers /\ ReconcileNext(h, p))
        PROVE  PaidNext(job'[h].booking)
    <3>1. PICK q \in DOMAIN pay : /\ Newest(q, pay[p].booking)
                                 /\ job'[h].seen = pay[q].status
                                 /\ job'[h].booking = pay[p].booking
      BY <1>1, <2>2 DEF HookRead, ReconcileNext, PayTypeOK
    <3>2. pay[q].status = "SUCCEEDED" /\ pay[q].booking = job'[h].booking
      BY <1>3, <3>1 DEF Newest
    <3>3. PaidNext(pay[q].booking)
      BY <3>2, PaidStays DEF SucceededWasPaid
    <3> QED BY <3>2, <3>3 DEF PaidNext
  <2> QED BY <1>1, <1>3, <2>1, <2>2, NextCallback DEF ReconcileOn
<1> QED BY <1>2, <1>3 DEF SucceededWasPaid, Paid, PaidNext

\* What a step that records an event does for its booking.
LEMMA NextTakesEffect ==
    ASSUME PayInv, SucceededWasPaid, [Next]_vars, NEW p \in recorded' \ recorded
    PROVE  IF gateway[p] = "FAILED"
           THEN booking'[pay[p].booking].status = "CANCELLED"
           ELSE booking'[pay[p].booking].status = "CONFIRMED" \/ Paid(pay[p].booking)
<1>1. PayTypeOK /\ TypeOK
  BY TypeOKParts DEF PayInv
<1>2. PICK h \in Jobs : (HookAgain(h) \/ HookSucceeded(h) \/ HookFailed(h)) /\ Record(job[h].event)
  BY DEF Next, SeatStep, payVars, ChargeRead, ChargeCreate, ChargeRejected, ChargeSend, HookRead,
         RefundRead, RefundApply, HookApply, HookDuplicate, HookAgain, HookSucceeded, HookFailed,
         RequestLost, ReconcileFind, ReconcileNext, vars, Jobs
<1>3. p = job[h].event /\ p # ReconcileEvent
  BY <1>2 DEF Record
<1>4. job[h].pc = "hook" /\ job[h] \in Job
  BY <1>1, <1>2 DEF HookAgain, HookSucceeded, HookFailed, PayTypeOK
<1>5. /\ pay[p].booking = job[h].booking
      /\ gateway[p] = job[h].status
  BY <1>3, <1>4 DEF PayInv, CallbackCarriesVerdict
<1>6. job[h].booking \in Bookings
  BY <1>4, JobFields
<1>7. CASE HookAgain(h)
  <2>1. Paid(job[h].booking) /\ job[h].status = "SUCCEEDED"
    BY <1>7 DEF HookAgain, SucceededWasPaid
  <2> QED BY <1>5, <2>1
<1>8. CASE HookSucceeded(h)
  <2>1. booking'[job[h].booking].status = "CONFIRMED" /\ job[h].status = "SUCCEEDED"
    BY <1>1, <1>6, <1>8
       DEF HookSucceeded, ConfirmBooking, WriteBooking, TypeOK, SeatTypeOK, BookingRow
  <2> QED BY <1>5, <2>1
<1>9. CASE HookFailed(h)
  <2>1. booking'[job[h].booking].status = "CANCELLED" /\ job[h].status = "FAILED"
    BY <1>1, <1>6, <1>9
       DEF HookFailed, FailBooking, WriteBooking, TypeOK, SeatTypeOK, BookingRow
  <2> QED BY <1>5, <2>1
<1> QED BY <1>2, <1>7, <1>8, <1>9

\* However old the status a callback goes by, the event it records, never to be
\* acted on again, cancels its booking, confirms it, or finds it paid before.
THEOREM RecordedEventsTakeEffect == Spec => EventsTakeEffect
<1>1. Init => CallbackReadItsBooking /\ SucceededWasPaid
  BY DEF Init, CallbackReadItsBooking, SucceededWasPaid, Jobs, Idle
<1>2. PayInv /\ SucceededWasPaid /\ [Next]_vars
        => [\A p \in recorded' \ recorded :
              LET b == pay[p].booking
              IN  IF gateway[p] = "FAILED"
                  THEN booking'[b].status = "CANCELLED"
                  ELSE \/ booking'[b].status = "CONFIRMED"
                       \/ \E q \in recorded : pay[q].booking = b /\ gateway[q] = "SUCCEEDED"]_vars
  BY NextTakesEffect DEF Paid
<1>3. PayInv /\ CallbackReadItsBooking /\ SucceededWasPaid /\ [Next]_vars
        => CallbackReadItsBooking' /\ SucceededWasPaid'
  BY NextCallbackReadItsBooking, NextSucceededWasPaid
<1> QED BY <1>1, <1>2, <1>3, InitPayInv, NextPayInv, PTL DEF Spec, EventsTakeEffect

\* The three writes of payments set the row and its booking together.
LEMMA WriteMovesBoth ==
    ASSUME TypeOK, PayTypeOK, NEW p \in DOMAIN pay, NEW q \in DOMAIN pay, NEW b \in Bookings,
           NEW status \in {"SUCCEEDED", "FAILED", "REFUNDED"}, SetPayment(q, status),
           pay[q].booking = b, pay'[p].status # pay[p].status,
           IF status = "SUCCEEDED" THEN ConfirmBooking(b) ELSE FailBooking(b)
    PROVE  booking'[pay[p].booking].status =
               IF pay'[p].status = "SUCCEEDED" THEN "CONFIRMED" ELSE "CANCELLED"
<1>1. p = q
  BY DEF SetPayment
<1>2. pay[q] \in PaymentRow
  BY PayDomain
<1>3. pay'[p].status = status
  BY <1>1, <1>2, PayDomain DEF SetPayment, PaymentRow
<1>4. booking'[b].status = IF status = "SUCCEEDED" THEN "CONFIRMED" ELSE "CANCELLED"
  BY DEF ConfirmBooking, FailBooking, WriteBooking, TypeOK, SeatTypeOK, BookingRow
<1> QED BY <1>1, <1>3, <1>4

LEMMA NextPaymentMoves ==
    ASSUME PayInv, CallbackReadItsBooking, [Next]_vars,
           NEW p \in DOMAIN pay, pay'[p].status # pay[p].status
    PROVE  booking'[pay[p].booking].status =
               IF pay'[p].status = "SUCCEEDED" THEN "CONFIRMED" ELSE "CANCELLED"
<1>1. PayTypeOK /\ TypeOK
  BY TypeOKParts DEF PayInv
<1>2. ASSUME NEW h \in Jobs, HookSucceeded(h) \/ HookFailed(h) \/ RefundApply(h)
      PROVE  booking'[pay[p].booking].status =
                 IF pay'[p].status = "SUCCEEDED" THEN "CONFIRMED" ELSE "CANCELLED"
  <2>1. job[h].pay \in DOMAIN pay
    BY <1>1, <1>2 DEF PayTypeOK, HookSucceeded, HookFailed, RefundApply
  <2>2. pay[job[h].pay].booking \in Bookings
    BY <1>1, <2>1, PayDomain DEF PaymentRow
  <2>3. CASE HookSucceeded(h)
    <3>1. pay[job[h].pay].booking = job[h].booking
      BY <2>3 DEF CallbackReadItsBooking, HookSucceeded
    <3> QED BY <1>1, <2>1, <2>2, <2>3, <3>1, WriteMovesBoth DEF HookSucceeded
  <2>4. CASE HookFailed(h)
    <3>1. pay[job[h].pay].booking = job[h].booking
      BY <2>4 DEF CallbackReadItsBooking, HookFailed
    <3> QED BY <1>1, <2>1, <2>2, <2>4, <3>1, WriteMovesBoth DEF HookFailed
  <2>5. CASE RefundApply(h)
    BY <1>1, <2>1, <2>2, <2>5, WriteMovesBoth DEF RefundApply
  <2> QED BY <1>2, <2>3, <2>4, <2>5
<1>3. ASSUME NEW h \in Handlers, ChargeCreate(h) PROVE FALSE
  <2> DEFINE row == [booking |-> job[h].booking, key |-> job[h].key,
                     created |-> now, status |-> "PENDING"]
  <2> HIDE DEF row
  <2>1. pay' = Append(pay, row)
    BY <1>3 DEF ChargeCreate, row
  <2> QED BY <1>1, <2>1, PayDomain
<1>4. pay' # pay
  OBVIOUS
<1> QED BY <1>2, <1>3, <1>4
    DEF Next, Jobs, HookApply, ChargeRead, ChargeRejected, ChargeSend, HookRead, RefundRead,
        HookDuplicate, HookAgain, RequestLost, SeatStep, payVars, ReconcileFind, ReconcileNext, vars

\* The row of a payment and its booking change in one step, to what belongs together.
THEOREM PaymentsMoveWithBookings == Spec => PaymentMovesWithItsBooking
<1>1. Init => CallbackReadItsBooking
  BY DEF Init, CallbackReadItsBooking, Jobs, Idle
<1>2. PayInv /\ CallbackReadItsBooking /\ [Next]_vars
        => [\A p \in DOMAIN pay : pay'[p].status # pay[p].status =>
              booking'[pay[p].booking].status =
                  IF pay'[p].status = "SUCCEEDED" THEN "CONFIRMED" ELSE "CANCELLED"]_vars
  BY NextPaymentMoves
<1>3. PayInv /\ CallbackReadItsBooking /\ [Next]_vars => CallbackReadItsBooking'
  BY NextCallbackReadItsBooking
<1> QED BY <1>1, <1>2, <1>3, InitPayInv, NextPayInv, PTL DEF Spec, PaymentMovesWithItsBooking

-----------------------------------------------------------------------------
(***************************************************************************)
(* The sweeper beside the payments.  The argument is that of               *)
(* SeatBookingProofs: its lemmas speak of steps of SeatBooking, which      *)
(* every step here is.                                                     *)
(***************************************************************************)

LEMMA NextIsSeatNext == TypeOK /\ [Next]_vars => [SeatNext]_seatVars
BY TypeOKParts, StepIsSeatStep

\* What the theorems rest on, for one of the sweepers.
SweepingHere(w) ==
    /\ []SeatInv /\ []TypeOK /\ [][Next]_vars /\ []SweeperCanRun
    /\ SF_vars(LockingCommit /\ UNCHANGED payVars) /\ SweeperFairness(w)

LEMMA SomeSweepsHere ==
    ASSUME NEW w \in Sweepers
    PROVE  FairSpec /\ []SweeperCanRun => SweepingHere(w)
<1>1. SweepersGoOn => SweeperFairness(w)
  BY DEF SweepersGoOn
<1>2. FairSpec => []SeatInv
  BY CheckoutImplementsSeatBooking, SeatInvariant, PTL DEF FairSpec
<1> QED BY <1>1, <1>2, TypeCorrect, PTL DEF FairSpec, Spec, Fairness, SweepingHere

LEMMA SeatGetsFreeHere ==
    ASSUME NEW s \in Seats, NEW w \in Sweepers
    PROVE  SweepingHere(w) => (Lapsed(s) ~> ~Lapsed(s))
<1> DEFINE None == Locked = {}
           Busy == sweep[w] # NoSweep
           Frees == LockersFree(s)
           Runs == WillFree(w, s)
           Out == Lapsed(s)
<1>1. SweeperCanRun /\ ~None => ENABLED <<LockingCommit /\ UNCHANGED payVars>>_vars
  BY DEF SweeperCanRun
<1>2. SweeperCanRun /\ Out /\ ~Busy /\ None
        => ENABLED <<SweepFind(w) /\ UNCHANGED payVars>>_vars
  BY DEF SweeperCanRun, SweepIsDue
<1>3. SweeperCanRun /\ Busy => ENABLED <<SweepCommit(w) /\ UNCHANGED payVars>>_vars
  BY DEF SweeperCanRun
<1>4. SeatInv /\ TypeOK /\ [Next]_vars /\ Out => (Frees => Frees') /\ (Runs => Runs')
  BY SweepKeepsFinding, NextIsSeatNext
<1>5. SeatInv /\ <<LockingCommit /\ UNCHANGED payVars>>_vars => Frees' /\ (Frees => ~Out')
  BY LockingCommitEnds
<1>6. SeatInv /\ <<SweepFind(w) /\ UNCHANGED payVars>>_vars => Busy'
  BY FindBegins
<1>7. SeatInv /\ <<SweepCommit(w) /\ UNCHANGED payVars>>_vars => ~Busy'
  BY CommitEnds
<1>8. SeatInv /\ TypeOK /\ [Next]_vars /\ Out /\ ~Busy => ~Busy' \/ ~None'
  BY BegunLocks, NextIsSeatNext
<1> HIDE DEF None, Busy, Frees, Runs, Out
<1>9. SweepingHere(w) => (Out ~> ~Out)
  BY <1>1, <1>2, <1>3, <1>4, <1>5, <1>6, <1>7, <1>8, PTL DEF SweepingHere, SweeperFairness
<1> QED BY <1>9, PTL DEF Out

\* A hold that ran out is given back whatever is paid, refunded and reconciled
\* meanwhile.
THEOREM CheckoutReclaimsLapsedSeats == FairSpec /\ []SweeperCanRun => LapsedSeatReclaimed
<1>1. PICK w \in Sweepers : TRUE
  BY SweeperAssumption
<1>2. ASSUME NEW s \in Seats
      PROVE  FairSpec /\ []SweeperCanRun => (Lapsed(s) ~> ~Lapsed(s))
  BY SeatGetsFreeHere, SomeSweepsHere, PTL
<1> QED BY <1>2 DEF LapsedSeatReclaimed

LEMMA BookingGetsEndedHere ==
    ASSUME NEW b \in Bookings, NEW w \in Sweepers
    PROVE  SweepingHere(w) => (Lost(b) ~> ~Lost(b))
<1> DEFINE None == Locked = {}
           Busy == sweep[w] # NoSweep
           Ends == LockersEnd(b)
           Runs == WillEnd(w, b)
           Out == Lost(b)
<1>1. SweeperCanRun /\ ~None => ENABLED <<LockingCommit /\ UNCHANGED payVars>>_vars
  BY DEF SweeperCanRun
<1>2. SweeperCanRun /\ Out /\ ~Busy /\ None
        => ENABLED <<SweepFind(w) /\ UNCHANGED payVars>>_vars
  BY DEF SweeperCanRun, SweepIsDue, Lost
<1>3. SweeperCanRun /\ Busy => ENABLED <<SweepCommit(w) /\ UNCHANGED payVars>>_vars
  BY DEF SweeperCanRun
<1>4. SeatInv /\ TypeOK /\ [Next]_vars /\ Out => (Ends => Ends') /\ (Runs => Runs')
  BY SweepKeepsFinding, NextIsSeatNext
<1>5. SeatInv /\ <<LockingCommit /\ UNCHANGED payVars>>_vars => Ends' /\ (Ends => ~Out')
  BY LockingCommitEnds
<1>6. SeatInv /\ <<SweepFind(w) /\ UNCHANGED payVars>>_vars => Busy'
  BY FindBegins
<1>7. SeatInv /\ <<SweepCommit(w) /\ UNCHANGED payVars>>_vars => ~Busy' /\ Busy /\ (Runs => ~Out')
  <2>1. SweepCommit(w) => Busy
    BY DEF SweepCommit
  <2> QED BY <2>1, CommitEnds DEF WillEnd
<1>8. ~Busy => Runs
  BY DEF WillEnd
<1> HIDE DEF None, Busy, Ends, Runs, Out
<1>9. SweepingHere(w) => (Out ~> ~Out)
  BY <1>1, <1>2, <1>3, <1>4, <1>5, <1>6, <1>7, <1>8, PTL DEF SweepingHere, SweeperFairness
<1> QED BY <1>9, PTL DEF Out

\* So is a booking that ran out and was not paid.
THEOREM CheckoutEndsLostBookings == FairSpec /\ []SweeperCanRun => LostBookingEnds
<1>1. PICK w \in Sweepers : TRUE
  BY SweeperAssumption
<1>2. ASSUME NEW b \in Bookings
      PROVE  FairSpec /\ []SweeperCanRun
               => ((booking[b].status = "PENDING" /\ \E s \in booking[b].seats : Holdable(s))
                     ~> (booking[b].status # "PENDING" \/ \A s \in booking[b].seats : ~Holdable(s)))
  <2>1. (booking[b].status = "PENDING" /\ \E s \in booking[b].seats : Holdable(s)) => Lost(b)
    BY DEF Lost
  <2> QED BY <2>1, LostMeans, BookingGetsEndedHere, SomeSweepsHere, PTL
<1> QED BY <1>2 DEF LostBookingEnds

-----------------------------------------------------------------------------
(***************************************************************************)
(* The newest payment of a booking is settled.                             *)
(*                                                                         *)
(* The reconciler's transaction waits for the seats a sweep has locked, so *)
(* first: once the clock has stopped no hold runs out any more, the first  *)
(* sweep that begins then frees every seat whose hold had, and no sweep    *)
(* locks a seat again (Clear).  Then: a list the reconciler is at may have *)
(* been made before the payment was stuck, but it gets shorter until it is *)
(* empty or given up, and the next one has the payment on it.  So its turn *)
(* comes over and over; fairness has it taken up, and once more settled.   *)
(*                                                                         *)
(* Both counts, of ticks and of payments, would be inductions over         *)
(* temporal formulas.  They are made by doubling instead, up to 64.        *)
(***************************************************************************)

\* The clock stops at its bound.
ClockBounded == now <= MaxTime

\* The reconciler only ever settles, by a FAILED event of its own making.
ReconcilerOnlyFails ==
    \A r \in Reconcilers : job[r] # Idle =>
        /\ job[r].pc = "hook"
        /\ job[r].event = ReconcileEvent /\ job[r].status = "FAILED"

SettleInv == SeatInv /\ TypeOK /\ ClockBounded /\ ReconcilerOnlyFails

\* The steps that give a run of the reconciler another job, or another list.
LEMMA ReconcilerSteps ==
    ASSUME TypeOK, [Next]_vars, NEW r \in Reconcilers
    PROVE  \/ job'[r] = job[r] /\ stuck'[r] = stuck[r]
           \/ HookApply(r) /\ job'[r] = Idle /\ stuck'[r] = stuck[r]
           \/ job[r] # Idle /\ job'[r] = Idle /\ stuck'[r] = {}
           \/ ReconcileFind(r) /\ job'[r] = job[r]
           \/ \E p \in PaymentIds : ReconcileNext(r, p)
<1>0. /\ job \in [Jobs -> Job] /\ r \in Jobs /\ r \notin Handlers
      /\ stuck \in [Reconcilers -> SUBSET DOMAIN pay]
  BY ReconcilerAssumption, TypeOKParts DEF PayTypeOK, Jobs
<1>1. ASSUME NEW h \in Jobs \ {r}, NEW j, job' = [job EXCEPT ![h] = j]
      PROVE  job'[r] = job[r]
  BY <1>0, <1>1
<1>2. ASSUME NEW h \in Jobs \ {r},
             \/ \E b \in Bookings, k \in Keys : ChargeRead(h, b, k)
             \/ ChargeCreate(h)
             \/ ChargeRejected(h)
             \/ \E verdict \in Verdicts : ChargeSend(h, verdict)
             \/ \E p \in PaymentIds : HookRead(h, p)
             \/ \E p \in PaymentIds : RefundRead(h, p)
             \/ RefundApply(h)
             \/ HookApply(h)
      PROVE  job'[r] = job[r] /\ stuck'[r] = stuck[r]
  BY <1>1, <1>2 DEF ChargeRead, ChargeCreate, ChargeRejected, ChargeSend, HookRead, RefundRead,
        RefundApply, HookApply, HookDuplicate, HookAgain, HookSucceeded, HookFailed, Done
<1>3. CASE HookApply(r)
  BY <1>0, <1>3 DEF HookApply, HookDuplicate, HookAgain, HookSucceeded, HookFailed, Done
<1>4. ASSUME NEW h \in Jobs \ {r}, RequestLost(h)
      PROVE  job'[r] = job[r] /\ stuck'[r] = stuck[r]
  BY <1>0, <1>1, <1>4 DEF RequestLost, Done
<1>5. CASE RequestLost(r)
  BY <1>0, <1>5 DEF RequestLost, Done
<1>6. ASSUME NEW q \in Reconcilers \ {r}, ReconcileFind(q) \/ \E p \in PaymentIds : ReconcileNext(q, p)
      PROVE  job'[r] = job[r] /\ stuck'[r] = stuck[r]
  BY <1>0, <1>6 DEF ReconcileFind, ReconcileNext
<1>7. CASE ReconcileFind(r)
  BY <1>7 DEF ReconcileFind
<1>8. CASE SeatStep \/ UNCHANGED vars
  BY <1>8 DEF SeatStep, payVars, vars
<1> QED BY <1>0, <1>2, <1>3, <1>4, <1>5, <1>6, <1>7, <1>8 DEF Next, Jobs

LEMMA NextSettleInv == SettleInv /\ [Next]_vars => SettleInv'
<1> SUFFICES ASSUME SettleInv, [Next]_vars PROVE SettleInv'
  OBVIOUS
<1>1. SeatInv' /\ TypeOK'
  BY NextTypeOK, NextSeatInv, NextIsSeatNext DEF SettleInv
<1>2. ClockBounded'
  <2>1. now' = now \/ Tick
    BY NextIsSeatNext DEF SettleInv, SeatNext, seatVars, CreateHold, CancelRead, CancelApply,
       CancelDropped, ConfirmBooking, FailBooking, SweepFind, SweepCommit, SweepAbort
  <2> QED BY <2>1, TimeAssumption DEF SettleInv, ClockBounded, Tick, TypeOK, SeatTypeOK
<1>3. ReconcilerOnlyFails'
  <2> SUFFICES ASSUME NEW r \in Reconcilers, job'[r] # Idle
               PROVE  /\ job'[r].pc = "hook"
                      /\ job'[r].event = ReconcileEvent /\ job'[r].status = "FAILED"
    BY DEF ReconcilerOnlyFails
  <2>1. CASE \E p \in PaymentIds : ReconcileNext(r, p)
    <3>1. job \in [Jobs -> Job] /\ r \in Jobs
      BY TypeOKParts DEF SettleInv, PayTypeOK, Jobs
    <3> QED BY <2>1, <3>1 DEF ReconcileNext
  <2>2. CASE job'[r] = job[r]
    BY <2>2 DEF SettleInv, ReconcilerOnlyFails
  <2> QED BY <2>1, <2>2, ReconcilerSteps DEF SettleInv
<1> QED BY <1>1, <1>2, <1>3 DEF SettleInv

LEMMA SettleInvariant == Spec => []SettleInv
<1>1. Init => SettleInv
  BY InitTypeOK, InitSeatInv, TimeAssumption
     DEF Init, SeatInit, SettleInv, ClockBounded, ReconcilerOnlyFails, Jobs
<1> QED BY <1>1, NextSettleInv, PTL DEF Spec

Late == now = MaxTime
Swept == \A s \in Seats : ~Lapsed(s)
Clear == Late /\ Swept

\* The sweep that has seats locked will free every seat whose hold ran out.
WillSweep == \A s \in Seats : Lapsed(s) => LockersFree(s)

\* With the clock stopped, no hold is granted and none runs out.
LEMMA LateStep ==
    ASSUME SettleInv, Late, [Next]_vars
    PROVE  /\ Late'
           /\ \A s \in Seats : Lapsed(s)' => Lapsed(s)
           /\ WillSweep => WillSweep'
           /\ LockingCommit => WillSweep' /\ (WillSweep => Swept')
<1>1. SeatInv /\ [SeatNext]_seatVars
  BY NextIsSeatNext DEF SettleInv
<1>2. ASSUME NEW b \in Bookings, NEW S \in SUBSET Seats, CreateHold(b, S) PROVE FALSE
  BY <1>2, TimeAssumption DEF CreateHold, Late
<1>3. ASSUME Tick PROVE FALSE
  BY <1>3, TimeAssumption DEF Tick, Late
<1>4. now' = now
  BY <1>1, <1>2, <1>3 DEF SeatNext, seatVars, CancelRead, CancelApply, CancelDropped,
     ConfirmBooking, FailBooking, SweepFind, SweepCommit, SweepAbort
<1>5. ASSUME NEW s \in Seats, NEW S, NEW row, seat' = WithSeats(S, row), row.status # "HELD"
      PROVE  Lapsed(s)' => Lapsed(s)
  <2>1. seat'[s] = IF s \in S THEN row ELSE seat[s]
    BY <1>5, WithSeatsRow
  <2> QED BY <1>4, <1>5, <2>1 DEF Lapsed
<1>6. \/ seat' = seat
      \/ \E S, row : row.status # "HELD" /\ seat' = WithSeats(S, row)
  <2>1. ASSUME NEW b, NEW status, NEW to \in {"AVAILABLE", "BOOKED"}, WriteBooking(b, status, to)
        PROVE  \E S, row : row.status # "HELD" /\ seat' = WithSeats(S, row)
    <3>1. [status |-> to, until |-> 0].status # "HELD"
      OBVIOUS
    <3> QED BY <2>1, <3>1 DEF WriteBooking
  <2>2. ASSUME NEW w \in Sweepers, SweepCommit(w)
        PROVE  \E S, row : row.status # "HELD" /\ seat' = WithSeats(S, row)
    <3>1. [status |-> "AVAILABLE", until |-> 0].status # "HELD"
      OBVIOUS
    <3> QED BY <2>2, <3>1 DEF SweepCommit
  <2> QED BY <1>1, <1>2, <1>3, <2>1, <2>2 DEF SeatNext, seatVars, CancelRead, CancelApply,
             CancelDropped, ConfirmBooking, FailBooking, SweepFind, SweepAbort
<1>7. \A s \in Seats : Lapsed(s)' => Lapsed(s)
  BY <1>4, <1>5, <1>6 DEF Lapsed
<1>8. WillSweep => WillSweep'
  BY <1>1, <1>7, SweepKeepsFinding DEF WillSweep
<1>9. LockingCommit => WillSweep' /\ (WillSweep => Swept')
  BY <1>1, <1>7, LockingCommitEnds DEF WillSweep, Swept
<1> QED BY <1>4, <1>7, <1>8, <1>9 DEF Late

\* Where no hold has run out, no seat is locked.
LEMMA SweptIsUnlocked == SettleInv /\ Swept => Locked = {}
BY DEF SettleInv, SeatInv, SweepsOnlyLapsed, SeatTypeOK, Swept, Locked

\* What the argument rests on, beside the payment's own fairness: one of the
\* sweepers, and one of the runs of the reconciler.
Settling(w, r) ==
    /\ []SettleInv /\ [][Next]_vars /\ []SweeperCanRun /\ []ReconcilerCanRun
    /\ WF_vars(Tick /\ UNCHANGED payVars)
    /\ SF_vars(LockingCommit /\ UNCHANGED payVars)
    /\ SweeperFairness(w)
    /\ WF_vars(ReconcileFind(r))
    /\ WF_vars(ReconcileOn(r))
    /\ WF_vars(HookApply(r))

\* A clock that shows k stops or comes to show n.
ClockReaches(k, n) == [](now >= k => <>(Late \/ now >= n))

LEMMA ClockTicks ==
    ASSUME NEW w \in Sweepers, NEW r \in Reconcilers, NEW k \in Nat
    PROVE  Settling(w, r) => ClockReaches(k, k + 1)
<1> DEFINE AtK == now >= k
           Over == Late \/ now >= k + 1
<1>1. SettleInv => now \in Nat /\ now <= MaxTime
  BY DEF SettleInv, SeatInv, SeatTypeOK, ClockBounded
<1>2. SettleInv /\ AtK /\ [Next]_vars => AtK'
  <2>1. SettleInv /\ [Next]_vars => now' = now \/ now' = now + 1
    BY NextIsSeatNext DEF SettleInv, SeatNext, seatVars, CreateHold, CancelRead, CancelApply,
       CancelDropped, ConfirmBooking, FailBooking, SweepFind, SweepCommit, SweepAbort, Tick
  <2> QED BY <1>1, <2>1
<1>3. SettleInv /\ AtK /\ <<Tick /\ UNCHANGED payVars>>_vars => Over'
  BY <1>1 DEF Tick
<1>4. SettleInv /\ ReconcilerCanRun /\ AtK => Over \/ ENABLED <<Tick /\ UNCHANGED payVars>>_vars
  <2>1. SettleInv /\ ~Late => now < MaxTime
    BY <1>1, TimeAssumption DEF Late
  <2> QED BY <2>1 DEF ReconcilerCanRun
<1> HIDE DEF AtK, Over
<1>5. Settling(w, r) => [](AtK => <>Over)
  BY <1>2, <1>3, <1>4, PTL DEF Settling
<1> QED BY <1>5, PTL DEF AtK, Over, ClockReaches

LEMMA TicksAddUp ==
    ASSUME NEW k \in Nat, NEW m \in Nat, NEW n \in Nat
    PROVE  ClockReaches(k, m) /\ ClockReaches(m, n) => ClockReaches(k, n)
BY PTL DEF ClockReaches

LEMMA ClockStops ==
    ASSUME NEW w \in Sweepers, NEW r \in Reconcilers, MaxTime \in 0..64
    PROVE  Settling(w, r) => <>[]Late
<1>1. \A k \in Nat : Settling(w, r) => ClockReaches(k, k + 1)
  BY ClockTicks
<1>2. ASSUME NEW k \in Nat PROVE Settling(w, r) => ClockReaches(k, k + 2)
  BY <1>1, TicksAddUp, k + 1 \in Nat, k + 2 \in Nat, (k + 1) + 1 = k + 2
<1>3. ASSUME NEW k \in Nat PROVE Settling(w, r) => ClockReaches(k, k + 4)
  BY <1>2, TicksAddUp, k + 2 \in Nat, k + 4 \in Nat, (k + 2) + 2 = k + 4
<1>4. ASSUME NEW k \in Nat PROVE Settling(w, r) => ClockReaches(k, k + 8)
  BY <1>3, TicksAddUp, k + 4 \in Nat, k + 8 \in Nat, (k + 4) + 4 = k + 8
<1>5. ASSUME NEW k \in Nat PROVE Settling(w, r) => ClockReaches(k, k + 16)
  BY <1>4, TicksAddUp, k + 8 \in Nat, k + 16 \in Nat, (k + 8) + 8 = k + 16
<1>6. ASSUME NEW k \in Nat PROVE Settling(w, r) => ClockReaches(k, k + 32)
  BY <1>5, TicksAddUp, k + 16 \in Nat, k + 32 \in Nat, (k + 16) + 16 = k + 32
<1>7. Settling(w, r) => ClockReaches(0, 32) /\ ClockReaches(32, 64)
  BY <1>6, 0 + 32 = 32, 32 + 32 = 64
<1>8. SettleInv => now >= 0 /\ (now >= 64 => Late)
  BY TimeAssumption DEF SettleInv, SeatInv, SeatTypeOK, ClockBounded, Late
<1>9. SettleInv /\ Late /\ [Next]_vars => Late'
  BY LateStep
<1> QED BY <1>7, <1>8, <1>9, PTL DEF Settling, ClockReaches

\* The last sweep: from then on no seat is locked.
LEMMA SweepsEnd ==
    ASSUME NEW w \in Sweepers, NEW r \in Reconcilers
    PROVE  Settling(w, r) /\ <>[]Late => <>[]Clear
<1> DEFINE None == Locked = {}
           Busy == sweep[w] # NoSweep
<1>1. SweeperCanRun /\ ~None => ENABLED <<LockingCommit /\ UNCHANGED payVars>>_vars
  BY DEF SweeperCanRun
<1>2. SweeperCanRun /\ ~Swept /\ ~Busy /\ None
        => ENABLED <<SweepFind(w) /\ UNCHANGED payVars>>_vars
  BY DEF SweeperCanRun, SweepIsDue, Swept
<1>3. SweeperCanRun /\ Busy => ENABLED <<SweepCommit(w) /\ UNCHANGED payVars>>_vars
  BY DEF SweeperCanRun
<1>4. SettleInv /\ Late /\ [Next]_vars => (WillSweep => WillSweep') /\ (Swept => Swept')
  BY LateStep DEF Swept
<1>5. SettleInv /\ Late /\ [Next]_vars /\ <<LockingCommit /\ UNCHANGED payVars>>_vars
        => WillSweep' /\ (WillSweep => Swept')
  BY LateStep
<1>6. SettleInv /\ <<SweepFind(w) /\ UNCHANGED payVars>>_vars => Busy'
  BY FindBegins DEF SettleInv
<1>7. SettleInv /\ <<SweepCommit(w) /\ UNCHANGED payVars>>_vars => ~Busy'
  BY CommitEnds DEF SettleInv
<1>8. SettleInv /\ [Next]_vars /\ ~Swept /\ ~Busy => ~Busy' \/ ~None'
  BY BegunLocks, NextIsSeatNext DEF SettleInv, Swept
<1>9. Clear <=> Late /\ Swept
  BY DEF Clear
<1> HIDE DEF None, Busy
<1> QED
  BY <1>1, <1>2, <1>3, <1>4, <1>5, <1>6, <1>7, <1>8, <1>9, PTL DEF Settling, SweeperFairness

\* A payment the reconciler should settle, and its turn to be taken up.
Waiting(p) == Stuck(p) /\ Newest(p, pay[p].booking)
Listed(r, p) == job[r] = Idle /\ p \in stuck[r]

\* Its callback is on the way.
TakenUp(r, p) == job[r] # Idle /\ job[r].pay = p

\* At most n payments left on the list.
Left(r, n) == Cardinality(stuck[r]) <= n

\* The list is finite, and each step that takes a payment off it shortens it.
LEMMA ListSteps ==
    ASSUME TypeOK, [Next]_vars, NEW r \in Reconcilers
    PROVE  /\ IsFiniteSet(stuck[r]) /\ Cardinality(stuck[r]) \in 0..MaxPayments
           /\ stuck'[r] = {} => Cardinality(stuck'[r]) = 0
           /\ \A p \in PaymentIds : ReconcileNext(r, p) =>
                 Cardinality(stuck[r]) > 0 /\ Cardinality(stuck'[r]) = Cardinality(stuck[r]) - 1
<1>1. stuck[r] \in SUBSET PaymentIds
  BY TypeOKParts, PayDomain DEF PayTypeOK
<1>2. IsFiniteSet(PaymentIds) /\ Cardinality(PaymentIds) = MaxPayments
  BY FS_Interval, PaymentAssumption DEF PaymentIds
<1>3. IsFiniteSet(stuck[r]) /\ Cardinality(stuck[r]) <= MaxPayments
  BY <1>1, <1>2, FS_Subset
<1>4. Cardinality(stuck[r]) \in Nat
  BY <1>3, FS_CardinalityType
<1>5. ASSUME NEW p \in PaymentIds, ReconcileNext(r, p)
      PROVE  Cardinality(stuck[r]) > 0 /\ Cardinality(stuck'[r]) = Cardinality(stuck[r]) - 1
  <2>1. p \in stuck[r] /\ stuck'[r] = stuck[r] \ {p}
    BY <1>5, TypeOKParts DEF PayTypeOK, ReconcileNext
  <2>2. Cardinality(stuck[r]) # 0
    BY <1>3, <2>1, FS_EmptySet
  <2>3. Cardinality(stuck[r] \ {p}) = Cardinality(stuck[r]) - 1
    BY <1>3, <2>1, FS_RemoveElement
  <2> QED BY <1>4, <2>1, <2>2, <2>3
<1>6. stuck'[r] = {} => Cardinality(stuck'[r]) = 0
  BY FS_EmptySet
<1> QED BY <1>3, <1>4, <1>5, <1>6, PaymentAssumption

\* A list made now has the payment on it.
LEMMA FindLists ==
    ASSUME NEW r \in Reconcilers, TypeOK, NEW p \in PaymentIds, Waiting(p), ReconcileFind(r)
    PROVE  Listed(r, p)'
BY TypeOKParts DEF PayTypeOK, Waiting, Stuck, ReconcileFind, Listed

\* A reconciler at work on a payment comes to an end with it.
LEMMA WorkEnds ==
    ASSUME SettleInv, NEW r \in Reconcilers, HookApply(r)
    PROVE  job'[r] = Idle /\ stuck'[r] = stuck[r]
<1>1. job \in [Jobs -> Job] /\ r \in Jobs
  BY TypeOKParts DEF SettleInv, PayTypeOK, Jobs
<1> QED BY <1>1 DEF HookApply, HookDuplicate, HookAgain, HookSucceeded, HookFailed, Done

\* The payment waits, and no seat is locked.
Draining(w, r, p) == Settling(w, r) /\ []Clear /\ []Waiting(p)

\* A list of m gets to the payment, or comes down to n.
ListReaches(r, p, m, n) == [](Left(r, m) => <>(Listed(r, p) \/ Left(r, n)))

LEMMA ListGetsShorter ==
    ASSUME NEW w \in Sweepers, NEW r \in Reconcilers, NEW p \in PaymentIds, NEW n \in Nat
    PROVE  Draining(w, r, p) => ListReaches(r, p, n + 1, n)
<1> DEFINE AtN == Left(r, n + 1)
           Over == Listed(r, p) \/ Left(r, n)
           Busy == job[r] # Idle
<1>0. SettleInv /\ [Next]_vars =>
        /\ Cardinality(stuck[r]) \in Nat
        /\ stuck'[r] = {} => Cardinality(stuck'[r]) = 0
        /\ ReconcileOn(r) => Cardinality(stuck'[r]) = Cardinality(stuck[r]) - 1
  BY ListSteps, PaymentAssumption DEF SettleInv, ReconcileOn
<1>1. SettleInv /\ Waiting(p) /\ AtN /\ [Next]_vars => AtN' \/ Over'
  <2> SUFFICES ASSUME SettleInv, Waiting(p), AtN, [Next]_vars PROVE AtN' \/ Over'
    OBVIOUS
  <2>1. CASE stuck'[r] = stuck[r]
    BY <2>1 DEF Left
  <2>2. CASE stuck'[r] = {}
    BY <1>0, <2>2 DEF Left
  <2>3. CASE ReconcileFind(r)
    BY <2>3, FindLists DEF SettleInv
  <2>4. CASE ReconcileOn(r)
    BY <1>0, <2>4 DEF Left
  <2> QED BY <2>1, <2>2, <2>3, <2>4, ReconcilerSteps DEF SettleInv, ReconcileOn
<1>2. SettleInv /\ Waiting(p) /\ AtN /\ ~Busy /\ [Next]_vars => (AtN /\ ~Busy)' \/ Over'
  <2> SUFFICES ASSUME SettleInv, Waiting(p), AtN, ~Busy, [Next]_vars
               PROVE  (AtN /\ ~Busy)' \/ Over'
    OBVIOUS
  <2>1. CASE stuck'[r] = stuck[r] /\ job'[r] = Idle
    BY <2>1 DEF Left
  <2>2. CASE ReconcileFind(r)
    BY <2>2, FindLists DEF SettleInv
  <2>3. CASE ReconcileOn(r)
    BY <1>0, <2>3 DEF Left
  <2> QED BY <2>1, <2>2, <2>3, ReconcilerSteps DEF SettleInv, ReconcileOn
<1>3. SettleInv /\ AtN /\ [Next]_vars /\ <<ReconcileOn(r)>>_vars => Over'
  BY <1>0 DEF Left
<1>4. SettleInv /\ <<HookApply(r)>>_vars => ~Busy'
  BY WorkEnds
<1>5. ReconcilerCanRun /\ ~Busy => Over \/ ENABLED <<ReconcileOn(r)>>_vars
  <2>1. stuck[r] = {} => Left(r, n)
    BY FS_EmptySet DEF Left
  <2> QED BY <2>1 DEF ReconcilerCanRun
<1>6. SettleInv /\ Clear /\ ReconcilerCanRun /\ Busy => ENABLED <<HookApply(r)>>_vars
  BY SweptIsUnlocked DEF ReconcilerCanRun, Clear
<1> HIDE DEF AtN, Over, Busy
<1>7. Draining(w, r, p) => [](AtN => <>Over)
  BY <1>1, <1>2, <1>3, <1>4, <1>5, <1>6, PTL DEF Draining, Settling
<1> QED BY <1>7, PTL DEF AtN, Over, ListReaches

LEMMA ListsAddUp ==
    ASSUME NEW r \in Reconcilers, NEW p \in PaymentIds, NEW l \in Nat, NEW m \in Nat, NEW n \in Nat
    PROVE  ListReaches(r, p, l, m) /\ ListReaches(r, p, m, n) => ListReaches(r, p, l, n)
BY PTL DEF ListReaches

\* A list comes to its end, unless it gets to the payment.
LEMMA ListEnds ==
    ASSUME NEW w \in Sweepers, NEW r \in Reconcilers, NEW p \in PaymentIds,
           MaxPayments \in 0..64
    PROVE  Draining(w, r, p) => []<>(Listed(r, p) \/ Left(r, 0))
<1>1. \A n \in Nat : Draining(w, r, p) => ListReaches(r, p, n + 1, n)
  BY ListGetsShorter
<1>2. ASSUME NEW n \in Nat PROVE Draining(w, r, p) => ListReaches(r, p, n + 2, n)
  BY <1>1, ListsAddUp, n + 1 \in Nat, n + 2 \in Nat, (n + 1) + 1 = n + 2
<1>3. ASSUME NEW n \in Nat PROVE Draining(w, r, p) => ListReaches(r, p, n + 4, n)
  BY <1>2, ListsAddUp, n + 2 \in Nat, n + 4 \in Nat, (n + 2) + 2 = n + 4
<1>4. ASSUME NEW n \in Nat PROVE Draining(w, r, p) => ListReaches(r, p, n + 8, n)
  BY <1>3, ListsAddUp, n + 4 \in Nat, n + 8 \in Nat, (n + 4) + 4 = n + 8
<1>5. ASSUME NEW n \in Nat PROVE Draining(w, r, p) => ListReaches(r, p, n + 16, n)
  BY <1>4, ListsAddUp, n + 8 \in Nat, n + 16 \in Nat, (n + 8) + 8 = n + 16
<1>6. ASSUME NEW n \in Nat PROVE Draining(w, r, p) => ListReaches(r, p, n + 32, n)
  BY <1>5, ListsAddUp, n + 16 \in Nat, n + 32 \in Nat, (n + 16) + 16 = n + 32
<1>7. Draining(w, r, p) => ListReaches(r, p, 32, 0) /\ ListReaches(r, p, 64, 32)
  BY <1>6, 0 + 32 = 32, 32 + 32 = 64
<1>8. SettleInv /\ [Next]_vars => Left(r, 64)
  BY ListSteps DEF SettleInv, Left
<1> QED BY <1>7, <1>8, PTL DEF Draining, Settling, ListReaches

\* And the next one has the payment on it: its turn comes over and over.
LEMMA TurnComes ==
    ASSUME NEW w \in Sweepers, NEW r \in Reconcilers, NEW p \in PaymentIds,
           MaxPayments \in 0..64
    PROVE  Draining(w, r, p) => []<>Listed(r, p)
<1> DEFINE Busy == job[r] # Idle
           Empty == stuck[r] = {}
<1>1. SettleInv /\ [Next]_vars /\ Left(r, 0) => Empty
  BY ListSteps, FS_EmptySet DEF SettleInv, Left
<1>2. SettleInv /\ Waiting(p) /\ Empty /\ [Next]_vars => Empty' \/ Listed(r, p)'
  <2> SUFFICES ASSUME SettleInv, Waiting(p), Empty, [Next]_vars PROVE Empty' \/ Listed(r, p)'
    OBVIOUS
  <2>1. ~\E q \in PaymentIds : ReconcileNext(r, q)
    BY DEF ReconcileNext
  <2> QED BY <2>1, ReconcilerSteps, FindLists DEF SettleInv
<1>3. SettleInv /\ Waiting(p) /\ Empty /\ ~Busy /\ [Next]_vars
        => (Empty /\ ~Busy)' \/ Listed(r, p)'
  <2> SUFFICES ASSUME SettleInv, Waiting(p), Empty, ~Busy, [Next]_vars
               PROVE  (Empty /\ ~Busy)' \/ Listed(r, p)'
    OBVIOUS
  <2>1. ~\E q \in PaymentIds : ReconcileNext(r, q)
    BY DEF ReconcileNext
  <2> QED BY <2>1, ReconcilerSteps, FindLists DEF SettleInv
<1>4. SettleInv /\ Waiting(p) /\ <<ReconcileFind(r)>>_vars => Listed(r, p)'
  BY FindLists DEF SettleInv
<1>5. SettleInv /\ <<HookApply(r)>>_vars => ~Busy'
  BY WorkEnds
<1>6. ReconcilerCanRun /\ Waiting(p) /\ Empty /\ ~Busy => ENABLED <<ReconcileFind(r)>>_vars
  BY DEF ReconcilerCanRun, Waiting
<1>7. SettleInv /\ Clear /\ ReconcilerCanRun /\ Busy => ENABLED <<HookApply(r)>>_vars
  BY SweptIsUnlocked DEF ReconcilerCanRun, Clear
<1> HIDE DEF Busy, Empty
<1>8. Draining(w, r, p) => []<>(Listed(r, p) \/ Left(r, 0))
  BY ListEnds
<1> QED
  BY <1>1, <1>2, <1>3, <1>4, <1>5, <1>6, <1>7, <1>8, PTL DEF Draining, Settling

\* Taken up, the payment found is the payment itself, being the newest; and the
\* reconciler's callback, a FAILED one never seen before, writes it.
LEMMA TakeAndSettle ==
    ASSUME SettleInv, NEW r \in Reconcilers, NEW p \in PaymentIds, Waiting(p)
    PROVE  /\ ReconcileNext(r, p) => TakenUp(r, p)'
           /\ HookApply(r) /\ job[r].pay = p => ~Waiting(p)'
<1>0. /\ job \in [Jobs -> Job] /\ r \in Jobs /\ recorded \in SUBSET DOMAIN pay
      /\ pay \in Seq(PaymentRow) /\ p \in DOMAIN pay
  BY TypeOKParts DEF SettleInv, PayTypeOK, Jobs, Waiting, Stuck
<1>1. ASSUME ReconcileNext(r, p) PROVE TakenUp(r, p)'
  <2>1. PICK q \in DOMAIN pay :
          /\ Newest(q, pay[p].booking)
          /\ job'[r] =
               [pc |-> "hook", event |-> ReconcileEvent, booking |-> pay[p].booking,
                status |-> "FAILED", pay |-> q, seen |-> pay[q].status]
    BY <1>0, <1>1 DEF ReconcileNext
  <2>2. q <= p /\ p <= q /\ p \in Nat /\ q \in Nat
    BY <1>0, <2>1, PayDomain DEF Newest, Waiting, PaymentIds
  <2>3. job'[r].pc = "hook" /\ job'[r].pay = p
    BY <2>1, <2>2
  <2> QED BY <2>3 DEF TakenUp, Idle
<1>2. ASSUME HookApply(r), job[r].pay = p PROVE ~Waiting(p)'
  <2>1. /\ job[r].event = ReconcileEvent /\ job[r].status = "FAILED"
        /\ ReconcileEvent \notin recorded
    <3>1. job[r].pc = "hook"
      BY <1>2 DEF HookApply, HookDuplicate, HookAgain, HookSucceeded, HookFailed
    <3>2. ReconcileEvent \notin DOMAIN pay
      BY <1>0, PayDomain DEF PaymentIds, ReconcileEvent
    <3> QED BY <1>0, <3>1, <3>2 DEF SettleInv, ReconcilerOnlyFails, Idle
  <2>2. HookFailed(r)
    BY <1>2, <2>1 DEF HookApply, HookDuplicate, HookAgain, HookSucceeded
  <2>3. pay' = [pay EXCEPT ![p].status = "FAILED"]
    BY <1>2, <2>2 DEF HookFailed, SetPayment
  <2>4. pay'[p].status = "FAILED"
    <3>1. pay[p] \in PaymentRow
      BY <1>0, PayDomain
    <3> QED BY <1>0, <2>3, <3>1 DEF PaymentRow
  <2> QED BY <2>4 DEF Waiting, Stuck
<1> QED BY <1>1, <1>2

\* Its own fairness settles it.
LEMMA SettlesAtLast ==
    ASSUME NEW w \in Sweepers, NEW r \in Reconcilers, NEW p \in PaymentIds,
           MaxPayments \in 0..64
    PROVE  Draining(w, r, p) /\ PaymentFairness(r, p) => FALSE
<1>1. Draining(w, r, p) => []<>Listed(r, p)
  BY TurnComes
<1>2. ReconcilerCanRun /\ Listed(r, p) => ENABLED <<ReconcileNext(r, p)>>_vars
  BY DEF ReconcilerCanRun, Listed
<1>3. SettleInv /\ Waiting(p) /\ <<ReconcileNext(r, p)>>_vars => TakenUp(r, p)'
  BY TakeAndSettle
<1>4. SettleInv /\ Clear /\ ReconcilerCanRun /\ TakenUp(r, p)
        => ENABLED <<HookApply(r) /\ job[r].pay = p>>_vars
  BY SweptIsUnlocked DEF ReconcilerCanRun, TakenUp, Clear
<1>5. SettleInv /\ Waiting(p) /\ <<HookApply(r) /\ job[r].pay = p>>_vars
        => ~Waiting(p)'
  BY TakeAndSettle
<1> QED
  BY <1>1, <1>2, <1>3, <1>4, <1>5, PTL DEF Draining, Settling, PaymentFairness

\* A payment whose callback never came does not keep its visitor waiting, whatever
\* holds, charges and refunds go on and however often the reconciler is stopped.
THEOREM NewestPaymentsSettle ==
    ASSUME MaxTime \in 0..64, MaxPayments \in 0..64
    PROVE  FairSpec /\ []SweeperCanRun /\ []ReconcilerCanRun => NewestPaymentSettles
<1>1. PICK w \in Sweepers, r \in Reconcilers : TRUE
  BY SweeperAssumption, ReconcilerAssumption
<1>2. SweepersGoOn => SweeperFairness(w)
  BY DEF SweepersGoOn
<1>3. ReconcilersGoOn => ReconcilerFairness(r)
  BY DEF ReconcilersGoOn
<1>4. FairSpec /\ []SweeperCanRun /\ []ReconcilerCanRun => Settling(w, r) /\ EveryPaymentFair(r)
  BY <1>2, <1>3, SettleInvariant, PTL
     DEF FairSpec, Spec, Fairness, ReconcilerFairness, Settling
<1>5. Settling(w, r) => <>[]Clear
  BY ClockStops, SweepsEnd, PTL
<1>6. ASSUME NEW p \in PaymentIds
      PROVE  FairSpec /\ []SweeperCanRun /\ []ReconcilerCanRun
               => (Stuck(p) ~> ~Stuck(p) \/ ~Newest(p, pay[p].booking))
  <2>1. EveryPaymentFair(r) => PaymentFairness(r, p)
    BY DEF EveryPaymentFair
  <2>2. Draining(w, r, p) /\ PaymentFairness(r, p) => FALSE
    BY SettlesAtLast
  <2>3. ~Waiting(p) => ~Stuck(p) \/ ~Newest(p, pay[p].booking)
    BY DEF Waiting
  <2>4. Settling(w, r) => []Settling(w, r)
    BY PTL DEF Settling, SweeperFairness
  <2>5. PaymentFairness(r, p) => []PaymentFairness(r, p)
    BY PTL DEF PaymentFairness
  <2>6. Settling(w, r) /\ PaymentFairness(r, p) => []<>~Waiting(p)
    BY <1>5, <2>2, <2>4, <2>5, PTL DEF Draining
  <2> QED BY <1>4, <2>1, <2>3, <2>6, PTL
<1> QED BY <1>6 DEF NewestPaymentSettles
=============================================================================
