----------------------------- MODULE StaticPage -----------------------------
(***************************************************************************)
(* The page the API itself serves (backend/public/app.js): one global      *)
(* state object, async handlers that change it when their answers come,    *)
(* and intervals.  No button is disabled while its call is in flight, so   *)
(* holds, charges, seat maps and countdowns of different bookings overlap. *)
(*                                                                         *)
(* The API is kept to what the page sees of it; SeatBooking and Checkout   *)
(* are its model.                                                          *)
(***************************************************************************)
EXTENDS Naturals, FiniteSets

CONSTANTS
    Shows, Seats,  \* the shows of the dropdown, the seats of their screen
    FirstShow,     \* shows[0]
    HoldCalls, PayCalls,  \* slots for calls in flight; bounds
    MaxBookings,   \* bound: holds the API grants
    MaxOpenings    \* bound: times the payment modal is opened

ASSUME StaticPageAssumption ==
    FirstShow \in Shows /\ MaxBookings \in Nat \ {0} /\ MaxOpenings \in Nat \ {0}

VARIABLES
    show,               \* state.currentShowId
    selected,           \* state.selectedSeatIds
    active,             \* state.activeBooking
    ticking, handle,    \* the countdowns that run, by booking; state.holdTimerInterval
    holdButton,         \* is btn-hold-seats displayed
    modal,              \* the idempotency key in the payment modal
    ticket,             \* the booking of the last ticket shown
    holds,              \* calls of handleHoldSeats
    pays,               \* calls of executePaymentCharge and what follows of them
    openings,           \* history: times the modal was opened
    booked,             \* the API: the bookings of this page
    charged             \* the API: what each idempotency key has charged

pageVars == <<show, selected, active, ticking, handle,
              holdButton, modal, ticket, holds, pays>>
apiVars == <<booked, charged>>
vars == <<show, selected, active, ticking, handle,
          holdButton, modal, ticket, holds, pays, openings, booked, charged>>

Bookings == 1..MaxBookings
Keys == 1..MaxOpenings
None == 0
Statuses == {"PENDING", "CONFIRMED", "CANCELLED", "EXPIRED"}
Idle == [pc |-> "idle"]

\* A call of handleHoldSeats, and one of executePaymentCharge with what follows.
HoldCall == {Idle} \cup [pc : {"refused"}] \cup [pc : {"sent"}, show : Shows, seats : SUBSET Seats]
                \cup [pc : {"held"}, booking : Bookings]
PayCall == {Idle} \cup [pc : {"accepted", "rejected", "timer"}]
                \cup [pc : {"sent"}, booking : Bookings, key : Keys]
                \cup [pc : {"check"}, booking : Bookings]
                \cup [pc : {"read"}, booking : Bookings, status : Statuses]

\* A booking of the API, and a payment by its idempotency key.
NoBooking == [status |-> "NONE"]
BookingRow == {NoBooking} \cup [status : Statuses, show : Shows, seats : SUBSET Seats]
NoCharge == [verdict |-> "NONE"]
ChargeRow == {NoCharge} \cup [verdict : {"open", "CONFIRMED", "CANCELLED"}, booking : Bookings]

Init ==
    /\ show = None /\ selected = {} /\ active = None /\ ticking = {} /\ handle = None
    /\ holdButton = TRUE /\ modal = None /\ ticket = None
    /\ holds = [c \in HoldCalls |-> Idle] /\ pays = [c \in PayCalls |-> Idle]
    /\ openings = 0
    /\ booked = [b \in Bookings |-> NoBooking]
    /\ charged = [k \in Keys |-> NoCharge]

-----------------------------------------------------------------------------
\* Shows and seats.

\* selectShow: selection and booking are dropped, the countdown and the buttons
\* stay as they are, and so does the map until the seats of the show come.
SelectShow(s) ==
    /\ show' = s
    /\ selected' = {} /\ active' = None
    /\ UNCHANGED <<ticking, handle, holdButton, modal, ticket, holds, pays, openings, apiVars>>

\* loadShows has answered: the first of them.
ShowsArrive == show = None /\ SelectShow(FirstShow)

\* onShowSelectChange, and selectMovieForBooking.
ShowSelected(s) == show # None /\ SelectShow(s)

\* toggleSeatSelection.  The button of a seat is enabled if the last seats that
\* came show it free, or if it is selected.  loadShowSeats runs every ten seconds
\* and in most handlers, shows what comes of whichever show it was asked, and does
\* not compare it with the selection; others take seats and give them back all
\* the time.  So any seat may be shown as free.
Toggle(x) ==
    /\ show # None
    /\ active = None
    /\ selected' = IF x \in selected THEN selected \ {x} ELSE selected \cup {x}
    /\ UNCHANGED <<show, active, ticking, handle, holdButton,
                   modal, ticket, holds, pays, openings, apiVars>>

-----------------------------------------------------------------------------
\* Holds and their countdown.

\* handleHoldSeats; its button is there again once the countdown is over.
HoldClick(c) ==
    /\ holds[c] = Idle
    /\ holdButton /\ show # None /\ selected # {}
    /\ holds' = [holds EXCEPT ![c] = [pc |-> "sent", show |-> show, seats |-> selected]]
    /\ UNCHANGED <<show, selected, active, ticking, handle, holdButton,
                   modal, ticket, pays, openings, apiVars>>

Live(b) == booked[b].status \in {"PENDING", "CONFIRMED"}

\* The API grants all the seats or refuses; another visitor may have them.
HoldServed(c) ==
    /\ holds[c].pc = "sent"
    /\ \/ \E b \in Bookings :
            /\ booked[b] = NoBooking /\ \A d \in Bookings : d < b => booked[d] # NoBooking
            /\ \A d \in Bookings : Live(d) /\ booked[d].show = holds[c].show
                                      => booked[d].seats \cap holds[c].seats = {}
            /\ booked' = [booked EXCEPT ![b] = [status |-> "PENDING", show |-> holds[c].show,
                                                seats |-> holds[c].seats]]
            /\ holds' = [holds EXCEPT ![c] = [pc |-> "held", booking |-> b]]
       \/ /\ holds' = [holds EXCEPT ![c] = [pc |-> "refused"]]
          /\ UNCHANGED booked
    /\ UNCHANGED <<show, selected, active, ticking, handle, holdButton,
                   modal, ticket, pays, openings, charged>>

\* Mutant: the countdown of the booking before runs on.
HoldArrives_KeepsTimer(c) ==
    /\ holds[c].pc = "held"
    /\ active' = holds[c].booking
    /\ ticking' = ticking \cup {holds[c].booking}
    /\ handle' = holds[c].booking
    /\ holdButton' = FALSE
    /\ holds' = [holds EXCEPT ![c] = Idle]
    /\ UNCHANGED <<show, selected, modal, ticket, pays, openings, apiVars>>

\* Held: it becomes the booking of the page, whatever the page shows by now, and
\* startHoldTimer stops the countdown the handle names before it starts its own.
HoldArrives(c) ==
    /\ holds[c].pc = "held"
    /\ active' = holds[c].booking
    /\ ticking' = (ticking \ {handle}) \cup {holds[c].booking}
    /\ handle' = holds[c].booking
    /\ holdButton' = FALSE
    /\ holds' = [holds EXCEPT ![c] = Idle]
    /\ UNCHANGED <<show, selected, modal, ticket, pays, openings, apiVars>>

\* Refused, or lost on the way there or back: an alert; the selection stays.
HoldFails(c) ==
    /\ holds[c] # Idle
    /\ holds' = [holds EXCEPT ![c] = Idle]
    /\ UNCHANGED <<show, selected, active, ticking, handle, holdButton,
                   modal, ticket, pays, openings, apiVars>>

\* Mutant: the hold button stays hidden.
ResetBookingState_ButtonHidden ==
    /\ active' = None /\ selected' = {}
    /\ ticking' = ticking \ {handle}
    /\ UNCHANGED holdButton

\* resetBookingState: the countdown the handle names stops; the handle is kept.
ResetBookingState ==
    /\ active' = None /\ selected' = {}
    /\ ticking' = ticking \ {handle}
    /\ holdButton' = TRUE

\* The countdown of b reaches zero: it stops what the handle names, not itself.
TimerEnds(b) ==
    /\ b \in ticking
    /\ ResetBookingState
    /\ UNCHANGED <<show, handle, modal, ticket, holds, pays, openings, apiVars>>

-----------------------------------------------------------------------------
\* Charges, and the one look at the booking that follows.

\* openPaymentModal: a new idempotency key.
OpenModal ==
    /\ active # None /\ ~holdButton
    /\ openings < MaxOpenings
    /\ openings' = openings + 1
    /\ modal' = openings + 1
    /\ UNCHANGED <<show, selected, active, ticking, handle, holdButton,
                   ticket, holds, pays, apiVars>>

CloseModal ==
    /\ modal # None
    /\ modal' = None
    /\ UNCHANGED <<show, selected, active, ticking, handle, holdButton,
                   ticket, holds, pays, openings, apiVars>>

\* Mutant: the key is made when the charge is sent.
ChargeClick_NewKey(c) ==
    /\ pays[c] = Idle
    /\ modal # None /\ active # None
    /\ \E k \in Keys : pays' = [pays EXCEPT ![c] = [pc |-> "sent", booking |-> active, key |-> k]]
    /\ UNCHANGED <<show, selected, active, ticking, handle, holdButton,
                   modal, ticket, holds, openings, apiVars>>

\* executePaymentCharge: the key of the modal, but the booking of the page now.
ChargeClick(c) ==
    /\ pays[c] = Idle
    /\ modal # None /\ active # None
    /\ pays' = [pays EXCEPT ![c] = [pc |-> "sent", booking |-> active, key |-> modal]]
    /\ UNCHANGED <<show, selected, active, ticking, handle, holdButton,
                   modal, ticket, holds, openings, apiVars>>

\* POST /payments: a PENDING booking, and a key that has charged nothing yet; a
\* key that has is answered with its payment, whatever booking that was for.
ChargeServed(c) ==
    /\ pays[c].pc = "sent"
    /\ \/ /\ booked[pays[c].booking].status = "PENDING"
          /\ charged' = IF charged[pays[c].key] = NoCharge
                        THEN [charged EXCEPT ![pays[c].key] =
                                [verdict |-> "open", booking |-> pays[c].booking]]
                        ELSE charged
          /\ pays' = [pays EXCEPT ![c] = [pc |-> "accepted"]]
       \/ /\ pays' = [pays EXCEPT ![c] = [pc |-> "rejected"]]
          /\ UNCHANGED charged
    /\ UNCHANGED <<show, selected, active, ticking, handle, holdButton,
                   modal, ticket, holds, openings, booked>>

\* 202: the modal closes, whichever it is by now, and a timer is set.
ChargeArrives(c) ==
    /\ pays[c].pc \in {"accepted", "rejected"}
    /\ modal' = None
    /\ pays' = [pays EXCEPT ![c] = IF pays[c].pc = "accepted" THEN [pc |-> "timer"] ELSE Idle]
    /\ UNCHANGED <<show, selected, active, ticking, handle, holdButton,
                   ticket, holds, openings, apiVars>>

\* 2.5 seconds later: the booking of the page then.  There may be none any more:
\* the callback throws, and the payment is not looked at again.
CheckTimer(c) ==
    /\ pays[c].pc = "timer"
    /\ pays' = [pays EXCEPT ![c] = IF active = None THEN Idle ELSE [pc |-> "check", booking |-> active]]
    /\ UNCHANGED <<show, selected, active, ticking, handle, holdButton,
                   modal, ticket, holds, openings, apiVars>>

CheckRead(c) ==
    /\ pays[c].pc = "check"
    /\ pays' = [pays EXCEPT ![c] = [pc |-> "read", booking |-> pays[c].booking,
                                    status |-> booked[pays[c].booking].status]]
    /\ UNCHANGED <<show, selected, active, ticking, handle, holdButton,
                   modal, ticket, holds, openings, apiVars>>

\* Mutant: any booking that was not cancelled gets its ticket.
CheckArrives_NotCancelled(c) ==
    /\ pays[c].pc = "read"
    /\ ticket' = IF pays[c].status # "CANCELLED" THEN pays[c].booking ELSE ticket
    /\ ResetBookingState
    /\ pays' = [pays EXCEPT ![c] = Idle]
    /\ UNCHANGED <<show, handle, modal, holds, openings, apiVars>>

\* CONFIRMED: the ticket.  CANCELLED: an alert.  Either resets the page, whatever
\* booking it has by now; any other status leaves it alone.
CheckArrives(c) ==
    /\ pays[c].pc = "read"
    /\ ticket' = IF pays[c].status = "CONFIRMED" THEN pays[c].booking ELSE ticket
    /\ IF pays[c].status \in {"CONFIRMED", "CANCELLED"}
       THEN ResetBookingState
       ELSE UNCHANGED <<active, selected, ticking, holdButton>>
    /\ pays' = [pays EXCEPT ![c] = Idle]
    /\ UNCHANGED <<show, handle, modal, holds, openings, apiVars>>

\* A call that is lost, on the way there or back.
PayFails(c) ==
    /\ pays[c].pc \in {"sent", "accepted", "check", "read"}
    /\ pays' = [pays EXCEPT ![c] = Idle]
    /\ UNCHANGED <<show, selected, active, ticking, handle, holdButton,
                   modal, ticket, holds, openings, apiVars>>

\* The visitor reloads the page: what it knew is gone, the API's bookings are not.
Reload ==
    /\ show' = None /\ selected' = {} /\ active' = None /\ ticking' = {} /\ handle' = None
    /\ holdButton' = TRUE /\ modal' = None /\ ticket' = None
    /\ holds' = [c \in HoldCalls |-> Idle] /\ pays' = [c \in PayCalls |-> Idle]
    /\ UNCHANGED <<openings, apiVars>>

-----------------------------------------------------------------------------
\* The API.

\* The callback of a charge; it decides the booking whatever it is by now.
Callback(k, status) ==
    /\ charged[k].verdict = "open"
    /\ charged' = [charged EXCEPT ![k].verdict = status]
    /\ booked' = [booked EXCEPT ![charged[k].booking].status = status]
    /\ UNCHANGED <<pageVars, openings>>

\* The expiry sweep, or the reconciler.
Released(b, status) ==
    /\ booked[b].status = "PENDING"
    /\ booked' = [booked EXCEPT ![b].status = status]
    /\ UNCHANGED <<pageVars, openings, charged>>

Next ==
    \/ ShowsArrive
    \/ \E s \in Shows : ShowSelected(s)
    \/ \E x \in Seats : Toggle(x)
    \/ \E c \in HoldCalls : HoldClick(c) \/ HoldServed(c) \/ HoldArrives(c) \/ HoldFails(c)
    \/ \E c \in PayCalls :
        \/ ChargeClick(c) \/ ChargeServed(c) \/ ChargeArrives(c)
        \/ CheckTimer(c) \/ CheckRead(c) \/ CheckArrives(c) \/ PayFails(c)
    \/ \E b \in Bookings : TimerEnds(b) \/ \E status \in {"CANCELLED", "EXPIRED"} : Released(b, status)
    \/ OpenModal
    \/ CloseModal
    \/ Reload
    \/ \E k \in Keys, status \in {"CONFIRMED", "CANCELLED"} : Callback(k, status)

Spec == Init /\ [][Next]_vars

\* The interval of a countdown fires until its time is over.
Fairness == WF_vars(\E b \in Bookings : TimerEnds(b))

FairSpec == Spec /\ Fairness

\* When the countdown can end, which the fairness above is of.
TimerCanEnd == ticking # {} /\ ~holdButton => ENABLED <<\E b \in Bookings : TimerEnds(b)>>_vars

-----------------------------------------------------------------------------
\* The variables have their types.
TypeOK ==
    /\ show \in Shows \cup {None} /\ selected \in SUBSET Seats
    /\ active \in Bookings \cup {None}
    /\ ticking \in SUBSET Bookings /\ handle \in Bookings \cup {None}
    /\ holdButton \in BOOLEAN
    /\ modal \in Keys \cup {None} /\ ticket \in Bookings \cup {None}
    /\ holds \in [HoldCalls -> HoldCall] /\ pays \in [PayCalls -> PayCall]
    /\ openings \in 0..MaxOpenings
    /\ booked \in [Bookings -> BookingRow] /\ charged \in [Keys -> ChargeRow]

\* The booking the page would pay is the one whose countdown runs, and no other
\* countdown runs beside it, nor any the page could not stop: the end of one
\* booking's time never takes another booking away, though two holds may be in
\* flight and be answered in any order (app.js:292-330).
CountdownIsOfTheBooking ==
    /\ ticking \subseteq {handle}
    /\ active # None => ticking = {active}

\* One opening of the modal charges at most once, however often the button, which
\* is never disabled, is clicked, and whichever booking the page has by then
\* (app.js:341, 354).
ChargedOncePerOpening == Cardinality({k \in Keys : charged[k] # NoCharge}) <= openings

\* A ticket is shown only of a booking whose payment, begun on this page, has
\* succeeded, though the booking looked at is not always the one charged
\* (app.js:385, 409).
TicketWasPaid ==
    ticket # None => \E k \in Keys :
        charged[k].verdict = "CONFIRMED" /\ charged[k].booking = ticket

\* A visitor can always hold again: a hidden hold button comes back, also when
\* another show was chosen, which drops the booking and hides nothing
\* (app.js:141-158, 278, 328).
HoldButtonReturns == ~holdButton ~> holdButton
=============================================================================
