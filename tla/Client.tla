------------------------------- MODULE Client -------------------------------
(***************************************************************************)
(* One visitor in the browser: the seat picker                             *)
(* (frontend/src/components/SeatPicker.tsx), the checkout page and the     *)
(* booking page (frontend/src/app), with the calls of                      *)
(* frontend/src/api/client.ts in flight between the page and the API.      *)
(*                                                                         *)
(* Every answer comes back when it likes, or not at all, and what the      *)
(* server says was true when it answered.  The API is kept to what these   *)
(* pages see of it; modules SeatBooking and Checkout are its model.        *)
(***************************************************************************)
EXTENDS Naturals, FiniteSets

CONSTANTS
    Seats,        \* the labels of the seat map
    MaxSelected,  \* MAX_SELECTED of the picker
    HoldTtl,      \* INITIAL_HOLD_TTL of the checkout page, in ticks
    GiveUp,       \* GIVE_UP_MS of the booking page, in polls
    Asks,         \* slots for getBooking calls in flight; bound
    MaxVersion,   \* bound: changes of the seats while the picker is open
    MaxVisits     \* bound: times the checkout page is mounted

ASSUME ClientAssumption ==
    /\ MaxSelected \in Nat \ {0} /\ HoldTtl \in Nat \ {0} /\ GiveUp \in Nat
    /\ MaxVersion \in Nat /\ MaxVisits \in Nat \ {0}

VARIABLES
    page,      \* the page the visitor is on
    picker,    \* state of SeatPicker
    fetches,   \* getSeatMap calls in flight and not aborted
    hold,      \* the holdSeats call in flight
    checkout,  \* state of the checkout page
    visits,    \* history: mounts of the checkout page
    poll,      \* state of useBookingPoll
    asks,      \* getBooking calls in flight
    seats, version,           \* the API: effective_status of the seats, and its changes
    booking,                  \* the API: the visitor's booking
    sent, open, charges       \* the API: charges asked for, with the gateway, and ever taken

pickerVars == <<picker, fetches, hold>>
checkoutVars == <<checkout, visits>>
pollVars == <<poll, asks>>
apiVars == <<seats, version, booking, sent, open, charges>>
vars == <<page, picker, fetches, hold, checkout, visits, poll, asks,
          seats, version, booking, sent, open, charges>>

SeatStatus == {"AVAILABLE", "HELD", "BOOKED"}
NoSeats == [s \in Seats |-> "ABSENT"]   \* a map without rows
Terminal == {"CONFIRMED", "CANCELLED", "EXPIRED"}
BookingStatus == {"PENDING"} \cup Terminal

\* A getSeatMap call before and after the API has read the seats.
Sent == [at |-> MaxVersion + 1]
Read == [map |-> seats, at |-> version]
NoHold == [pc |-> "none"]
NoBooking == [status |-> "NONE", seats |-> {}]

\* The state of a page when it is mounted.
OpenPicker(map, at) ==
    [map |-> map, at |-> at, selected |-> {}, holding |-> FALSE, conflict |-> FALSE]
OpenCheckout == [step |-> "PHONE", ref |-> "none", request |-> "none", ttl |-> HoldTtl]
OpenPoll == [shown |-> "NONE", timer |-> TRUE, gaveUp |-> FALSE, fatal |-> FALSE, fires |-> 0]
NoPoll == [OpenPoll EXCEPT !.timer = FALSE]
NoAsk == [a \in Asks |-> "none"]

Init ==
    /\ page = "picker"
    /\ seats \in [Seats -> {"AVAILABLE", "HELD"}]
    /\ version = 0
    /\ picker = OpenPicker(seats, 0)
    /\ fetches = {} /\ hold = NoHold
    /\ checkout = OpenCheckout /\ visits = 0
    /\ poll = NoPoll /\ asks = NoAsk
    /\ booking = NoBooking
    /\ sent = 0 /\ open = 0 /\ charges = 0

-----------------------------------------------------------------------------
\* The seat picker.

\* Picker p with a new map, and of the selection what is free in it; a hold that
\* has just been granted to this very visitor shows as HELD.
Shows(p, map, at) ==
    [p EXCEPT !.map = map, !.at = at, !.selected = {s \in @ : map[s] = "AVAILABLE"}]

\* What the abort of the call in flight can make of picker p.  A call without an
\* answer fails and is ignored.  In one whose answer is being read the abort
\* counts as an answer without a body: no seats, or the seats if theirs had been
\* read and only the show's had not.
Aborted(p) ==
    {p} \cup UNION {{Shows(p, NoSeats, p.at), Shows(p, f.map, f.at)} : f \in fetches \ {Sent}}

\* Mutant: the call in flight is not aborted.
Refresh_KeepsOld(p) == fetches' = fetches \cup {Sent} /\ picker' = p

\* refresh, with the picker in state p.
Refresh(p) == fetches' = {Sent} /\ picker' \in Aborted(p)

RefreshTimer ==
    /\ page = "picker"
    /\ Refresh(picker)
    /\ UNCHANGED <<page, hold, checkoutVars, pollVars, apiVars>>

MapRead(f) ==
    /\ f \in fetches /\ f = Sent
    /\ fetches' = (fetches \ {f}) \cup {Read}
    /\ UNCHANGED <<page, picker, hold, checkoutVars, pollVars, apiVars>>

\* Mutant: the selection is left alone.
MapArrives_KeepsSelection(f) ==
    /\ f \in fetches /\ f # Sent
    /\ picker' = [picker EXCEPT !.map = f.map, !.at = f.at]
    /\ fetches' = fetches \ {f}
    /\ UNCHANGED <<page, hold, checkoutVars, pollVars, apiVars>>

MapArrives(f) ==
    /\ f \in fetches /\ f # Sent
    /\ picker' = Shows(picker, f.map, f.at)
    /\ fetches' = fetches \ {f}
    /\ UNCHANGED <<page, hold, checkoutVars, pollVars, apiVars>>

\* A body that is cut off or cannot be parsed is no error: a map without seats.
MapArrivesEmpty(f) ==
    /\ f \in fetches /\ f # Sent
    /\ picker' = Shows(picker, NoSeats, picker.at)
    /\ fetches' = fetches \ {f}
    /\ UNCHANGED <<page, hold, checkoutVars, pollVars, apiVars>>

\* Refused, or no answer at all.
MapFails(f) ==
    /\ f \in fetches
    /\ fetches' = fetches \ {f}
    /\ UNCHANGED <<page, picker, hold, checkoutVars, pollVars, apiVars>>

\* toggle, also while a hold is out.
Toggle(s) ==
    /\ page = "picker"
    /\ picker.map[s] = "AVAILABLE"
    /\ \/ s \in picker.selected /\ picker' = [picker EXCEPT !.selected = @ \ {s}, !.conflict = FALSE]
       \/ /\ s \notin picker.selected /\ Cardinality(picker.selected) < MaxSelected
          /\ picker' = [picker EXCEPT !.selected = @ \cup {s}, !.conflict = FALSE]
    /\ UNCHANGED <<page, fetches, hold, checkoutVars, pollVars, apiVars>>

HoldClick ==
    /\ page = "picker"
    /\ picker.selected # {} /\ ~picker.holding
    /\ picker' = [picker EXCEPT !.holding = TRUE, !.conflict = FALSE]
    /\ hold' = [pc |-> "sent", seats |-> picker.selected]
    /\ UNCHANGED <<page, fetches, checkoutVars, pollVars, apiVars>>

\* The API grants all the seats or none.  It refuses without a conflict, too:
\* with a 400, if the labels could not be turned into ids.
HoldServed ==
    /\ hold.pc = "sent"
    /\ \/ /\ \A s \in hold.seats : seats[s] = "AVAILABLE"
          /\ version < MaxVersion
          /\ seats' = [s \in Seats |-> IF s \in hold.seats THEN "HELD" ELSE seats[s]]
          /\ version' = version + 1
          /\ booking' = [status |-> "PENDING", seats |-> hold.seats]
          /\ hold' = [hold EXCEPT !.pc = "held"]
       \/ /\ hold' = [hold EXCEPT !.pc = "conflict"]
          /\ UNCHANGED <<seats, version, booking>>
    /\ UNCHANGED <<page, picker, fetches, checkoutVars, pollVars, sent, open, charges>>

\* A page that is left drops its state; the map calls are aborted.
LeavePicker ==
    /\ picker' = OpenPicker(NoSeats, version)
    /\ fetches' = {} /\ hold' = NoHold

\* Held: on to the checkout page, which may know the booking or, with the body of
\* the answer lost, not.  Conflict: every seat asked for is taken out
\* of the selection, and the map is read again.
HoldArrives ==
    \/ /\ hold.pc = "held"
       /\ LeavePicker
       /\ page' = "checkout" /\ checkout' = OpenCheckout /\ visits' = visits + 1
       /\ UNCHANGED <<pollVars, apiVars>>
    \/ /\ hold.pc = "conflict"
       /\ Refresh([picker EXCEPT !.holding = FALSE, !.conflict = TRUE,
                                 !.selected = @ \ hold.seats])
       /\ hold' = NoHold
       /\ UNCHANGED <<page, checkoutVars, pollVars, apiVars>>

\* holdSeats throws (429, 5xx, network), before or after the API did its work;
\* nobody catches it and holding stays set.
HoldThrows ==
    /\ hold # NoHold
    /\ hold' = NoHold
    /\ UNCHANGED <<page, picker, fetches, checkoutVars, pollVars, apiVars>>

-----------------------------------------------------------------------------
\* Mutant: the button is not disabled.
Ready_NeverDisabled(step) == page = "checkout" /\ checkout.step = step /\ checkout.ttl > 0

\* The checkout page.  loading is checkout.request # "none"; the buttons are
\* there while the page's own countdown runs and disabled while it is loading.
Ready(step) ==
    page = "checkout" /\ checkout.step = step /\ checkout.ttl > 0 /\ checkout.request = "none"

Submit(step, request) ==
    /\ Ready(step)
    /\ checkout' = [checkout EXCEPT !.request = request]
    /\ UNCHANGED <<page, pickerVars, visits, pollVars, apiVars>>

\* handlePhoneSubmit: the booking of the hold is read and a code sent; if either
\* fails, or the hold's answer had no id, the page goes on with a made-up reference.
PhoneAnswered ==
    /\ page = "checkout" /\ checkout.request = "phone"
    /\ \E ref \in {"booking", "demo"} :
        checkout' = [checkout EXCEPT !.step = "OTP", !.ref = ref, !.request = "none"]
    /\ UNCHANGED <<page, pickerVars, visits, pollVars, apiVars>>

\* handleOtpSubmit: on to the payment, verified or not.
OtpAnswered ==
    /\ page = "checkout" /\ checkout.request = "otp"
    /\ checkout' = [checkout EXCEPT !.step = "PAYMENT", !.request = "none"]
    /\ UNCHANGED <<page, pickerVars, visits, pollVars, apiVars>>

\* handlePay: a new idempotency key, so never a repetition for the API.
Pay ==
    /\ Ready("PAYMENT")
    /\ checkout' = [checkout EXCEPT !.request = "pay"]
    /\ sent' = IF checkout.ref = "booking" THEN sent + 1 ELSE sent
    /\ UNCHANGED <<page, pickerVars, visits, pollVars, seats, version, booking, open, charges>>

\* Answered, refused or failed: on to the booking page, which starts polling.
PayAnswered ==
    /\ page = "checkout" /\ checkout.request = "pay"
    /\ page' = "booking"
    /\ checkout' = [checkout EXCEPT !.request = "none"]
    /\ poll' = OpenPoll
    /\ \E a \in Asks : asks' = [NoAsk EXCEPT ![a] = "sent"]
    /\ UNCHANGED <<pickerVars, visits, apiVars>>

Countdown ==
    /\ page = "checkout" /\ checkout.ttl > 0
    /\ checkout' = [checkout EXCEPT !.ttl = @ - 1]
    /\ UNCHANGED <<page, pickerVars, visits, pollVars, apiVars>>

\* Reload, or Back from the booking page: a new page, with a new countdown.
Revisit ==
    /\ page \in {"checkout", "booking"}
    /\ visits < MaxVisits
    /\ page' = "checkout" /\ checkout' = OpenCheckout /\ visits' = visits + 1
    /\ poll' = NoPoll /\ asks' = NoAsk
    /\ UNCHANGED <<pickerVars, apiVars>>

-----------------------------------------------------------------------------
\* The booking page.

\* Mutant: the interval never gives up.
PollTimer_NeverGivesUp ==
    /\ poll.timer
    /\ \E a \in Asks : asks[a] = "none" /\ asks' = [asks EXCEPT ![a] = "sent"]
    /\ UNCHANGED <<page, poll, pickerVars, checkoutVars, apiVars>>

\* The interval: its length was fixed when it started, calls in flight are
\* neither awaited nor aborted.
PollTimer ==
    /\ poll.timer
    /\ IF poll.fires > GiveUp
       THEN /\ poll' = [poll EXCEPT !.gaveUp = TRUE, !.timer = FALSE]
            /\ UNCHANGED asks
       ELSE /\ \E a \in Asks : asks[a] = "none" /\ asks' = [asks EXCEPT ![a] = "sent"]
            /\ poll' = [poll EXCEPT !.fires = @ + 1]
    /\ UNCHANGED <<page, pickerVars, checkoutVars, apiVars>>

BookingRead(a) ==
    /\ asks[a] = "sent" /\ checkout.ref = "booking"
    /\ asks' = [asks EXCEPT ![a] = booking.status]
    /\ UNCHANGED <<page, poll, pickerVars, checkoutVars, apiVars>>

\* The status is shown, whichever call brought it; a terminal one stops the interval.
BookingArrives(a) ==
    /\ asks[a] \in BookingStatus
    /\ poll' = [poll EXCEPT !.shown = asks[a], !.timer = @ /\ asks[a] \notin Terminal]
    /\ asks' = [asks EXCEPT ![a] = "none"]
    /\ UNCHANGED <<page, pickerVars, checkoutVars, apiVars>>

\* An error, the 404 of a made-up reference as well.  fetchBooking sees the
\* booking of its first render, which is null: every error is fatal.
BookingFails(a) ==
    /\ asks[a] # "none"
    /\ poll' = [poll EXCEPT !.fatal = TRUE, !.timer = FALSE]
    /\ asks' = [asks EXCEPT ![a] = "none"]
    /\ UNCHANGED <<page, pickerVars, checkoutVars, apiVars>>

\* "Try again" of the error and "Check again" of a poll that gave up.
Retry ==
    /\ page = "booking"
    /\ \/ poll.fatal /\ poll.shown = "NONE"
       \/ poll.gaveUp /\ poll.shown = "PENDING"
    /\ poll' = [OpenPoll EXCEPT !.shown = poll.shown]
    /\ \E a \in Asks : asks[a] = "none" /\ asks' = [asks EXCEPT ![a] = "sent"]
    /\ UNCHANGED <<page, pickerVars, checkoutVars, apiVars>>

-----------------------------------------------------------------------------
\* The API, as far as the pages see it.

\* Another visitor's seat is held, sold or given back while the picker is open.
OthersMove(s, status) ==
    /\ page = "picker" /\ version < MaxVersion
    /\ s \notin booking.seats
    /\ seats[s] # status
    /\ seats' = [seats EXCEPT ![s] = status]
    /\ version' = version + 1
    /\ UNCHANGED <<page, pickerVars, checkoutVars, pollVars, booking, sent, open, charges>>

\* POST /payments takes the charge of a PENDING booking and refuses any other;
\* the rate limiter, an open circuit or a lost request refuse that one too.
ChargeServed ==
    /\ sent > 0
    /\ sent' = sent - 1
    /\ \/ booking.status = "PENDING" /\ open' = open + 1 /\ charges' = charges + 1
       \/ UNCHANGED <<open, charges>>
    /\ UNCHANGED <<page, pickerVars, checkoutVars, pollVars, seats, version, booking>>

Callback(status) ==
    /\ open > 0
    /\ open' = open - 1
    /\ booking' = [booking EXCEPT !.status = status]
    /\ UNCHANGED <<page, pickerVars, checkoutVars, pollVars, seats, version, sent, charges>>

Expire ==
    /\ booking.status = "PENDING" /\ version < MaxVersion
    /\ booking' = [status |-> "EXPIRED", seats |-> {}]
    /\ seats' = [s \in Seats |-> IF s \in booking.seats THEN "AVAILABLE" ELSE seats[s]]
    /\ version' = version + 1
    /\ UNCHANGED <<page, pickerVars, checkoutVars, pollVars, sent, open, charges>>

Next ==
    \/ RefreshTimer
    \/ \E f \in fetches : MapRead(f) \/ MapArrives(f) \/ MapArrivesEmpty(f) \/ MapFails(f)
    \/ \E s \in Seats : Toggle(s)
    \/ HoldClick
    \/ HoldServed
    \/ HoldArrives
    \/ HoldThrows
    \/ Submit("PHONE", "phone")
    \/ PhoneAnswered
    \/ Submit("OTP", "otp")
    \/ OtpAnswered
    \/ Pay
    \/ PayAnswered
    \/ Countdown
    \/ Revisit
    \/ PollTimer
    \/ \E a \in Asks : BookingRead(a) \/ BookingArrives(a) \/ BookingFails(a)
    \/ Retry
    \/ \E s \in Seats, status \in SeatStatus : OthersMove(s, status)
    \/ ChargeServed
    \/ \E status \in {"CONFIRMED", "CANCELLED"} : Callback(status)
    \/ Expire

Spec == Init /\ [][Next]_vars

\* The browser runs its interval, and a call it waits for ends in an answer or
\* an error.
AskFairness(a) == WF_vars(BookingArrives(a) \/ BookingFails(a))

AsksEnd == \A a \in Asks : AskFairness(a)

Fairness == WF_vars(PollTimer) /\ AsksEnd

FairSpec == Spec /\ Fairness

-----------------------------------------------------------------------------
SeatMaps == [Seats -> SeatStatus]

\* The variables have their types.
TypeOK ==
    /\ page \in {"picker", "checkout", "booking"}
    /\ picker \in [map : SeatMaps \cup {NoSeats}, at : 0..MaxVersion, selected : SUBSET Seats,
                   holding : BOOLEAN, conflict : BOOLEAN]
    /\ fetches \in SUBSET ({Sent} \cup [map : SeatMaps, at : 0..MaxVersion])
    /\ hold \in {NoHold} \cup [pc : {"sent", "held", "conflict"}, seats : SUBSET Seats]
    /\ checkout \in [step : {"PHONE", "OTP", "PAYMENT"}, ref : {"none", "booking", "demo"},
                     request : {"none", "phone", "otp", "pay"}, ttl : 0..HoldTtl]
    /\ visits \in 0..MaxVisits
    /\ poll \in [shown : {"NONE"} \cup BookingStatus, timer : BOOLEAN, gaveUp : BOOLEAN,
                 fatal : BOOLEAN, fires : 0..(GiveUp + 1)]
    /\ asks \in [Asks -> {"none", "sent"} \cup BookingStatus]
    /\ seats \in SeatMaps /\ version \in 0..MaxVersion
    /\ booking \in [status : {"NONE"} \cup BookingStatus, seats : SUBSET Seats]
    /\ sent \in Nat /\ open \in Nat /\ charges \in Nat

\* What the visitor has selected is shown as free on the map next to it, while
\* maps, clicks, conflicts and holds come in any order (SeatPicker.tsx:69-73).
SelectedIsShownFree == \A s \in picker.selected : picker.map[s] = "AVAILABLE"

\* The map never goes back to an earlier state of the hall, though an earlier
\* call may be answered after a later one and an aborted call may still give a
\* map (SeatPicker.tsx:59-61, client.ts:73).
MapNeverGoesBack == [][picker'.at >= picker.at]_vars

\* One mount of the checkout page opens at most one charge: with a new
\* idempotency key for each call, the disabled button is all there is to keep
\* a double click from a double charge (client.ts:397, page.tsx:389).
ChargedOncePerVisit == charges <= visits

\* "a poll that never ends is just a spinner that lies more slowly"
\* (app/booking/[bookingId]/page.tsx:14): every interval is cleared again.
PollStops == poll.timer ~> ~poll.timer

\* The guards of what fairness asks for: the interval fires unless it would need
\* a slot for its call and has none, and a call in flight can end.
PollCanRun ==
    /\ poll.timer /\ (poll.fires > GiveUp \/ \E a \in Asks : asks[a] = "none") =>
          ENABLED <<PollTimer>>_vars
    /\ \A a \in Asks : asks[a] # "none" =>
          ENABLED <<BookingArrives(a) \/ BookingFails(a)>>_vars
=============================================================================
