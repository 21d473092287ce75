-------------------------- MODULE StaticPageProofs --------------------------
(***************************************************************************)
(* Proofs about module StaticPage, for every set of shows, seats and calls *)
(* in flight, and any number of bookings and openings of the modal.        *)
(*                                                                         *)
(* The countdown is inductive as it stands.  That an opening charges once  *)
(* needs to know where keys come from (KeysWereOpened), and that a ticket  *)
(* was paid what a status read earlier stands for (PaidWhenConfirmed).     *)
(***************************************************************************)
EXTENDS StaticPage, FiniteSetTheorems, TLAPS

LEMMA BookingIds ==
    /\ Bookings \subseteq Nat \ {0} /\ Keys \subseteq Nat \ {0} /\ None = 0
    /\ MaxOpenings \in Nat /\ MaxBookings \in Nat
BY StaticPageAssumption DEF Bookings, Keys, None

\* What the fields of a call at work are.
LEMMA HoldFields ==
    ASSUME NEW j \in HoldCall
    PROVE  /\ j.pc = "sent" => j.show \in Shows /\ j.seats \in SUBSET Seats
           /\ j.pc = "held" => j.booking \in Bookings
BY DEF HoldCall, Idle

LEMMA PayFields ==
    ASSUME NEW j \in PayCall
    PROVE  /\ j.pc = "sent" => j.booking \in Bookings /\ j.key \in Keys
           /\ j.pc = "check" => j.booking \in Bookings
           /\ j.pc = "read" => j.booking \in Bookings /\ j.status \in Statuses
BY DEF PayCall, Idle

LEMMA ChargeFields ==
    ASSUME NEW r \in ChargeRow
    PROVE  r # NoCharge => r.booking \in Bookings
BY DEF ChargeRow

\* Answers of the API fit into their tables.
LEMMA ChargeMoves ==
    ASSUME NEW r \in ChargeRow, NEW status \in {"CONFIRMED", "CANCELLED"}, r.verdict = "open"
    PROVE  /\ r.booking \in Bookings
           /\ [r EXCEPT !.verdict = status] \in ChargeRow
           /\ [r EXCEPT !.verdict = status].verdict = status
           /\ [r EXCEPT !.verdict = status].booking = r.booking
BY DEF ChargeRow, NoCharge

-----------------------------------------------------------------------------
(* Types. *)

LEMMA InitTypeOK == Init => TypeOK
BY BookingIds DEF Init, TypeOK, HoldCall, PayCall, BookingRow, ChargeRow

\* Records that steps write, in their types.
LEMMA NewCalls ==
    /\ Idle \in HoldCall /\ Idle \in PayCall
    /\ [pc |-> "refused"] \in HoldCall
    /\ \A s \in Shows, q \in SUBSET Seats : [pc |-> "sent", show |-> s, seats |-> q] \in HoldCall
    /\ \A b \in Bookings : [pc |-> "held", booking |-> b] \in HoldCall
    /\ \A p \in {"accepted", "rejected", "timer"} : [pc |-> p] \in PayCall
    /\ \A b \in Bookings, k \in Keys : [pc |-> "sent", booking |-> b, key |-> k] \in PayCall
    /\ \A b \in Bookings : [pc |-> "check", booking |-> b] \in PayCall
    /\ \A b \in Bookings, t \in Statuses : [pc |-> "read", booking |-> b, status |-> t] \in PayCall
BY DEF HoldCall, PayCall, Idle

LEMMA NewRows ==
    /\ \A s \in Shows, q \in SUBSET Seats :
          [status |-> "PENDING", show |-> s, seats |-> q] \in BookingRow
    /\ \A b \in Bookings : [verdict |-> "open", booking |-> b] \in ChargeRow
    /\ \A r \in BookingRow, t \in Statuses :
          r # NoBooking => r.status \in Statuses /\ [r EXCEPT !.status = t] \in BookingRow
BY DEF BookingRow, ChargeRow, Statuses, NoBooking

\* Whatever names a booking names one the API has granted.
Granted(b) == booked[b] # NoBooking
BookingsAreGranted ==
    /\ active # None => Granted(active)
    /\ \A c \in HoldCalls : holds[c].pc = "held" => Granted(holds[c].booking)
    /\ \A c \in PayCalls : pays[c].pc = "check" => Granted(pays[c].booking)
    /\ \A k \in Keys : charged[k] # NoCharge => Granted(charged[k].booking)

\* What a status that is asked for says of its booking.
LEMMA PendingIsGranted ==
    ASSUME NEW r \in BookingRow, r.status = "PENDING"
    PROVE  r # NoBooking
BY DEF NoBooking

-----------------------------------------------------------------------------
(* Types, one step for each action. *)

PageTypes == TypeOK /\ BookingsAreGranted

LEMMA InitTypes == Init => PageTypes
<1>1. Init => BookingsAreGranted
  BY DEF Init, BookingsAreGranted, Idle
<1> QED BY <1>1, InitTypeOK DEF PageTypes

\* The API's tables only grow: a booking once granted stays.
LEMMA ReleasedTypes ==
    ASSUME PageTypes, NEW b \in Bookings, NEW t \in Statuses, Granted(b),
           booked' = [booked EXCEPT ![b].status = t]
    PROVE  /\ booked' \in [Bookings -> BookingRow]
           /\ \A d \in Bookings : booked[d] # NoBooking => booked'[d] # NoBooking
           /\ booked'[b].status = t
           /\ \A d \in Bookings \ {b} : booked'[d] = booked[d]
<1>1. booked \in [Bookings -> BookingRow] /\ booked[b] \in BookingRow /\ booked[b] # NoBooking
  BY DEF PageTypes, TypeOK, Granted
<1>2. [booked[b] EXCEPT !.status = t] \in BookingRow
  BY <1>1, NewRows
<1>3. booked' = [booked EXCEPT ![b] = [booked[b] EXCEPT !.status = t]]
  OBVIOUS
<1>4. [booked[b] EXCEPT !.status = t].status = t
  BY <1>1 DEF BookingRow, NoBooking
<1>5. booked'[b].status # "NONE"
  BY <1>1, <1>3, <1>4 DEF Statuses
<1>6. booked'[b] # NoBooking
  BY <1>5 DEF NoBooking
<1> QED BY <1>1, <1>2, <1>3, <1>4, <1>6 DEF Granted

LEMMA NextTypes == PageTypes /\ [Next]_vars => PageTypes'
<1> SUFFICES ASSUME PageTypes, [Next]_vars PROVE PageTypes'
  OBVIOUS
<1> USE DEF PageTypes, TypeOK, BookingsAreGranted
<1>1. ASSUME NEW s \in Shows, SelectShow(s) PROVE PageTypes'
  BY <1>1 DEF SelectShow, apiVars, Granted
<1>2. ShowsArrive => \E s \in Shows : SelectShow(s)
  BY StaticPageAssumption DEF ShowsArrive
<1>3. ASSUME NEW s \in Shows, ShowSelected(s) PROVE PageTypes'
  BY <1>1, <1>3 DEF ShowSelected
<1>4. ASSUME NEW x \in Seats, Toggle(x) PROVE PageTypes'
  BY <1>4 DEF Toggle, apiVars, Granted
<1>5. ASSUME NEW c \in HoldCalls, HoldClick(c) PROVE PageTypes'
  <2>1. [pc |-> "sent", show |-> show, seats |-> selected] \in HoldCall
    BY <1>5, NewCalls DEF HoldClick
  <2> QED BY <1>5, <2>1 DEF HoldClick, apiVars, Granted
<1>6. ASSUME NEW c \in HoldCalls, HoldServed(c) PROVE PageTypes'
  <2>1. ASSUME holds' = [holds EXCEPT ![c] = [pc |-> "refused"]], UNCHANGED booked PROVE PageTypes'
    BY <1>6, <2>1, NewCalls DEF HoldServed, Granted
  <2>2. ASSUME NEW b \in Bookings, booked[b] = NoBooking,
               booked' = [booked EXCEPT ![b] = [status |-> "PENDING", show |-> holds[c].show,
                                                seats |-> holds[c].seats]],
               holds' = [holds EXCEPT ![c] = [pc |-> "held", booking |-> b]]
        PROVE  PageTypes'
    <3>1. [status |-> "PENDING", show |-> holds[c].show, seats |-> holds[c].seats] \in BookingRow
      BY <1>6, HoldFields, NewRows DEF HoldServed
    <3>2. [status |-> "PENDING", show |-> holds[c].show, seats |-> holds[c].seats] # NoBooking
      BY DEF NoBooking
    <3>3. \A d \in Bookings : booked[d] # NoBooking => booked'[d] # NoBooking
      BY <2>2, <3>2 DEF Granted
    <3>4. booked'[b] # NoBooking
      BY <2>2, <3>2 DEF Granted
    <3>5. TypeOK'
      BY <1>6, <2>2, <3>1, NewCalls DEF HoldServed
    <3>6. \A d \in HoldCalls : holds'[d].pc = "held" => booked'[holds'[d].booking] # NoBooking
      BY <2>2, <3>3, <3>4, HoldFields DEF Granted
    <3>7. \A k \in Keys : charged'[k] # NoCharge => booked'[charged'[k].booking] # NoBooking
      BY <1>6, <3>3, ChargeFields DEF HoldServed, Granted
    <3>8. (active' # None => Granted(active)')
          /\ \A d \in PayCalls : pays'[d].pc = "check" => booked'[pays'[d].booking] # NoBooking
      BY <1>6, <3>3, PayFields DEF HoldServed, Granted
    <3> QED BY <3>5, <3>6, <3>7, <3>8 DEF Granted
  <2> QED BY <1>6, <2>1, <2>2 DEF HoldServed
<1>7. ASSUME NEW c \in HoldCalls, HoldArrives(c) PROVE PageTypes'
  <2>1. holds[c].booking \in Bookings /\ Granted(holds[c].booking)
    BY <1>7, HoldFields DEF HoldArrives
  <2> QED BY <1>7, <2>1, NewCalls DEF HoldArrives, apiVars, Granted, Idle
<1>8. ASSUME NEW c \in HoldCalls, HoldFails(c) PROVE PageTypes'
  BY <1>8, NewCalls DEF HoldFails, apiVars, Granted, Idle
<1>9. ASSUME NEW b \in Bookings, TimerEnds(b) PROVE PageTypes'
  BY <1>9 DEF TimerEnds, ResetBookingState, apiVars, Granted
<1>10. CASE OpenModal
  <2>1. openings' \in 0..MaxOpenings /\ modal' \in Keys
    BY <1>10, BookingIds DEF OpenModal, Keys
  <2> QED BY <1>10, <2>1 DEF OpenModal, apiVars, Granted
<1>11. CASE CloseModal
  BY <1>11 DEF CloseModal, apiVars, Granted
<1>12. ASSUME NEW c \in PayCalls, ChargeClick(c) PROVE PageTypes'
  <2>1. [pc |-> "sent", booking |-> active, key |-> modal] \in PayCall
    BY <1>12, NewCalls DEF ChargeClick
  <2> QED BY <1>12, <2>1 DEF ChargeClick, apiVars, Granted
<1>13. ASSUME NEW c \in PayCalls, ChargeServed(c) PROVE PageTypes'
  <2>1. ASSUME pays' = [pays EXCEPT ![c] = [pc |-> "rejected"]], UNCHANGED charged PROVE PageTypes'
    BY <1>13, <2>1, NewCalls DEF ChargeServed, Granted
  <2>2. ASSUME booked[pays[c].booking].status = "PENDING",
               charged' = IF charged[pays[c].key] = NoCharge
                          THEN [charged EXCEPT ![pays[c].key] =
                                  [verdict |-> "open", booking |-> pays[c].booking]]
                          ELSE charged,
               pays' = [pays EXCEPT ![c] = [pc |-> "accepted"]]
        PROVE  PageTypes'
    <3>1. pays[c].booking \in Bookings /\ pays[c].key \in Keys
      BY <1>13, PayFields DEF ChargeServed
    <3>2. Granted(pays[c].booking)
      BY <2>2, <3>1, PendingIsGranted DEF Granted
    <3>3. charged' \in [Keys -> ChargeRow]
      BY <2>2, <3>1, NewRows
    <3>4. \A k \in Keys : charged'[k] # NoCharge => Granted(charged'[k].booking)
      BY <2>2, <3>1, <3>2
    <3>5. pays' \in [PayCalls -> PayCall]
      BY <2>2, NewCalls
    <3> QED BY <1>13, <2>2, <3>3, <3>4, <3>5 DEF ChargeServed, Granted
  <2> QED BY <1>13, <2>1, <2>2 DEF ChargeServed
<1>14. ASSUME NEW c \in PayCalls, ChargeArrives(c) PROVE PageTypes'
  <2>1. pays' \in [PayCalls -> PayCall]
    BY <1>14, NewCalls DEF ChargeArrives
  <2>2. pays'[c].pc # "check"
    BY <1>14 DEF ChargeArrives, Idle
  <2> QED BY <1>14, <2>1, <2>2 DEF ChargeArrives, apiVars, Granted
<1>15. ASSUME NEW c \in PayCalls, CheckTimer(c) PROVE PageTypes'
  <2>1. pays' \in [PayCalls -> PayCall]
    BY <1>15, NewCalls DEF CheckTimer
  <2>2. pays'[c].pc = "check" => active # None /\ pays'[c].booking = active
    BY <1>15 DEF CheckTimer, Idle
  <2> QED BY <1>15, <2>1, <2>2 DEF CheckTimer, apiVars, Granted
<1>16. ASSUME NEW c \in PayCalls, CheckRead(c) PROVE PageTypes'
  <2>1. pays[c].booking \in Bookings /\ booked[pays[c].booking] # NoBooking
    BY <1>16, PayFields DEF CheckRead, Granted
  <2>2. booked[pays[c].booking].status \in Statuses
    BY <2>1, NewRows DEF Statuses
  <2>3. [pc |-> "read", booking |-> pays[c].booking,
         status |-> booked[pays[c].booking].status] \in PayCall
    BY <2>1, <2>2, NewCalls
  <2> QED BY <1>16, <2>3 DEF CheckRead, apiVars, Granted
<1>17. ASSUME NEW c \in PayCalls, CheckArrives(c) PROVE PageTypes'
  <2>1. pays[c].booking \in Bookings
    BY <1>17, PayFields DEF CheckArrives
  <2> QED BY <1>17, <2>1, NewCalls DEF CheckArrives, ResetBookingState, apiVars, Granted, Idle
<1>18. ASSUME NEW c \in PayCalls, PayFails(c) PROVE PageTypes'
  BY <1>18, NewCalls DEF PayFails, apiVars, Granted, Idle
<1>19. CASE Reload
  BY <1>19, NewCalls, BookingIds DEF Reload, apiVars, Granted, Idle
<1>20. ASSUME NEW b \in Bookings, NEW t \in Statuses, Granted(b),
              booked' = [booked EXCEPT ![b].status = t],
              UNCHANGED <<pageVars, openings>>, charged' \in [Keys -> ChargeRow],
              \A k \in Keys : charged'[k] # NoCharge => Granted(charged'[k].booking)
       PROVE  PageTypes'
  <2>1. /\ booked' \in [Bookings -> BookingRow]
        /\ \A d \in Bookings : booked[d] # NoBooking => booked'[d] # NoBooking
    BY <1>20, ReleasedTypes
  <2>2. TypeOK'
    BY <1>20, <2>1 DEF pageVars
  <2>3. \A k \in Keys : charged'[k] # NoCharge => charged'[k].booking \in Bookings
    BY <1>20, ChargeFields
  <2>4. \A k \in Keys : charged'[k] # NoCharge => booked'[charged'[k].booking] # NoBooking
    BY <1>20, <2>1, <2>3 DEF Granted
  <2>5. /\ active' # None => Granted(active)'
        /\ \A c \in HoldCalls : holds'[c].pc = "held" => booked'[holds'[c].booking] # NoBooking
        /\ \A c \in PayCalls : pays'[c].pc = "check" => booked'[pays'[c].booking] # NoBooking
    BY <1>20, <2>1, HoldFields, PayFields DEF pageVars, Granted
  <2> QED BY <2>2, <2>4, <2>5 DEF Granted
<1>21. ASSUME NEW k \in Keys, NEW t \in {"CONFIRMED", "CANCELLED"}, Callback(k, t) PROVE PageTypes'
  <2>1. charged[k] \in ChargeRow /\ charged[k].verdict = "open" /\ charged[k] # NoCharge
    BY <1>21 DEF Callback, NoCharge
  <2>2. charged[k].booking \in Bookings /\ Granted(charged[k].booking)
    BY <2>1, ChargeFields
  <2>3. charged' = [charged EXCEPT ![k] = [charged[k] EXCEPT !.verdict = t]]
    BY <1>21 DEF Callback
  <2>4. charged' \in [Keys -> ChargeRow]
    BY <2>1, <2>3, ChargeMoves
  <2>5. \A j \in Keys : charged'[j] # NoCharge => Granted(charged'[j].booking)
    BY <2>1, <2>2, <2>3, ChargeMoves
  <2>6. t \in Statuses
    BY DEF Statuses
  <2> QED BY <1>20, <1>21, <2>2, <2>4, <2>5, <2>6 DEF Callback
<1>22. ASSUME NEW b \in Bookings, NEW t \in {"CANCELLED", "EXPIRED"}, Released(b, t) PROVE PageTypes'
  <2>1. booked[b] \in BookingRow /\ booked[b].status = "PENDING"
    BY <1>22 DEF Released
  <2>2. Granted(b)
    BY <2>1, PendingIsGranted DEF Granted
  <2>3. t \in Statuses
    BY DEF Statuses
  <2> QED BY <1>20, <1>22, <2>2, <2>3 DEF Released
<1>23. CASE UNCHANGED vars
  BY <1>23 DEF vars, Granted
<1> QED BY <1>1, <1>2, <1>3, <1>4, <1>5, <1>6, <1>7, <1>8, <1>9, <1>10, <1>11, <1>12, <1>13,
           <1>14, <1>15, <1>16, <1>17, <1>18, <1>19, <1>21, <1>22, <1>23 DEF Next

\* In every reachable state the variables have their types, and whatever names a
\* booking names one the API has granted.
THEOREM PageTypeCorrect == Spec => []PageTypes
<1>1. Init => PageTypes
  BY InitTypes
<1>2. PageTypes /\ [Next]_vars => PageTypes'
  BY NextTypes
<1> QED BY <1>1, <1>2, PTL DEF Spec

-----------------------------------------------------------------------------
(* The countdown. *)

LEMMA ResetStopsCountdown ==
    ASSUME CountdownIsOfTheBooking, ResetBookingState, UNCHANGED handle
    PROVE  CountdownIsOfTheBooking'
BY DEF CountdownIsOfTheBooking, ResetBookingState

LEMMA NextCountdown == CountdownIsOfTheBooking /\ [Next]_vars => CountdownIsOfTheBooking'
<1> SUFFICES ASSUME CountdownIsOfTheBooking, [Next]_vars PROVE CountdownIsOfTheBooking'
  OBVIOUS
<1>1. ASSUME UNCHANGED <<active, ticking, handle>> PROVE CountdownIsOfTheBooking'
  BY <1>1 DEF CountdownIsOfTheBooking
<1>2. ASSUME NEW s \in Shows, ShowSelected(s) PROVE CountdownIsOfTheBooking'
  BY <1>2 DEF ShowSelected, SelectShow, CountdownIsOfTheBooking
<1>3. ASSUME NEW x \in Seats, Toggle(x) PROVE CountdownIsOfTheBooking'
  BY <1>1, <1>3 DEF Toggle
<1>4. ASSUME NEW c \in HoldCalls, HoldClick(c) \/ HoldServed(c) \/ HoldFails(c)
      PROVE  CountdownIsOfTheBooking'
  BY <1>1, <1>4 DEF HoldClick, HoldServed, HoldFails
<1>5. ASSUME NEW c \in HoldCalls, HoldArrives(c) PROVE CountdownIsOfTheBooking'
  BY <1>5 DEF HoldArrives, CountdownIsOfTheBooking
<1>6. ASSUME NEW c \in PayCalls,
             ChargeClick(c) \/ ChargeServed(c) \/ ChargeArrives(c) \/ CheckTimer(c) \/ CheckRead(c)
                \/ PayFails(c)
      PROVE  CountdownIsOfTheBooking'
  BY <1>1, <1>6 DEF ChargeClick, ChargeServed, ChargeArrives, CheckTimer, CheckRead, PayFails
<1>7. ASSUME NEW c \in PayCalls, CheckArrives(c) PROVE CountdownIsOfTheBooking'
  BY <1>1, <1>7, ResetStopsCountdown DEF CheckArrives
<1>8. ASSUME NEW b \in Bookings, TimerEnds(b) PROVE CountdownIsOfTheBooking'
  BY <1>8, ResetStopsCountdown DEF TimerEnds
<1>9. CASE OpenModal \/ CloseModal
  BY <1>1, <1>9 DEF OpenModal, CloseModal
<1>10. CASE Reload
  BY <1>10 DEF Reload, CountdownIsOfTheBooking
<1>11. ASSUME NEW k \in Keys, NEW t, Callback(k, t) PROVE CountdownIsOfTheBooking'
  BY <1>1, <1>11 DEF Callback, pageVars
<1>12. ASSUME NEW b \in Bookings, NEW t, Released(b, t) PROVE CountdownIsOfTheBooking'
  BY <1>1, <1>12 DEF Released, pageVars
<1>13. CASE UNCHANGED vars
  BY <1>1, <1>13 DEF vars
<1>14. CASE ShowsArrive
  BY <1>14 DEF ShowsArrive, SelectShow, CountdownIsOfTheBooking
<1> QED BY <1>2, <1>3, <1>4, <1>5, <1>6, <1>7, <1>8, <1>9, <1>10, <1>11, <1>12, <1>13, <1>14 DEF Next

\* However many holds are in flight, and whenever they are answered, one countdown
\* runs at most, and it is the one of the booking the page would pay.
THEOREM CountdownFollowsBooking == Spec => []CountdownIsOfTheBooking
<1>1. Init => CountdownIsOfTheBooking
  BY DEF Init, CountdownIsOfTheBooking
<1>2. CountdownIsOfTheBooking /\ [Next]_vars => CountdownIsOfTheBooking'
  BY NextCountdown
<1> QED BY <1>1, <1>2, PTL DEF Spec

-----------------------------------------------------------------------------
(* Keys and what they charged. *)

\* A key comes from an opening of the modal, wherever it is by now.
KeysWereOpened ==
    /\ modal <= openings
    /\ \A c \in PayCalls : pays[c].pc = "sent" => pays[c].key <= openings
    /\ \A k \in Keys : charged[k] # NoCharge => k <= openings

\* Somebody paid for b, and was told so.
Paid(b) == \E k \in Keys : charged[k].verdict = "CONFIRMED" /\ charged[k].booking = b

\* What says CONFIRMED of a booking was said after a payment of it: the booking
\* itself, a status read of it, and the ticket.
PaidWhenConfirmed ==
    /\ \A b \in Bookings : booked[b].status = "CONFIRMED" => Paid(b)
    /\ \A c \in PayCalls : pays[c].pc = "read" /\ pays[c].status = "CONFIRMED" => Paid(pays[c].booking)
    /\ ticket # None => Paid(ticket)

\* A payment once CONFIRMED is never written again.
VerdictsStay ==
    \A k \in Keys : charged[k].verdict = "CONFIRMED" => charged'[k] = charged[k]

LEMMA NextVerdictsStay == PageTypes /\ [Next]_vars => VerdictsStay
<1> SUFFICES ASSUME PageTypes, [Next]_vars PROVE VerdictsStay
  OBVIOUS
<1> USE DEF VerdictsStay
<1>1. ASSUME UNCHANGED charged PROVE VerdictsStay
  BY <1>1
<1>2. ASSUME NEW c \in PayCalls, ChargeServed(c) PROVE VerdictsStay
  BY <1>2, PayFields DEF ChargeServed, NoCharge, PageTypes, TypeOK
<1>3. ASSUME NEW k \in Keys, NEW t, Callback(k, t) PROVE VerdictsStay
  BY <1>3 DEF Callback, PageTypes, TypeOK
<1>4. ASSUME NEW c \in HoldCalls, HoldClick(c) \/ HoldServed(c) \/ HoldArrives(c) \/ HoldFails(c)
      PROVE  VerdictsStay
  BY <1>1, <1>4 DEF HoldClick, HoldServed, HoldArrives, HoldFails, apiVars
<1>5. ASSUME NEW c \in PayCalls,
             ChargeClick(c) \/ ChargeArrives(c) \/ CheckTimer(c) \/ CheckRead(c)
                \/ CheckArrives(c) \/ PayFails(c)
      PROVE  VerdictsStay
  BY <1>1, <1>5 DEF ChargeClick, ChargeArrives, CheckTimer, CheckRead, CheckArrives, PayFails, apiVars
<1>6. ASSUME NEW b \in Bookings, NEW t, TimerEnds(b) \/ Released(b, t) PROVE VerdictsStay
  BY <1>1, <1>6 DEF TimerEnds, Released, apiVars
<1>7. CASE \/ ShowsArrive \/ OpenModal \/ CloseModal \/ Reload \/ UNCHANGED vars
           \/ \E s \in Shows : ShowSelected(s)
           \/ \E x \in Seats : Toggle(x)
  BY <1>1, <1>7 DEF ShowsArrive, ShowSelected, SelectShow, Toggle, OpenModal, CloseModal, Reload,
                    vars, apiVars
<1> QED BY <1>2, <1>3, <1>4, <1>5, <1>6, <1>7 DEF Next

LEMMA NextKeys == PageTypes /\ KeysWereOpened /\ [Next]_vars => KeysWereOpened'
<1> SUFFICES ASSUME PageTypes, KeysWereOpened, [Next]_vars PROVE KeysWereOpened'
  OBVIOUS
<1> USE DEF KeysWereOpened
<1>1. /\ openings \in Nat /\ modal \in Nat
      /\ pays \in [PayCalls -> PayCall] /\ charged \in [Keys -> ChargeRow]
  BY BookingIds DEF PageTypes, TypeOK
<1>2. \A c \in PayCalls : pays[c].pc = "sent" => pays[c].key \in Nat
  BY <1>1, PayFields, BookingIds
<1>3. ASSUME UNCHANGED <<modal, pays, openings, charged>> PROVE KeysWereOpened'
  BY <1>3
<1>4. CASE OpenModal
  BY <1>1, <1>2, <1>4, BookingIds DEF OpenModal, apiVars
<1>5. CASE CloseModal \/ Reload
  BY <1>1, <1>5 DEF CloseModal, Reload, None, Idle, apiVars
<1>6. ASSUME NEW c \in PayCalls, ChargeClick(c) PROVE KeysWereOpened'
  BY <1>1, <1>6 DEF ChargeClick, apiVars
<1>7. ASSUME NEW c \in PayCalls, ChargeServed(c) PROVE KeysWereOpened'
  <2>1. pays[c].key \in Keys /\ pays[c].key <= openings
    BY <1>1, <1>7, PayFields DEF ChargeServed
  <2>2. pays'[c].pc # "sent" /\ \A d \in PayCalls \ {c} : pays'[d] = pays[d]
    BY <1>1, <1>7 DEF ChargeServed
  <2>3. \A k \in Keys : charged'[k] # NoCharge => charged[k] # NoCharge \/ k = pays[c].key
    BY <1>1, <1>7, <2>1 DEF ChargeServed
  <2> QED BY <1>7, <2>1, <2>2, <2>3 DEF ChargeServed
<1>8. ASSUME NEW c \in PayCalls, ChargeArrives(c) PROVE KeysWereOpened'
  BY <1>1, <1>8 DEF ChargeArrives, None, Idle, apiVars
<1>9. ASSUME NEW c \in PayCalls, CheckTimer(c) \/ CheckRead(c) PROVE KeysWereOpened'
  BY <1>1, <1>9 DEF CheckTimer, CheckRead, Idle, apiVars
<1>10. ASSUME NEW c \in PayCalls, CheckArrives(c) \/ PayFails(c) PROVE KeysWereOpened'
  BY <1>1, <1>10 DEF CheckArrives, PayFails, Idle, apiVars
<1>11. ASSUME NEW k \in Keys, NEW t, Callback(k, t) PROVE KeysWereOpened'
  <2>1. charged[k] # NoCharge
    BY <1>11 DEF Callback, NoCharge
  <2> QED BY <1>1, <1>11, <2>1 DEF Callback, pageVars
<1>12. ASSUME NEW c \in HoldCalls, HoldClick(c) \/ HoldServed(c) \/ HoldArrives(c) \/ HoldFails(c)
       PROVE  KeysWereOpened'
  BY <1>3, <1>12 DEF HoldClick, HoldServed, HoldArrives, HoldFails, apiVars
<1>13. ASSUME NEW b \in Bookings, NEW t, TimerEnds(b) \/ Released(b, t) PROVE KeysWereOpened'
  BY <1>3, <1>13 DEF TimerEnds, Released, pageVars, apiVars
<1>14. CASE \/ ShowsArrive \/ UNCHANGED vars
            \/ \E s \in Shows : ShowSelected(s)
            \/ \E x \in Seats : Toggle(x)
  BY <1>3, <1>14 DEF ShowsArrive, ShowSelected, SelectShow, Toggle, vars, apiVars
<1> QED BY <1>4, <1>5, <1>6, <1>7, <1>8, <1>9, <1>10, <1>11, <1>12, <1>13, <1>14 DEF Next

LEMMA NextPaid == PageTypes /\ PaidWhenConfirmed /\ [Next]_vars => PaidWhenConfirmed'
<1> SUFFICES ASSUME PageTypes, PaidWhenConfirmed, [Next]_vars PROVE PaidWhenConfirmed'
  OBVIOUS
<1> USE DEF PaidWhenConfirmed
<1>1. /\ pays \in [PayCalls -> PayCall] /\ charged \in [Keys -> ChargeRow]
      /\ booked \in [Bookings -> BookingRow]
  BY DEF PageTypes, TypeOK
<1>2. \A b : Paid(b) => Paid(b)'
  BY NextVerdictsStay DEF VerdictsStay, Paid
<1>3. ASSUME UNCHANGED <<booked, pays, ticket>> PROVE PaidWhenConfirmed'
  BY <1>2, <1>3 DEF Paid
<1>4. ASSUME UNCHANGED <<booked, ticket, charged>>, NEW c \in PayCalls, NEW j,
             pays' = [pays EXCEPT ![c] = j], j.pc # "read"
      PROVE  PaidWhenConfirmed'
  BY <1>1, <1>4 DEF Paid
<1>5. ASSUME NEW c \in PayCalls, ChargeClick(c) \/ ChargeArrives(c) \/ CheckTimer(c) \/ PayFails(c)
      PROVE  PaidWhenConfirmed'
  BY <1>4, <1>5 DEF ChargeClick, ChargeArrives, CheckTimer, PayFails, Idle, apiVars
<1>6. ASSUME NEW c \in PayCalls, ChargeServed(c) PROVE PaidWhenConfirmed'
  <2>1. UNCHANGED <<booked, ticket>>
    BY <1>6 DEF ChargeServed
  <2>2. pays'[c].pc # "read" /\ \A d \in PayCalls \ {c} : pays'[d] = pays[d]
    BY <1>1, <1>6 DEF ChargeServed
  <2>3. \A b : Paid(b) => \E k \in Keys : charged'[k].verdict = "CONFIRMED" /\ charged'[k].booking = b
    BY <1>2 DEF Paid
  <2>4. \A d \in PayCalls : pays'[d].pc = "read" /\ pays'[d].status = "CONFIRMED"
          => /\ Paid(pays[d].booking)
             /\ pays'[d].booking = pays[d].booking
    BY <2>2
  <2>5. (\A d \in PayCalls : pays[d].pc = "read" /\ pays[d].status = "CONFIRMED"
          => Paid(pays[d].booking))'
    BY <2>3, <2>4 DEF Paid
  <2>6. (\A b \in Bookings : booked[b].status = "CONFIRMED" => Paid(b))'
    BY <2>1, <2>3 DEF Paid
  <2>7. (ticket # None => Paid(ticket))'
    BY <2>1, <2>3 DEF Paid
  <2> QED BY <2>5, <2>6, <2>7
<1>7. ASSUME NEW c \in PayCalls, CheckRead(c) PROVE PaidWhenConfirmed'
  <2>1. pays[c].booking \in Bookings
    BY <1>1, <1>7, PayFields DEF CheckRead
  <2> QED BY <1>1, <1>7, <2>1 DEF CheckRead, Paid, apiVars
<1>8. ASSUME NEW c \in PayCalls, CheckArrives(c) PROVE PaidWhenConfirmed'
  BY <1>1, <1>8 DEF CheckArrives, Paid, Idle, apiVars
<1>9. CASE Reload
  BY <1>9 DEF Reload, Paid, Idle, apiVars
<1>10. ASSUME NEW c \in HoldCalls, HoldServed(c) PROVE PaidWhenConfirmed'
  <2>1. UNCHANGED <<pays, ticket, charged>>
    BY <1>10 DEF HoldServed
  <2>2. \A b \in Bookings : booked'[b].status = "CONFIRMED" => booked[b].status = "CONFIRMED"
    BY <1>1, <1>10 DEF HoldServed
  <2> QED BY <2>1, <2>2 DEF Paid
<1>11. ASSUME NEW k \in Keys, NEW t \in {"CONFIRMED", "CANCELLED"}, Callback(k, t)
       PROVE  PaidWhenConfirmed'
  <2>1. charged[k] \in ChargeRow /\ charged[k].verdict = "open" /\ charged[k] # NoCharge
    BY <1>1, <1>11 DEF Callback, NoCharge
  <2>2. charged[k].booking \in Bookings
    BY <2>1, ChargeFields
  <2>3. charged' = [charged EXCEPT ![k] = [charged[k] EXCEPT !.verdict = t]]
    BY <1>11 DEF Callback
  <2>4. charged'[k].verdict = t /\ charged'[k].booking = charged[k].booking
    BY <1>1, <2>1, <2>3, ChargeMoves
  <2>5. \A b \in Bookings : booked'[b].status = "CONFIRMED"
           => booked[b].status = "CONFIRMED" \/ (b = charged[k].booking /\ t = "CONFIRMED")
    <3>1. Granted(charged[k].booking)
      BY <2>1 DEF PageTypes, BookingsAreGranted
    <3>2. t \in Statuses
      BY DEF Statuses
    <3> QED BY <1>11, <2>2, <3>1, <3>2, ReleasedTypes DEF Callback
  <2>6. \A b \in Bookings : booked'[b].status = "CONFIRMED" => Paid(b)'
    BY <1>2, <2>4, <2>5 DEF Paid
  <2> QED BY <1>2, <1>11, <2>6 DEF Callback, pageVars, Paid
<1>12. ASSUME NEW b \in Bookings, NEW t \in {"CANCELLED", "EXPIRED"}, Released(b, t)
       PROVE  PaidWhenConfirmed'
  <2>1. \A d \in Bookings : booked'[d].status = "CONFIRMED" => booked[d].status = "CONFIRMED"
    BY <1>1, <1>12 DEF Released, BookingRow, NoBooking
  <2> QED BY <1>12, <2>1 DEF Released, pageVars, Paid
<1>13. ASSUME NEW c \in HoldCalls, HoldClick(c) \/ HoldArrives(c) \/ HoldFails(c)
       PROVE  PaidWhenConfirmed'
  BY <1>3, <1>13 DEF HoldClick, HoldArrives, HoldFails, apiVars
<1>14. CASE \/ ShowsArrive \/ OpenModal \/ CloseModal \/ UNCHANGED vars
            \/ \E s \in Shows : ShowSelected(s)
            \/ \E x \in Seats : Toggle(x)
            \/ \E b \in Bookings : TimerEnds(b)
  BY <1>3, <1>14 DEF ShowsArrive, ShowSelected, SelectShow, Toggle, OpenModal, CloseModal,
                     TimerEnds, vars, apiVars
<1> QED BY <1>5, <1>6, <1>7, <1>8, <1>9, <1>10, <1>11, <1>12, <1>13, <1>14 DEF Next

-----------------------------------------------------------------------------
(* The theorems. *)

LEMMA KeysAreCounted == PageTypes /\ KeysWereOpened => ChargedOncePerOpening
<1> SUFFICES ASSUME PageTypes, KeysWereOpened PROVE ChargedOncePerOpening
  OBVIOUS
<1> DEFINE C == {k \in Keys : charged[k] # NoCharge}
<1>1. openings \in Nat
  BY BookingIds DEF PageTypes, TypeOK
<1>2. C \subseteq 1..openings
  BY <1>1, BookingIds DEF KeysWereOpened, Keys
<1>3. IsFiniteSet(1..openings) /\ Cardinality(1..openings) = openings
  BY <1>1, FS_Interval
<1>4. Cardinality(C) <= openings
  BY <1>2, <1>3, FS_Subset
<1> QED BY <1>4 DEF ChargedOncePerOpening

\* One opening of the modal charges at most once, for any number of clicks in
\* flight and whatever booking the page has by then.
THEOREM OpeningsChargeOnce == Spec => []ChargedOncePerOpening
<1>1. Init => KeysWereOpened
  BY DEF Init, KeysWereOpened, None, Idle
<1>2. PageTypes /\ KeysWereOpened /\ [Next]_vars => KeysWereOpened'
  BY NextKeys
<1>3. PageTypes /\ KeysWereOpened => ChargedOncePerOpening
  BY KeysAreCounted
<1> QED BY <1>1, <1>2, <1>3, PageTypeCorrect, PTL DEF Spec

\* A ticket is shown only of a booking that was paid for on this page.
THEOREM TicketsWerePaid == Spec => []TicketWasPaid
<1>1. Init => PaidWhenConfirmed
  BY DEF Init, PaidWhenConfirmed, Idle, NoBooking
<1>2. PageTypes /\ PaidWhenConfirmed /\ [Next]_vars => PaidWhenConfirmed'
  BY NextPaid
<1>3. PaidWhenConfirmed => TicketWasPaid
  BY DEF PaidWhenConfirmed, TicketWasPaid, Paid
<1> QED BY <1>1, <1>2, <1>3, PageTypeCorrect, PTL DEF Spec

-----------------------------------------------------------------------------
(***************************************************************************)
(* The hold button.  What hides it starts a countdown, and whatever stops  *)
(* a countdown, other than the next one, shows the button: while it is     *)
(* hidden a countdown runs.  As in the other modules, that the end of the  *)
(* countdown is enabled then is a premise: the prover has no rule for it.  *)
(***************************************************************************)

HiddenButtonCounts == ~holdButton => handle \in ticking

LEMMA NextHiddenButton == HiddenButtonCounts /\ [Next]_vars => HiddenButtonCounts'
<1> SUFFICES ASSUME HiddenButtonCounts, [Next]_vars PROVE HiddenButtonCounts'
  OBVIOUS
<1>1. ASSUME UNCHANGED <<holdButton, ticking, handle>> PROVE HiddenButtonCounts'
  BY <1>1 DEF HiddenButtonCounts
<1>2. ASSUME NEW c \in HoldCalls, HoldArrives(c) PROVE HiddenButtonCounts'
  BY <1>2 DEF HoldArrives, HiddenButtonCounts
<1>3. ASSUME NEW c \in PayCalls, CheckArrives(c) PROVE HiddenButtonCounts'
  BY <1>1, <1>3 DEF CheckArrives, ResetBookingState, HiddenButtonCounts
<1>4. ASSUME NEW b \in Bookings, TimerEnds(b) PROVE HiddenButtonCounts'
  BY <1>4 DEF TimerEnds, ResetBookingState, HiddenButtonCounts
<1>5. CASE Reload
  BY <1>5 DEF Reload, HiddenButtonCounts
<1>6. ASSUME NEW c \in HoldCalls, HoldClick(c) \/ HoldServed(c) \/ HoldFails(c)
      PROVE  HiddenButtonCounts'
  BY <1>1, <1>6 DEF HoldClick, HoldServed, HoldFails
<1>7. ASSUME NEW c \in PayCalls,
             \/ ChargeClick(c) \/ ChargeServed(c) \/ ChargeArrives(c)
             \/ CheckTimer(c) \/ CheckRead(c) \/ PayFails(c)
      PROVE  HiddenButtonCounts'
  BY <1>1, <1>7 DEF ChargeClick, ChargeServed, ChargeArrives, CheckTimer, CheckRead, PayFails
<1>8. CASE \/ ShowsArrive \/ (\E s \in Shows : ShowSelected(s)) \/ (\E x \in Seats : Toggle(x))
           \/ OpenModal \/ CloseModal
           \/ \E k \in Keys, status \in {"CONFIRMED", "CANCELLED"} : Callback(k, status)
           \/ \E b \in Bookings, status \in {"CANCELLED", "EXPIRED"} : Released(b, status)
           \/ UNCHANGED vars
  BY <1>1, <1>8 DEF ShowsArrive, ShowSelected, SelectShow, Toggle, OpenModal, CloseModal, Callback,
       Released, pageVars, vars
<1> QED BY <1>2, <1>3, <1>4, <1>5, <1>6, <1>7, <1>8 DEF Next

\* A visitor can always hold again: a hidden hold button comes back.
THEOREM HoldButtonComesBack == FairSpec /\ []TimerCanEnd => HoldButtonReturns
<1>1. Init => HiddenButtonCounts
  BY DEF Init, HiddenButtonCounts
<1>2. HiddenButtonCounts /\ ~holdButton => ticking # {}
  BY DEF HiddenButtonCounts
<1>3. <<\E b \in Bookings : TimerEnds(b)>>_vars => holdButton'
  BY DEF TimerEnds, ResetBookingState
<1> QED BY <1>1, <1>2, <1>3, NextHiddenButton, PTL
        DEF FairSpec, Spec, Fairness, TimerCanEnd, HoldButtonReturns
=============================================================================
