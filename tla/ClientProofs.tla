---------------------------- MODULE ClientProofs ----------------------------
(***************************************************************************)
(* Proofs about module Client, for every hall, every length of the         *)
(* countdown and of the polling, and any number of calls in flight.        *)
(*                                                                         *)
(* Types need to know where the visitor is: a booking is read only on a    *)
(* page that only a granted hold leads to (OnTheWay).  One charge for each *)
(* visit needs what may still be paid (ChargesLeft), and a map that never  *)
(* goes back needs what is still in flight (MapsInOrder).                  *)
(***************************************************************************)
EXTENDS Client, TLAPS

Pickers == [map : SeatMaps \cup {NoSeats}, at : 0..MaxVersion, selected : SUBSET Seats,
            holding : BOOLEAN, conflict : BOOLEAN]
Maps == [map : SeatMaps, at : 0..MaxVersion]
Holds == {NoHold} \cup [pc : {"sent", "held", "conflict"}, seats : SUBSET Seats]
Checkouts == [step : {"PHONE", "OTP", "PAYMENT"}, ref : {"none", "booking", "demo"},
              request : {"none", "phone", "otp", "pay"}, ttl : 0..HoldTtl]
Polls == [shown : {"NONE"} \cup BookingStatus, timer : BOOLEAN, gaveUp : BOOLEAN,
          fatal : BOOLEAN, fires : 0..(GiveUp + 1)]
BookingRows == [status : {"NONE"} \cup BookingStatus, seats : SUBSET Seats]

\* Where the visitor can be with what: a hold is out, or the checkout page
\* untouched, only on the picker, and every other page has a granted hold.
OnTheWay ==
    /\ hold # NoHold => page = "picker"
    /\ page = "picker" => visits = 0 /\ checkout = OpenCheckout
    /\ hold.pc = "held" \/ page # "picker" => booking.status # "NONE"

ClientTypes == TypeOK /\ OnTheWay

\* What the parts of a page are when it is mounted.
LEMMA Mounts ==
    /\ \A m \in SeatMaps \cup {NoSeats}, v \in 0..MaxVersion : OpenPicker(m, v) \in Pickers
    /\ OpenCheckout \in Checkouts
    /\ OpenPoll \in Polls /\ NoPoll \in Polls
    /\ \A t \in {"NONE"} \cup BookingStatus : [OpenPoll EXCEPT !.shown = t] \in Polls
    /\ NoAsk \in [Asks -> {"none", "sent"} \cup BookingStatus]
    /\ NoBooking \in BookingRows
<1> USE ClientAssumption DEF ClientAssumption
<1>1. \A m \in SeatMaps \cup {NoSeats}, v \in 0..MaxVersion : OpenPicker(m, v) \in Pickers
  BY DEF OpenPicker, Pickers
<1>2. OpenCheckout \in Checkouts
  BY DEF OpenCheckout, Checkouts
<1>3. 0 \in 0..(GiveUp + 1)
  OBVIOUS
<1>4. OpenPoll \in Polls
  BY <1>3 DEF OpenPoll, Polls
<1>8. NoPoll \in Polls
  BY <1>4 DEF NoPoll, Polls
<1>9. \A t \in {"NONE"} \cup BookingStatus : [OpenPoll EXCEPT !.shown = t] \in Polls
  BY <1>4 DEF Polls
<1>5. NoAsk \in [Asks -> {"none", "sent"} \cup BookingStatus]
  BY DEF NoAsk
<1>6. NoBooking \in BookingRows
  BY DEF NoBooking, BookingRows
<1> QED BY <1>1, <1>2, <1>3, <1>4, <1>5, <1>6, <1>8, <1>9

\* What the picker shows after a map has come.
LEMMA ShowsAMap ==
    \A p \in Pickers, map \in SeatMaps \cup {NoSeats}, at \in 0..MaxVersion :
        /\ Shows(p, map, at) \in Pickers
        /\ Shows(p, map, at).at = at /\ Shows(p, map, at).map = map
        /\ \A s \in Shows(p, map, at).selected : map[s] = "AVAILABLE"
BY DEF Shows, Pickers

\* What an abort leaves: the picker as it was, or with a map of the call in
\* flight, or with none.
LEMMA AbortsLeave ==
    ASSUME NEW p \in Pickers, fetches \in SUBSET ({Sent} \cup Maps), NEW q \in Aborted(p)
    PROVE  /\ q \in Pickers
           /\ q.at = p.at \/ \E f \in fetches \ {Sent} : q.at = f.at
           /\ q = p \/ \A s \in q.selected : q.map[s] = "AVAILABLE"
<1>1. CASE q = p
  BY <1>1
<1>2. ASSUME NEW f \in fetches \ {Sent}, q \in {Shows(p, NoSeats, p.at), Shows(p, f.map, f.at)}
      PROVE  /\ q \in Pickers /\ (q.at = p.at \/ q.at = f.at)
             /\ \A s \in q.selected : q.map[s] = "AVAILABLE"
  <2>1. f.map \in SeatMaps /\ f.at \in 0..MaxVersion /\ p.at \in 0..MaxVersion
    BY DEF Maps, Pickers
  <2>2. CASE q = Shows(p, NoSeats, p.at)
    <3>1. NoSeats \in SeatMaps \cup {NoSeats}
      OBVIOUS
    <3>2. q.at = p.at /\ q.map = NoSeats
      BY <2>2 DEF Shows, Pickers
    <3>4. q \in Pickers
      BY <2>1, <2>2, <3>1, ShowsAMap
    <3>3. \A s \in q.selected : NoSeats[s] = "AVAILABLE"
      BY <2>1, <2>2, <3>1, ShowsAMap
    <3> QED BY <3>2, <3>3, <3>4
  <2>3. CASE q = Shows(p, f.map, f.at)
    BY <2>1, <2>3, ShowsAMap
  <2> QED BY <1>2, <2>2, <2>3
<1> QED BY <1>1, <1>2 DEF Aborted

LEMMA ClientTypeParts ==
    TypeOK <=>
    /\ page \in {"picker", "checkout", "booking"}
    /\ picker \in Pickers
    /\ fetches \in SUBSET ({Sent} \cup Maps)
    /\ hold \in Holds
    /\ checkout \in Checkouts
    /\ visits \in 0..MaxVisits
    /\ poll \in Polls
    /\ asks \in [Asks -> {"none", "sent"} \cup BookingStatus]
    /\ seats \in SeatMaps /\ version \in 0..MaxVersion
    /\ booking \in BookingRows
    /\ sent \in Nat /\ open \in Nat /\ charges \in Nat
BY DEF TypeOK, Pickers, Maps, Holds, Checkouts, Polls, BookingRows

LEMMA InitClientTypes == Init => ClientTypes
<1> SUFFICES ASSUME Init PROVE ClientTypes
  OBVIOUS
<1>1. seats \in SeatMaps
  BY DEF Init, SeatMaps, SeatStatus
<1>2. 0 \in 0..MaxVersion /\ 0 \in 0..MaxVisits
  BY ClientAssumption DEF ClientAssumption
<1>3. TypeOK
  BY <1>1, <1>2, Mounts, ClientTypeParts DEF Init, Holds
<1>4. OnTheWay
  BY DEF Init, OnTheWay, NoHold
<1> QED BY <1>3, <1>4 DEF ClientTypes

LEMMA NextClientTypes == ClientTypes /\ [Next]_vars => ClientTypes'
<1> SUFFICES ASSUME ClientTypes, [Next]_vars PROVE ClientTypes'
  OBVIOUS
<1>0. /\ page \in {"picker", "checkout", "booking"}
      /\ picker \in Pickers
      /\ fetches \in SUBSET ({Sent} \cup Maps)
      /\ hold \in Holds
      /\ checkout \in Checkouts
      /\ visits \in 0..MaxVisits
      /\ poll \in Polls
      /\ asks \in [Asks -> {"none", "sent"} \cup BookingStatus]
      /\ seats \in SeatMaps /\ version \in 0..MaxVersion
      /\ booking \in BookingRows
      /\ sent \in Nat /\ open \in Nat /\ charges \in Nat
  BY ClientTypeParts DEF ClientTypes
<1>00. OnTheWay
  BY DEF ClientTypes
<1>a. ASSUME page' \in {"picker", "checkout", "booking"}, picker' \in Pickers,
             fetches' \in SUBSET ({Sent} \cup Maps), hold' \in Holds, checkout' \in Checkouts,
             visits' \in 0..MaxVisits, poll' \in Polls,
             asks' \in [Asks -> {"none", "sent"} \cup BookingStatus],
             seats' \in SeatMaps, version' \in 0..MaxVersion, booking' \in BookingRows,
             sent' \in Nat, open' \in Nat, charges' \in Nat, OnTheWay'
      PROVE  ClientTypes'
  <2>1. Sent' = Sent
    BY DEF Sent
  <2> QED BY <1>a, <2>1 DEF ClientTypes, TypeOK, Pickers, Maps, Holds, Checkouts, Polls, BookingRows
<1> USE DEF OnTheWay
<1>1. CASE RefreshTimer
  <2>1. picker' \in Pickers
    BY <1>0, <1>1, AbortsLeave DEF RefreshTimer, Refresh
  <2> QED BY <1>0, <1>00, <1>1, <2>1, <1>a DEF RefreshTimer, Refresh, checkoutVars, pollVars, apiVars
<1>2. ASSUME NEW f \in fetches, MapRead(f) PROVE ClientTypes'
  <2>1. Read \in Maps
    BY <1>0 DEF Read, Maps
  <2> QED BY <1>0, <1>00, <1>2, <2>1, <1>a DEF MapRead, checkoutVars, pollVars, apiVars
<1>3. ASSUME NEW f \in fetches, MapArrives(f) PROVE ClientTypes'
  <2>1. f.map \in SeatMaps /\ f.at \in 0..MaxVersion
    BY <1>0, <1>3 DEF MapArrives, Maps
  <2>2. picker' \in Pickers
    BY <1>0, <1>3, <2>1, ShowsAMap DEF MapArrives
  <2> QED BY <1>0, <1>00, <1>3, <2>2, <1>a DEF MapArrives, checkoutVars, pollVars, apiVars
<1>29. ASSUME NEW f \in fetches, MapArrivesEmpty(f) PROVE ClientTypes'
  <2>1. picker.at \in 0..MaxVersion
    BY <1>0 DEF Pickers
  <2>2. picker' \in Pickers
    BY <1>0, <1>29, <2>1, ShowsAMap DEF MapArrivesEmpty
  <2> QED BY <1>0, <1>00, <1>29, <2>2, <1>a DEF MapArrivesEmpty, checkoutVars, pollVars, apiVars
<1>4. ASSUME NEW f \in fetches, MapFails(f) PROVE ClientTypes'
  BY <1>0, <1>00, <1>4, <1>a DEF MapFails, checkoutVars, pollVars, apiVars
<1>5. ASSUME NEW s \in Seats, Toggle(s) PROVE ClientTypes'
  <2>1. \A S \in SUBSET Seats : [picker EXCEPT !.selected = S, !.conflict = FALSE] \in Pickers
    BY <1>0 DEF Pickers
  <2>2. picker.selected \in SUBSET Seats
    BY <1>0 DEF Pickers
  <2>3. picker' \in Pickers
    BY <1>5, <2>1, <2>2 DEF Toggle
  <2> QED BY <1>0, <1>00, <1>5, <2>3, <1>a DEF Toggle, checkoutVars, pollVars, apiVars
<1>6. CASE HoldClick
  <2>1. picker' \in Pickers /\ picker.selected \in SUBSET Seats
    BY <1>0, <1>6 DEF HoldClick, Pickers
  <2>2. hold' \in Holds /\ hold'.pc # "held"
    BY <1>6, <2>1 DEF HoldClick, Holds
  <2> QED BY <1>0, <1>00, <1>6, <2>1, <2>2, <1>a DEF HoldClick, checkoutVars, pollVars, apiVars
<1>7. CASE HoldServed
  <2>1. hold.seats \in SUBSET Seats /\ hold # NoHold
    BY <1>0, <1>7 DEF HoldServed, Holds, NoHold
  <2>2. hold' \in Holds /\ hold' # NoHold
    BY <1>0, <1>7, <2>1 DEF HoldServed, Holds, NoHold
  <2>3. booking' \in BookingRows /\ (booking'.status = booking.status \/ booking'.status = "PENDING")
    BY <1>0, <1>7, <2>1 DEF HoldServed, BookingRows, BookingStatus
  <2>4. seats' \in SeatMaps
    BY <1>0, <1>7 DEF HoldServed, SeatMaps, SeatStatus
  <2>5. version' \in 0..MaxVersion
    BY <1>0, <1>7, ClientAssumption DEF HoldServed, ClientAssumption
  <2>6. hold'.pc = "held" => booking'.status = "PENDING"
    BY <1>0, <1>7 DEF HoldServed, Holds, NoHold
  <2>7. OnTheWay'
    BY <1>00, <1>7, <2>1, <2>2, <2>3, <2>6 DEF HoldServed, checkoutVars
  <2> QED BY <1>0, <1>7, <2>2, <2>3, <2>4, <2>5, <2>7, <1>a DEF HoldServed, checkoutVars, pollVars
<1>8. CASE HoldArrives
  <2>1. CASE hold.pc = "held" /\ LeavePicker /\ page' = "checkout" /\ checkout' = OpenCheckout
             /\ visits' = visits + 1 /\ UNCHANGED <<pollVars, apiVars>>
    <3>1. visits' \in 0..MaxVisits
      BY <1>0, <1>00, <2>1, ClientAssumption DEF ClientAssumption, NoHold
    <3>2. picker' \in Pickers
      BY <1>0, <2>1, Mounts DEF LeavePicker
    <3>3. hold' = NoHold /\ NoHold \in Holds /\ fetches' = {}
      BY <2>1 DEF LeavePicker, Holds
    <3> QED BY <1>0, <1>00, <2>1, <3>1, <3>2, <3>3, Mounts, <1>a DEF NoHold, pollVars, apiVars
  <2>2. CASE hold.pc = "conflict" /\ hold' = NoHold
             /\ Refresh([picker EXCEPT !.holding = FALSE, !.conflict = TRUE,
                                       !.selected = @ \ hold.seats])
             /\ UNCHANGED <<page, checkoutVars, pollVars, apiVars>>
    <3>0. [picker EXCEPT !.holding = FALSE, !.conflict = TRUE, !.selected = @ \ hold.seats] \in Pickers
      BY <1>0 DEF Pickers
    <3>1. picker' \in Pickers
      BY <1>0, <2>2, <3>0, AbortsLeave DEF Refresh
    <3> QED BY <1>0, <1>00, <2>2, <3>1, <1>a DEF Refresh, NoHold, Holds, checkoutVars, pollVars, apiVars
  <2> QED BY <1>8, <2>1, <2>2 DEF HoldArrives
<1>9. CASE HoldThrows
  BY <1>0, <1>00, <1>9, <1>a DEF HoldThrows, Holds, NoHold, checkoutVars, pollVars, apiVars
<1>10. ASSUME UNCHANGED <<page, pickerVars, visits, pollVars, apiVars>>,
              page = "checkout", checkout' \in Checkouts
       PROVE  ClientTypes'
  BY <1>0, <1>00, <1>10, <1>a DEF pickerVars, pollVars, apiVars
<1>11. ASSUME NEW step, NEW request \in {"phone", "otp"}, Submit(step, request) PROVE ClientTypes'
  <2>1. checkout' \in Checkouts
    BY <1>0, <1>11 DEF Submit, Checkouts
  <2> QED BY <1>10, <1>11, <2>1 DEF Submit, Ready
<1>12. CASE PhoneAnswered
  <2>1. checkout' \in Checkouts
    BY <1>0, <1>12 DEF PhoneAnswered, Checkouts
  <2> QED BY <1>10, <1>12, <2>1 DEF PhoneAnswered
<1>13. CASE OtpAnswered
  <2>1. checkout' \in Checkouts
    BY <1>0, <1>13 DEF OtpAnswered, Checkouts
  <2> QED BY <1>10, <1>13, <2>1 DEF OtpAnswered
<1>14. CASE Pay
  <2>1. checkout' \in Checkouts
    BY <1>0, <1>14 DEF Pay, Checkouts
  <2>2. sent' \in Nat
    BY <1>0, <1>14 DEF Pay
  <2> QED BY <1>0, <1>00, <1>14, <2>1, <2>2, <1>a DEF Pay, Ready, pickerVars, pollVars
<1>15. CASE PayAnswered
  <2>1. checkout' \in Checkouts
    BY <1>0, <1>15 DEF PayAnswered, Checkouts
  <2>2. asks' \in [Asks -> {"none", "sent"} \cup BookingStatus]
    BY <1>15, Mounts DEF PayAnswered
  <2> QED BY <1>0, <1>00, <1>15, <2>1, <2>2, Mounts, <1>a DEF PayAnswered, pickerVars, apiVars
<1>16. CASE Countdown
  <2>1. checkout' \in Checkouts
    BY <1>0, <1>16, ClientAssumption DEF Countdown, Checkouts, ClientAssumption
  <2> QED BY <1>10, <1>16, <2>1 DEF Countdown
<1>17. CASE Revisit
  <2>1. visits' \in 0..MaxVisits
    BY <1>0, <1>17, ClientAssumption DEF Revisit, ClientAssumption
  <2> QED BY <1>0, <1>00, <1>17, <2>1, Mounts, <1>a DEF Revisit, pickerVars, apiVars
<1>18. ASSUME UNCHANGED <<page, pickerVars, checkoutVars, apiVars>>, poll' \in Polls,
              asks' \in [Asks -> {"none", "sent"} \cup BookingStatus]
       PROVE  ClientTypes'
  BY <1>0, <1>00, <1>18, <1>a DEF pickerVars, checkoutVars, apiVars
<1>19. CASE PollTimer
  <2>1. asks' \in [Asks -> {"none", "sent"} \cup BookingStatus]
    BY <1>0, <1>19 DEF PollTimer
  <2>2. poll.fires \in 0..(GiveUp + 1) /\ GiveUp \in Nat
    BY <1>0, ClientAssumption DEF Polls, ClientAssumption
  <2>3. ~(poll.fires > GiveUp) => poll.fires + 1 \in 0..(GiveUp + 1)
    BY <2>2
  <2>4. \A n \in 0..(GiveUp + 1) : [poll EXCEPT !.fires = n] \in Polls
    BY <1>0 DEF Polls
  <2>5. [poll EXCEPT !.gaveUp = TRUE, !.timer = FALSE] \in Polls
    BY <1>0 DEF Polls
  <2>6. poll' \in Polls
    BY <1>19, <2>3, <2>4, <2>5 DEF PollTimer
  <2> QED BY <1>18, <1>19, <2>1, <2>6 DEF PollTimer
<1>20. ASSUME NEW a \in Asks, BookingRead(a) PROVE ClientTypes'
  <2>1. page # "picker"
    BY <1>00, <1>20 DEF BookingRead, OpenCheckout
  <2>2. booking.status \in BookingStatus
    BY <1>0, <1>00, <2>1 DEF BookingRows
  <2> QED BY <1>0, <1>18, <1>20, <2>2 DEF BookingRead
<1>21. ASSUME NEW a \in Asks, BookingArrives(a) PROVE ClientTypes'
  <2>1. poll' \in Polls
    BY <1>0, <1>21 DEF BookingArrives, Polls
  <2> QED BY <1>0, <1>18, <1>21, <2>1 DEF BookingArrives
<1>22. ASSUME NEW a \in Asks, BookingFails(a) PROVE ClientTypes'
  <2>1. poll' \in Polls
    BY <1>0, <1>22 DEF BookingFails, Polls
  <2> QED BY <1>0, <1>18, <1>22, <2>1 DEF BookingFails
<1>23. CASE Retry
  <2>1. poll' \in Polls
    BY <1>0, <1>23, Mounts DEF Retry, Polls
  <2> QED BY <1>0, <1>18, <1>23, <2>1 DEF Retry
<1>24. ASSUME NEW s \in Seats, NEW status \in SeatStatus, OthersMove(s, status) PROVE ClientTypes'
  <2>1. seats' \in SeatMaps /\ version' \in 0..MaxVersion
    BY <1>0, <1>24, ClientAssumption DEF OthersMove, SeatMaps, ClientAssumption
  <2> QED BY <1>0, <1>00, <1>24, <2>1, <1>a DEF OthersMove, pickerVars, checkoutVars, pollVars
<1>25. CASE ChargeServed
  BY <1>0, <1>00, <1>25, <1>a DEF ChargeServed, pickerVars, checkoutVars, pollVars
<1>26. ASSUME NEW status \in {"CONFIRMED", "CANCELLED"}, Callback(status) PROVE ClientTypes'
  <2>1. booking' \in BookingRows /\ booking'.status # "NONE"
    BY <1>0, <1>26 DEF Callback, BookingRows, BookingStatus, Terminal
  <2>2. open' \in Nat
    BY <1>0, <1>26 DEF Callback
  <2> QED BY <1>0, <1>00, <1>26, <2>1, <2>2, <1>a DEF Callback, pickerVars, checkoutVars, pollVars
<1>27. CASE Expire
  <2>1. booking' \in BookingRows /\ booking'.status # "NONE"
    BY <1>27 DEF Expire, BookingRows, BookingStatus, Terminal
  <2>2. seats' \in SeatMaps /\ version' \in 0..MaxVersion
    BY <1>0, <1>27, ClientAssumption DEF Expire, SeatMaps, SeatStatus, ClientAssumption
  <2> QED BY <1>0, <1>00, <1>27, <2>1, <2>2, <1>a DEF Expire, pickerVars, checkoutVars, pollVars
<1>28. CASE UNCHANGED vars
  BY <1>0, <1>00, <1>28, <1>a DEF vars
<1> QED BY <1>1, <1>2, <1>3, <1>4, <1>5, <1>6, <1>7, <1>8, <1>9, <1>11, <1>12, <1>13, <1>14, <1>15,
           <1>16, <1>17, <1>19, <1>20, <1>21, <1>22, <1>23, <1>24, <1>25, <1>26, <1>27, <1>28, <1>29 DEF Next

\* In every reachable state the variables have their types, and every page but the
\* picker has a hold that was granted.
THEOREM ClientTypeCorrect == Spec => []ClientTypes
<1>1. Init => ClientTypes
  BY InitClientTypes
<1>2. ClientTypes /\ [Next]_vars => ClientTypes'
  BY NextClientTypes
<1> QED BY <1>1, <1>2, PTL DEF Spec

-----------------------------------------------------------------------------
(* Charges. *)

\* The charges the API has and those on their way to it, and the one a mounted
\* checkout page may still send, are no more than its mounts.
ChargesLeft ==
    /\ charges + sent <= visits
    /\ page = "checkout" /\ checkout.request # "pay" => charges + sent < visits

LEMMA NextChargesLeft == ClientTypes /\ ChargesLeft /\ [Next]_vars => ChargesLeft'
<1> SUFFICES ASSUME ClientTypes, ChargesLeft, [Next]_vars PROVE ChargesLeft'
  OBVIOUS
<1>0. visits \in Nat /\ sent \in Nat /\ charges \in Nat /\ checkout \in Checkouts
  BY ClientTypeParts DEF ClientTypes
<1> USE DEF ChargesLeft
<1>1. ASSUME UNCHANGED <<page, checkout, visits, sent, charges>> PROVE ChargesLeft'
  BY <1>1
<1>2. CASE \/ RefreshTimer \/ HoldClick \/ HoldServed \/ HoldThrows \/ PollTimer \/ Retry \/ Expire
           \/ \E f \in fetches : MapRead(f) \/ MapArrives(f) \/ MapArrivesEmpty(f) \/ MapFails(f)
  BY <1>1, <1>2 DEF RefreshTimer, HoldClick, HoldServed, HoldThrows, PollTimer, Retry, Expire,
                    MapRead, MapArrives, MapArrivesEmpty, MapFails, checkoutVars, apiVars
<1>3. CASE \/ \E s \in Seats : Toggle(s)
           \/ \E a \in Asks : BookingRead(a) \/ BookingArrives(a) \/ BookingFails(a)
           \/ \E s \in Seats, status \in SeatStatus : OthersMove(s, status)
           \/ \E status \in {"CONFIRMED", "CANCELLED"} : Callback(status)
           \/ UNCHANGED vars
  BY <1>1, <1>3 DEF Toggle, BookingRead, BookingArrives, BookingFails, OthersMove, Callback,
                    checkoutVars, apiVars, vars
<1>4. CASE HoldArrives
  BY <1>0, <1>4 DEF HoldArrives, OpenCheckout, checkoutVars, apiVars
<1>5. CASE Revisit
  BY <1>0, <1>5 DEF Revisit, OpenCheckout, apiVars
<1>6. ASSUME NEW step, NEW request, Submit(step, request) PROVE ChargesLeft'
  BY <1>0, <1>6 DEF Submit, Ready, Checkouts, apiVars
<1>7. CASE PhoneAnswered \/ OtpAnswered \/ Countdown
  <2>1. checkout.request # "pay" \/ checkout'.request = checkout.request
    BY <1>0, <1>7 DEF PhoneAnswered, OtpAnswered, Countdown, Checkouts
  <2> QED BY <1>0, <1>7, <2>1 DEF PhoneAnswered, OtpAnswered, Countdown, apiVars
<1>8. CASE Pay
  <2>1. checkout.request = "none" /\ checkout'.request = "pay"
    BY <1>0, <1>8 DEF Pay, Ready, Checkouts
  <2> QED BY <1>0, <1>8, <2>1 DEF Pay, Ready
<1>9. CASE PayAnswered
  BY <1>0, <1>9 DEF PayAnswered, apiVars
<1>10. CASE ChargeServed
  BY <1>0, <1>10 DEF ChargeServed, checkoutVars
<1> QED BY <1>2, <1>3, <1>4, <1>5, <1>6, <1>7, <1>8, <1>9, <1>10 DEF Next

\* A mount of the checkout page opens one charge at most, for any number of mounts.
THEOREM VisitsChargeOnce == Spec => []ChargedOncePerVisit
<1>1. Init => ChargesLeft
  BY DEF Init, ChargesLeft
<1>2. ClientTypes /\ ChargesLeft /\ [Next]_vars => ChargesLeft'
  BY NextChargesLeft
<1>3. ClientTypes /\ ChargesLeft => ChargedOncePerVisit
  BY ClientTypeParts DEF ClientTypes, ChargesLeft, ChargedOncePerVisit
<1> QED BY <1>1, <1>2, <1>3, ClientTypeCorrect, PTL DEF Spec

-----------------------------------------------------------------------------
(* The map and the selection. *)

LEMMA NextSelection == ClientTypes /\ SelectedIsShownFree /\ [Next]_vars => SelectedIsShownFree'
<1> SUFFICES ASSUME ClientTypes, SelectedIsShownFree, [Next]_vars PROVE SelectedIsShownFree'
  OBVIOUS
<1>0. picker \in Pickers /\ fetches \in SUBSET ({Sent} \cup Maps)
  BY ClientTypeParts DEF ClientTypes
<1> USE DEF SelectedIsShownFree
<1>1. ASSUME UNCHANGED picker PROVE SelectedIsShownFree'
  BY <1>1
<1>2. ASSUME NEW f \in fetches, MapArrives(f) PROVE SelectedIsShownFree'
  BY <1>0, <1>2 DEF MapArrives, Shows, Pickers
<1>3. ASSUME NEW s \in Seats, Toggle(s) PROVE SelectedIsShownFree'
  <2>1. \A S : LET p == [picker EXCEPT !.selected = S, !.conflict = FALSE]
                IN  p.map = picker.map /\ p.selected = S
    BY <1>0 DEF Pickers
  <2>2. picker'.map = picker.map
    BY <1>3, <2>1 DEF Toggle
  <2>3. picker'.selected = picker.selected \ {s} \/ picker'.selected = picker.selected \cup {s}
    BY <1>3, <2>1 DEF Toggle
  <2> QED BY <1>3, <2>2, <2>3 DEF Toggle
<1>4. CASE HoldClick
  BY <1>0, <1>4 DEF HoldClick, Pickers
<1>5. CASE HoldArrives
  <2>1. CASE LeavePicker
    BY <2>1 DEF LeavePicker, OpenPicker
  <2>2. CASE Refresh([picker EXCEPT !.holding = FALSE, !.conflict = TRUE,
                                    !.selected = @ \ hold.seats])
    <3> DEFINE p == [picker EXCEPT !.holding = FALSE, !.conflict = TRUE,
                                   !.selected = @ \ hold.seats]
    <3>1. p \in Pickers /\ p.map = picker.map /\ p.selected = picker.selected \ hold.seats
      BY <1>0 DEF Pickers
    <3>2. picker' \in Aborted(p)
      BY <2>2 DEF Refresh
    <3> HIDE DEF p
    <3>3. picker' = p \/ \A s \in picker'.selected : picker'.map[s] = "AVAILABLE"
      BY <1>0, <3>1, <3>2, AbortsLeave
    <3> QED BY <3>1, <3>3
  <2> QED BY <1>5, <2>1, <2>2 DEF HoldArrives
<1>8. CASE RefreshTimer
  BY <1>0, <1>8, AbortsLeave DEF RefreshTimer, Refresh
<1>9. ASSUME NEW f \in fetches, MapArrivesEmpty(f) PROVE SelectedIsShownFree'
  BY <1>0, <1>9 DEF MapArrivesEmpty, Shows, Pickers
<1>6. CASE \/ HoldServed \/ HoldThrows \/ PollTimer \/ Retry \/ Expire
           \/ \E f \in fetches : MapRead(f) \/ MapFails(f)
           \/ \E a \in Asks : BookingRead(a) \/ BookingArrives(a) \/ BookingFails(a)
           \/ UNCHANGED vars
  BY <1>1, <1>6 DEF HoldServed, HoldThrows, PollTimer, Retry, Expire, MapRead,
                    MapFails, BookingRead, BookingArrives, BookingFails, pickerVars, vars
<1>7. CASE \/ PhoneAnswered \/ OtpAnswered \/ Pay \/ PayAnswered \/ Countdown \/ Revisit
           \/ ChargeServed \/ Submit("PHONE", "phone") \/ Submit("OTP", "otp")
           \/ \E s \in Seats, status \in SeatStatus : OthersMove(s, status)
           \/ \E status \in {"CONFIRMED", "CANCELLED"} : Callback(status)
  BY <1>1, <1>7 DEF PhoneAnswered, OtpAnswered, Pay, PayAnswered, Countdown, Revisit, ChargeServed,
                    Submit, OthersMove, Callback, pickerVars
<1> QED BY <1>2, <1>3, <1>4, <1>5, <1>6, <1>7, <1>8, <1>9 DEF Next

\* The selection is always free on the map beside it, in every hall.
THEOREM SelectionIsFree == Spec => []SelectedIsShownFree
<1>1. Init => SelectedIsShownFree
  BY DEF Init, OpenPicker, SelectedIsShownFree
<1>2. ClientTypes /\ SelectedIsShownFree /\ [Next]_vars => SelectedIsShownFree'
  BY NextSelection
<1> QED BY <1>1, <1>2, ClientTypeCorrect, PTL DEF Spec

\* At most one map is in flight, and one that was read is between the map shown
\* and the hall as it is.
MapsInOrder ==
    /\ picker.at <= version
    /\ \A f \in fetches : f # Sent => picker.at <= f.at /\ f.at <= version
    /\ \A f, g \in fetches : f = g

\* One step of the maps.
MapMoves == picker'.at >= picker.at /\ MapsInOrder'

LEMMA NextMapMoves == ClientTypes /\ MapsInOrder /\ [Next]_vars => MapMoves
<1> SUFFICES ASSUME ClientTypes, MapsInOrder, [Next]_vars PROVE MapMoves
  OBVIOUS
<1>0. /\ picker \in Pickers /\ fetches \in SUBSET ({Sent} \cup Maps) /\ seats \in SeatMaps
      /\ version \in 0..MaxVersion /\ MaxVersion \in Nat
  BY ClientTypeParts, ClientAssumption DEF ClientTypes, ClientAssumption
<1>00. /\ picker.at \in Nat /\ version \in Nat
       /\ \A f \in fetches : f # Sent => f.at \in Nat
       /\ Sent' = Sent
  BY <1>0 DEF Pickers, Maps, Sent
<1> USE DEF MapsInOrder, MapMoves
<1>1. ASSUME picker'.at = picker.at, fetches' \in {fetches, {}, {Sent}},
             version' \in {version, version + 1}
      PROVE  MapMoves
  BY <1>00, <1>1
<1>12. ASSUME NEW p \in Pickers, p.at = picker.at, Refresh(p), UNCHANGED version
      PROVE  MapMoves
  <2>1. picker'.at = picker.at \/ \E f \in fetches \ {Sent} : picker'.at = f.at
    BY <1>0, <1>12, AbortsLeave DEF Refresh
  <2>2. picker'.at >= picker.at /\ picker'.at <= version
    BY <1>00, <2>1
  <2>3. fetches' = {Sent}
    BY <1>12 DEF Refresh
  <2> QED BY <1>00, <1>12, <2>2, <2>3
<1>2. CASE RefreshTimer
  BY <1>0, <1>2, <1>12 DEF RefreshTimer, apiVars
<1>3. ASSUME NEW f \in fetches, MapRead(f) PROVE MapMoves
  <2>1. fetches' = {Read} /\ UNCHANGED <<picker, version>>
    BY <1>3 DEF MapRead, apiVars
  <2>2. Read.at = version
    BY DEF Read
  <2> QED BY <1>00, <2>1, <2>2
<1>4. ASSUME NEW f \in fetches, MapArrives(f) PROVE MapMoves
  <2>1. fetches' = {} /\ UNCHANGED version /\ f # Sent
    BY <1>4 DEF MapArrives, apiVars
  <2>2. picker'.at = f.at
    BY <1>0, <1>4 DEF MapArrives, Shows, Pickers
  <2> QED BY <1>00, <2>1, <2>2
<1>11. ASSUME NEW f \in fetches, MapArrivesEmpty(f) PROVE MapMoves
  <2>1. fetches' = {} /\ UNCHANGED version
    BY <1>11 DEF MapArrivesEmpty, apiVars
  <2>3. picker'.at = picker.at
    BY <1>0, <1>11 DEF MapArrivesEmpty, Shows, Pickers
  <2> QED BY <1>1, <2>1, <2>3
<1>5. ASSUME NEW f \in fetches, MapFails(f) PROVE MapMoves
  <2>1. fetches' = {}
    BY <1>5 DEF MapFails
  <2> QED BY <1>1, <1>5, <2>1 DEF MapFails, apiVars
<1>6. CASE HoldClick \/ \E s \in Seats : Toggle(s)
  <2>1. picker'.at = picker.at
    BY <1>0, <1>6 DEF HoldClick, Toggle, Pickers
  <2> QED BY <1>1, <1>6, <2>1 DEF HoldClick, Toggle, apiVars
<1>7. CASE HoldServed
  BY <1>1, <1>7 DEF HoldServed
<1>8. CASE HoldArrives
  <2>1. CASE LeavePicker /\ UNCHANGED apiVars
    <3>1. picker'.at = version /\ fetches' = {}
      BY <2>1 DEF LeavePicker, OpenPicker
    <3> QED BY <1>00, <2>1, <3>1 DEF apiVars
  <2>2. CASE Refresh([picker EXCEPT !.holding = FALSE, !.conflict = TRUE,
                                    !.selected = @ \ hold.seats])
             /\ UNCHANGED apiVars
    <3> DEFINE p == [picker EXCEPT !.holding = FALSE, !.conflict = TRUE,
                                   !.selected = @ \ hold.seats]
    <3>1. p \in Pickers /\ p.at = picker.at
      BY <1>0 DEF Pickers
    <3> QED BY <1>12, <2>2, <3>1 DEF apiVars
  <2> QED BY <1>8, <2>1, <2>2 DEF HoldArrives
<1>9. CASE \/ HoldThrows \/ PollTimer \/ Retry \/ Expire \/ UNCHANGED vars
           \/ \E a \in Asks : BookingRead(a) \/ BookingArrives(a) \/ BookingFails(a)
  BY <1>1, <1>9 DEF HoldThrows, PollTimer, Retry, Expire, BookingRead, BookingArrives,
                    BookingFails, pickerVars, apiVars, vars
<1>10. CASE \/ PhoneAnswered \/ OtpAnswered \/ Pay \/ PayAnswered \/ Countdown \/ Revisit
            \/ ChargeServed \/ Submit("PHONE", "phone") \/ Submit("OTP", "otp")
            \/ \E s \in Seats, status \in SeatStatus : OthersMove(s, status)
            \/ \E status \in {"CONFIRMED", "CANCELLED"} : Callback(status)
  BY <1>1, <1>10 DEF PhoneAnswered, OtpAnswered, Pay, PayAnswered, Countdown, Revisit, ChargeServed,
                     Submit, OthersMove, Callback, pickerVars, apiVars
<1> QED BY <1>2, <1>3, <1>4, <1>5, <1>6, <1>7, <1>8, <1>9, <1>10, <1>11 DEF Next

\* The map never goes back, however long answers take and however often the hall
\* changes.
THEOREM MapOnlyGoesForward == Spec => MapNeverGoesBack
<1>1. Init => MapsInOrder
  BY DEF Init, OpenPicker, MapsInOrder
<1>2. ClientTypes /\ MapsInOrder /\ [Next]_vars => MapsInOrder' /\ [picker'.at >= picker.at]_vars
  BY NextMapMoves DEF MapMoves
<1> QED BY <1>1, <1>2, ClientTypeCorrect, PTL DEF Spec, MapNeverGoesBack

-----------------------------------------------------------------------------
(* Every interval is cleared again. *)

\* An interval runs on the booking page only, and neither of the buttons that
\* start another is there while it does.
PollAlone ==
    poll.timer => page = "booking" /\ ~poll.fatal /\ ~poll.gaveUp /\ Asks # {}

LEMMA NextPollAlone == ClientTypes /\ PollAlone /\ [Next]_vars => PollAlone'
<1> SUFFICES ASSUME ClientTypes, PollAlone, [Next]_vars PROVE PollAlone'
  OBVIOUS
<1>0. OnTheWay /\ poll \in Polls
  BY ClientTypeParts DEF ClientTypes
<1>1. CASE UNCHANGED <<page, poll>>
  BY <1>1 DEF PollAlone
<1>2. CASE page' = "checkout" /\ poll' = NoPoll
  BY <1>2 DEF PollAlone, NoPoll, OpenPoll
<1>3. ASSUME page' = "booking", NEW shown, poll' = [OpenPoll EXCEPT !.shown = shown], Asks # {}
      PROVE  PollAlone'
  BY <1>3 DEF PollAlone, OpenPoll
<1>4. CASE HoldArrives
  <2>1. hold # NoHold /\ page = "picker"
    BY <1>0, <1>4 DEF HoldArrives, NoHold, OnTheWay
  <2>2. ~poll.timer /\ poll' = poll
    BY <1>4, <2>1 DEF HoldArrives, PollAlone, pollVars
  <2> QED BY <2>2 DEF PollAlone
<1>5. CASE PayAnswered
  <2>1. OpenPoll = [OpenPoll EXCEPT !.shown = "NONE"]
    BY DEF OpenPoll
  <2> QED BY <1>3, <1>5, <2>1 DEF PayAnswered
<1>6. CASE Revisit
  BY <1>2, <1>6 DEF Revisit
<1>7. CASE PollTimer
  BY <1>0, <1>7 DEF PollTimer, PollAlone, Polls
<1>8. ASSUME NEW a \in Asks, BookingArrives(a) PROVE PollAlone'
  BY <1>0, <1>8 DEF BookingArrives, PollAlone, Polls
<1>9. ASSUME NEW a \in Asks, BookingFails(a) PROVE PollAlone'
  BY <1>0, <1>9 DEF BookingFails, PollAlone, Polls
<1>10. CASE Retry
  BY <1>3, <1>10 DEF Retry
<1>11. CASE \/ RefreshTimer \/ HoldClick \/ HoldServed \/ HoldThrows \/ PhoneAnswered \/ OtpAnswered
            \/ Pay \/ Countdown \/ ChargeServed \/ Expire \/ UNCHANGED vars
            \/ Submit("PHONE", "phone") \/ Submit("OTP", "otp")
            \/ \E f \in fetches : MapRead(f) \/ MapArrives(f) \/ MapArrivesEmpty(f) \/ MapFails(f)
            \/ \E s \in Seats : Toggle(s)
            \/ \E a \in Asks : BookingRead(a)
            \/ \E s \in Seats, status \in SeatStatus : OthersMove(s, status)
            \/ \E status \in {"CONFIRMED", "CANCELLED"} : Callback(status)
  BY <1>1, <1>11 DEF RefreshTimer, HoldClick, HoldServed, HoldThrows, PhoneAnswered, OtpAnswered,
                     Pay, Countdown, ChargeServed, Expire, vars, Submit, MapRead, MapArrives, MapArrivesEmpty, MapFails,
                     Toggle, BookingRead, OthersMove, Callback, pollVars
<1> QED
  BY <1>4, <1>5, <1>6, <1>7, <1>8, <1>9, <1>10, <1>11 DEF Next

\* What a step leaves of a running interval and of a call slot: another fire, or
\* the slot is still free if it was.
LEMMA PollSteps ==
    ASSUME ClientTypes, PollAlone, [Next]_vars, NEW a \in Asks, poll.timer, poll'.timer
    PROVE  \/ poll'.fires = poll.fires + 1
           \/ ~PollTimer /\ poll'.fires = poll.fires /\ (asks[a] = "none" => asks'[a] = "none")
<1> DEFINE Goal == \/ poll'.fires = poll.fires + 1
                   \/ /\ ~PollTimer /\ poll'.fires = poll.fires
                      /\ asks[a] = "none" => asks'[a] = "none"
<1> SUFFICES Goal
  OBVIOUS
<1>0. /\ poll \in Polls /\ asks \in [Asks -> {"none", "sent"} \cup BookingStatus] /\ OnTheWay
      /\ page = "booking" /\ ~poll.fatal /\ ~poll.gaveUp
  BY ClientTypeParts DEF ClientTypes, PollAlone
<1>1. CASE PollTimer
  BY <1>0, <1>1 DEF PollTimer, Polls
<1>2. CASE ~PollTimer /\ UNCHANGED <<poll, asks>>
  BY <1>2
<1>3. CASE ~PollTimer /\ \E b \in Asks : BookingRead(b)
  BY <1>0, <1>3 DEF BookingRead
<1>4. CASE ~PollTimer /\ \E b \in Asks : BookingArrives(b)
  BY <1>0, <1>4 DEF BookingArrives, Polls
<1>5. CASE \E b \in Asks : BookingFails(b)
  BY <1>0, <1>5 DEF BookingFails, Polls
<1>6. CASE Revisit
  BY <1>6 DEF Revisit, NoPoll, OpenPoll
<1>7. ~Retry /\ ~PayAnswered /\ ~HoldArrives
  BY <1>0 DEF Retry, PayAnswered, HoldArrives, OnTheWay, NoHold
<1>8. ASSUME \/ RefreshTimer \/ HoldClick \/ HoldServed \/ HoldThrows \/ PhoneAnswered \/ OtpAnswered
             \/ Pay \/ Countdown \/ ChargeServed \/ Expire \/ UNCHANGED vars
             \/ Submit("PHONE", "phone") \/ Submit("OTP", "otp")
             \/ \E f \in fetches : MapRead(f) \/ MapArrives(f) \/ MapArrivesEmpty(f) \/ MapFails(f)
             \/ \E s \in Seats : Toggle(s)
             \/ \E s \in Seats, status \in SeatStatus : OthersMove(s, status)
             \/ \E status \in {"CONFIRMED", "CANCELLED"} : Callback(status)
      PROVE  UNCHANGED <<poll, asks>>
  BY <1>8 DEF RefreshTimer, HoldClick, HoldServed, HoldThrows, PhoneAnswered, OtpAnswered,
              Pay, Countdown, ChargeServed, Expire, vars, Submit, MapRead, MapArrives, MapArrivesEmpty, MapFails,
              Toggle, OthersMove, Callback, pollVars
<1> QED
  BY <1>1, <1>2, <1>3, <1>4, <1>5, <1>6, <1>7, <1>8 DEF Next

\* What the liveness of an interval rests on; one call slot is enough.
Polling(a) ==
    /\ [](ClientTypes /\ PollAlone) /\ [][Next]_vars /\ []PollCanRun
    /\ WF_vars(PollTimer) /\ AskFairness(a)

\* An interval that has fired k times stops or comes to fire n times.
Polled(k) == poll.timer /\ poll.fires >= k
Reaches(k, n) == [](Polled(k) => <>(~poll.timer \/ Polled(n)))

LEMMA PollFiresAgain ==
    ASSUME NEW a \in Asks, NEW k \in Nat
    PROVE  Polling(a) => Reaches(k, k + 1)
<1> DEFINE Inv == ClientTypes /\ PollAlone
           AtK == Polled(k)
           Blocked == asks[a] # "none"
           Over == ~poll.timer \/ Polled(k + 1)
<1>1. Inv => poll.fires \in Nat
  <2>1. ASSUME Inv PROVE poll \in Polls
    BY <2>1, ClientTypeParts DEF ClientTypes
  <2>2. ASSUME poll \in Polls PROVE poll.fires \in Nat
    BY <2>2, ClientAssumption DEF Polls, ClientAssumption
  <2> QED BY <2>1, <2>2
<1>2. Inv /\ AtK /\ [Next]_vars => AtK' \/ Over'
  BY <1>1, PollSteps DEF Polled
<1>3. Inv /\ AtK /\ ~Blocked /\ [Next]_vars => (AtK /\ ~Blocked)' \/ Over'
  BY <1>1, PollSteps DEF Polled
<1>4. Inv /\ AtK /\ [Next]_vars /\ <<PollTimer>>_vars => Over'
  BY <1>1, PollSteps DEF Polled
<1>5. Inv /\ <<BookingArrives(a) \/ BookingFails(a)>>_vars => ~Blocked'
  <2>1. Inv => asks \in [Asks -> {"none", "sent"} \cup BookingStatus]
    BY ClientTypeParts DEF ClientTypes
  <2> QED BY <2>1 DEF BookingArrives, BookingFails
<1>6. PollCanRun /\ AtK /\ ~Blocked => ENABLED <<PollTimer>>_vars
  BY DEF PollCanRun, Polled
<1>7. PollCanRun /\ Blocked => ENABLED <<BookingArrives(a) \/ BookingFails(a)>>_vars
  BY DEF PollCanRun
<1> HIDE DEF Inv, AtK, Blocked, Over
<1>8. Polling(a) => [](AtK => <>Over)
  BY <1>2, <1>3, <1>4, <1>5, <1>6, <1>7, PTL DEF Polling, AskFairness, Inv
<1> QED BY <1>8, PTL DEF AtK, Over, Reaches

LEMMA PollsAddUp ==
    ASSUME NEW k \in Nat, NEW m \in Nat, NEW n \in Nat
    PROVE  Reaches(k, m) /\ Reaches(m, n) => Reaches(k, n)
BY PTL DEF Reaches

\* With the sixty polls of the code, or fewer, an interval is cleared again:
\* it fires once more than GiveUp at the most.
LEMMA PollingStops ==
    ASSUME NEW a \in Asks, GiveUp \in 0..60
    PROVE  Polling(a) => PollStops
<1>1. \A k \in Nat : Polling(a) => Reaches(k, k + 1)
  BY PollFiresAgain
<1>2. ASSUME NEW k \in Nat PROVE Polling(a) => Reaches(k, k + 2)
  BY <1>1, PollsAddUp, k + 1 \in Nat, k + 2 \in Nat, (k + 1) + 1 = k + 2
<1>3. ASSUME NEW k \in Nat PROVE Polling(a) => Reaches(k, k + 4)
  BY <1>2, PollsAddUp, k + 2 \in Nat, k + 4 \in Nat, (k + 2) + 2 = k + 4
<1>4. ASSUME NEW k \in Nat PROVE Polling(a) => Reaches(k, k + 8)
  BY <1>3, PollsAddUp, k + 4 \in Nat, k + 8 \in Nat, (k + 4) + 4 = k + 8
<1>5. ASSUME NEW k \in Nat PROVE Polling(a) => Reaches(k, k + 16)
  BY <1>4, PollsAddUp, k + 8 \in Nat, k + 16 \in Nat, (k + 8) + 8 = k + 16
<1>6. ASSUME NEW k \in Nat PROVE Polling(a) => Reaches(k, k + 32)
  BY <1>5, PollsAddUp, k + 16 \in Nat, k + 32 \in Nat, (k + 16) + 16 = k + 32
<1>7. Polling(a) => Reaches(0, 32) /\ Reaches(32, 64)
  BY <1>6, 0 + 32 = 32, 32 + 32 = 64
<1>8. ClientTypes /\ poll.timer => Polled(0) /\ ~Polled(64)
  <2> SUFFICES ASSUME ClientTypes, poll.timer PROVE Polled(0) /\ ~Polled(64)
    OBVIOUS
  <2>1. poll.fires \in 0..(GiveUp + 1)
    BY ClientTypeParts DEF ClientTypes, Polls
  <2> QED BY <2>1 DEF Polled
<1>9. Polled(64) => poll.timer
  BY DEF Polled
<1> QED BY <1>7, <1>8, <1>9, PTL DEF Polling, Reaches, PollStops

\* A poll that never ends would be "a spinner that lies more slowly": none does.
THEOREM EveryPollStops ==
    ASSUME GiveUp \in 0..60
    PROVE  FairSpec /\ []PollCanRun => PollStops
<1>1. Spec => [](ClientTypes /\ PollAlone)
  <2>1. Init => PollAlone
    BY DEF Init, PollAlone, NoPoll, OpenPoll
  <2> QED BY <2>1, NextPollAlone, InitClientTypes, NextClientTypes, PTL DEF Spec
<1>2. ASSUME NEW a \in Asks PROVE FairSpec /\ []PollCanRun => PollStops
  <2>1. AsksEnd => AskFairness(a)
    BY DEF AsksEnd
  <2>2. Polling(a) => PollStops
    BY PollingStops
  <2> QED BY <1>1, <2>1, <2>2, PTL DEF FairSpec, Spec, Fairness, Polling
<1>3. CASE Asks = {}
  <2>1. PollAlone => ~poll.timer
    BY <1>3 DEF PollAlone
  <2> QED BY <1>1, <2>1, PTL DEF FairSpec, PollStops
<1> QED BY <1>2, <1>3
=============================================================================
