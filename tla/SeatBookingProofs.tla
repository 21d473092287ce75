------------------------- MODULE SeatBookingProofs -------------------------
(***************************************************************************)
(* Proofs about module SeatBooking, for every set of seats and bookings,   *)
(* every hold time, every bound on the clock and any number of overlapping *)
(* sweeps.                                                                 *)
(*                                                                         *)
(* SeatInv is inductive as it stands.  OneOwner alone is not: that a hold  *)
(* takes no seat in use follows from OwnerHasSeat, which ties the row of a *)
(* seat to its owner, and that a sweep frees no seat in use follows from   *)
(* OwnerHasSeat together with SweepsOnlyLapsed, which the locks preserve.  *)
(***************************************************************************)
EXTENDS SeatBooking, TLAPS

\* What SeatInv says of one seat.
SeatInvOf(s) ==
    /\ \A b, c \in OwnersOf(s) : b = c
    /\ \A b \in OwnersOf(s) :
          IF booking[b].status = "CONFIRMED"
          THEN seat[s].status = "BOOKED"
          ELSE seat[s] = [status |-> "HELD", until |-> booking[b].grant]
    /\ seat[s].status # "AVAILABLE" /\ ~Lapsed(s) => OwnersOf(s) # {}

\* updateSeatsStatusTx writes the rows named and leaves the others.
LEMMA WithSeatsRow ==
    ASSUME NEW S, NEW row, NEW s \in Seats
    PROVE  WithSeats(S, row)[s] = IF s \in S THEN row ELSE seat[s]
BY DEF WithSeats

\* Rows of the right type in, rows of the right type out.
LEMMA WithSeatsType ==
    ASSUME seat \in [Seats -> SeatRow], NEW S, NEW row \in SeatRow
    PROVE  WithSeats(S, row) \in [Seats -> SeatRow]
BY DEF WithSeats

-----------------------------------------------------------------------------
(* Type correctness. *)

LEMMA InitSeatTypeOK == SeatInit => SeatTypeOK
BY DEF SeatInit, SeatTypeOK, SeatRow, BookingRow, NoSweep

\* The write shared by confirmation, failure, refund and cancellation.
LEMMA WriteType ==
    ASSUME SeatTypeOK, NEW b \in Bookings,
           NEW status \in {"CONFIRMED", "CANCELLED"},
           NEW seatStatus \in {"AVAILABLE", "BOOKED"},
           WriteBooking(b, status, seatStatus)
    PROVE  /\ seat' \in [Seats -> SeatRow]
           /\ booking' \in [Bookings -> BookingRow]
           /\ \A c \in Bookings : booking'[c].status = "NONE" => booking'[c].seats = {}
           /\ trespass' \in SUBSET Seats
<1> DEFINE row == [status |-> seatStatus, until |-> 0]
<1>1. row \in SeatRow
  BY DEF SeatRow
<1>2. seat' \in [Seats -> SeatRow]
  BY <1>1, WithSeatsType DEF WriteBooking, SeatTypeOK
<1>3. /\ booking' \in [Bookings -> BookingRow]
      /\ \A c \in Bookings : booking'[c].status = "NONE" => booking'[c].seats = {}
  BY DEF WriteBooking, SeatTypeOK, BookingRow
<1>4. trespass' \in SUBSET Seats
  BY DEF WriteBooking, Contested, SeatTypeOK, BookingRow
<1> QED BY <1>2, <1>3, <1>4

LEMMA NextSeatTypeOK == SeatTypeOK /\ [SeatNext]_seatVars => SeatTypeOK'
<1> SUFFICES ASSUME SeatTypeOK, [SeatNext]_seatVars PROVE SeatTypeOK'
  OBVIOUS
<1> USE TimeAssumption
<1>1. ASSUME NEW b \in Bookings, NEW S \in SUBSET Seats, CreateHold(b, S)
      PROVE  SeatTypeOK'
  <2> DEFINE row == [status |-> "HELD", until |-> now + HoldTime]
  <2>1. row \in SeatRow
    BY DEF SeatRow, SeatTypeOK
  <2>2. seat' \in [Seats -> SeatRow]
    BY <1>1, <2>1, WithSeatsType DEF CreateHold, SeatTypeOK
  <2>3. /\ booking' \in [Bookings -> BookingRow]
        /\ \A c \in Bookings : booking'[c].status = "NONE" => booking'[c].seats = {}
    BY <1>1 DEF CreateHold, SeatTypeOK, BookingRow
  <2> QED BY <1>1, <2>2, <2>3 DEF CreateHold, SeatTypeOK
<1>2. ASSUME NEW b \in Bookings, CancelRead(b) PROVE SeatTypeOK'
  BY <1>2 DEF CancelRead, SeatTypeOK
<1>3. ASSUME NEW b \in Bookings, CancelApply(b) PROVE SeatTypeOK'
  BY <1>3, WriteType DEF CancelApply, SeatTypeOK
<1>4. ASSUME NEW b \in Bookings, CancelDropped(b) PROVE SeatTypeOK'
  BY <1>4 DEF CancelDropped, SeatTypeOK
<1>5. ASSUME NEW b \in Bookings, ConfirmBooking(b) PROVE SeatTypeOK'
  BY <1>5, WriteType DEF ConfirmBooking, SeatTypeOK
<1>6. ASSUME NEW b \in Bookings, FailBooking(b) PROVE SeatTypeOK'
  BY <1>6, WriteType DEF FailBooking, SeatTypeOK
<1>7. ASSUME NEW w \in Sweepers, SweepFind(w) PROVE SeatTypeOK'
  BY <1>7 DEF SweepFind, SeatTypeOK
<1>8. ASSUME NEW w \in Sweepers, SweepCommit(w) PROVE SeatTypeOK'
  <2> DEFINE row == [status |-> "AVAILABLE", until |-> 0]
  <2>1. row \in SeatRow
    BY DEF SeatRow
  <2>2. seat' \in [Seats -> SeatRow]
    BY <1>8, <2>1, WithSeatsType DEF SweepCommit, SeatTypeOK
  <2>6. ASSUME NEW c \in Bookings
        PROVE  /\ booking'[c] \in BookingRow
               /\ booking'[c].status = "NONE" => booking'[c].seats = {}
    <3>1. booking'[c] = booking[c] \/ booking'[c] = [booking[c] EXCEPT !.status = "EXPIRED"]
      BY <1>8 DEF SweepCommit
    <3> QED BY <3>1 DEF SeatTypeOK, BookingRow
  <2>3. /\ booking' \in [Bookings -> BookingRow]
        /\ \A c \in Bookings : booking'[c].status = "NONE" => booking'[c].seats = {}
    BY <1>8, <2>6 DEF SweepCommit
  <2>4. trespass' \in SUBSET Seats
    BY <1>8 DEF SweepCommit, SeatTypeOK, BookingRow
  <2>5. sweep' \in [Sweepers -> [locked : SUBSET Seats, found : SUBSET Bookings]]
    BY <1>8 DEF SweepCommit, NoSweep, SeatTypeOK
  <2> QED BY <1>8, <2>2, <2>3, <2>4, <2>5 DEF SweepCommit, SeatTypeOK
<1>9. ASSUME NEW w \in Sweepers, SweepAbort(w) PROVE SeatTypeOK'
  BY <1>9 DEF SweepAbort, NoSweep, SeatTypeOK
<1>10. CASE Tick
  BY <1>10 DEF Tick, SeatTypeOK
<1>11. CASE UNCHANGED seatVars
  BY <1>11 DEF seatVars, SeatTypeOK
<1> QED
  BY <1>1, <1>2, <1>3, <1>4, <1>5, <1>6, <1>7, <1>8, <1>9, <1>10, <1>11 DEF SeatNext

\* The variables keep their types in every reachable state.
THEOREM SeatTypeCorrect == SeatSpec => []SeatTypeOK
<1>1. SeatInit => SeatTypeOK
  BY InitSeatTypeOK
<1>2. SeatTypeOK /\ [SeatNext]_seatVars => SeatTypeOK'
  BY NextSeatTypeOK
<1> QED BY <1>1, <1>2, PTL DEF SeatSpec

-----------------------------------------------------------------------------
(* The safety invariant. *)

\* SeatInv, seat by seat.
LEMMA SeatBySeat ==
    SeatInv <=> /\ SeatTypeOK /\ SweepsOnlyLapsed /\ OneSweepLocks
                /\ \A s \in Seats \ trespass : SeatInvOf(s)
BY DEF SeatInv, SeatInvOf, OneOwner, OwnerHasSeat, TakenSeatHasOwner

LEMMA InitSeatInv == SeatInit => SeatInv
<1> SUFFICES ASSUME SeatInit PROVE SeatInv
  OBVIOUS
<1>1. SeatTypeOK
  BY InitSeatTypeOK
<1>2. SweepsOnlyLapsed /\ OneSweepLocks
  BY DEF SeatInit, SweepsOnlyLapsed, OneSweepLocks, NoSweep
<1>3. \A s \in Seats : SeatInvOf(s)
  BY DEF SeatInit, SeatInvOf, OwnersOf
<1> QED BY <1>1, <1>2, <1>3, SeatBySeat

\* A seat that is not written, and whose bookings are not, keeps SeatInvOf.
LEMMA SeatUntouched ==
    ASSUME SeatTypeOK, NEW s \in Seats, SeatInvOf(s),
           now' = now, seat'[s] = seat[s],
           \A c \in Bookings : s \in booking[c].seats \/ s \in booking'[c].seats
                                  => booking'[c] = booking[c]
    PROVE  SeatInvOf(s)'
<1>1. OwnersOf(s)' = OwnersOf(s)
  BY DEF OwnersOf, Owns
<1>2. \A c \in OwnersOf(s) : c \in Bookings /\ booking'[c] = booking[c]
  BY DEF OwnersOf
<1>3. Lapsed(s)' <=> Lapsed(s)
  BY DEF Lapsed
<1> QED BY <1>1, <1>2, <1>3 DEF SeatInvOf

\* A hold takes only seats nobody owns.
LEMMA HoldableUnowned ==
    ASSUME SeatTypeOK, NEW s \in Seats, SeatInvOf(s), Holdable(s)
    PROVE  OwnersOf(s) = {}
<1> SUFFICES ASSUME NEW b \in OwnersOf(s) PROVE FALSE
  OBVIOUS
<1>1. b \in Bookings /\ s \in booking[b].seats /\ Owns(b)
  BY DEF OwnersOf
<1>2. CASE booking[b].status = "CONFIRMED"
  BY <1>2 DEF SeatInvOf, Holdable, Lapsed
<1>3. CASE booking[b].status # "CONFIRMED"
  <2>1. now <= booking[b].grant
    BY <1>1, <1>3 DEF Owns
  <2>2. seat[s] = [status |-> "HELD", until |-> booking[b].grant]
    BY <1>3 DEF SeatInvOf
  <2>3. booking[b].grant < now
    BY <2>2 DEF Holdable, Lapsed
  <2>4. now \in Nat /\ booking[b].grant \in Nat
    BY <1>1 DEF SeatTypeOK, BookingRow
  <2> QED BY <2>1, <2>3, <2>4
<1> QED BY <1>2, <1>3

\* createHold keeps SeatInvOf for every seat.
LEMMA CreateHoldSeat ==
    ASSUME SeatTypeOK, NEW b \in Bookings, NEW S \in SUBSET Seats, CreateHold(b, S),
           NEW s \in Seats, SeatInvOf(s)
    PROVE  SeatInvOf(s)'
<1> USE TimeAssumption
<1>1. CASE s \notin S
  <2>1. seat'[s] = seat[s]
    BY <1>1, WithSeatsRow DEF CreateHold
  <2>2. \A c \in Bookings : s \in booking[c].seats \/ s \in booking'[c].seats
                               => booking'[c] = booking[c]
    BY <1>1 DEF CreateHold, SeatTypeOK, BookingRow
  <2>3. now' = now
    BY DEF CreateHold
  <2> QED BY <2>1, <2>2, <2>3, SeatUntouched
<1>2. CASE s \in S
  <2>1. OwnersOf(s) = {}
    BY <1>2, HoldableUnowned DEF CreateHold
  <2>2. seat'[s] = [status |-> "HELD", until |-> now + HoldTime]
    BY <1>2, WithSeatsRow DEF CreateHold
  <2>3. booking'[b] = [status |-> "PENDING", seats |-> S, grant |-> now + HoldTime]
    BY DEF CreateHold, SeatTypeOK
  <2>4. now' = now
    BY DEF CreateHold
  <2>5. \A c \in Bookings \ {b} : booking'[c] = booking[c]
    BY DEF CreateHold, SeatTypeOK
  <2>6. \A c \in Bookings \ {b} : c \notin OwnersOf(s)'
    BY <2>1, <2>4, <2>5 DEF OwnersOf, Owns
  <2>7. Owns(b)'
    BY <2>3, <2>4 DEF Owns, SeatTypeOK
  <2>8. OwnersOf(s)' = {b}
    BY <1>2, <2>3, <2>6, <2>7 DEF OwnersOf
  <2> QED BY <2>2, <2>3, <2>8 DEF SeatInvOf
<1> QED BY <1>1, <1>2

\* The shared write keeps SeatInvOf for every seat it does not trespass on.
LEMMA WriteSeat ==
    ASSUME SeatTypeOK, NEW b \in Bookings, NEW status, NEW seatStatus,
           \/ status = "CONFIRMED" /\ seatStatus = "BOOKED"
           \/ status = "CANCELLED" /\ seatStatus = "AVAILABLE",
           WriteBooking(b, status, seatStatus), now' = now,
           NEW s \in Seats \ trespass', SeatInvOf(s)
    PROVE  SeatInvOf(s)'
<1>1. \A c \in Bookings \ {b} : booking'[c] = booking[c]
  BY DEF WriteBooking, SeatTypeOK
<1>2. /\ booking'[b].status = status
      /\ booking'[b].seats = booking[b].seats
  BY DEF WriteBooking, SeatTypeOK, BookingRow
<1>3. CASE s \notin booking[b].seats
  <2>1. seat'[s] = seat[s]
    BY <1>3, WithSeatsRow DEF WriteBooking
  <2>2. \A c \in Bookings : s \in booking[c].seats \/ s \in booking'[c].seats
                               => booking'[c] = booking[c]
    BY <1>1, <1>2, <1>3
  <2> QED BY <2>1, <2>2, SeatUntouched
<1>4. CASE s \in booking[b].seats
  <2>1. seat'[s] = [status |-> seatStatus, until |-> 0]
    BY <1>4, WithSeatsRow DEF WriteBooking
  <2>2. s \notin Contested(b)
    BY DEF WriteBooking
  <2>3. \A c \in Bookings \ {b} : c \notin OwnersOf(s)'
    BY <1>1, <1>4, <2>2 DEF Contested, OwnersOf, Owns
  <2>4. CASE status = "CONFIRMED" /\ seatStatus = "BOOKED"
    <3>1. OwnersOf(s)' = {b}
      BY <1>2, <1>4, <2>3, <2>4 DEF OwnersOf, Owns
    <3> QED BY <1>2, <2>1, <2>4, <3>1 DEF SeatInvOf
  <2>5. CASE status = "CANCELLED" /\ seatStatus = "AVAILABLE"
    <3>1. OwnersOf(s)' = {}
      BY <1>2, <2>3, <2>5 DEF OwnersOf, Owns
    <3> QED BY <2>1, <2>5, <3>1 DEF SeatInvOf
  <2> QED BY <2>4, <2>5
<1> QED BY <1>3, <1>4

\* The sweep's commit keeps SeatInvOf: a seat it frees has no owner, and an
\* owner it expires is recorded as a trespass.
LEMMA SweepCommitSeat ==
    ASSUME SeatTypeOK, SweepsOnlyLapsed, NEW w \in Sweepers, SweepCommit(w),
           NEW s \in Seats \ trespass', SeatInvOf(s)
    PROVE  SeatInvOf(s)'
<1>1. now' = now
  BY DEF SweepCommit
<1>2. \A c \in Bookings : booking'[c].seats = booking[c].seats
  BY DEF SweepCommit, SeatTypeOK, BookingRow
<1>3. \A c \in Bookings \ sweep[w].found : booking'[c] = booking[c]
  BY DEF SweepCommit
<1>4. \A c \in Bookings : c \in sweep[w].found => ~Owns(c)'
  BY DEF SweepCommit, Owns, SeatTypeOK, BookingRow
<1>5. \A c \in OwnersOf(s) : c \notin sweep[w].found
  BY DEF SweepCommit, OwnersOf
<1>6. OwnersOf(s)' = OwnersOf(s)
  BY <1>1, <1>2, <1>3, <1>4, <1>5 DEF OwnersOf, Owns
<1>7. \A c \in OwnersOf(s) : booking'[c] = booking[c]
  BY <1>3, <1>5 DEF OwnersOf
<1>8. CASE s \notin sweep[w].locked
  <2>1. seat'[s] = seat[s]
    BY <1>8, WithSeatsRow DEF SweepCommit
  <2>2. Lapsed(s)' <=> Lapsed(s)
    BY <1>1, <2>1 DEF Lapsed
  <2> QED BY <1>6, <1>7, <2>1, <2>2 DEF SeatInvOf
<1>9. CASE s \in sweep[w].locked
  <2>1. OwnersOf(s) = {}
    BY <1>9, HoldableUnowned DEF SweepsOnlyLapsed, Holdable
  <2>2. seat'[s] = [status |-> "AVAILABLE", until |-> 0]
    BY <1>9, WithSeatsRow DEF SweepCommit
  <2> QED BY <1>6, <2>1, <2>2 DEF SeatInvOf
<1> QED BY <1>8, <1>9

\* Time takes owners away and never gives one.
LEMMA TickSeat ==
    ASSUME SeatTypeOK, Tick, NEW s \in Seats, SeatInvOf(s)
    PROVE  SeatInvOf(s)'
<1>1. now \in Nat /\ now' = now + 1 /\ booking' = booking /\ seat' = seat
  BY DEF Tick, SeatTypeOK
<1>2. \A c \in Bookings : booking[c].grant \in Nat
  BY DEF SeatTypeOK, BookingRow
<1>3. \A c \in Bookings : Owns(c)' => Owns(c)
  BY <1>1, <1>2 DEF Owns
<1>4. \A c \in OwnersOf(s)' : c \in OwnersOf(s)
  BY <1>1, <1>3 DEF OwnersOf
<1>5. ASSUME seat'[s].status # "AVAILABLE", ~Lapsed(s)'
      PROVE  OwnersOf(s)' # {}
  <2>1. seat[s].status # "AVAILABLE" /\ ~Lapsed(s)
    BY <1>1, <1>5 DEF Lapsed, SeatTypeOK, SeatRow
  <2>2. PICK c \in OwnersOf(s) : TRUE
    BY <2>1 DEF SeatInvOf
  <2>3. CASE booking[c].status = "CONFIRMED"
    BY <1>1, <2>2, <2>3 DEF OwnersOf, Owns
  <2>4. CASE booking[c].status # "CONFIRMED"
    <3>1. seat[s] = [status |-> "HELD", until |-> booking[c].grant]
      BY <2>2, <2>4 DEF SeatInvOf
    <3>2. c \in Bookings /\ s \in booking[c].seats /\ booking[c].status = "PENDING"
      BY <2>2, <2>4 DEF OwnersOf, Owns
    <3>3. ~(booking[c].grant < now')
      BY <1>1, <1>5, <3>1 DEF Lapsed
    <3>4. now' <= booking[c].grant
      BY <1>1, <1>2, <3>2, <3>3
    <3> QED BY <1>1, <3>2, <3>4 DEF OwnersOf, Owns
  <2> QED BY <2>3, <2>4
<1>6. \A c, d \in OwnersOf(s)' : c = d
  BY <1>4 DEF SeatInvOf
<1>7. \A c \in OwnersOf(s)' :
        IF booking'[c].status = "CONFIRMED"
        THEN seat'[s].status = "BOOKED"
        ELSE seat'[s] = [status |-> "HELD", until |-> booking'[c].grant]
  BY <1>1, <1>4 DEF SeatInvOf
<1> QED BY <1>5, <1>6, <1>7 DEF SeatInvOf

\* One sweep that comes to hold locks is the only one: the lapsed seats it takes
\* are all there are to lock.
LEMMA NextOneSweepLocks == SeatInv /\ [SeatNext]_seatVars => OneSweepLocks'
<1> SUFFICES ASSUME SeatInv, [SeatNext]_seatVars PROVE OneSweepLocks'
  OBVIOUS
<1>1. SeatTypeOK /\ SweepsOnlyLapsed /\ OneSweepLocks
  BY DEF SeatInv
<1>2. ASSUME sweep' = sweep PROVE OneSweepLocks'
  BY <1>1, <1>2 DEF OneSweepLocks
<1>3. ASSUME NEW w \in Sweepers, SweepFind(w) PROVE OneSweepLocks'
  <2>1. \A v \in Sweepers : sweep[v].locked \subseteq {s \in Seats : Lapsed(s)}
    BY <1>1 DEF SweepsOnlyLapsed, SeatTypeOK
  <2>2. \A v \in Sweepers : sweep[v].locked = {}
    BY <1>3, <2>1 DEF SweepFind, Locked
  <2>3. \A v \in Sweepers \ {w} : sweep'[v] = sweep[v]
    BY <1>1, <1>3 DEF SweepFind, SeatTypeOK
  <2> QED BY <2>2, <2>3 DEF OneSweepLocks
<1>4. ASSUME NEW w \in Sweepers, SweepCommit(w) \/ SweepAbort(w) PROVE OneSweepLocks'
  <2>1. \A v \in Sweepers : sweep'[v].locked # {} => sweep[v].locked # {}
    BY <1>1, <1>4 DEF SweepCommit, SweepAbort, NoSweep, SeatTypeOK
  <2> QED BY <1>1, <2>1 DEF OneSweepLocks
<1> QED BY <1>2, <1>3, <1>4
    DEF SeatNext, seatVars, CreateHold, CancelRead, CancelApply, CancelDropped, ConfirmBooking,
        FailBooking, Tick

\* The locks of a sweep keep the seats it swept as it found them.
LEMMA NextSweepsOnlyLapsed == SeatInv /\ [SeatNext]_seatVars => SweepsOnlyLapsed'
<1> SUFFICES ASSUME SeatInv, [SeatNext]_seatVars PROVE SweepsOnlyLapsed'
  OBVIOUS
<1>1. SeatTypeOK /\ SweepsOnlyLapsed /\ OneSweepLocks
  BY DEF SeatInv
<1>2. \A w \in Sweepers : sweep[w].locked \subseteq Seats /\ sweep[w].locked \subseteq Locked
  BY <1>1 DEF SeatTypeOK, Locked
<1>3. ASSUME sweep' = sweep, now' = now, \A s \in Seats \cap Locked : seat'[s] = seat[s]
      PROVE  SweepsOnlyLapsed'
  BY <1>1, <1>2, <1>3 DEF SweepsOnlyLapsed, Lapsed
<1>4. ASSUME NEW b \in Bookings, NEW S \in SUBSET Seats, CreateHold(b, S)
      PROVE  SweepsOnlyLapsed'
  BY <1>3, <1>4, WithSeatsRow DEF CreateHold
<1>5. ASSUME NEW b \in Bookings, NEW status, NEW seatStatus,
             WriteBooking(b, status, seatStatus), sweep' = sweep, now' = now
      PROVE  SweepsOnlyLapsed'
  BY <1>3, <1>5, WithSeatsRow DEF WriteBooking
<1>6. ASSUME NEW b \in Bookings, CancelRead(b) \/ CancelDropped(b)
      PROVE  SweepsOnlyLapsed'
  BY <1>3, <1>6 DEF CancelRead, CancelDropped
<1>7. ASSUME NEW b \in Bookings, CancelApply(b) \/ ConfirmBooking(b) \/ FailBooking(b)
      PROVE  SweepsOnlyLapsed'
  BY <1>5, <1>7 DEF CancelApply, ConfirmBooking, FailBooking
<1>8. ASSUME NEW w \in Sweepers, SweepFind(w) PROVE SweepsOnlyLapsed'
  <2>1. /\ sweep'[w].locked = {s \in Seats : Lapsed(s)}
        /\ \A v \in Sweepers \ {w} : sweep'[v] = sweep[v]
    BY <1>1, <1>8 DEF SweepFind, SeatTypeOK
  <2>2. \A s \in Seats : Lapsed(s) => Lapsed(s)'
    BY <1>8 DEF SweepFind, Lapsed
  <2> QED BY <1>1, <1>2, <2>1, <2>2 DEF SweepsOnlyLapsed
<1>9. ASSUME NEW w \in Sweepers, SweepCommit(w) \/ SweepAbort(w) PROVE SweepsOnlyLapsed'
  <2> SUFFICES ASSUME NEW v \in Sweepers, NEW s \in sweep'[v].locked PROVE Lapsed(s)'
    BY DEF SweepsOnlyLapsed
  <2>1. v # w /\ sweep'[v] = sweep[v]
    BY <1>1, <1>9 DEF SweepCommit, SweepAbort, NoSweep, SeatTypeOK
  <2>2. s \notin sweep[w].locked /\ s \in Seats /\ Lapsed(s)
    BY <1>1, <1>2, <2>1 DEF OneSweepLocks, SweepsOnlyLapsed
  <2>3. seat'[s] = seat[s] /\ now' = now
    BY <1>9, <2>2, WithSeatsRow DEF SweepCommit, SweepAbort
  <2> QED BY <2>2, <2>3 DEF Lapsed
<1>10. CASE Tick
  <2>1. \A s \in Seats : seat[s].until \in Nat
    BY <1>1 DEF SeatTypeOK, SeatRow
  <2> QED BY <1>1, <1>2, <1>10, <2>1 DEF Tick, SweepsOnlyLapsed, Lapsed, SeatTypeOK
<1>11. CASE UNCHANGED seatVars
  BY <1>3, <1>11 DEF seatVars
<1> QED BY <1>4, <1>6, <1>7, <1>8, <1>9, <1>10, <1>11 DEF SeatNext

LEMMA NextSeatInv == SeatInv /\ [SeatNext]_seatVars => SeatInv'
<1> SUFFICES ASSUME SeatInv, [SeatNext]_seatVars PROVE SeatInv'
  OBVIOUS
<1>1. /\ SeatTypeOK
      /\ SweepsOnlyLapsed
      /\ \A s \in Seats \ trespass : SeatInvOf(s)
  BY SeatBySeat
<1>2. SeatTypeOK'
  BY <1>1, NextSeatTypeOK
<1>3. SweepsOnlyLapsed' /\ OneSweepLocks'
  BY NextSweepsOnlyLapsed, NextOneSweepLocks
<1>4. ASSUME NEW s \in Seats \ trespass' PROVE SeatInvOf(s)'
  <2>1. trespass \subseteq trespass'
    BY DEF SeatNext, seatVars, CreateHold, CancelRead, CancelApply, CancelDropped, ConfirmBooking,
           FailBooking, WriteBooking, SweepFind, SweepCommit, SweepAbort, Tick
  <2>2. SeatInvOf(s)
    BY <1>1, <2>1
  <2>3. ASSUME now' = now, seat' = seat, booking' = booking PROVE SeatInvOf(s)'
    BY <1>1, <2>2, <2>3, SeatUntouched
  <2>4. ASSUME NEW b \in Bookings, NEW S \in SUBSET Seats, CreateHold(b, S)
        PROVE  SeatInvOf(s)'
    BY <1>1, <2>2, <2>4, CreateHoldSeat
  <2>5. ASSUME NEW b \in Bookings, CancelApply(b) PROVE SeatInvOf(s)'
    BY <1>1, <2>2, <2>5, WriteSeat DEF CancelApply
  <2>6. ASSUME NEW b \in Bookings, ConfirmBooking(b) PROVE SeatInvOf(s)'
    BY <1>1, <2>2, <2>6, WriteSeat DEF ConfirmBooking
  <2>7. ASSUME NEW b \in Bookings, FailBooking(b) PROVE SeatInvOf(s)'
    BY <1>1, <2>2, <2>7, WriteSeat DEF FailBooking
  <2>8. ASSUME NEW b \in Bookings, CancelRead(b) \/ CancelDropped(b) PROVE SeatInvOf(s)'
    BY <2>3, <2>8 DEF CancelRead, CancelDropped
  <2>9. ASSUME NEW w \in Sweepers, SweepCommit(w) PROVE SeatInvOf(s)'
    BY <1>1, <2>2, <2>9, SweepCommitSeat
  <2>10. ASSUME NEW w \in Sweepers, SweepFind(w) \/ SweepAbort(w) PROVE SeatInvOf(s)'
    BY <2>3, <2>10 DEF SweepFind, SweepAbort
  <2>11. CASE Tick
    BY <1>1, <2>2, <2>11, TickSeat
  <2>12. CASE UNCHANGED seatVars
    BY <2>3, <2>12 DEF seatVars
  <2> QED
    BY <2>4, <2>5, <2>6, <2>7, <2>8, <2>9, <2>10, <2>11, <2>12 DEF SeatNext
<1>5. (\A s \in Seats \ trespass : SeatInvOf(s))'
  BY <1>4
<1>6. SeatInv' <=> /\ SeatTypeOK' /\ SweepsOnlyLapsed' /\ OneSweepLocks'
                   /\ (\A s \in Seats \ trespass : SeatInvOf(s))'
  BY DEF SeatInv, SeatInvOf, OneOwner, OwnerHasSeat, TakenSeatHasOwner
<1> QED BY <1>2, <1>3, <1>5, <1>6

\* The inductive invariant holds in every reachable state.
THEOREM SeatInvariant == SeatSpec => []SeatInv
<1>1. SeatInit => SeatInv
  BY InitSeatInv
<1>2. SeatInv /\ [SeatNext]_seatVars => SeatInv'
  BY NextSeatInv
<1> QED BY <1>1, <1>2, PTL DEF SeatSpec

\* One seat, one owner: for any number of clients, seats and sweeps, two
\* bookings own a seat only if a blind UPDATE trespassed on it.
THEOREM SeatHasOneOwner == SeatSpec => []OneOwner
<1>1. SeatInv => OneOwner
  BY DEF SeatInv
<1> QED BY <1>1, SeatInvariant, PTL

\* No sweep commits anything over a hold that still runs.
THEOREM SweepSparesLiveHolds == SeatSpec => []SweepsOnlyLapsed
<1>1. SeatInv => SweepsOnlyLapsed
  BY DEF SeatInv
<1> QED BY <1>1, SeatInvariant, PTL

\* Outside of trespass a live booking still has every seat it was given: BOOKED, or
\* HELD until the very time that was granted.
THEOREM OwnersHaveTheirSeats == SeatSpec => []OwnerHasSeat
<1>1. SeatInv => OwnerHasSeat
  BY DEF SeatInv
<1> QED BY <1>1, SeatInvariant, PTL

\* No seat is left HELD or BOOKED for nobody.
THEOREM TakenSeatsHaveOwners == SeatSpec => []TakenSeatHasOwner
<1>1. SeatInv => TakenSeatHasOwner
  BY DEF SeatInv
<1> QED BY <1>1, SeatInvariant, PTL

-----------------------------------------------------------------------------
(* Steps of other bookings. *)

\* A sold seat keeps no time of a hold, so that selling it again changes nothing.
SoldHasNoTime == \A s \in Seats : seat[s].status = "BOOKED" => seat[s].until = 0

LEMMA NextSoldHasNoTime == SoldHasNoTime /\ [SeatNext]_seatVars => SoldHasNoTime'
<1> SUFFICES ASSUME SoldHasNoTime, [SeatNext]_seatVars PROVE SoldHasNoTime'
  OBVIOUS
<1>1. ASSUME seat' = seat PROVE SoldHasNoTime'
  BY <1>1 DEF SoldHasNoTime
<1>2. ASSUME NEW S, NEW row, seat' = WithSeats(S, row), row.status = "BOOKED" => row.until = 0
      PROVE  SoldHasNoTime'
  BY <1>2, WithSeatsRow DEF SoldHasNoTime
<1>3. ASSUME NEW b \in Bookings, NEW S \in SUBSET Seats, CreateHold(b, S) PROVE SoldHasNoTime'
  BY <1>2, <1>3 DEF CreateHold
<1>4. ASSUME NEW b \in Bookings, CancelApply(b) \/ ConfirmBooking(b) \/ FailBooking(b)
      PROVE  SoldHasNoTime'
  BY <1>2, <1>4 DEF CancelApply, ConfirmBooking, FailBooking, WriteBooking
<1>5. ASSUME NEW w \in Sweepers, SweepCommit(w) PROVE SoldHasNoTime'
  BY <1>2, <1>5 DEF SweepCommit
<1> QED BY <1>1, <1>3, <1>4, <1>5
    DEF SeatNext, seatVars, CancelRead, CancelDropped, SweepFind, SweepAbort, Tick

LEMMA NextOwnerMoves ==
    ASSUME SeatInv, SoldHasNoTime, [SeatNext]_seatVars,
           NEW s \in Seats \ trespass', NEW b \in OwnersOf(s), seat'[s] # seat[s]
    PROVE  booking'[b].status # booking[b].status
<1>1. /\ SeatTypeOK /\ SweepsOnlyLapsed
      /\ b \in Bookings /\ s \in booking[b].seats /\ Owns(b)
  BY DEF SeatInv, OwnersOf
<1>2. SeatInvOf(s)
  <2>1. trespass \subseteq trespass'
    BY DEF SeatNext, seatVars, CreateHold, CancelRead, CancelApply, CancelDropped, ConfirmBooking,
           FailBooking, WriteBooking, SweepFind, SweepCommit, SweepAbort, Tick
  <2> QED BY <2>1, SeatBySeat
<1>3. ~Holdable(s)
  BY <1>1, <1>2, HoldableUnowned
<1>4. ASSUME NEW c \in Bookings, NEW S \in SUBSET Seats, CreateHold(c, S) PROVE FALSE
  <2>1. s \in S
    BY <1>4, WithSeatsRow DEF CreateHold
  <2> QED BY <1>3, <1>4, <2>1 DEF CreateHold
<1>5. ASSUME NEW c \in Bookings, NEW status, NEW seatStatus,
             \/ status = "CONFIRMED" /\ seatStatus = "BOOKED"
             \/ status = "CANCELLED" /\ seatStatus = "AVAILABLE",
             WriteBooking(c, status, seatStatus)
      PROVE  booking'[b].status # booking[b].status
  <2>1. s \in booking[c].seats
    BY <1>5, WithSeatsRow DEF WriteBooking
  <2>2. b = c
    BY <1>1, <1>5, <2>1 DEF WriteBooking, Contested
  <2>3. booking'[b].status = status
    BY <1>1, <1>5, <2>2 DEF WriteBooking, SeatTypeOK, BookingRow
  <2>4. booking[b].status \in {"CONFIRMED", "PENDING"}
    BY <1>1 DEF Owns
  <2>5. CASE status = "CONFIRMED" /\ booking[b].status = "CONFIRMED"
    <3>1. seat[s].status = "BOOKED" /\ seat[s].until = 0 /\ seat[s] \in SeatRow
      BY <1>1, <1>2, <2>5 DEF SeatInvOf, SoldHasNoTime, SeatTypeOK
    <3>2. seat'[s] = [status |-> "BOOKED", until |-> 0]
      BY <1>5, <2>1, <2>5, WithSeatsRow DEF WriteBooking
    <3> QED BY <3>1, <3>2 DEF SeatRow
  <2> QED BY <1>5, <2>3, <2>4, <2>5
<1>6. ASSUME NEW c \in Bookings, CancelApply(c) \/ ConfirmBooking(c) \/ FailBooking(c)
      PROVE  booking'[b].status # booking[b].status
  BY <1>5, <1>6 DEF CancelApply, ConfirmBooking, FailBooking
<1>7. ASSUME NEW w \in Sweepers, SweepCommit(w) PROVE FALSE
  <2>1. s \in sweep[w].locked
    BY <1>7, WithSeatsRow DEF SweepCommit
  <2> QED BY <1>1, <1>3, <2>1 DEF SweepsOnlyLapsed, Holdable
<1> QED BY <1>4, <1>6, <1>7
    DEF SeatNext, seatVars, CancelRead, CancelDropped, SweepFind, SweepAbort, Tick

\* A live booking loses a seat only by its own end, unless the step is recorded as
\* a trespass.
THEOREM OwnersMoveTheirSeats == SeatSpec => OnlyOwnerMovesSeat
<1>1. SeatInit => SoldHasNoTime
  BY DEF SeatInit, SoldHasNoTime
<1>2. SeatInv /\ SoldHasNoTime /\ [SeatNext]_seatVars
        => [\A s \in Seats \ trespass' : \A b \in OwnersOf(s) :
              seat'[s] # seat[s] => booking'[b].status # booking[b].status]_seatVars
  BY NextOwnerMoves
<1> QED BY <1>1, <1>2, InitSeatInv, NextSeatInv, NextSoldHasNoTime, PTL DEF SeatSpec, OnlyOwnerMovesSeat

-----------------------------------------------------------------------------
(* The allocation of module SeatAllocation. *)

\* Another booking has none of the seats a booking has in the clear.
LEMMA SeatsApart ==
    ASSUME SeatInv, NEW b \in Bookings, NEW c \in Bookings, b # c, Owns(b)
    PROVE  SeatsOf(b) \cap SeatsOf(c) = {} /\ Contested(b) \subseteq trespass
<1>1. \A s \in Seats \ trespass : \A x, y \in OwnersOf(s) : x = y
  BY DEF SeatInv, OneOwner
<1>2. \A x \in Bookings : booking[x].seats \subseteq Seats
  BY DEF SeatInv, SeatTypeOK, BookingRow
<1>3. SeatsOf(b) \cap SeatsOf(c) = {}
  BY <1>1, <1>2 DEF SeatsOf, OwnersOf
<1>4. Contested(b) \subseteq trespass
  BY <1>1, <1>2 DEF Contested, OwnersOf
<1> QED BY <1>3, <1>4

\* A seat nobody owns, outside of trespass, is free to the allocation.
LEMMA UnownedIsFree ==
    ASSUME NEW s \in Seats \ trespass, OwnersOf(s) = {}
    PROVE  s \in Allocation!Free
BY DEF Allocation!Free, Allocation!Owned, SeatsOf, OwnersOf

LEMMA InitAllocation == SeatInit => Allocation!Init
BY DEF SeatInit, Allocation!Init, SeatsOf, Owns

\* Bookings of B end and nobody's seats are written: GiveBack(B).
LEMMA StepGivesBack ==
    ASSUME NEW B \in SUBSET Bookings, trespass' = trespass,
           \A b \in B : ~Owns(b)',
           \A b \in Bookings \ B : SeatsOf(b)' = SeatsOf(b)
    PROVE  Allocation!GiveBack(B)
BY DEF Allocation!GiveBack, Allocation!Without, SeatsOf

\* No booking gains or loses, in the clear, a seat: a stutter.
LEMMA StepStutters ==
    ASSUME trespass' = trespass, \A b \in Bookings : SeatsOf(b)' = SeatsOf(b)
    PROVE  UNCHANGED Allocation!allocationVars
BY DEF Allocation!allocationVars

LEMMA HoldTakes ==
    ASSUME SeatInv, NEW b \in Bookings, NEW S \in SUBSET Seats, CreateHold(b, S)
    PROVE  Allocation!Take(b, S \ trespass)
<1> USE TimeAssumption
<1>1. SeatTypeOK /\ \A s \in Seats \ trespass : SeatInvOf(s)
  BY SeatBySeat
<1>2. SeatsOf(b) = {}
  BY DEF CreateHold, SeatsOf, Owns
<1>3. S \ trespass \subseteq Allocation!Free
  BY <1>1, HoldableUnowned, UnownedIsFree DEF CreateHold
<1>4. booking'[b] = [status |-> "PENDING", seats |-> S, grant |-> now + HoldTime]
  BY <1>1 DEF CreateHold, SeatTypeOK
<1>5. SeatsOf(b)' = S \ trespass
  <2>1. now' = now /\ trespass' = trespass /\ now \in Nat
    BY <1>1 DEF CreateHold, SeatTypeOK
  <2> QED BY <1>4, <2>1 DEF SeatsOf, Owns
<1>6. \A c \in Bookings \ {b} : SeatsOf(c)' = SeatsOf(c)
  BY <1>1 DEF CreateHold, SeatTypeOK, SeatsOf, Owns
<1>7. [c \in Bookings |-> SeatsOf(c)]' = [[c \in Bookings |-> SeatsOf(c)] EXCEPT ![b] = S \ trespass]
  BY <1>5, <1>6
<1> QED BY <1>2, <1>3, <1>7 DEF CreateHold, Allocation!Take

\* The shared write is a stutter or an end when the booking has its seats; when
\* it comes late, it takes what is free and overwrites what is not.
LEMMA WriteAllocates ==
    ASSUME SeatInv, NEW b \in Bookings, NEW status, NEW seatStatus,
           status \in {"CONFIRMED", "CANCELLED"},
           WriteBooking(b, status, seatStatus), now' = now
    PROVE  [Allocation!Next]_(Allocation!allocationVars)
<1>1. SeatTypeOK
  BY DEF SeatInv
<1>2. \A c \in Bookings \ {b} : booking'[c] = booking[c]
  BY <1>1 DEF WriteBooking, SeatTypeOK
<1>3. booking'[b].status = status /\ booking'[b].seats = booking[b].seats
  BY <1>1 DEF WriteBooking, SeatTypeOK, BookingRow
<1>4. trespass' = trespass \cup Contested(b)
  BY DEF WriteBooking
<1>5. \A c \in Bookings \ {b} : SeatsOf(c)' = SeatsOf(c) \ Contested(b)
  BY <1>2, <1>4 DEF SeatsOf, Owns
<1>6. SeatsOf(b)' = IF status = "CONFIRMED" THEN booking[b].seats \ trespass' ELSE {}
  BY <1>3 DEF SeatsOf, Owns
<1>7. CASE Owns(b)
  <2>1. trespass' = trespass /\ \A c \in Bookings \ {b} : SeatsOf(c)' = SeatsOf(c)
    <3>1. CASE Bookings = {b}
      BY <1>4, <1>5, <3>1 DEF Contested
    <3>2. CASE Bookings # {b}
      <4>1. Contested(b) \subseteq trespass
        BY <1>7, <3>2, SeatsApart
      <4> QED BY <1>4, <1>5, <4>1 DEF SeatsOf
    <3> QED BY <3>1, <3>2
  <2>2. CASE status = "CONFIRMED"
    <3>1. SeatsOf(b)' = SeatsOf(b)
      BY <1>6, <1>7, <2>1, <2>2 DEF SeatsOf
    <3> QED BY <2>1, <3>1, StepStutters
  <2>3. CASE status = "CANCELLED"
    <3>1. ~Owns(b)'
      BY <1>3, <2>3 DEF Owns
    <3>2. Allocation!GiveBack({b})
      BY <2>1, <3>1, StepGivesBack
    <3> QED BY <3>2 DEF Allocation!Next
  <2> QED BY <2>2, <2>3
<1>8. CASE ~Owns(b)
  <2> DEFINE C == Contested(b) \ trespass
             S == SeatsOf(b)'
  <2>1. SeatsOf(b) = {}
    BY <1>8 DEF SeatsOf
  <2>2. C \subseteq Allocation!Owned /\ C \subseteq Seats
    <3>1. \A s \in C : \E c \in Bookings : s \in SeatsOf(c)
      BY DEF Contested, SeatsOf
    <3>2. C \subseteq Seats
      BY <1>1 DEF Contested, SeatTypeOK, BookingRow
    <3> QED BY <3>1, <3>2 DEF Allocation!Owned
  <2>3. S \subseteq Allocation!Free
    <3> SUFFICES ASSUME NEW s \in S PROVE s \in Allocation!Free
      OBVIOUS
    <3>1. s \in booking[b].seats /\ s \notin trespass /\ s \notin Contested(b)
      BY <1>4, <1>6
    <3>2. s \in Seats
      BY <1>1, <3>1 DEF SeatTypeOK, BookingRow
    <3>3. OwnersOf(s) = {}
      BY <1>8, <3>1 DEF Contested, OwnersOf
    <3> QED BY <3>1, <3>2, <3>3, UnownedIsFree
  <2>4. S \in SUBSET Seats
    BY <2>3 DEF Allocation!Free
  <2>5. \A c \in Bookings \ {b} : SeatsOf(c)' = SeatsOf(c) \ C
    BY <1>5 DEF SeatsOf
  <2>6. CASE C = {}
    <3>1. trespass' = trespass /\ \A c \in Bookings \ {b} : SeatsOf(c)' = SeatsOf(c)
      BY <1>4, <2>5, <2>6
    <3>2. [c \in Bookings |-> SeatsOf(c)]' = [[c \in Bookings |-> SeatsOf(c)] EXCEPT ![b] = S]
      BY <3>1
    <3>3. Allocation!Take(b, S)
      BY <2>1, <2>3, <3>1, <3>2 DEF Allocation!Take
    <3> QED BY <2>4, <3>3 DEF Allocation!Next
  <2>7. CASE C # {}
    <3>1. trespass' = trespass \cup C
      BY <1>4
    <3>2. [c \in Bookings |-> SeatsOf(c)]'
            = [c \in Bookings |-> IF c = b THEN S ELSE [x \in Bookings |-> SeatsOf(x)][c] \ C]
      BY <2>5
    <3>3. Allocation!Overwrite(b, C, S)
      BY <2>1, <2>2, <2>3, <2>7, <3>1, <3>2 DEF Allocation!Overwrite
    <3> QED BY <2>2, <2>4, <3>3 DEF Allocation!Next
  <2> QED BY <2>6, <2>7
<1> QED BY <1>7, <1>8

\* The commit of a sweep takes their seats from the bookings it should not have
\* found, and from nobody else.
LEMMA SweepForfeits ==
    ASSUME SeatInv, NEW w \in Sweepers, SweepCommit(w)
    PROVE  Allocation!Forfeit({b \in sweep[w].found : Owns(b)})
<1> DEFINE B == {b \in sweep[w].found : Owns(b)}
<1>1. SeatTypeOK /\ sweep[w].found \subseteq Bookings
  BY DEF SeatInv, SeatTypeOK
<1>2. trespass' = trespass \cup UNION {booking[b].seats : b \in B}
  BY DEF SweepCommit
<1>3. trespass' = trespass \cup UNION {SeatsOf(b) : b \in B}
  BY <1>2 DEF SeatsOf
<1>4. \A b \in B : SeatsOf(b)' = {}
  BY <1>1 DEF SweepCommit, SeatTypeOK, BookingRow, SeatsOf, Owns
<1>5. ASSUME NEW c \in Bookings \ B PROVE SeatsOf(c)' = SeatsOf(c)
  <2>1. now' = now /\ booking'[c].seats = booking[c].seats
    BY <1>1 DEF SweepCommit, SeatTypeOK, BookingRow
  <2>2. CASE Owns(c)
    <3>1. c \notin sweep[w].found
      BY <2>2
    <3>2. Owns(c)'
      BY <2>1, <2>2, <3>1 DEF SweepCommit, Owns
    <3>3. \A b \in B : SeatsOf(b) \cap SeatsOf(c) = {}
      BY <1>1, <2>2, <3>1, SeatsApart
    <3> QED BY <1>3, <2>1, <2>2, <3>2, <3>3 DEF SeatsOf
  <2>3. CASE ~Owns(c)
    <3>1. ~Owns(c)'
      BY <1>1, <2>1, <2>3 DEF SweepCommit, Owns, SeatTypeOK, BookingRow
    <3> QED BY <2>3, <3>1 DEF SeatsOf
  <2> QED BY <2>2, <2>3
<1>6. [b \in Bookings |-> SeatsOf(b)]'
        = [b \in Bookings |-> IF b \in B THEN {} ELSE [x \in Bookings |-> SeatsOf(x)][b]]
  BY <1>4, <1>5
<1>7. UNION {SeatsOf(b) : b \in B} = UNION {[x \in Bookings |-> SeatsOf(x)][b] : b \in B}
  <2>1. \A b \in B : SeatsOf(b) = [x \in Bookings |-> SeatsOf(x)][b]
    BY <1>1
  <2> QED BY <2>1
<1> QED BY <1>3, <1>6, <1>7 DEF Allocation!Forfeit, Allocation!Without

\* Holds end by themselves when their time is over.
LEMMA TickGivesBack ==
    ASSUME SeatInv, Tick
    PROVE  Allocation!GiveBack({b \in Bookings : ~Owns(b)'})
<1>1. now \in Nat /\ now' = now + 1 /\ booking' = booking /\ trespass' = trespass
  BY DEF Tick, SeatInv, SeatTypeOK
<1>2. \A b \in Bookings : booking[b].grant \in Nat
  BY DEF SeatInv, SeatTypeOK, BookingRow
<1>3. \A b \in Bookings : Owns(b)' => Owns(b)
  BY <1>1, <1>2 DEF Owns
<1>4. \A b \in Bookings \ {c \in Bookings : ~Owns(c)'} : SeatsOf(b)' = SeatsOf(b)
  BY <1>1, <1>3 DEF SeatsOf
<1> QED BY <1>1, <1>4, StepGivesBack

LEMMA NextAllocation ==
    SeatInv /\ [SeatNext]_seatVars => [Allocation!Next]_(Allocation!allocationVars)
<1> SUFFICES ASSUME SeatInv, [SeatNext]_seatVars
             PROVE  [Allocation!Next]_(Allocation!allocationVars)
  OBVIOUS
<1>1. ASSUME now' = now, booking' = booking, trespass' = trespass
      PROVE  UNCHANGED Allocation!allocationVars
  BY <1>1, StepStutters DEF SeatsOf, Owns
<1>2. ASSUME NEW b \in Bookings, NEW S \in SUBSET Seats, CreateHold(b, S)
      PROVE  Allocation!Next
  <2>1. S \ trespass \in SUBSET Seats
    OBVIOUS
  <2> QED BY <1>2, <2>1, HoldTakes DEF Allocation!Next
<1>3. ASSUME NEW b \in Bookings, CancelApply(b) \/ ConfirmBooking(b) \/ FailBooking(b)
      PROVE  [Allocation!Next]_(Allocation!allocationVars)
  BY <1>3, WriteAllocates DEF CancelApply, ConfirmBooking, FailBooking
<1>4. ASSUME NEW b \in Bookings, CancelRead(b) \/ CancelDropped(b)
      PROVE  UNCHANGED Allocation!allocationVars
  BY <1>1, <1>4 DEF CancelRead, CancelDropped
<1>5. ASSUME UNCHANGED seatVars \/ \E w \in Sweepers : SweepFind(w) \/ SweepAbort(w)
      PROVE  UNCHANGED Allocation!allocationVars
  BY <1>1, <1>5 DEF SweepFind, SweepAbort, seatVars
<1>6. ASSUME NEW w \in Sweepers, SweepCommit(w) PROVE Allocation!Next
  <2>1. {b \in sweep[w].found : Owns(b)} \in SUBSET Bookings
    BY DEF SeatInv, SeatTypeOK
  <2> QED BY <1>6, <2>1, SweepForfeits DEF Allocation!Next
<1>7. CASE Tick
  <2>1. {b \in Bookings : ~Owns(b)'} \in SUBSET Bookings
    OBVIOUS
  <2> QED BY <1>7, <2>1, TickGivesBack DEF Allocation!Next
<1> QED BY <1>2, <1>3, <1>4, <1>5, <1>6, <1>7 DEF SeatNext

\* The booking service implements module SeatAllocation: every history of holds,
\* payments, cancellations, sweeps and clocks is one of whole sets of free seats
\* taken and given back, but for the late writes and sweeps that are named so.
THEOREM SeatBookingKeepsAllocation == SeatSpec => AllocationIsKept
<1>1. SeatInit => Allocation!Init
  BY InitAllocation
<1>2. SeatInv /\ [SeatNext]_seatVars => [Allocation!Next]_(Allocation!allocationVars)
  BY NextAllocation
<1> QED BY <1>1, <1>2, InitSeatInv, NextSeatInv, PTL DEF SeatSpec, AllocationIsKept, Allocation!Spec

-----------------------------------------------------------------------------
(***************************************************************************)
(* The sweeper gets round to everything.  A sweep that was under way when  *)
(* a seat lapsed need not have locked it; a sweep that begins after does,  *)
(* for as long as it stays lapsed.  While some sweep has locks the others  *)
(* wait, but then one that has them commits, sooner or later: the first    *)
(* time it may be the old one, the second time the seat is free.  If none  *)
(* has locks any more, a sweep with nothing to wait for begins and does.   *)
(*                                                                         *)
(* The prover knows no rule for ENABLED; that the actions can be taken     *)
(* when their guards say so, SweepCanRun, is a premise of the theorems.    *)
(***************************************************************************)

Lost(b) == booking[b].status = "PENDING" /\ \E s \in booking[b].seats : Holdable(s)

\* The sweeps under way will free the seat, or end the booking: all of them, and
\* the one that has seats locked.
WillFree(w, s) == sweep[w] = NoSweep \/ s \in sweep[w].locked
WillEnd(w, b) == sweep[w] = NoSweep \/ b \in sweep[w].found
LockersFree(s) == \A w \in Sweepers : sweep[w].locked # {} => s \in sweep[w].locked
LockersEnd(b) == \A w \in Sweepers : sweep[w].locked # {} => b \in sweep[w].found

\* What a step leaves of a sweep, or of all of them: a sweep that begins finds
\* all there is to find.
LEMMA SweepsStep ==
    ASSUME SeatInv, [SeatNext]_seatVars
    PROVE  \A w \in Sweepers :
             \/ sweep'[w] \in {sweep[w], NoSweep}
             \/ /\ sweep'[w].locked = {s \in Seats : Lapsed(s)}
                /\ sweep'[w].found = {b \in Bookings : Lost(b)}
<1> SUFFICES ASSUME NEW w \in Sweepers
             PROVE  \/ sweep'[w] \in {sweep[w], NoSweep}
                    \/ /\ sweep'[w].locked = {s \in Seats : Lapsed(s)}
                       /\ sweep'[w].found = {b \in Bookings : Lost(b)}
  OBVIOUS
<1>1. SeatTypeOK
  BY DEF SeatInv
<1>2. ASSUME NEW v \in Sweepers, SweepFind(v), v # w PROVE sweep'[w] = sweep[w]
  BY <1>1, <1>2 DEF SweepFind, SeatTypeOK
<1>3. CASE SweepFind(w)
  BY <1>1, <1>3 DEF SweepFind, SeatTypeOK, Lost
<1>4. ASSUME NEW v \in Sweepers, SweepCommit(v) \/ SweepAbort(v)
      PROVE  sweep'[w] \in {sweep[w], NoSweep}
  BY <1>1, <1>4 DEF SweepCommit, SweepAbort, SeatTypeOK
<1>5. CASE sweep' = sweep
  BY <1>5
<1> QED BY <1>2, <1>3, <1>4, <1>5
    DEF SeatNext, seatVars, CreateHold, CancelRead, CancelApply, CancelDropped, ConfirmBooking,
        FailBooking, Tick

\* A seat or booking that the next sweep would find is found by it.
LEMMA SweepKeepsFinding ==
    ASSUME SeatInv, [SeatNext]_seatVars
    PROVE  /\ \A s \in Seats : Lapsed(s) =>
                 /\ LockersFree(s) => LockersFree(s)'
                 /\ \A w \in Sweepers : WillFree(w, s) => WillFree(w, s)'
           /\ \A b \in Bookings : Lost(b) =>
                 /\ LockersEnd(b) => LockersEnd(b)'
                 /\ \A w \in Sweepers : WillEnd(w, b) => WillEnd(w, b)'
<1>1. NoSweep.locked = {}
  BY DEF NoSweep
<1>2. ASSUME NEW s \in Seats, Lapsed(s), NEW w \in Sweepers
      PROVE  sweep'[w] = sweep[w] \/ sweep'[w] = NoSweep \/ s \in sweep'[w].locked
  BY <1>2, SweepsStep
<1>3. ASSUME NEW b \in Bookings, Lost(b), NEW w \in Sweepers
      PROVE  sweep'[w] = sweep[w] \/ sweep'[w] = NoSweep \/ b \in sweep'[w].found
  BY <1>3, SweepsStep
<1>4. ASSUME NEW s \in Seats, Lapsed(s)
      PROVE  /\ LockersFree(s) => LockersFree(s)'
             /\ \A w \in Sweepers : WillFree(w, s) => WillFree(w, s)'
  BY <1>1, <1>2, <1>4 DEF WillFree, LockersFree
<1>5. ASSUME NEW b \in Bookings, Lost(b)
      PROVE  /\ LockersEnd(b) => LockersEnd(b)'
             /\ \A w \in Sweepers : WillEnd(w, b) => WillEnd(w, b)'
  BY <1>1, <1>3, <1>5 DEF WillEnd, LockersEnd
<1> QED BY <1>4, <1>5

\* A sweep that found them frees the seat and ends the booking.
LEMMA CommitEnds ==
    ASSUME SeatInv, NEW w \in Sweepers, SweepCommit(w)
    PROVE  /\ \A s \in Seats : s \in sweep[w].locked => ~Lapsed(s)'
           /\ \A b \in Bookings : b \in sweep[w].found => ~Lost(b)'
           /\ sweep'[w] = NoSweep
<1>1. SeatTypeOK
  BY DEF SeatInv
<1>2. ASSUME NEW s \in Seats, s \in sweep[w].locked PROVE ~Lapsed(s)'
  <2>1. seat'[s] = [status |-> "AVAILABLE", until |-> 0]
    BY <1>2, WithSeatsRow DEF SweepCommit
  <2> QED BY <2>1 DEF Lapsed
<1>3. ASSUME NEW b \in Bookings, b \in sweep[w].found PROVE ~Lost(b)'
  <2>1. booking'[b].status = "EXPIRED"
    BY <1>1, <1>3 DEF SweepCommit, SeatTypeOK, BookingRow
  <2> QED BY <2>1 DEF Lost
<1>4. sweep'[w] = NoSweep
  BY <1>1 DEF SweepCommit, SeatTypeOK
<1> QED BY <1>2, <1>3, <1>4

\* The commit of the sweep with the locks: nothing is locked after it.
LEMMA LockingCommitEnds ==
    ASSUME SeatInv, LockingCommit
    PROVE  /\ \A s \in Seats : LockersFree(s)' /\ (LockersFree(s) => ~Lapsed(s)')
           /\ \A b \in Bookings : LockersEnd(b)' /\ (LockersEnd(b) => ~Lost(b)')
           /\ Locked' = {}
<1>1. PICK w \in Sweepers : sweep[w].locked # {} /\ SweepCommit(w)
  BY DEF LockingCommit
<1>2. \A v \in Sweepers : sweep'[v].locked = {}
  <2> SUFFICES ASSUME NEW v \in Sweepers PROVE sweep'[v].locked = {}
    OBVIOUS
  <2>1. CASE v = w
    BY <1>1, <2>1, CommitEnds DEF NoSweep
  <2>2. CASE v # w
    <3>1. sweep'[v] = sweep[v]
      BY <1>1, <2>2 DEF SweepCommit, SeatInv, SeatTypeOK
    <3> QED BY <1>1, <2>2, <3>1 DEF SeatInv, OneSweepLocks
  <2> QED BY <2>1, <2>2
<1>3. Locked' = {}
  BY <1>2 DEF Locked
<1>4. /\ \A s \in Seats : LockersFree(s) => ~Lapsed(s)'
      /\ \A b \in Bookings : LockersEnd(b) => ~Lost(b)'
  BY <1>1, CommitEnds DEF LockersFree, LockersEnd
<1> QED BY <1>2, <1>3, <1>4 DEF LockersFree, LockersEnd

\* What begins a sweep; with a lapsed seat, it locks.
LEMMA FindBegins ==
    ASSUME SeatInv, NEW w \in Sweepers, SweepFind(w)
    PROVE  sweep'[w] # NoSweep
BY DEF SweepFind, SeatInv, SeatTypeOK, NoSweep

LEMMA BegunLocks ==
    ASSUME SeatInv, [SeatNext]_seatVars, NEW w \in Sweepers, NEW s \in Seats, Lapsed(s),
           sweep[w] = NoSweep, sweep'[w] # NoSweep
    PROVE  Locked' # {}
<1>1. s \in sweep'[w].locked
  BY SweepsStep
<1> QED BY <1>1 DEF Locked

\* What the theorems below rest on, for one of the sweepers.
Sweeping(w) ==
    /\ []SeatInv /\ [][SeatNext]_seatVars /\ []SweepCanRun
    /\ SF_seatVars(LockingCommit) /\ SweepFairness(w)

LEMMA SomeSweeps ==
    ASSUME NEW w \in Sweepers
    PROVE  SeatFairSpec /\ []SweepCanRun => Sweeping(w)
<1>1. SweepsGoOn => SweepFairness(w)
  BY DEF SweepsGoOn
<1> QED BY <1>1, SeatInvariant, PTL DEF SeatFairSpec, SeatSpec, SeatFairness, Sweeping

LEMMA SeatGetsFree ==
    ASSUME NEW s \in Seats, NEW w \in Sweepers
    PROVE  Sweeping(w) => (Lapsed(s) ~> ~Lapsed(s))
<1> DEFINE None == Locked = {}
           Busy == sweep[w] # NoSweep
           Frees == LockersFree(s)
           Runs == WillFree(w, s)
           Late == Lapsed(s)
<1>1. SweepCanRun /\ ~None => ENABLED <<LockingCommit>>_seatVars
  BY DEF SweepCanRun
<1>2. SweepCanRun /\ Late /\ ~Busy /\ None => ENABLED <<SweepFind(w)>>_seatVars
  BY DEF SweepCanRun, SweepIsDue
<1>3. SweepCanRun /\ Busy => ENABLED <<SweepCommit(w)>>_seatVars
  BY DEF SweepCanRun
<1>4. SeatInv /\ [SeatNext]_seatVars /\ Late => (Frees => Frees') /\ (Runs => Runs')
  BY SweepKeepsFinding
<1>5. SeatInv /\ <<LockingCommit>>_seatVars => Frees' /\ (Frees => ~Late')
  BY LockingCommitEnds
<1>6. SeatInv /\ <<SweepFind(w)>>_seatVars => Busy'
  BY FindBegins
<1>9. SeatInv /\ [SeatNext]_seatVars /\ Late /\ ~Busy => ~Busy' \/ ~None'
  BY BegunLocks
<1>7. SeatInv /\ <<SweepCommit(w)>>_seatVars => ~Busy'
  BY CommitEnds
<1> HIDE DEF None, Busy, Frees, Runs, Late
<1>8. Sweeping(w) => (Late ~> ~Late)
  BY <1>1, <1>2, <1>3, <1>4, <1>5, <1>6, <1>7, <1>9, PTL DEF Sweeping, SweepFairness
<1> QED BY <1>8, PTL DEF Late

\* Every seat whose hold ran out is given back, by the sweeper or to a new hold:
\* for any number of seats, bookings and overlapping sweeps, and whatever sweeps
\* are rolled back.
THEOREM LapsedSeatsAreReclaimed == SeatFairSpec /\ []SweepCanRun => LapsedSeatReclaimed
<1>1. PICK w \in Sweepers : TRUE
  BY SweeperAssumption
<1>2. ASSUME NEW s \in Seats
      PROVE  SeatFairSpec /\ []SweepCanRun => (Lapsed(s) ~> ~Lapsed(s))
  BY SeatGetsFree, SomeSweeps, PTL
<1> QED BY <1>2 DEF LapsedSeatReclaimed

LEMMA BookingGetsEnded ==
    ASSUME NEW b \in Bookings, NEW w \in Sweepers
    PROVE  Sweeping(w) => (Lost(b) ~> ~Lost(b))
<1> DEFINE None == Locked = {}
           Busy == sweep[w] # NoSweep
           Ends == LockersEnd(b)
           Runs == WillEnd(w, b)
           Late == Lost(b)
<1>1. SweepCanRun /\ ~None => ENABLED <<LockingCommit>>_seatVars
  BY DEF SweepCanRun
<1>2. SweepCanRun /\ Late /\ ~Busy /\ None => ENABLED <<SweepFind(w)>>_seatVars
  BY DEF SweepCanRun, SweepIsDue, Lost
<1>3. SweepCanRun /\ Busy => ENABLED <<SweepCommit(w)>>_seatVars
  BY DEF SweepCanRun
<1>4. SeatInv /\ [SeatNext]_seatVars /\ Late => (Ends => Ends') /\ (Runs => Runs')
  BY SweepKeepsFinding
<1>5. SeatInv /\ <<LockingCommit>>_seatVars => Ends' /\ (Ends => ~Late')
  BY LockingCommitEnds
<1>6. SeatInv /\ <<SweepFind(w)>>_seatVars => Busy'
  BY FindBegins
<1>7. SeatInv /\ <<SweepCommit(w)>>_seatVars => ~Busy' /\ Busy /\ (Runs => ~Late')
  <2>1. SweepCommit(w) => Busy
    BY DEF SweepCommit
  <2> QED BY <2>1, CommitEnds DEF WillEnd
<1>8. ~Busy => Runs
  BY DEF WillEnd
<1> HIDE DEF None, Busy, Ends, Runs, Late
<1>9. Sweeping(w) => (Late ~> ~Late)
  BY <1>1, <1>2, <1>3, <1>4, <1>5, <1>6, <1>7, <1>8, PTL DEF Sweeping, SweepFairness
<1> QED BY <1>9, PTL DEF Late

LEMMA LostMeans ==
    ASSUME NEW b \in Bookings
    PROVE  ~Lost(b) => booking[b].status # "PENDING" \/ \A s \in booking[b].seats : ~Holdable(s)
BY DEF Lost

\* Every PENDING booking the sweeper can see has run out is expired, or ends
\* otherwise, or loses all its seats to others.
THEOREM LostBookingsEnd == SeatFairSpec /\ []SweepCanRun => LostBookingEnds
<1>1. PICK w \in Sweepers : TRUE
  BY SweeperAssumption
<1>2. ASSUME NEW b \in Bookings
      PROVE  SeatFairSpec /\ []SweepCanRun
               => ((booking[b].status = "PENDING" /\ \E s \in booking[b].seats : Holdable(s))
                     ~> (booking[b].status # "PENDING" \/ \A s \in booking[b].seats : ~Holdable(s)))
  <2>1. (booking[b].status = "PENDING" /\ \E s \in booking[b].seats : Holdable(s)) => Lost(b)
    BY DEF Lost
  <2> QED BY <2>1, LostMeans, BookingGetsEnded, SomeSweeps, PTL
<1> QED BY <1>2 DEF LostBookingEnds
=============================================================================
