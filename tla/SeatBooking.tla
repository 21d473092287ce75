---------------------------- MODULE SeatBooking ----------------------------
(***************************************************************************)
(* The seats of one show and the bookings over them, as the Postgres       *)
(* tables show_seats, bookings and booking_seats hold them                 *)
(* (backend/src/services/bookingService.js and its repositories).          *)
(*                                                                         *)
(* Grain: Postgres runs at READ COMMITTED and every transaction here is    *)
(* one guarded UPDATE or blind UPDATEs by primary key, all under row       *)
(* locks, so a transaction is one step, taken at its commit.  What is NOT  *)
(* one step is modelled as it is in the code: cancelBooking checks the     *)
(* status before its transaction begins, and a sweep locks the lapsed      *)
(* seats, then reads the bookings it will expire, and only then writes     *)
(* them.  The timer does not wait for the last sweep, so sweeps overlap.   *)
(*                                                                         *)
(* ConfirmBooking and FailBooking are the writes paymentService makes to   *)
(* these tables.  Here they may come at any time for any booking; module   *)
(* Checkout says when they do.                                             *)
(***************************************************************************)
EXTENDS Integers

CONSTANTS
    Seats,      \* the rows of show_seats for the show
    Bookings,   \* the bookings that may ever be inserted
    Sweepers,   \* sweeps that may be under way at the same time
    HoldTime,   \* config.booking.holdDurationMinutes, in ticks
    MaxTime     \* bound: the clock stops here, every hold having run out

ASSUME TimeAssumption == HoldTime \in Nat /\ MaxTime \in Nat
ASSUME SweeperAssumption == Sweepers # {}

VARIABLES
    now,         \* NOW() of the database
    seat,        \* show_seats: status and hold_until (0 is NULL)
    booking,     \* bookings and booking_seats; grant is the hold_until sent to the client
    cancelling,  \* cancel requests that passed their status check, not yet committed
    sweep,       \* the open transaction of each sweep: seats it locked, bookings it found
    trespass     \* history: seats written for a booking while another owned them

seatVars == <<now, seat, booking, cancelling, sweep, trespass>>

SeatRow == [status : {"AVAILABLE", "HELD", "BOOKED"}, until : Nat]

BookingRow ==
    [status : {"NONE", "PENDING", "CONFIRMED", "CANCELLED", "EXPIRED"},
     seats : SUBSET Seats, grant : Nat]

NoSweep == [locked |-> {}, found |-> {}]

\* The seats some sweep has locked.
Locked == UNION {sweep[w].locked : w \in Sweepers}

-----------------------------------------------------------------------------
\* Mutant: a hold is over at hold_until, not after it.
Lapsed_AtDeadline(s) == seat[s].status = "HELD" /\ seat[s].until <= now

\* A hold that ran out: hold_until < NOW().
Lapsed(s) == seat[s].status = "HELD" /\ seat[s].until < now

\* Mutant: any hold may be taken over.
Holdable_IgnoresDeadline(s) == seat[s].status # "BOOKED"

\* The seats a hold may take: the WHERE clause of holdSeatsTx.
Holdable(s) == seat[s].status = "AVAILABLE" \/ Lapsed(s)

\* A booking owns its seats once confirmed, or while its hold lasts.
Owns(b) ==
    \/ booking[b].status = "CONFIRMED"
    \/ booking[b].status = "PENDING" /\ now <= booking[b].grant

\* The seats of b that another booking owns now.
Contested(b) ==
    {s \in booking[b].seats : \E c \in Bookings \ {b} : s \in booking[c].seats /\ Owns(c)}

\* Mutant: the WHERE clause is lost.
WithSeats_EveryRow(S, row) == [s \in Seats |-> row]

\* updateSeatsStatusTx: no guard on the status the rows have.
WithSeats(S, row) == [s \in Seats |-> IF s \in S THEN row ELSE seat[s]]

\* updateStatusTx of the booking, then updateSeatsStatusTx of its seats; the
\* second waits for the seats a sweep has locked.
WriteBooking(b, status, seatStatus) ==
    /\ booking[b].status # "NONE"
    /\ booking[b].seats \cap Locked = {}
    /\ booking' = [booking EXCEPT ![b].status = status]
    /\ seat' = WithSeats(booking[b].seats, [status |-> seatStatus, until |-> 0])
    /\ trespass' = trespass \cup Contested(b)

-----------------------------------------------------------------------------
SeatInit ==
    /\ now = 0
    /\ seat = [s \in Seats |-> [status |-> "AVAILABLE", until |-> 0]]
    /\ booking = [b \in Bookings |-> [status |-> "NONE", seats |-> {}, grant |-> 0]]
    /\ cancelling = {}
    /\ sweep = [w \in Sweepers |-> NoSweep]
    /\ trespass = {}

\* Mutant: the number of rows updated is not looked at.
CreateHold_TakesWhatIsThere(b, S) ==
    LET there == {s \in S : Holdable(s)}
    IN  /\ now + HoldTime < MaxTime
        /\ booking[b].status = "NONE" /\ S \cap Locked = {} /\ there # {}
        /\ seat' = WithSeats(there, [status |-> "HELD", until |-> now + HoldTime])
        /\ booking' = [booking EXCEPT
                         ![b] = [status |-> "PENDING", seats |-> S, grant |-> now + HoldTime]]
        /\ UNCHANGED <<now, cancelling, sweep, trespass>>

\* createHold: the guarded UPDATE must match every requested seat, otherwise
\* the transaction rolls back and nothing is written.  Bound: no hold is granted
\* that the clock, which stops at MaxTime, would not outlast.
CreateHold(b, S) ==
    /\ now + HoldTime < MaxTime
    /\ booking[b].status = "NONE"
    /\ S # {}
    /\ S \cap Locked = {}
    /\ {s \in S : Holdable(s)} = S
    /\ seat' = WithSeats(S, [status |-> "HELD", until |-> now + HoldTime])
    /\ booking' = [booking EXCEPT
                     ![b] = [status |-> "PENDING", seats |-> S, grant |-> now + HoldTime]]
    /\ UNCHANGED <<now, cancelling, sweep, trespass>>

\* cancelBooking, before BEGIN: every status but PENDING returns or throws.
CancelRead(b) ==
    /\ booking[b].status = "PENDING"
    /\ cancelling' = cancelling \cup {b}
    /\ UNCHANGED <<now, seat, booking, sweep, trespass>>

\* Mutant: the seats are not given back.
CancelApply_KeepsSeats(b) ==
    /\ b \in cancelling
    /\ booking' = [booking EXCEPT ![b].status = "CANCELLED"]
    /\ cancelling' = cancelling \ {b}
    /\ UNCHANGED <<now, seat, sweep, trespass>>

\* cancelBooking, BEGIN to COMMIT: the status is not read again.
CancelApply(b) ==
    /\ b \in cancelling
    /\ WriteBooking(b, "CANCELLED", "AVAILABLE")
    /\ cancelling' = cancelling \ {b}
    /\ UNCHANGED <<now, sweep>>

\* The request ends without its transaction: rollback, deadlock, replica crash.
CancelDropped(b) ==
    /\ b \in cancelling
    /\ cancelling' = cancelling \ {b}
    /\ UNCHANGED <<now, seat, booking, sweep, trespass>>

\* processWebhookCallback, a SUCCEEDED charge.
ConfirmBooking(b) ==
    /\ WriteBooking(b, "CONFIRMED", "BOOKED")
    /\ UNCHANGED <<now, cancelling, sweep>>

\* processWebhookCallback, a FAILED charge, and requestRefund.
FailBooking(b) ==
    /\ WriteBooking(b, "CANCELLED", "AVAILABLE")
    /\ UNCHANGED <<now, cancelling, sweep>>

\* Mutant: a booking is found only once it lost every seat.
SweepFind_EverySeat(w) ==
    LET lapsed == {s \in Seats : Lapsed(s)}
        lost == {b \in Bookings : booking[b].status = "PENDING"
                                  /\ \A s \in booking[b].seats : Holdable(s)}
    IN  /\ sweep[w] = NoSweep
        /\ lapsed \cap Locked = {}
        /\ lapsed \cup lost # {}
        /\ sweep' = [sweep EXCEPT ![w] = [locked |-> lapsed, found |-> lost]]
        /\ UNCHANGED <<now, seat, booking, cancelling, trespass>>

\* expireStaleHoldsAndBookings up to the loop: the UPDATE locks the lapsed
\* seats, waiting for those another sweep has locked; the SELECT, which waits for
\* nobody, finds PENDING bookings with a seat that is free or lapsed.
SweepFind(w) ==
    LET lapsed == {s \in Seats : Lapsed(s)}
        lost == {b \in Bookings : booking[b].status = "PENDING"
                                  /\ \E s \in booking[b].seats : Holdable(s)}
    IN  /\ sweep[w] = NoSweep
        /\ lapsed \cap Locked = {}
        /\ lapsed \cup lost # {}
        /\ sweep' = [sweep EXCEPT ![w] = [locked |-> lapsed, found |-> lost]]
        /\ UNCHANGED <<now, seat, booking, cancelling, trespass>>

\* Mutant: the bookings are expired and the seats left HELD.
SweepCommit_KeepsSeats(w) ==
    /\ sweep[w] # NoSweep
    /\ booking' = [b \in Bookings |-> IF b \in sweep[w].found
                                      THEN [booking[b] EXCEPT !.status = "EXPIRED"]
                                      ELSE booking[b]]
    /\ sweep' = [sweep EXCEPT ![w] = NoSweep]
    /\ UNCHANGED <<now, seat, cancelling, trespass>>

\* The loop and the COMMIT: each booking found is EXPIRED, whatever it became.
SweepCommit(w) ==
    /\ sweep[w] # NoSweep
    /\ seat' = WithSeats(sweep[w].locked, [status |-> "AVAILABLE", until |-> 0])
    /\ booking' = [b \in Bookings |-> IF b \in sweep[w].found
                                      THEN [booking[b] EXCEPT !.status = "EXPIRED"]
                                      ELSE booking[b]]
    /\ trespass' = trespass \cup UNION {booking[b].seats : b \in {c \in sweep[w].found : Owns(c)}}
    /\ sweep' = [sweep EXCEPT ![w] = NoSweep]
    /\ UNCHANGED <<now, cancelling>>

\* The sweep rolls back: deadlock victim, database error, worker crash.
SweepAbort(w) ==
    /\ sweep[w] # NoSweep
    /\ sweep' = [sweep EXCEPT ![w] = NoSweep]
    /\ UNCHANGED <<now, seat, booking, cancelling, trespass>>

Tick ==
    /\ now < MaxTime
    /\ now' = now + 1
    /\ UNCHANGED <<seat, booking, cancelling, sweep, trespass>>

SeatNext ==
    \/ \E b \in Bookings :
        \/ \E S \in SUBSET Seats : CreateHold(b, S)
        \/ CancelRead(b)
        \/ CancelApply(b)
        \/ CancelDropped(b)
        \/ ConfirmBooking(b)
        \/ FailBooking(b)
    \/ \E w \in Sweepers : SweepFind(w) \/ SweepCommit(w) \/ SweepAbort(w)
    \/ Tick

SeatSpec == SeatInit /\ [][SeatNext]_seatVars

\* The commit of the sweep that holds up the others.
LockingCommit == \E w \in Sweepers : sweep[w].locked # {} /\ SweepCommit(w)

\* The sweeper runs on a timer for as long as the worker lives, and a sweep
\* that is rolled back is tried again: none loses every deadlock for ever, nor
\* do all those that have locked seats.
SweepFairness(w) == WF_seatVars(SweepFind(w)) /\ SF_seatVars(SweepCommit(w))

SweepsGoOn == \A w \in Sweepers : SweepFairness(w)

SeatFairness == SF_seatVars(LockingCommit) /\ SweepsGoOn

SeatFairSpec == SeatSpec /\ SeatFairness

\* The seats and bookings a sweep would find now.
SweepIsDue ==
    \/ \E s \in Seats : Lapsed(s)
    \/ \E b \in Bookings : booking[b].status = "PENDING"
                           /\ \E s \in booking[b].seats : Holdable(s)

\* When the timer finds work, waiting for nobody, and when a sweep can commit:
\* the fairness above is of these states.
SweepCanRun ==
    /\ Locked # {} => ENABLED <<LockingCommit>>_seatVars
    /\ \A w \in Sweepers :
          /\ sweep[w] = NoSweep /\ Locked = {} /\ SweepIsDue => ENABLED <<SweepFind(w)>>_seatVars
          /\ sweep[w] # NoSweep => ENABLED <<SweepCommit(w)>>_seatVars

-----------------------------------------------------------------------------
\* The variables have their types, and a booking not inserted has no seats.
SeatTypeOK ==
    /\ now \in Nat
    /\ seat \in [Seats -> SeatRow]
    /\ booking \in [Bookings -> BookingRow]
    /\ \A b \in Bookings : booking[b].status = "NONE" => booking[b].seats = {}
    /\ cancelling \in SUBSET Bookings
    /\ sweep \in [Sweepers -> [locked : SUBSET Seats, found : SUBSET Bookings]]
    /\ trespass \in SUBSET Seats

OwnersOf(s) == {b \in Bookings : s \in booking[b].seats /\ Owns(b)}

\* One seat, one owner (DECISIONS.md:12), as far as the code keeps it: two
\* bookings own a seat only if the seat was once written for a booking while
\* another booking owned it, which the blind UPDATEs allow.
OneOwner ==
    \A s \in Seats \ trespass : \A b, c \in OwnersOf(s) : b = c

\* The row of an owned seat says so: HELD exactly until the time promised to
\* the client of the owner (bookingService.js:85), or BOOKED once confirmed.
OwnerHasSeat ==
    \A s \in Seats \ trespass : \A b \in OwnersOf(s) :
        IF booking[b].status = "CONFIRMED"
        THEN seat[s].status = "BOOKED"
        ELSE seat[s] = [status |-> "HELD", until |-> booking[b].grant]

\* No seat is lost to sale: a seat BOOKED, or HELD with time left, has an owner
\* that can still be cancelled, refunded or expired.
TakenSeatHasOwner ==
    \A s \in Seats \ trespass :
        seat[s].status # "AVAILABLE" /\ ~Lapsed(s) => OwnersOf(s) # {}

\* What a sweep has locked is still a hold that ran out when it commits: no hold
\* granted in between is swept away (bookingService.js:169-184).
SweepsOnlyLapsed == \A w \in Sweepers : \A s \in sweep[w].locked : Lapsed(s)

\* One sweep at a time has seats locked: every other wants the same rows.
OneSweepLocks ==
    \A v, w \in Sweepers : sweep[v].locked # {} /\ sweep[w].locked # {} => v = w

\* The inductive invariant of module SeatBookingProofs.
SeatInv ==
    /\ SeatTypeOK
    /\ OneOwner
    /\ OwnerHasSeat
    /\ TakenSeatHasOwner
    /\ SweepsOnlyLapsed
    /\ OneSweepLocks

\* A booking that owns a seat in the clear loses its seats only by its own end:
\* a step of another booking never moves a seat it owns, unless that step is
\* recorded as a trespass on the seat.
OnlyOwnerMovesSeat ==
    [][\A s \in Seats \ trespass' : \A b \in OwnersOf(s) :
         seat'[s] # seat[s] => booking'[b].status # booking[b].status]_seatVars

\* The seats that are a booking's and no other's.
SeatsOf(b) == IF Owns(b) THEN booking[b].seats \ trespass ELSE {}

Allocation == INSTANCE SeatAllocation
                WITH owns <- [b \in Bookings |-> SeatsOf(b)], contested <- trespass

\* Through all these tables, transactions and timers runs the allocation of
\* module SeatAllocation: seats are taken whole and from nobody, and lost to
\* another only by a write that comes late or by a sweep, which says so.
AllocationIsKept == Allocation!Spec

\* A hold that ran out is given back: the seat is swept or taken again.
LapsedSeatReclaimed == \A s \in Seats : Lapsed(s) ~> ~Lapsed(s)

\* A PENDING booking that ran out while one of its seats is still free or
\* lapsed is expired, or all its seats go to others (then the sweeper no
\* longer sees it, bookingRepository.js:102-115).
LostBookingEnds ==
    \A b \in Bookings :
        (booking[b].status = "PENDING" /\ \E s \in booking[b].seats : Holdable(s))
            ~> (booking[b].status # "PENDING" \/ \A s \in booking[b].seats : ~Holdable(s))
=============================================================================
