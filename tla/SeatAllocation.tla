-------------------------- MODULE SeatAllocation --------------------------
(***************************************************************************)
(* What the booking service promises of the seats of a show, without the   *)
(* tables it keeps them in: a booking takes its seats all at once, and     *)
(* only seats nobody has; it keeps every one of them until it ends; and a  *)
(* seat changes hands only through being free.                             *)
(*                                                                         *)
(* Overwrite and Forfeit are the two ways the code breaks that promise,    *)
(* named as what they are: a payment or a cancellation that comes late for *)
(* a booking that has run out, and a sweep that commits over a booking     *)
(* that has seats.  Nothing is promised of a contested seat.               *)
(***************************************************************************)
CONSTANTS Seats, Bookings

VARIABLES
    owns,      \* the seats each booking has, for as long as it has them
    contested  \* seats written for a booking while another had them

allocationVars == <<owns, contested>>

Owned == UNION {owns[b] : b \in Bookings}

Free == Seats \ (Owned \cup contested)

\* What is left to the bookings when those of B end.
Without(B) == [b \in Bookings |-> IF b \in B THEN {} ELSE owns[b]]

Init ==
    /\ owns = [b \in Bookings |-> {}]
    /\ contested = {}

\* A hold is granted, or a late payment finds its seats still free.
Take(b, S) ==
    /\ owns[b] = {}
    /\ S \subseteq Free
    /\ owns' = [owns EXCEPT ![b] = S]
    /\ UNCHANGED contested

\* Bookings end: cancelled, refunded, not paid, or their time ran out.
GiveBack(B) ==
    /\ owns' = Without(B)
    /\ UNCHANGED contested

\* A booking that has run out is paid or cancelled after all, and its write
\* falls on seats C that others have.  One that still runs never does this.
Overwrite(b, C, S) ==
    /\ owns[b] = {}
    /\ C # {} /\ C \subseteq Owned
    /\ S \subseteq Free
    /\ owns' = [c \in Bookings |-> IF c = b THEN S ELSE owns[c] \ C]
    /\ contested' = contested \cup C

\* The sweeper ends bookings it should not: confirmed since it found them, or
\* still running on what an overwrite has left them.
Forfeit(B) ==
    /\ owns' = Without(B)
    /\ contested' = contested \cup UNION {owns[b] : b \in B}

Next ==
    \/ \E b \in Bookings, S \in SUBSET Seats :
        \/ Take(b, S)
        \/ \E C \in SUBSET Seats : Overwrite(b, C, S)
    \/ \E B \in SUBSET Bookings : GiveBack(B) \/ Forfeit(B)

Spec == Init /\ [][Next]_allocationVars
=============================================================================
