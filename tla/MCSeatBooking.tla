--------------------------- MODULE MCSeatBooking ---------------------------
(* A small instance of SeatBooking for TLC. *)
EXTENDS SeatBooking

CONSTANTS s1, s2, b1, b2, w1, w2

TwoSeats == {s1, s2}
TwoBookings == {b1, b2}
TwoSweepers == {w1, w2}
=============================================================================
