------------------------------ MODULE MCClient ------------------------------
(* A small instance of Client for TLC. *)
EXTENDS Client

CONSTANTS s1, s2, a1, a2

TwoSeats == {s1, s2}
TwoAsks == {a1, a2}
=============================================================================
