---------------------------- MODULE MCStaticPage ----------------------------
(* A small instance of StaticPage for TLC. *)
EXTENDS StaticPage

CONSTANTS s1, a1, k1, k2

OneShow == {s1}
OneSeat == {a1}
OneCall == {k1}
TwoCalls == {k1, k2}
=============================================================================
