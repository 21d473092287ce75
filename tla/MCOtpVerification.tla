------------------------- MODULE MCOtpVerification -------------------------
(* A small instance of OtpVerification for TLC. *)
EXTENDS OtpVerification, TLC

CONSTANTS h1, h2

TwoHandlers == {h1, h2}

\* Handlers are interchangeable: nothing compares them.
Symmetry == Permutations(Handlers)
=============================================================================
