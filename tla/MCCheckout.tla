----------------------------- MODULE MCCheckout -----------------------------
(* Small instances of Checkout for TLC. *)
EXTENDS Checkout, TLC

CONSTANTS s1, b1, b2, w1, w2, k1, k2, k3, h1, h2, r1, r2

OneSeat == {s1}
OneBooking == {b1}
TwoBookings == {b1, b2}
TwoKeys == {k1, k2}
ThreeKeys == {k1, k2, k3}
OneHandler == {h1}
TwoHandlers == {h1, h2}
OneSweeper == {w1}
TwoSweepers == {w1, w2}
OneReconciler == {r1}
TwoReconcilers == {r1, r2}

\* None of these values is compared with another of its kind by the code.
Symmetry ==
    Permutations(Bookings) \cup Permutations(Sweepers) \cup Permutations(Keys)
        \cup Permutations(Handlers) \cup Permutations(Reconcilers)

-----------------------------------------------------------------------------
(* A start for the liveness run: a state Init leads to, from which the      *)
(* bounds still leave room for a second booking and its payment.            *)

PendingCharge(b, k) == [booking |-> b, key |-> k, created |-> 0, status |-> "PENDING"]

\* b1 was held, charged, charged again with a fresh key, and cancelled.  The
\* gateway took the first charge, its callback still to come; the request for the
\* second was lost.  The first is no longer the newest of b1: the reconciler
\* will list it in every run.
RetriedInit ==
    /\ now = 0
    /\ seat = [s \in Seats |-> [status |-> "AVAILABLE", until |-> 0]]
    /\ booking = [b \in Bookings |->
                    IF b = b1 THEN [status |-> "CANCELLED", seats |-> Seats, grant |-> HoldTime]
                    ELSE [status |-> "NONE", seats |-> {}, grant |-> 0]]
    /\ cancelling = {} /\ sweep = [w \in Sweepers |-> NoSweep] /\ trespass = {}
    /\ pay = <<PendingCharge(b1, k1), PendingCharge(b1, k2)>>
    /\ gateway = [p \in PaymentIds |-> IF p = 1 THEN "SUCCEEDED" ELSE "NONE"]
    /\ recorded = {}
    /\ job = [h \in Jobs |-> Idle]
    /\ stuck = [r \in Reconcilers |-> {}]

RetriedFairSpec == RetriedInit /\ [][Next]_vars /\ Fairness
=============================================================================
