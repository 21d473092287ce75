----------------------------- MODULE Callbacks -----------------------------
(***************************************************************************)
(* What a payment callback promises, whoever carries it: the gateway       *)
(* decides a charge once, and the backend acts on the event of a charge at *)
(* most once and never before, or against, that decision.                  *)
(*                                                                         *)
(* Webhooks, which carries the callbacks, and Checkout, which acts on      *)
(* them, are both shown to implement this module.                          *)
(***************************************************************************)
CONSTANT Charges  \* charges the gateway may be asked for

VARIABLES
    verdict,  \* what the gateway decided of a charge
    acted     \* charges whose event the backend has acted on

callbackVars == <<verdict, acted>>

Init ==
    /\ verdict = [c \in Charges |-> "NONE"]
    /\ acted = {}

\* /charge answers 202: the verdict is drawn there, and the event carries it.
Decide(c, v) ==
    /\ verdict[c] = "NONE"
    /\ verdict' = [verdict EXCEPT ![c] = v]
    /\ UNCHANGED acted

\* The event of the charge is recorded in payment_events and acted on.
Act(c) ==
    /\ verdict[c] # "NONE"
    /\ c \notin acted
    /\ acted' = acted \cup {c}
    /\ UNCHANGED verdict

Next == \E c \in Charges : Act(c) \/ \E v \in {"SUCCEEDED", "FAILED"} : Decide(c, v)

Spec == Init /\ [][Next]_callbackVars
=============================================================================
