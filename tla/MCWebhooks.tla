----------------------------- MODULE MCWebhooks -----------------------------
(* A small instance of Webhooks for TLC. *)
EXTENDS Webhooks

CONSTANTS c1, c2, r1, r2, h1, h2

OneCharge == {c1}
TwoCharges == {c1, c2}
OneReplica == {r1}
TwoReplicas == {r1, r2}
TwoHandlers == {h1, h2}
=============================================================================
