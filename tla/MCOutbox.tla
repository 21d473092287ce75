------------------------------ MODULE MCOutbox ------------------------------
(* Small instances of Outbox for TLC. *)
EXTENDS Outbox, TLC

CONSTANTS r1, r2, c1, c2

TwoRuns == {r1, r2}
OneSlot == {c1}
TwoSlots == {c1, c2}

\* Neither runs nor slots are compared by the code.
Symmetry == Permutations(Runs) \cup Permutations(Slots)
=============================================================================
