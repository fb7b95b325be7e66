----------------------------- MODULE MCReadOnly -----------------------------
(* ReadOnly for TLC. *)
EXTENDS ReadOnly, TLC

Symmetry == Permutations(Ctxs) \cup Permutations(Voters \ {Self})
=============================================================================
