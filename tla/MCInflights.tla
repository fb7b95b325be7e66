---------------------------- MODULE MCInflights -----------------------------
(* Inflights for TLC. *)
EXTENDS Inflights
=============================================================================
