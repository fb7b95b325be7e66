----------------------------- MODULE MCRaftLog ------------------------------
(* RaftLog for TLC. *)
EXTENDS RaftLogInvariant
=============================================================================
