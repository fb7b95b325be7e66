----------------------------- MODULE MCElection -----------------------------
(* Election for TLC. *)
EXTENDS ElectionInvariant, TLC

\* Of two logs, the shorter one has the later last term.
MCLasts == {<<1, 2>>, <<2, 1>>}
MCSameLasts == {<<1, 1>>}

Symmetry == Permutations(Nodes \ PreVoters)
=============================================================================
