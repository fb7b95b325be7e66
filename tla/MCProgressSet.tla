---------------------------- MODULE MCProgressSet ---------------------------
(* ProgressSet for TLC. *)
EXTENDS ProgressSet, TLC

Symmetry == Permutations(Ids \ {Self})

\* No members, all of them voters, and the node a learner or not a member of
\* the others.
Others == Ids \ {Self}
MCConfStates == {<<{}, {}>>, <<Ids, {}>>, <<Others, {Self}>>, <<Others, {}>>}
=============================================================================
