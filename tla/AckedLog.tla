------------------------------ MODULE AckedLog -------------------------------
(***************************************************************************)
(* What replication to one follower promises its leader within a term,     *)
(* whatever is lost, repeated or reordered and however often the follower  *)
(* restarts: what is acknowledged is held, and what is held or known to be *)
(* committed stays so.                                                     *)
(***************************************************************************)
EXTENDS Naturals

VARIABLES
  last,    \* the last index of the leader's log
  held,    \* the follower's stored log is the leader's up to this index
  known,   \* the commit index that the follower has stored
  acked    \* the index that the leader counts for the follower

vars == <<last, held, known, acked>>

Init ==
  /\ last \in Nat /\ held \in 0..last /\ known \in 0..held
  /\ acked = 0

Extend ==
  /\ last' \in Nat /\ last < last'
  /\ UNCHANGED <<held, known, acked>>

Store ==
  /\ held' \in held..last /\ known' \in known..held'
  /\ UNCHANGED <<last, acked>>

Acknowledge ==
  /\ acked' \in acked..held
  /\ UNCHANGED <<last, held, known>>

Next == Extend \/ Store \/ Acknowledge

Spec == Init /\ [][Next]_vars
=============================================================================
