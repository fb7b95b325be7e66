---------------------------- MODULE BoundedFifo -----------------------------
(***************************************************************************)
(* What the window of in-flight appends of a follower promises: a queue of *)
(* log indexes, never longer than Cap, acknowledged from its front.        *)
(***************************************************************************)
EXTENDS Naturals, Sequences

CONSTANTS Cap, Indexes

VARIABLE queue

Init == queue = <<>>

Add(i) == /\ Len(queue) < Cap
          /\ queue' = Append(queue, i)

\* The first n indexes are all of those in front that "to" acknowledges.
Acknowledges(to, n) == /\ \A j \in 1..n : queue[j] <= to
                       /\ n < Len(queue) => to < queue[n + 1]

FreeTo(to) == \E n \in 0..Len(queue) :
  /\ Acknowledges(to, n)
  /\ queue' = [j \in 1..Len(queue) - n |-> queue[n + j]]

Reset == queue' = <<>>

Next == \/ \E i \in Indexes : Add(i) \/ FreeTo(i)
        \/ Reset

Spec == Init /\ [][Next]_queue
=============================================================================
