----------------------------- MODULE Inflights ------------------------------
(***************************************************************************)
(* struct Inflights of progress.rs: the window of appends a leader has     *)
(* sent to a follower and not seen acknowledged, in a ring over a vector   *)
(* that grows to its capacity and is then overwritten in place.            *)
(*                                                                         *)
(* The vector is indexed from 0 in the code and from 1 here.               *)
(***************************************************************************)
EXTENDS Integers, Sequences

CONSTANTS
  Cap,      \* buffer.capacity(), max_inflight_msgs of the configuration
  Indexes   \* the log indexes that are sent and acknowledged

ASSUME CapAssumption == Cap \in Nat \ {0}       \* Config::validate
ASSUME IndexesAssumption == Indexes \subseteq Nat

VARIABLES start, count, buffer

vars == <<start, count, buffer>>

\* An offset past the capacity continues at the beginning of the vector.
\* Mutant: the last slot is skipped.
WrapEarly(i) == IF i >= Cap - 1 /\ i > 0 THEN i - Cap + 1 ELSE i
Wrap(i) == IF i >= Cap THEN i - Cap ELSE i

\* Mutant: one more than the capacity.
FullLate == count = Cap + 1
Full == count = Cap

\* The slot of the k-th index of the window (k from 0), and that index.
Slot(k) == Wrap(start + k)
At(k) == buffer[Slot(k) + 1]

Init ==
  /\ start = 0
  /\ count = 0
  /\ buffer = <<>>

Add(i) ==
  /\ ~Full      \* add() panics when full; send_append() returns before that
  /\ Slot(count) <= Len(buffer)
  /\ buffer' = IF Slot(count) = Len(buffer)
                 THEN Append(buffer, i)
                 ELSE [buffer EXCEPT ![Slot(count) + 1] = i]
  /\ count' = count + 1
  /\ start' = start

\* The loop of free_to() passes n indexes.
Passes(to, n) == /\ \A k \in 0..n - 1 : At(k) <= to
                 /\ n < count => to < At(n)

FreeTo(to) == \E n \in 0..count :
  /\ Passes(to, n)
  /\ count' = count - n
  /\ start' = Slot(n)
  /\ buffer' = buffer

FreeFirstOne == start < Len(buffer) /\ FreeTo(At(0))

\* Mutant: the vector is cleared, and the ring is not started again.
ResetClearing == count' = 0 /\ start' = start /\ buffer' = <<>>
Reset ==
  /\ count' = 0
  /\ start' = 0
  /\ buffer' = buffer

Next ==
  \/ \E i \in Indexes : Add(i) \/ FreeTo(i)
  \/ FreeFirstOne
  \/ Reset

Spec == Init /\ [][Next]_vars

-----------------------------------------------------------------------------
\* The state is well typed and the ring stays within the capacity, so the
\* vector is never reallocated (buffer.push, progress.rs:431).
TypeOK ==
  /\ start \in 0..Cap - 1
  /\ count \in 0..Cap
  /\ buffer \in Seq(Indexes)
  /\ Len(buffer) <= Cap

\* No slot of the window is one that was never written, and the next one to
\* write exists or is the next to push: neither the assertion of add()
\* (progress.rs:428) nor an index into the vector (433, 440, 447) panics.
SlotsWritten ==
  /\ \A k \in 0..count - 1 : Slot(k) < Len(buffer)
  /\ ~Full => Slot(count) <= Len(buffer)

\* What the induction needs: a window that has wrapped, or is about to, does
\* so in a vector that has grown to its capacity.
IInv ==
  /\ TypeOK
  /\ Len(buffer) = Cap \/ start + count <= Len(buffer)

\* The window, oldest index first.
Queue == [j \in 1..count |-> At(j - 1)]

Fifo == INSTANCE BoundedFifo WITH queue <- Queue

\* The ring implements the queue: whatever the order of calls and the place
\* of the window in the vector, an append is acknowledged in the order sent
\* and none is lost or repeated (progress.rs:419-471).
ImplementsFifo == Fifo!Spec
=============================================================================
