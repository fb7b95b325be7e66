--------------------------- MODULE InflightsProofs ---------------------------
(***************************************************************************)
(* Proofs about Inflights, for every capacity and every set of indexes.    *)
(***************************************************************************)
EXTENDS Inflights, SequenceTheorems, TLAPS

USE CapAssumption, IndexesAssumption

\* A window that is not full continues in a written slot or at the end of the
\* vector, and in no slot of its own.
LEMMA NextSlot ==
  ASSUME IInv, ~Full
  PROVE  /\ Slot(count) \in 0..Len(buffer)
         /\ Slot(count) = Len(buffer) => Len(buffer) < Cap /\ start + count = Len(buffer)
         /\ \A k \in 0..count - 1 : Slot(k) # Slot(count) /\ Slot(k) \in 0..Len(buffer) - 1
<1>1. /\ start \in 0..Cap - 1 /\ count \in 0..Cap - 1 /\ Len(buffer) \in Nat /\ Len(buffer) <= Cap
      /\ Len(buffer) = Cap \/ start + count <= Len(buffer)
  BY DEF IInv, TypeOK, Full
<1> QED BY <1>1 DEF Slot, Wrap

LEMMA AddInv ==
  ASSUME IInv, NEW i \in Indexes, Add(i)
  PROVE  IInv'
<1>1. /\ Slot(count) \in 0..Len(buffer)
      /\ Slot(count) = Len(buffer) => Len(buffer) < Cap /\ start + count = Len(buffer)
  BY NextSlot DEF Add
<1>2. start \in 0..Cap - 1 /\ count \in 0..Cap - 1 /\ buffer \in Seq(Indexes) /\ Len(buffer) \in Nat
  BY DEF IInv, TypeOK, Add, Full
<1>3. CASE Slot(count) = Len(buffer)
  <2>1. buffer' = Append(buffer, i)
    BY <1>3 DEF Add
  <2>2. buffer' \in Seq(Indexes) /\ Len(buffer') = Len(buffer) + 1
    BY <1>2, <2>1
  <2> QED BY <1>1, <1>2, <1>3, <2>2 DEF IInv, TypeOK, Add
<1>4. CASE Slot(count) # Len(buffer)
  <2>1. buffer' = [buffer EXCEPT ![Slot(count) + 1] = i]
    BY <1>4 DEF Add
  <2>2. Slot(count) + 1 \in 1..Len(buffer)
    BY <1>1, <1>2, <1>4
  <2>3. buffer' \in Seq(Indexes) /\ Len(buffer') = Len(buffer)
    BY <1>2, <2>1, <2>2
  <2>4. Len(buffer) = Cap \/ start + count < Len(buffer)
    BY <1>1, <1>2, <1>4 DEF IInv, TypeOK, Slot, Wrap
  <2> QED BY <1>2, <2>3, <2>4 DEF IInv, TypeOK, Add
<1> QED BY <1>3, <1>4

LEMMA FreeToInv ==
  ASSUME IInv, NEW to, FreeTo(to)
  PROVE  IInv'
<1>1. PICK n \in 0..count : count' = count - n /\ start' = Slot(n) /\ buffer' = buffer
  BY DEF FreeTo
<1>2. /\ start \in 0..Cap - 1 /\ count \in 0..Cap /\ buffer \in Seq(Indexes) /\ Len(buffer) \in Nat
      /\ Len(buffer) <= Cap /\ (Len(buffer) = Cap \/ start + count <= Len(buffer))
  BY DEF IInv, TypeOK
<1>3. Slot(n) \in 0..Cap - 1
  BY <1>2 DEF Slot, Wrap
<1>4. Len(buffer) = Cap \/ Slot(n) + (count - n) <= Len(buffer)
  BY <1>2 DEF Slot, Wrap
<1> QED BY <1>1, <1>2, <1>3, <1>4 DEF IInv, TypeOK

LEMMA NextInv ==
  ASSUME IInv, [Next]_vars
  PROVE  IInv'
<1>1. ASSUME NEW i \in Indexes, Add(i)
      PROVE  IInv'
  BY <1>1, AddInv
<1>2. ASSUME NEW i \in Indexes, FreeTo(i)
      PROVE  IInv'
  BY <1>2, FreeToInv
<1>3. CASE FreeFirstOne
  BY <1>3, FreeToInv DEF FreeFirstOne
<1>4. CASE Reset
  <2>1. /\ buffer \in Seq(Indexes) /\ Len(buffer) \in Nat /\ Len(buffer) <= Cap
    BY DEF IInv, TypeOK
  <2> QED BY <1>4, <2>1 DEF Reset, IInv, TypeOK
<1>5. CASE UNCHANGED vars
  BY <1>5 DEF vars, IInv, TypeOK
<1> QED BY <1>1, <1>2, <1>3, <1>4, <1>5 DEF Next

\* The invariant holds in every behaviour.
THEOREM Invariance == Spec => []IInv
<1>1. Init => IInv
  BY DEF Init, IInv, TypeOK
<1>2. IInv /\ [Next]_vars => IInv'
  BY NextInv
<1> QED BY <1>1, <1>2, PTL DEF Spec

\* The ring stays within its capacity, for every capacity.
THEOREM TypeCorrect == Spec => []TypeOK
<1>1. IInv => TypeOK
  BY DEF IInv
<1> QED BY <1>1, Invariance, PTL

\* No slot of the window is unwritten, so no index into the vector and no
\* assertion of add() panics, for every capacity.
THEOREM NeverOutOfBounds == Spec => []SlotsWritten
<1>1. IInv => SlotsWritten
  <2> SUFFICES ASSUME IInv PROVE SlotsWritten
    OBVIOUS
  <2>1. /\ start \in 0..Cap - 1 /\ count \in 0..Cap /\ Len(buffer) \in Nat /\ Len(buffer) <= Cap
        /\ Len(buffer) = Cap \/ start + count <= Len(buffer)
    BY DEF IInv, TypeOK
  <2> QED BY <2>1 DEF SlotsWritten, Slot, Wrap, Full
<1> QED BY <1>1, Invariance, PTL

-----------------------------------------------------------------------------
\* The window is a sequence of indexes of length count.
LEMMA QueueFacts ==
  ASSUME IInv
  PROVE  /\ Queue \in Seq(Indexes) /\ Len(Queue) = count
         /\ \A j \in 1..count : Queue[j] = At(j - 1)
<1>1. /\ start \in 0..Cap - 1 /\ count \in 0..Cap /\ buffer \in Seq(Indexes) /\ Len(buffer) \in Nat /\ Len(buffer) <= Cap
      /\ Len(buffer) = Cap \/ start + count <= Len(buffer)
  BY DEF IInv, TypeOK
<1>2. ASSUME NEW j \in 1..count PROVE At(j - 1) \in Indexes
  <2>1. Slot(j - 1) + 1 \in 1..Len(buffer)
    BY <1>1 DEF Slot, Wrap
  <2> QED BY <1>1, <2>1 DEF At
<1>3. Queue \in Seq(Indexes)
  BY <1>1, <1>2 DEF Queue
<1> QED BY <1>1, <1>3 DEF Queue

LEMMA AppendIsFunction ==
  ASSUME NEW S, NEW q \in Seq(S), NEW e \in S
  PROVE  Append(q, e) = [j \in 1..Len(q) + 1 |-> IF j = Len(q) + 1 THEN e ELSE q[j]]
<1>1. /\ Append(q, e) \in Seq(S) /\ Len(Append(q, e)) = Len(q) + 1
      /\ \A j \in 1..Len(q) : Append(q, e)[j] = q[j]
      /\ Append(q, e)[Len(q) + 1] = e
  BY AppendProperties
<1>2. Append(q, e) = [j \in 1..Len(q) + 1 |-> Append(q, e)[j]]
  <2>1. Append(q, e) \in [1..Len(q) + 1 -> S]
    BY <1>1, LenProperties
  <2> QED BY <2>1
<1> QED BY <1>1, <1>2

LEMMA AddRefines ==
  ASSUME IInv, NEW i \in Indexes, Add(i)
  PROVE  Fifo!Add(i)
<1>1. PICK c \in 0..Cap - 1 : count = c
  BY DEF IInv, TypeOK, Add, Full
<1>2. count' = c + 1 /\ start' = start /\ buffer \in Seq(Indexes) /\ Len(buffer) \in Nat
  BY <1>1 DEF Add, IInv, TypeOK
<1>3. Queue \in Seq(Indexes) /\ Len(Queue) = c /\ \A j \in 1..c : Queue[j] = At(j - 1)
  BY <1>1, QueueFacts
<1>4. /\ Slot(c) \in 0..Len(buffer)
      /\ \A k \in 0..c - 1 : Slot(k) # Slot(c) /\ Slot(k) \in 0..Len(buffer) - 1
  BY <1>1, NextSlot DEF Add
<1>5. \A k \in 0..c : Slot(k)' = Slot(k)
  BY <1>2 DEF Slot, Wrap
<1>6. /\ buffer'[Slot(c) + 1] = i
      /\ \A s \in 0..Len(buffer) - 1 : s # Slot(c) => buffer'[s + 1] = buffer[s + 1]
  <2>1. CASE Slot(c) = Len(buffer)
    BY <1>1, <1>2, <2>1 DEF Add
  <2>2. CASE Slot(c) # Len(buffer)
    <3>1. Slot(c) + 1 \in 1..Len(buffer)
      BY <1>2, <1>4, <2>2
    <3>2. buffer' = [buffer EXCEPT ![Slot(c) + 1] = i]
      BY <1>1, <2>2 DEF Add
    <3> QED BY <1>2, <1>4, <3>1, <3>2
  <2> QED BY <2>1, <2>2
<1>7. At(c)' = i
  BY <1>5, <1>6 DEF At
<1>8. ASSUME NEW k \in 0..c - 1 PROVE At(k)' = At(k)
  <2>1. Slot(k)' = Slot(k) /\ Slot(k) # Slot(c) /\ Slot(k) \in 0..Len(buffer) - 1
    BY <1>4, <1>5
  <2> QED BY <1>6, <2>1 DEF At
<1>9. Queue' = Append(Queue, i)
  <2>1. Queue' = [j \in 1..c + 1 |-> At(j - 1)']
    BY <1>2 DEF Queue
  <2>2. Append(Queue, i) = [j \in 1..c + 1 |-> IF j = c + 1 THEN i ELSE Queue[j]]
    <3>1. \A q \in Seq(Indexes) :
            Append(q, i) = [j \in 1..Len(q) + 1 |-> IF j = Len(q) + 1 THEN i ELSE q[j]]
      BY AppendIsFunction
    <3>2. PICK q \in Seq(Indexes) : q = Queue
      BY <1>3
    <3>3. Append(q, i) = [j \in 1..Len(q) + 1 |-> IF j = Len(q) + 1 THEN i ELSE q[j]]
      BY <3>1
    <3>4. Len(q) = c
      BY <1>3, <3>2
    <3>5. Append(q, i) = [j \in 1..c + 1 |-> IF j = c + 1 THEN i ELSE q[j]]
      BY <3>3, <3>4
    <3> QED BY <3>2, <3>5
  <2>3. ASSUME NEW j \in 1..c + 1
        PROVE  At(j - 1)' = IF j = c + 1 THEN i ELSE Queue[j]
    <3>1. CASE j = c + 1
      BY <1>7, <3>1
    <3>2. CASE j \in 1..c
      <4>1. j - 1 \in 0..c - 1
        BY <3>2
      <4> QED BY <1>3, <1>8, <3>2, <4>1
    <3> QED BY <3>1, <3>2
  <2> QED BY <2>1, <2>2, <2>3
<1> QED BY <1>1, <1>3, <1>9 DEF Fifo!Add

LEMMA FreeToRefines ==
  ASSUME IInv, NEW to, FreeTo(to)
  PROVE  Fifo!FreeTo(to)
<1>1. PICK n \in 0..count : Passes(to, n) /\ count' = count - n /\ start' = Slot(n) /\ buffer' = buffer
  BY DEF FreeTo
<1>2. start \in 0..Cap - 1 /\ count \in 0..Cap
  BY DEF IInv, TypeOK
<1>3. Len(Queue) = count /\ \A j \in 1..count : Queue[j] = At(j - 1)
  BY QueueFacts
<1>4. Fifo!Acknowledges(to, n)
  BY <1>1, <1>2, <1>3 DEF Fifo!Acknowledges, Passes
<1>5. \A j \in 1..count - n : At(j - 1)' = At(n + j - 1)
  BY <1>1, <1>2 DEF At, Slot, Wrap
<1>6. Queue' = [j \in 1..count - n |-> Queue[n + j]]
  BY <1>1, <1>2, <1>3, <1>5 DEF Queue
<1> QED BY <1>1, <1>3, <1>4, <1>6 DEF Fifo!FreeTo

\* The ring implements the queue, for every capacity: no append in flight is
\* lost, repeated or acknowledged out of order, wherever the window lies.
THEOREM RingIsFifo == Spec => ImplementsFifo
<1>1. Init => Fifo!Init
  BY DEF Init, Fifo!Init, Queue
<1>2. ASSUME IInv, [Next]_vars
      PROVE  [Fifo!Next]_Queue
  <2>1. ASSUME NEW i \in Indexes, Add(i)
        PROVE  Fifo!Next
    BY <1>2, <2>1, AddRefines DEF Fifo!Next
  <2>2. ASSUME NEW i \in Indexes, FreeTo(i)
        PROVE  Fifo!Next
    BY <1>2, <2>2, FreeToRefines DEF Fifo!Next
  <2>3. CASE FreeFirstOne
    <3>1. Fifo!FreeTo(At(0))
      BY <1>2, <2>3, FreeToRefines DEF FreeFirstOne
    <3>2. CASE count = 0
      <4>1. Queue' = Queue
        BY <1>2, <2>3, <3>2 DEF FreeFirstOne, FreeTo, Queue, IInv, TypeOK
      <4> QED BY <4>1
    <3>3. CASE count # 0
      <4>1. count \in 1..Cap
        BY <1>2, <3>3 DEF IInv, TypeOK
      <4>2. At(0) \in Indexes
        BY <1>2, <4>1, QueueFacts
      <4> QED BY <3>1, <4>2 DEF Fifo!Next
    <3> QED BY <3>2, <3>3
  <2>4. CASE Reset
    BY <2>4 DEF Reset, Fifo!Next, Fifo!Reset, Queue
  <2>5. CASE UNCHANGED vars
    BY <2>5 DEF vars, Queue, At, Slot, Wrap
  <2> QED BY <1>2, <2>1, <2>2, <2>3, <2>4, <2>5 DEF Next
<1> QED BY <1>1, <1>2, Invariance, PTL DEF Spec, ImplementsFifo, Fifo!Spec
=============================================================================
