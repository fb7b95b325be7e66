--------------------------- MODULE ReadOnlyProofs ---------------------------
(***************************************************************************)
(* Proofs about ReadOnly, for all contexts, voters and commit indexes.     *)
(***************************************************************************)
EXTENDS ReadOnly, FiniteSetTheorems, SequenceTheorems, TLAPS

Reads == [ctx : Ctxs, index : 0..MaxIndex]

LEMMA FunctionIsSeq ==
  ASSUME NEW S, NEW n \in Nat, NEW f \in [1..n -> S]
  PROVE  f \in Seq(S) /\ Len(f) = n
OBVIOUS

\* What InOrder says of each position.
Joined(a, d, q) ==
  /\ Len(a) = Len(d) + Len(q)
  /\ \A k \in 1..Len(d) : a[k] = d[k].ctx
  /\ \A k \in 1..Len(q) : a[Len(d) + k] = q[k]

LEMMA InOrderByPosition ==
  ASSUME NEW a \in Seq(Ctxs), NEW d \in Seq(Reads), NEW q \in Seq(Ctxs)
  PROVE  (a = [k \in DOMAIN d |-> d[k].ctx] \o q) <=> Joined(a, d, q)
<1>1. /\ Len(a) \in Nat /\ Len(d) \in Nat /\ Len(q) \in Nat
      /\ DOMAIN d = 1..Len(d) /\ \A k \in 1..Len(d) : d[k] \in Reads
  BY LenProperties, ElementOfSeq
<1> DEFINE c == [k \in DOMAIN d |-> d[k].ctx]
<1>2. /\ c \in Seq(Ctxs) /\ Len(c) = Len(d)
      /\ \A k \in 1..Len(d) : c[k] = d[k].ctx
  <2>1. \A k \in 1..Len(d) : d[k].ctx \in Ctxs
    BY <1>1 DEF Reads
  <2>2. c \in [1..Len(d) -> Ctxs]
    BY <1>1, <2>1
  <2> QED BY <1>1, <2>2
<1> HIDE DEF c
<1>3. /\ c \o q \in Seq(Ctxs) /\ Len(c \o q) = Len(d) + Len(q)
      /\ \A k \in 1..Len(d) : (c \o q)[k] = d[k].ctx
      /\ \A k \in 1..Len(q) : (c \o q)[Len(d) + k] = q[k]
  <2>1. /\ c \o q \in Seq(Ctxs) /\ Len(c \o q) = Len(c) + Len(q)
        /\ \A k \in 1..Len(c) + Len(q) :
             (c \o q)[k] = IF k <= Len(c) THEN c[k] ELSE q[k - Len(c)]
    BY <1>2, ConcatProperties
  <2>2. \A k \in 1..Len(q) : (c \o q)[Len(d) + k] = q[k]
    <3> TAKE k \in 1..Len(q)
    <3>1. /\ Len(d) + k \in 1..Len(c) + Len(q) /\ ~(Len(d) + k <= Len(c))
          /\ (Len(d) + k) - Len(c) = k
      BY <1>1, <1>2
    <3> QED BY <2>1, <3>1
  <2> QED BY <1>1, <1>2, <2>1, <2>2
<1>4. ASSUME Joined(a, d, q)
      PROVE  a = c \o q
  <2>1. ASSUME NEW k \in 1..Len(a)
        PROVE  a[k] = (c \o q)[k]
    <3>1. CASE k \in 1..Len(d)
      BY <1>3, <1>4, <3>1 DEF Joined
    <3>2. CASE k \notin 1..Len(d)
      <4>1. PICK m \in 1..Len(q) : k = Len(d) + m
        <5>1. k - Len(d) \in 1..Len(q) /\ k = Len(d) + (k - Len(d))
          BY <1>1, <1>4, <3>2 DEF Joined
        <5> QED BY <5>1
      <4> QED BY <1>3, <1>4, <4>1 DEF Joined
    <3> QED BY <3>1, <3>2
  <2> QED BY <1>3, <1>4, <2>1, SeqEqual DEF Joined
<1>5. ASSUME a = c \o q
      PROVE  Joined(a, d, q)
  BY <1>3, <1>5 DEF Joined
<1> QED BY <1>4, <1>5 DEF c

\* The invariant by position: the first reads that arrived are answered, the
\* others wait in the queue and in the map.
LEMMA Positions ==
  ASSUME IInv
  PROVE  /\ Len(queue) \in Nat /\ Len(arrived) \in Nat /\ Len(answered) \in Nat
         /\ DOMAIN queue = 1..Len(queue) /\ DOMAIN arrived = 1..Len(arrived)
         /\ DOMAIN answered = 1..Len(answered)
         /\ \A k \in 1..Len(queue) : queue[k] \in Ctxs
         /\ \A k \in 1..Len(arrived) : arrived[k] \in Ctxs
         /\ \A k \in 1..Len(answered) : answered[k] \in Reads
         /\ Joined(arrived, answered, queue)
         /\ \A j, k \in 1..Len(arrived) : arrived[j] = arrived[k] => j = k
         /\ DOMAIN pending = {queue[k] : k \in 1..Len(queue)}
         /\ \A k \in 1..Len(arrived) : k > Len(answered) => arrived[k] \in DOMAIN pending
<1>1. queue \in Seq(Ctxs) /\ arrived \in Seq(Ctxs) /\ answered \in Seq(Reads)
  BY DEF IInv, TypeOK, Reads
<1>2. /\ Len(queue) \in Nat /\ Len(arrived) \in Nat /\ Len(answered) \in Nat
      /\ DOMAIN queue = 1..Len(queue) /\ DOMAIN arrived = 1..Len(arrived)
      /\ DOMAIN answered = 1..Len(answered)
  BY <1>1, LenProperties
<1>3. /\ \A k \in 1..Len(queue) : queue[k] \in Ctxs
      /\ \A k \in 1..Len(arrived) : arrived[k] \in Ctxs
      /\ \A k \in 1..Len(answered) : answered[k] \in Reads
  BY <1>1, ElementOfSeq
<1>4. Joined(arrived, answered, queue)
  BY <1>1, InOrderByPosition DEF IInv, InOrder
<1>5. \A j, k \in 1..Len(arrived) : arrived[j] = arrived[k] => j = k
  BY <1>2 DEF IInv, ArrivedOnce, IsInjective
<1>6. DOMAIN pending = {queue[k] : k \in 1..Len(queue)}
  BY <1>2 DEF IInv, QueueIsPending, ToSet
<1>7. ASSUME NEW k \in 1..Len(arrived), k > Len(answered)
      PROVE  arrived[k] \in DOMAIN pending
  <2>1. PICK m \in 1..Len(queue) : k = Len(answered) + m
    <3>1. k - Len(answered) \in 1..Len(queue) /\ k = Len(answered) + (k - Len(answered))
      BY <1>2, <1>4, <1>7 DEF Joined
    <3> QED BY <3>1
  <2> QED BY <1>4, <1>6, <2>1 DEF Joined
<1> QED BY <1>2, <1>3, <1>4, <1>5, <1>6, <1>7

\* Reads that wait once, and are those of the map, wait in the queue once.
LEMMA QueueOnce ==
  ASSUME NEW a \in Seq(Ctxs), NEW d \in Seq(Reads), NEW q \in Seq(Ctxs), Joined(a, d, q),
         IsInjective(a)
  PROVE  IsInjective(q)
<1>1. /\ Len(a) \in Nat /\ Len(d) \in Nat /\ Len(q) \in Nat
      /\ DOMAIN q = 1..Len(q) /\ DOMAIN a = 1..Len(a)
  BY LenProperties
<1>2. ASSUME NEW j \in 1..Len(q), NEW k \in 1..Len(q), q[j] = q[k]
      PROVE  j = k
  <2>1. Len(d) + j \in 1..Len(a) /\ Len(d) + k \in 1..Len(a)
    BY <1>1 DEF Joined
  <2>2. a[Len(d) + j] = a[Len(d) + k]
    BY <1>2 DEF Joined
  <2> QED BY <1>1, <2>1, <2>2 DEF IsInjective
<1> QED BY <1>1, <1>2 DEF IsInjective

\* The index that read k may return: IndexesGrow by position.
IndexAt(k) == IF k <= Len(answered) THEN answered[k].index ELSE pending[arrived[k]].index

LEMMA GrowByPosition ==
  IndexesGrow <=> \A j, k \in DOMAIN arrived :
                    j <= k => IndexAt(j) <= IndexAt(k) /\ IndexAt(k) <= committed
BY DEF IndexesGrow, IndexAt

LEMMA IndexTypes ==
  ASSUME IInv
  PROVE  \A k \in 1..Len(arrived) : IndexAt(k) \in Nat /\ IndexAt(k) <= committed
<1> TAKE k \in 1..Len(arrived)
<1>1. IndexAt(k) <= committed
  <2>1. k \in DOMAIN arrived /\ k <= k
    BY Positions
  <2>2. IndexesGrow
    BY DEF IInv
  <2> QED BY <2>1, <2>2, GrowByPosition, Zenon
<1>2. CASE k <= Len(answered)
  <2>1. answered[k] \in Reads
    BY <1>2, Positions
  <2>2. IndexAt(k) = answered[k].index
    BY <1>2 DEF IndexAt
  <2> QED BY <1>1, <2>1, <2>2, BoundAssumption DEF Reads
<1>3. CASE ~(k <= Len(answered))
  <2>1. arrived[k] \in DOMAIN pending
    BY <1>3, Positions
  <2>2. pending[arrived[k]].index \in 0..MaxIndex
    BY <2>1 DEF IInv, TypeOK
  <2>3. IndexAt(k) = pending[arrived[k]].index
    BY <1>3 DEF IndexAt
  <2> QED BY <1>1, <2>2, <2>3, BoundAssumption
<1> QED BY <1>2, <1>3

\* The voters that confirm read k: they answered to its context or a later one.
Behind(k) == {n \in Voters : \E j \in DOMAIN arrived : j >= k /\ <<arrived[j], n>> \in answers}

LEMMA MoreAnswers ==
  ASSUME NEW S \in SUBSET Voters, NEW T \in SUBSET Voters, S \subseteq T,
         HasQuorum({Self} \cup S)
  PROVE  HasQuorum({Self} \cup T)
<1>1. {Self} \cup T \subseteq Voters /\ {Self} \cup S \in SUBSET ({Self} \cup T)
  BY VotersAssumption
<1>2. IsFiniteSet({Self} \cup T)
  BY <1>1, VotersAssumption, FS_Subset
<1>3. IsFiniteSet({Self} \cup S) /\ Cardinality({Self} \cup S) <= Cardinality({Self} \cup T)
  BY <1>1, <1>2, FS_Subset
<1>4. /\ Cardinality({Self} \cup S) \in Nat /\ Cardinality({Self} \cup T) \in Nat
      /\ Cardinality(Voters) \in Nat
  BY <1>2, <1>3, VotersAssumption, FS_CardinalityType
<1>5. Majority(Cardinality(Voters)) \in Nat
  BY <1>4 DEF Majority
<1> QED BY <1>3, <1>4, <1>5 DEF HasQuorum

LEMMA InitInv == ASSUME Init PROVE IInv
<1>1. /\ queue = <<>> /\ arrived = <<>> /\ answered = <<>> /\ pending = [ctx \in {} |-> 0]
      /\ sent = {} /\ answers = {} /\ committed \in 0..MaxIndex
  BY DEF Init
<1>2. /\ DOMAIN pending = {} /\ DOMAIN queue = {} /\ DOMAIN arrived = {} /\ DOMAIN answered = {}
  BY <1>1
<1>3. TypeOK
  BY <1>1, <1>2 DEF TypeOK
<1>4. QueueIsPending /\ ArrivedOnce /\ IndexesGrow /\ AcksAreAnswers /\ AnsweredIsConfirmed
  BY <1>2 DEF QueueIsPending, ArrivedOnce, IndexesGrow, AcksAreAnswers, AnsweredIsConfirmed,
     ToSet, IsInjective
<1>5. Joined(arrived, answered, queue)
  BY <1>1 DEF Joined
<1>6. InOrder
  BY <1>3, <1>5, InOrderByPosition DEF TypeOK, InOrder, Reads
<1> QED BY <1>3, <1>4, <1>6 DEF IInv

\* What is read and answered stays, one more read arrives behind.
LEMMA AddRequestInv ==
  ASSUME IInv, NEW ctx \in Ctxs, AddRequest(ctx)
  PROVE  IInv'
<1> USE Positions
<1>1. /\ ctx \notin DOMAIN pending /\ \A k \in 1..Len(answered) : answered[k].ctx # ctx
      /\ pending' = [c \in DOMAIN pending \cup {ctx} |->
                       IF c = ctx THEN [index |-> committed, acks |-> {}] ELSE pending[c]]
      /\ queue' = Append(queue, ctx) /\ arrived' = Append(arrived, ctx)
      /\ committed' = committed /\ sent' = sent /\ answered' = answered /\ answers' = answers
  BY DEF AddRequest, Queued, IsNew, NotAnswered
<1>2. queue \in Seq(Ctxs) /\ arrived \in Seq(Ctxs) /\ answered \in Seq(Reads)
  BY DEF IInv, TypeOK, Reads
<1>3. /\ queue' \in Seq(Ctxs) /\ Len(queue') = Len(queue) + 1
      /\ \A k \in 1..Len(queue) : queue'[k] = queue[k]
      /\ queue'[Len(queue) + 1] = ctx
      /\ arrived' \in Seq(Ctxs) /\ Len(arrived') = Len(arrived) + 1
      /\ \A k \in 1..Len(arrived) : arrived'[k] = arrived[k]
      /\ arrived'[Len(arrived) + 1] = ctx
      /\ DOMAIN queue' = 1..Len(queue) + 1 /\ DOMAIN arrived' = 1..Len(arrived) + 1
  BY <1>1, <1>2, AppendProperties, LenProperties
<1>4. \A k \in 1..Len(arrived) : arrived[k] # ctx
  <2> TAKE k \in 1..Len(arrived)
  <2>1. CASE k > Len(answered)
    BY <1>1, <2>1
  <2>2. CASE ~(k > Len(answered))
    <3>1. k \in 1..Len(answered) /\ arrived[k] = answered[k].ctx
      BY <2>2 DEF Joined
    <3> QED BY <1>1, <3>1
  <2> QED BY <2>1, <2>2
<1>5. TypeOK'
  <2>1. pending' \in [DOMAIN pending' -> [index : 0..MaxIndex, acks : SUBSET Voters]]
    BY <1>1 DEF IInv, TypeOK
  <2> QED BY <1>1, <1>3, <2>1 DEF IInv, TypeOK
<1>6. ArrivedOnce'
  BY <1>3, <1>4 DEF ArrivedOnce, IsInjective
<1>7. Joined(arrived', answered', queue')
  <2>1. /\ Len(arrived') = Len(answered') + Len(queue')
        /\ \A k \in 1..Len(answered') : arrived'[k] = answered'[k].ctx
    BY <1>1, <1>3 DEF Joined
  <2>2. ASSUME NEW k \in 1..Len(queue')
        PROVE  arrived'[Len(answered') + k] = queue'[k]
    <3>1. CASE k = Len(queue) + 1
      BY <1>1, <1>3, <3>1 DEF Joined
    <3>2. CASE k # Len(queue) + 1
      <4>1. k \in 1..Len(queue) /\ Len(answered) + k \in 1..Len(arrived)
        BY <1>3, <3>2 DEF Joined
      <4> QED BY <1>1, <1>3, <4>1 DEF Joined
    <3> QED BY <3>1, <3>2
  <2> QED BY <2>1, <2>2 DEF Joined
<1>8. InOrder'
  <2>1. answered' \in Seq(Reads)
    BY <1>1, <1>2
  <2>2. (arrived' = [k \in DOMAIN answered' |-> answered'[k].ctx] \o queue')
          <=> Joined(arrived', answered', queue')
    BY <1>3, <2>1, InOrderByPosition
  <2> QED BY <1>7, <2>2 DEF InOrder
<1>9. QueueIsPending'
  <2>1. ToSet(queue') = DOMAIN pending'
    <3>1. DOMAIN pending' = DOMAIN pending \cup {ctx}
      BY <1>1
    <3>2. \A k \in 1..Len(queue) + 1 : k \in 1..Len(queue) \/ k = Len(queue) + 1
      OBVIOUS
    <3>3. 1..Len(queue) \subseteq 1..Len(queue) + 1 /\ Len(queue) + 1 \in 1..Len(queue) + 1
      OBVIOUS
    <3>4. /\ ToSet(queue') = {queue'[k] : k \in 1..Len(queue) + 1}
          /\ DOMAIN pending = {queue[k] : k \in 1..Len(queue)}
      BY <1>3 DEF ToSet
    <3>5. ToSet(queue') \subseteq DOMAIN pending \cup {ctx}
      BY <1>3, <3>2, <3>4
    <3>6. DOMAIN pending \cup {ctx} \subseteq ToSet(queue')
      BY <1>3, <3>3, <3>4
    <3> QED BY <3>1, <3>5, <3>6
  <2>2. IsInjective(queue')
    <3>1. answered' \in Seq(Reads)
      BY <1>1, <1>2
    <3>2. IsInjective(arrived')
      BY <1>6 DEF ArrivedOnce
    <3> QED BY <1>3, <1>7, <3>1, <3>2, QueueOnce
  <2> QED BY <2>1, <2>2 DEF QueueIsPending
<1>10. IndexesGrow'
  <2>1. \A k \in 1..Len(arrived) : IndexAt(k)' = IndexAt(k)
    <3> TAKE k \in 1..Len(arrived)
    <3>1. k > Len(answered) => arrived[k] \in DOMAIN pending /\ arrived[k] # ctx
      BY <1>4
    <3> QED BY <1>1, <1>3, <3>1 DEF IndexAt
  <2>2. ASSUME NEW k, k = Len(arrived) + 1
        PROVE  IndexAt(k)' = committed
    <3>1. ~(k <= Len(answered)) /\ arrived'[k] = ctx
      BY <1>3, <2>2 DEF Joined
    <3> QED BY <1>1, <3>1 DEF IndexAt
  <2>3. \A k \in 1..Len(arrived) : IndexAt(k) \in Nat /\ IndexAt(k) <= committed
    BY IndexTypes
  <2>4. \A j, k \in 1..Len(arrived) : j <= k => IndexAt(j) <= IndexAt(k)
    BY GrowByPosition DEF IInv
  <2>5. committed \in Nat
    BY BoundAssumption DEF IInv, TypeOK
  <2>6. ASSUME NEW j \in DOMAIN arrived', NEW k \in DOMAIN arrived', j <= k
        PROVE  IndexAt(j)' <= IndexAt(k)' /\ IndexAt(k)' <= committed'
    <3>1. CASE k = Len(arrived) + 1
      BY <1>1, <1>3, <2>1, <2>2, <2>3, <2>5, <3>1
    <3>2. CASE k # Len(arrived) + 1
      <4>1. j \in 1..Len(arrived) /\ k \in 1..Len(arrived)
        BY <1>3, <2>6, <3>2
      <4> QED BY <1>1, <2>1, <2>3, <2>4, <2>6, <4>1
    <3> QED BY <3>1, <3>2
  <2> QED BY <2>6 DEF IndexesGrow, IndexAt
<1>11. AcksAreAnswers'
  BY <1>1 DEF IInv, AcksAreAnswers
<1>12. AnsweredIsConfirmed'
  <2> SUFFICES ASSUME NEW k \in DOMAIN answered
               PROVE  HasQuorum({Self} \cup Behind(k)')
    BY <1>1 DEF AnsweredIsConfirmed, Behind
  <2>1. Behind(k) \subseteq Behind(k)'
    <3> SUFFICES ASSUME NEW n \in Behind(k)
                 PROVE  n \in Behind(k)'
      OBVIOUS
    <3>1. PICK j \in 1..Len(arrived) : j >= k /\ <<arrived[j], n>> \in answers
      BY DEF Behind
    <3>2. j \in DOMAIN arrived' /\ <<arrived'[j], n>> \in answers'
      BY <1>1, <1>3, <3>1
    <3> QED BY <3>1, <3>2 DEF Behind
  <2>2. HasQuorum({Self} \cup Behind(k))
    BY DEF IInv, AnsweredIsConfirmed, Behind
  <2>3. Behind(k) \in SUBSET Voters /\ Behind(k)' \in SUBSET Voters
    BY DEF Behind
  <2> QED BY <2>1, <2>2, <2>3, MoreAnswers
<1> QED BY <1>5, <1>6, <1>8, <1>9, <1>10, <1>11, <1>12 DEF IInv

\* A late answer counts for the reads before it; the order does not change.
LEMMA RecvAckInv ==
  ASSUME IInv, NEW ctx \in sent, NEW from \in Voters \ {Self}, RecvAck(ctx, from)
  PROVE  IInv'
<1>1. /\ pending' = [c \in DOMAIN pending |->
                       IF c = ctx THEN [pending[c] EXCEPT !.acks = @ \cup {from}] ELSE pending[c]]
      /\ answers' = answers \cup {<<ctx, from>>}
      /\ queue' = queue /\ committed' = committed /\ sent' = sent /\ arrived' = arrived
      /\ answered' = answered
  BY DEF RecvAck
<1>2. ASSUME NEW c \in DOMAIN pending
      PROVE  /\ pending[c] \in [index : 0..MaxIndex, acks : SUBSET Voters]
             /\ pending'[c] \in [index : 0..MaxIndex, acks : SUBSET Voters]
             /\ pending'[c].index = pending[c].index
             /\ pending'[c].acks = IF c = ctx THEN pending[c].acks \cup {from} ELSE pending[c].acks
  <2>1. pending[c] \in [index : 0..MaxIndex, acks : SUBSET Voters]
    BY DEF IInv, TypeOK
  <2> QED BY <1>1, <2>1
<1>3. DOMAIN pending' = DOMAIN pending
  BY <1>1
<1>4. TypeOK'
  <2>1. ctx \in Ctxs
    BY DEF IInv, TypeOK
  <2>2. pending' \in [DOMAIN pending' -> [index : 0..MaxIndex, acks : SUBSET Voters]]
    BY <1>1, <1>2, <1>3
  <2> QED BY <1>1, <1>3, <2>1, <2>2 DEF IInv, TypeOK
<1>5. QueueIsPending' /\ InOrder' /\ ArrivedOnce'
  BY <1>1, <1>3 DEF IInv, QueueIsPending, InOrder, ArrivedOnce
<1>6. IndexesGrow'
  <2>1. \A k \in DOMAIN arrived : IndexAt(k)' = IndexAt(k)
    BY <1>1, <1>2, Positions DEF IndexAt
  <2> QED BY <1>1, <2>1, GrowByPosition DEF IInv, IndexesGrow, IndexAt
<1>7. AcksAreAnswers'
  <2> SUFFICES ASSUME NEW c \in DOMAIN pending, NEW n \in pending'[c].acks
               PROVE  <<c, n>> \in answers'
    BY <1>3 DEF AcksAreAnswers
  <2>1. n \in pending[c].acks \/ (c = ctx /\ n = from)
    BY <1>2
  <2>2. \A m \in pending[c].acks : <<c, m>> \in answers
    BY DEF IInv, AcksAreAnswers
  <2> QED BY <1>1, <2>1, <2>2
<1>8. AnsweredIsConfirmed'
  <2> SUFFICES ASSUME NEW k \in DOMAIN answered
               PROVE  HasQuorum({Self} \cup Behind(k)')
    BY <1>1 DEF AnsweredIsConfirmed, Behind
  <2>1. Behind(k) \subseteq Behind(k)'
    BY <1>1 DEF Behind
  <2>2. HasQuorum({Self} \cup Behind(k))
    BY DEF IInv, AnsweredIsConfirmed, Behind
  <2>3. Behind(k) \in SUBSET Voters /\ Behind(k)' \in SUBSET Voters
    BY DEF Behind
  <2> QED BY <2>1, <2>2, <2>3, MoreAnswers
<1> QED BY <1>4, <1>5, <1>6, <1>7, <1>8 DEF IInv

LEMMA HeartbeatInv == ASSUME IInv, Heartbeat PROVE IInv'
<1>1. /\ queue' = queue /\ pending' = pending /\ committed' = committed /\ arrived' = arrived
      /\ answered' = answered /\ answers' = answers /\ sent' = sent \cup {Last(queue)}
      /\ queue # <<>>
  BY DEF Heartbeat
<1>2. Last(queue) \in Ctxs
  <2>1. queue \in Seq(Ctxs)
    BY DEF IInv, TypeOK
  <2>2. Len(queue) \in 1..Len(queue)
    BY <1>1, <2>1, EmptySeq
  <2> QED BY <2>1, <2>2, ElementOfSeq DEF Last
<1>3. TypeOK'
  BY <1>1, <1>2 DEF IInv, TypeOK
<1> QED
  BY <1>1, <1>3 DEF IInv, QueueIsPending, InOrder, ArrivedOnce, IndexesGrow, AcksAreAnswers,
     AnsweredIsConfirmed

LEMMA CommitInv == ASSUME IInv, Commit PROVE IInv'
<1>1. /\ queue' = queue /\ pending' = pending /\ sent' = sent /\ arrived' = arrived
      /\ answered' = answered /\ answers' = answers
      /\ committed \in 0..MaxIndex /\ committed' = committed + 1 /\ committed < MaxIndex
  BY DEF Commit, IInv, TypeOK
<1>2. TypeOK'
  BY <1>1, BoundAssumption DEF IInv, TypeOK
<1>3. IndexesGrow'
  <2>1. \A k \in DOMAIN arrived : IndexAt(k)' = IndexAt(k) /\ IndexAt(k) \in Nat
    BY <1>1, Positions, IndexTypes DEF IndexAt
  <2>2. \A j, k \in DOMAIN arrived : j <= k => IndexAt(j) <= IndexAt(k) /\ IndexAt(k) <= committed
    BY GrowByPosition DEF IInv
  <2>3. \A j, k \in DOMAIN arrived' :
          j <= k => IndexAt(j)' <= IndexAt(k)' /\ IndexAt(k)' <= committed'
    BY <1>1, <2>1, <2>2, BoundAssumption
  <2> QED BY <2>3 DEF IndexesGrow, IndexAt
<1> QED
  BY <1>1, <1>2, <1>3 DEF IInv, QueueIsPending, InOrder, ArrivedOnce, AcksAreAnswers,
     AnsweredIsConfirmed

LEMMA ResetInv == ASSUME IInv, Reset PROVE IInv'
<1>1. /\ queue' = <<>> /\ arrived' = <<>> /\ answered' = <<>> /\ pending' = [ctx \in {} |-> 0]
      /\ sent' = {} /\ answers' = {} /\ committed' = committed
  BY DEF Reset
<1>2. /\ DOMAIN pending' = {} /\ DOMAIN queue' = {} /\ DOMAIN arrived' = {}
      /\ DOMAIN answered' = {}
  BY <1>1
<1>3. TypeOK'
  BY <1>1, <1>2 DEF IInv, TypeOK
<1>4. /\ QueueIsPending' /\ ArrivedOnce' /\ IndexesGrow' /\ AcksAreAnswers'
      /\ AnsweredIsConfirmed'
  BY <1>2 DEF QueueIsPending, ArrivedOnce, IndexesGrow, AcksAreAnswers, AnsweredIsConfirmed,
     ToSet, IsInjective
<1>5. InOrder'
  <2>1. Joined(arrived', answered', queue')
    BY <1>1 DEF Joined
  <2>2. (arrived' = [k \in DOMAIN answered' |-> answered'[k].ctx] \o queue')
          <=> Joined(arrived', answered', queue')
    BY <1>3, InOrderByPosition DEF TypeOK, Reads
  <2> QED BY <2>1, <2>2 DEF InOrder
<1> QED BY <1>3, <1>4, <1>5 DEF IInv

\* advance() moves reads from the front of the queue to the end of what is
\* answered; the last of them has a quorum, and it counts for those before it.
LEMMA AdvanceInv ==
  ASSUME IInv, NEW ctx \in Ctxs, Advance(ctx)
  PROVE  IInv'
<1> USE Positions
<1> DEFINE i == Position(ctx)
           more == [k \in 1..i |-> [ctx |-> queue[k], index |-> pending[queue[k]].index]]
           done == {queue[k] : k \in 1..i}
<1>1. /\ ctx \in DOMAIN pending /\ HasQuorum(pending[ctx].acks \cup {Self})
      /\ answered' = answered \o more
      /\ queue' = SubSeq(queue, i + 1, Len(queue))
      /\ pending' = [c \in DOMAIN pending \ done |-> pending[c]]
      /\ committed' = committed /\ sent' = sent /\ arrived' = arrived /\ answers' = answers
  BY DEF Advance, Confirmed
<1>2. i \in 1..Len(queue) /\ queue[i] = ctx
  <2>1. \E k \in DOMAIN queue : queue[k] = ctx
    BY <1>1
  <2> QED BY <2>1 DEF Position
<1>3. queue \in Seq(Ctxs) /\ arrived \in Seq(Ctxs) /\ answered \in Seq(Reads)
  BY DEF IInv, TypeOK, Reads
<1> HIDE DEF i
<1>4. \A j, k \in 1..Len(queue) : queue[j] = queue[k] => j = k
  BY DEF IInv, QueueIsPending, IsInjective
<1>5. \A k \in 1..Len(queue) : arrived[Len(answered) + k] = queue[k]
  BY DEF Joined
<1>6. ASSUME NEW k \in 1..i
      PROVE  more[k] \in Reads /\ more[k].ctx = queue[k] /\ more[k].index = pending[queue[k]].index
  <2>1. k \in 1..Len(queue)
    BY <1>2
  <2>2. queue[k] \in Ctxs /\ queue[k] \in DOMAIN pending
    BY <2>1
  <2>3. pending[queue[k]].index \in 0..MaxIndex
    BY <2>2 DEF IInv, TypeOK
  <2> QED BY <2>2, <2>3 DEF Reads
<1>7. more \in Seq(Reads) /\ Len(more) = i
  <2>1. more \in [1..i -> Reads]
    BY <1>6
  <2>2. i \in Nat
    BY <1>2
  <2> HIDE DEF more
  <2> QED BY <2>1, <2>2, FunctionIsSeq
<1> HIDE DEF more
\* What is answered, and the rest of the queue, by position.
<1>8. /\ answered' \in Seq(Reads) /\ Len(answered') = Len(answered) + i
      /\ \A k \in 1..Len(answered) : answered'[k] = answered[k]
      /\ \A k \in 1..i : answered'[Len(answered) + k] = more[k]
      /\ DOMAIN answered' = 1..Len(answered) + i
  <2>1. /\ answered' \in Seq(Reads) /\ Len(answered') = Len(answered) + i
        /\ \A k \in 1..Len(answered) + i :
             answered'[k] = IF k <= Len(answered) THEN answered[k] ELSE more[k - Len(answered)]
    <3> HIDE Positions
    <3>1. PICK m : m = more
      OBVIOUS
    <3>2. answered' = answered \o m /\ Len(m) = i /\ m \in Seq(Reads) /\ answered \in Seq(Reads)
      BY <1>1, <1>3, <1>7, <3>1
    <3>3. /\ answered \o m \in Seq(Reads) /\ Len(answered \o m) = Len(answered) + Len(m)
          /\ \A k \in 1..Len(answered) + Len(m) :
               (answered \o m)[k] = IF k <= Len(answered) THEN answered[k] ELSE m[k - Len(answered)]
      BY <3>2, ConcatProperties
    <3> QED BY <3>1, <3>2, <3>3
  <2>2. ASSUME NEW k \in 1..i
        PROVE  answered'[Len(answered) + k] = more[k]
    <3>1. /\ Len(answered) + k \in 1..Len(answered) + i
          /\ ~(Len(answered) + k <= Len(answered)) /\ (Len(answered) + k) - Len(answered) = k
      BY <1>2
    <3> QED BY <2>1, <3>1
  <2> QED BY <1>2, <2>1, <2>2, LenProperties
<1>9. /\ queue' \in Seq(Ctxs) /\ Len(queue') = Len(queue) - i
      /\ \A k \in 1..Len(queue) - i : queue'[k] = queue[i + k]
      /\ DOMAIN queue' = 1..Len(queue) - i
  <2>1. \A k \in i + 1..Len(queue) : queue[k] \in Ctxs
    BY <1>2
  <2>2. /\ queue' \in Seq(Ctxs)
        /\ Len(queue') = IF i + 1 <= Len(queue) THEN Len(queue) - (i + 1) + 1 ELSE 0
        /\ \A k \in 1..Len(queue) - (i + 1) + 1 : queue'[k] = queue[(i + 1) + k - 1]
    BY <1>1, <1>2, <2>1, SubSeqProperties
  <2>3. Len(queue') = Len(queue) - i
    BY <1>2, <2>2
  <2>4. ASSUME NEW k \in 1..Len(queue) - i
        PROVE  queue'[k] = queue[i + k]
    <3>1. k \in 1..Len(queue) - (i + 1) + 1 /\ (i + 1) + k - 1 = i + k
      BY <1>2
    <3> QED BY <2>2, <3>1
  <2> QED BY <2>2, <2>3, <2>4, LenProperties
<1>10. \A k \in 1..Len(answered) + i :
         \/ k \in 1..Len(answered)
         \/ \E m \in 1..i : k = Len(answered) + m
  <2> TAKE k \in 1..Len(answered) + i
  <2>1. CASE k \in 1..Len(answered)
    BY <2>1
  <2>2. CASE k \notin 1..Len(answered)
    <3>1. k - Len(answered) \in 1..i /\ k = Len(answered) + (k - Len(answered))
      BY <1>2, <2>2
    <3> QED BY <3>1
  <2> QED BY <2>1, <2>2
<1>11. DOMAIN pending' = DOMAIN pending \ done
  BY <1>1
<1>12. TypeOK'
  <2>1. pending' \in [DOMAIN pending' -> [index : 0..MaxIndex, acks : SUBSET Voters]]
    BY <1>1, <1>11 DEF IInv, TypeOK
  <2> QED BY <1>1, <1>8, <1>9, <1>11, <2>1 DEF IInv, TypeOK, Reads
<1>13. Joined(arrived', answered', queue')
  <2>1. Len(arrived') = Len(answered') + Len(queue')
    <3>1. Len(arrived') = Len(answered) + Len(queue)
      BY <1>1 DEF Joined
    <3> QED BY <1>2, <1>8, <1>9, <3>1
  <2>2. ASSUME NEW k \in 1..Len(answered')
        PROVE  arrived'[k] = answered'[k].ctx
    <3>1. CASE k \in 1..Len(answered)
      BY <1>1, <1>8, <3>1 DEF Joined
    <3>2. CASE \E m \in 1..i : k = Len(answered) + m
      <4>1. PICK m \in 1..i : k = Len(answered) + m
        BY <3>2
      <4>2. m \in 1..Len(queue)
        BY <1>2
      <4> QED BY <1>1, <1>5, <1>6, <1>8, <4>1, <4>2
    <3> QED BY <1>8, <1>10, <3>1, <3>2
  <2>3. ASSUME NEW k \in 1..Len(queue')
        PROVE  arrived'[Len(answered') + k] = queue'[k]
    <3>1. /\ i + k \in 1..Len(queue) /\ k \in 1..Len(queue) - i
          /\ Len(answered') + k = Len(answered) + (i + k)
      BY <1>2, <1>8, <1>9
    <3> QED BY <1>1, <1>5, <1>9, <3>1
  <2> QED BY <2>1, <2>2, <2>3 DEF Joined
<1>14. InOrder'
  <2>1. (arrived' = [k \in DOMAIN answered' |-> answered'[k].ctx] \o queue')
          <=> Joined(arrived', answered', queue')
    BY <1>1, <1>3, <1>8, <1>9, InOrderByPosition
  <2> QED BY <1>13, <2>1 DEF InOrder
<1>15. ArrivedOnce'
  BY <1>1 DEF IInv, ArrivedOnce
\* The contexts behind that of the call stay, in the queue and in the map.
<1>16. \A k \in 1..Len(queue) : queue[k] \in done <=> k <= i
  <2> TAKE k \in 1..Len(queue)
  <2>1. CASE k <= i
    <3>1. k \in 1..i
      BY <1>2, <2>1
    <3> QED BY <2>1, <3>1
  <2>2. CASE ~(k <= i)
    <3>1. \A m \in 1..i : m \in 1..Len(queue) /\ m # k
      BY <1>2, <2>2
    <3> QED BY <1>4, <2>2, <3>1
  <2> QED BY <2>1, <2>2
<1>17. QueueIsPending'
  <2>1. ASSUME NEW c \in ToSet(queue')
        PROVE  c \in DOMAIN pending'
    <3>1. PICK k \in 1..Len(queue) - i : c = queue'[k]
      BY <1>9, <2>1 DEF ToSet
    <3>2. i + k \in 1..Len(queue) /\ ~(i + k <= i) /\ c = queue[i + k]
      BY <1>2, <1>9, <3>1
    <3> QED BY <1>11, <1>16, <3>2
  <2>2. ASSUME NEW c \in DOMAIN pending'
        PROVE  c \in ToSet(queue')
    <3>1. PICK k \in 1..Len(queue) : c = queue[k]
      BY <1>11, <2>2
    <3>2. ~(k <= i)
      BY <1>11, <1>16, <2>2, <3>1
    <3>3. k - i \in 1..Len(queue) - i /\ i + (k - i) = k
      BY <1>2, <3>2
    <3>4. queue'[k - i] = c
      BY <1>9, <3>1, <3>3
    <3> QED BY <1>9, <3>3, <3>4 DEF ToSet
  <2>3. IsInjective(queue')
    <3>1. arrived' \in Seq(Ctxs) /\ answered' \in Seq(Reads) /\ queue' \in Seq(Ctxs)
      BY <1>1, <1>3, <1>8, <1>9
    <3>2. IsInjective(arrived')
      BY <1>15 DEF ArrivedOnce
    <3> QED BY <1>13, <3>1, <3>2, QueueOnce
  <2> QED BY <2>1, <2>2, <2>3 DEF QueueIsPending
<1>18. \A k \in 1..Len(arrived) : IndexAt(k)' = IndexAt(k)
  <2> TAKE k \in 1..Len(arrived)
  <2>1. CASE k \in 1..Len(answered)
    <3>1. k <= Len(answered') /\ answered'[k] = answered[k] /\ k <= Len(answered)
      BY <1>2, <1>8, <2>1
    <3> QED BY <3>1 DEF IndexAt
  <2>2. CASE \E m \in 1..i : k = Len(answered) + m
    <3>1. PICK m \in 1..i : k = Len(answered) + m
      BY <2>2
    <3>2. k <= Len(answered') /\ answered'[k] = more[m]
      BY <1>2, <1>8, <3>1
    <3>3. ~(k <= Len(answered)) /\ arrived[k] = queue[m]
      BY <1>2, <1>5, <3>1
    <3> QED BY <1>6, <3>2, <3>3 DEF IndexAt
  <2>3. CASE k > Len(answered) + i
    <3>1. /\ k - Len(answered) \in 1..Len(queue) /\ ~(k - Len(answered) <= i)
          /\ Len(answered) + (k - Len(answered)) = k
      BY <1>2, <2>3 DEF Joined
    <3>2. arrived[k] \in DOMAIN pending'
      BY <1>5, <1>11, <1>16, <3>1
    <3>3. ~(k <= Len(answered)) /\ ~(k <= Len(answered'))
      BY <1>2, <1>8, <2>3
    <3> QED BY <1>1, <3>2, <3>3 DEF IndexAt
  <2>4. k > Len(answered) + i \/ k \in 1..Len(answered) + i
    BY <1>2
  <2>5. k > Len(answered) + i \/ k \in 1..Len(answered) \/ \E m \in 1..i : k = Len(answered) + m
    BY <1>10, <2>4
  <2> QED BY <2>1, <2>2, <2>3, <2>5, Zenon
<1>19. IndexesGrow'
  <2>1. \A j, k \in DOMAIN arrived : j <= k => IndexAt(j) <= IndexAt(k) /\ IndexAt(k) <= committed
    BY GrowByPosition DEF IInv
  <2>2. DOMAIN arrived' = 1..Len(arrived) /\ DOMAIN arrived = 1..Len(arrived)
    BY <1>1
  <2>3. \A j, k \in DOMAIN arrived' :
          j <= k => IndexAt(j)' <= IndexAt(k)' /\ IndexAt(k)' <= committed'
    BY <1>1, <1>18, <2>1, <2>2
  <2> QED BY <2>3 DEF IndexesGrow, IndexAt
<1>20. AcksAreAnswers'
  BY <1>1, <1>11 DEF IInv, AcksAreAnswers
<1>21. AnsweredIsConfirmed'
  <2> SUFFICES ASSUME NEW k \in 1..Len(answered) + i
               PROVE  HasQuorum({Self} \cup Behind(k)')
    BY <1>1, <1>8 DEF AnsweredIsConfirmed, Behind
  <2>1. CASE k \in 1..Len(answered)
    <3>1. Behind(k)' = Behind(k)
      BY <1>1 DEF Behind
    <3>2. HasQuorum({Self} \cup Behind(k))
      BY <2>1 DEF IInv, AnsweredIsConfirmed, Behind
    <3> QED BY <3>1, <3>2
  <2>2. CASE \E m \in 1..i : k = Len(answered) + m
    <3>1. k <= Len(answered) + i /\ Len(answered) + i \in DOMAIN arrived
      BY <1>2, <2>2 DEF Joined
    <3>2. arrived[Len(answered) + i] = ctx
      BY <1>2, <1>5
    <3>3. pending[ctx].acks \in SUBSET Voters
      BY <1>1 DEF IInv, TypeOK
    <3>4. \A n \in pending[ctx].acks : <<ctx, n>> \in answers
      BY <1>1 DEF IInv, AcksAreAnswers
    <3>5. pending[ctx].acks \subseteq Behind(k)'
      <4> SUFFICES ASSUME NEW n \in pending[ctx].acks
                   PROVE  n \in Behind(k)'
        OBVIOUS
      <4>1. n \in Voters /\ <<arrived'[Len(answered) + i], n>> \in answers'
        BY <1>1, <3>2, <3>3, <3>4
      <4>2. Len(answered) + i \in DOMAIN arrived' /\ Len(answered) + i >= k
        BY <1>1, <1>2, <3>1
      <4> QED BY <4>1, <4>2 DEF Behind
    <3>6. Behind(k)' \in SUBSET Voters /\ pending[ctx].acks \cup {Self} = {Self} \cup pending[ctx].acks
      BY DEF Behind
    <3> QED BY <1>1, <3>3, <3>5, <3>6, MoreAnswers
  <2> QED BY <1>10, <2>1, <2>2
<1> QED
  BY <1>12, <1>14, <1>15, <1>17, <1>19, <1>20, <1>21 DEF IInv

LEMMA NextInv ==
  ASSUME IInv, [Next]_vars
  PROVE  IInv'
<1>1. ASSUME NEW ctx \in Ctxs, AddRequest(ctx) PROVE IInv'
  BY <1>1, AddRequestInv
<1>2. ASSUME NEW ctx \in Ctxs, Advance(ctx) PROVE IInv'
  BY <1>2, AdvanceInv
<1>3. ASSUME NEW ctx \in sent, NEW from \in Voters \ {Self}, RecvAck(ctx, from) PROVE IInv'
  BY <1>3, RecvAckInv
<1>4. CASE Heartbeat
  BY <1>4, HeartbeatInv
<1>5. CASE Reset
  BY <1>5, ResetInv
<1>6. CASE Commit
  BY <1>6, CommitInv
<1>7. CASE UNCHANGED vars
  <2>1. TypeOK' /\ QueueIsPending' /\ ArrivedOnce' /\ AcksAreAnswers'
    BY <1>7 DEF vars, IInv, TypeOK, QueueIsPending, ArrivedOnce, AcksAreAnswers
  <2>2. InOrder' /\ IndexesGrow'
    BY <1>7 DEF vars, IInv, InOrder, IndexesGrow
  <2>3. AnsweredIsConfirmed'
    BY <1>7 DEF vars, IInv, AnsweredIsConfirmed
  <2> QED BY <2>1, <2>2, <2>3 DEF IInv
<1> QED
  <2>1. Next \/ UNCHANGED vars
    OBVIOUS
  <2> QED BY <1>1, <1>2, <1>3, <1>4, <1>5, <1>6, <1>7, <2>1, Zenon DEF Next
-----------------------------------------------------------------------------
\* The strengthened invariant holds in every reachable state.
THEOREM Invariance == Spec => []IInv
<1>1. Init => IInv
  BY InitInv
<1>2. IInv /\ [Next]_vars => IInv'
  BY NextInv
<1> QED BY <1>1, <1>2, PTL DEF Spec

\* Every index of a read is a commit index the leader may have, every
\* acknowledgement a voter's.
THEOREM TypeCorrect == Spec => []TypeOK
<1>1. IInv => TypeOK
  BY DEF IInv
<1> QED BY <1>1, Invariance, PTL

\* advance() finds every read it pops in the map, and the map keeps no read
\* that the queue has lost (read_only.rs:79-96).
THEOREM QueueAndMapAgree == Spec => []QueueIsPending
<1>1. IInv => QueueIsPending
  BY DEF IInv
<1> QED BY <1>1, Invariance, PTL

\* For any number of requests, late answers and calls of advance(), the reads
\* are answered in the order in which they came, each once.
THEOREM AnsweredInOrder == Spec => []InOrder
<1>1. IInv => InOrder
  BY DEF IInv
<1> QED BY <1>1, Invariance, PTL

\* A read that comes later never returns less.
THEOREM ReadsDoNotGoBack == Spec => []IndexesGrow
<1>1. IInv => IndexesGrow
  BY DEF IInv
<1> QED BY <1>1, Invariance, PTL

\* Whatever the voters and however late their answers, a read is given out only
\* after a majority of them confirmed the leader behind it.
THEOREM ReadsAreConfirmed == Spec => []AnsweredIsConfirmed
<1>1. IInv => AnsweredIsConfirmed
  BY DEF IInv
<1> QED BY <1>1, Invariance, PTL
=============================================================================
