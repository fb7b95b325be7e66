--------------------------- MODULE RaftLogProofs ----------------------------
(***************************************************************************)
(* Proofs about RaftLog over a truncating storage: IInv is inductive, so   *)
(* the safety properties hold for all bounds on terms and indexes.         *)
(***************************************************************************)
EXTENDS RaftLogInvariant, TLAPS, WellFoundedInduction

\* The logs of leaders match.
LEMMA LeaderLogFacts ==
  ASSUME leaderLog \in LeaderLogs, NEW t \in Terms, NEW i \in Indexes
  PROVE  /\ leaderLog[t][i] \in Terms
         /\ (leaderLog[t][i] = 0) <=> (t = 0 \/ i = 0)
         /\ \A j \in 0..i : leaderLog[t][j] = leaderLog[leaderLog[t][i]][j]
BY DEF LeaderLogs

\* A segment cut out of a function.
LEMMA SegmentFacts ==
  ASSUME NEW a \in Nat, NEW b \in Nat \cup {-1}, a <= b + 1, NEW f,
         \A i \in a..b : f[i] \in Nat
  PROVE  LET s == Segment(a, b, f) IN
         /\ IsSegment(s) /\ s.from = a /\ s.to = b
         /\ \A i \in a..b : s.term[i] = f[i]
BY DEF Segment, IsSegment

LEMMA NoEntriesFacts ==
  ASSUME NEW a \in Nat
  PROVE  LET s == NoEntries(a) IN
         IsSegment(s) /\ s.from = a /\ s.to = a - 1 /\ IsEmpty(s)
BY DEF NoEntries, Segment, IsSegment, IsEmpty

LEMMA SnapshotStoreFacts ==
  ASSUME NEW p, p.index \in Nat, p.term \in Nat
  PROVE  LET s == SnapshotStore(p) IN
         /\ IsSegment(s) /\ s.from = p.index /\ s.to = p.index /\ ~IsEmpty(s)
         /\ s.term[p.index] = p.term
<1> DEFINE n == p.index
           f == [i \in {n} |-> p.term]
<1>1. \A i \in n..n : f[i] \in Nat /\ f[i] = p.term
  OBVIOUS
<1>2. SnapshotStore(p) = Segment(n, n, f)
  BY DEF SnapshotStore
<1> HIDE DEF f
<1> QED BY <1>1, <1>2, SegmentFacts DEF IsEmpty

LEMMA PartFacts ==
  ASSUME NEW s, IsSegment(s), NEW a \in Nat, NEW b \in Nat \cup {-1},
         s.from <= a, b <= s.to, a <= b + 1
  PROVE  LET p == Part(s, a, b) IN
         /\ IsSegment(p) /\ p.from = a /\ p.to = b
         /\ \A i \in a..b : p.term[i] = s.term[i]
BY DEF Part, Segment, IsSegment

LEMMA SpliceFacts ==
  ASSUME NEW s, NEW e, IsSegment(s), IsSegment(e), s.from <= e.from, e.from <= s.to + 1,
         e.from <= e.to
  PROVE  LET p == Splice(s, e) IN
         /\ IsSegment(p) /\ p.from = s.from /\ p.to = e.to
         /\ \A i \in s.from..e.to :
              p.term[i] = IF i < e.from THEN s.term[i] ELSE e.term[i]
BY DEF Splice, IsSegment

\* A non-empty set of naturals has a least element.
LEMMA NatMin ==
  ASSUME NEW S \in SUBSET Nat, S # {}
  PROVE  \E i \in S : \A j \in S : i <= j
<1> DEFINE R == OpToRel(<, Nat)
<1>1. PICK x \in S : \A y \in S : ~ (<<y, x>> \in R)
  BY NatLessThanWellFounded, WFMin
<1>2. \A y, z \in Nat : y < z => <<y, z>> \in R
  BY DEF OpToRel
<1> HIDE DEF R
<1>3. \A y \in S : ~ (y < x)
  BY <1>1, <1>2, Zenon
<1>4. x \in Nat /\ \A y \in S : y \in Nat
  OBVIOUS
<1> QED BY <1>3, <1>4

\* Choosing more keeps what was chosen.
LEMMA ChooseFacts ==
  ASSUME TypeOK, NEW t \in Leaders, NEW i \in Indexes, Choose(t, i), leaderLog' = leaderLog
  PROVE  /\ chosen' \in [term : Terms, index : Indexes]
         /\ chosen.index <= chosen'.index /\ i <= chosen'.index
         /\ \A j \in 0..chosen.index :
              leaderLog[chosen'.term][j] = leaderLog[chosen.term][j]
         /\ \A j \in 0..i : leaderLog[chosen'.term][j] = leaderLog[t][j]
<1>1. t \in Terms /\ chosen \in [term : Terms, index : Indexes] /\ leaderLog \in LeaderLogs
  BY DEF Leaders, TypeOK
<1>2. /\ leaderLog[t][i] \in Terms
      /\ \A j \in 0..i : leaderLog[t][j] = leaderLog[leaderLog[t][i]][j]
  BY <1>1, LeaderLogFacts
<1>3. \A j \in 0..chosen.index : leaderLog[t][j] = leaderLog[chosen.term][j]
  BY DEF Leaders
<1>4. CASE i > chosen.index
  <2>1. chosen' = [term |-> leaderLog[t][i], index |-> i]
    BY <1>4 DEF Choose
  <2> QED BY <2>1, <1>1, <1>2, <1>3, <1>4 DEF Indexes
<1>5. CASE i <= chosen.index
  <2>1. chosen' = chosen
    BY <1>1, <1>5 DEF Choose, Indexes
  <2> QED BY <2>1, <1>1, <1>3, <1>5 DEF Indexes
<1> QED BY <1>1, <1>4, <1>5 DEF Indexes
-----------------------------------------------------------------------------
(* What the invariant says of the log as a whole. *)

\* The entry of the log at i, wherever it is kept.
InTail(i)  == i \in unstable.from..unstable.to
EntryAt(i) == IF InTail(i) THEN unstable.term[i] ELSE store.term[i]

LEMMA TypeFacts ==
  ASSUME IInv
  PROVE  /\ IsSegment(store) /\ IsSegment(unstable) /\ IsSegment(ready.seg)
         /\ store.from \in Nat /\ store.to \in Nat /\ store.from <= store.to
         /\ store.to <= MaxIndex
         /\ unstable.from \in Nat /\ unstable.to \in Nat \cup {-1}
         /\ unstable.from <= unstable.to + 1 /\ unstable.to <= MaxIndex
         /\ ready.seg.from \in Nat /\ ready.seg.to \in Nat \cup {-1}
         /\ ready.seg.from <= ready.seg.to + 1 /\ ready.seg.to <= MaxIndex
         /\ \A i \in store.from..store.to : store.term[i] \in Terms
         /\ \A i \in unstable.from..unstable.to : unstable.term[i] \in Terms
         /\ \A i \in ready.seg.from..ready.seg.to : ready.seg.term[i] \in Terms
         /\ leaderLog \in LeaderLogs
         /\ chosen.term \in Terms /\ chosen.index \in Indexes
         /\ committed \in Nat /\ applied \in Nat /\ ready.commit \in Nat
         /\ hardCommit \in Nat \cup {-1}
         /\ pending.index \in Nat /\ pending.term \in Nat
         /\ snapshot.index \in Nat /\ snapshot.term \in Nat
         /\ ready.snap.index \in Nat /\ ready.snap.term \in Nat
         /\ MaxIndex \in Nat /\ MaxTerm \in Nat
<1>1. /\ TypeOK /\ Within(store) /\ Within(unstable) /\ Within(ready.seg)
      /\ pending.term \in Terms
  BY DEF IInv, TypeInv
<1>2. \A s : IsSegment(s) => /\ s.from \in Nat /\ s.to \in Nat \cup {-1}
                            /\ s.from <= s.to + 1
  BY DEF IsSegment
<1>3. \A p : IsSnapshot(p) => p.index \in Nat /\ p.term \in Nat
  BY DEF IsSnapshot
<1>4. IsSegment(store) /\ IsSegment(unstable) /\ IsSegment(ready.seg)
  BY <1>1 DEF TypeOK
<1>5. store.to \in Nat /\ store.from <= store.to
  BY <1>1, <1>2, <1>4 DEF TypeOK, IsEmpty
<1>6. /\ store.to <= MaxIndex /\ unstable.to <= MaxIndex /\ ready.seg.to <= MaxIndex
      /\ \A i \in store.from..store.to : store.term[i] \in Terms
      /\ \A i \in unstable.from..unstable.to : unstable.term[i] \in Terms
      /\ \A i \in ready.seg.from..ready.seg.to : ready.seg.term[i] \in Terms
  BY <1>1 DEF Within
<1>7. /\ committed \in Nat /\ applied \in Nat /\ ready.commit \in Nat
      /\ hardCommit \in Nat \cup {-1} /\ leaderLog \in LeaderLogs
      /\ chosen.term \in Terms /\ chosen.index \in Indexes
      /\ IsSnapshot(pending) /\ IsSnapshot(snapshot) /\ IsSnapshot(ready.snap)
  BY <1>1 DEF TypeOK, NoHardState
<1> QED BY <1>2, <1>3, <1>4, <1>5, <1>6, <1>7, BoundsAssumption

LEMMA LogFacts ==
  ASSUME IInv, pending = NoSnapshot
  PROVE  /\ FirstIndex = store.from + 1
         /\ LastIndex = IF IsEmpty(unstable) THEN store.to ELSE unstable.to
         /\ LastIndex \in Nat /\ store.from <= LastIndex /\ LastIndex <= MaxIndex
         /\ \A i \in store.from..LastIndex :
              /\ ~TermPanics(i) /\ Term(i) = EntryAt(i) /\ EntryAt(i) \in Terms
              /\ ~InTail(i) => /\ i \in store.from..store.to
                               /\ i < unstable.from \/ IsEmpty(unstable)
<1> USE TypeFacts
<1>1. FirstIndex = store.from + 1
  BY DEF FirstIndex, MaybeFirstIndex, StoreFirst, NoIndex
<1>2. LastIndex = IF IsEmpty(unstable) THEN store.to ELSE unstable.to
  BY DEF LastIndex, MaybeLastIndex, StoreLast, NoIndex, IsEmpty
<1>3. LastIndex \in Nat /\ store.from <= LastIndex /\ LastIndex <= MaxIndex
  BY <1>2 DEF IInv, TailInv, IsEmpty
<1>4. ASSUME NEW i \in store.from..LastIndex
      PROVE  /\ ~TermPanics(i) /\ Term(i) = EntryAt(i) /\ EntryAt(i) \in Terms
             /\ ~InTail(i) => /\ i \in store.from..store.to
                              /\ i < unstable.from \/ IsEmpty(unstable)
  <2>1. ~InTail(i) => /\ i \in store.from..store.to
                      /\ i < unstable.from \/ IsEmpty(unstable)
    BY <1>2, <1>3 DEF InTail, IsEmpty, IInv, TailInv
  <2>2. ~TermPanics(i)
    BY <1>2, <1>3 DEF TermPanics, MaybeTermPanics, MaybeLastIndex, NoIndex, IsEmpty
  <2>3. InRange(i)
    BY <1>1 DEF InRange
  <2>4. Term(i) = EntryAt(i) /\ EntryAt(i) \in Terms
    BY <2>1, <2>3 DEF Term, MaybeTerm, EntryAt, InTail, StoreTerm, NoTerm, Terms
  <2> QED BY <2>1, <2>2, <2>4
<1> QED BY <1>1, <1>2, <1>3, <1>4

\* The log is a prefix of the log of its last entry's leader, and so for every
\* earlier entry.
LEMMA WholePath ==
  ASSUME IInv, pending = NoSnapshot,
         NEW i \in store.from..LastIndex, NEW j \in store.from..i
  PROVE  EntryAt(j) = leaderLog[EntryAt(i)][j]
<1>1. /\ Path(store) /\ Path(unstable) /\ Joins(store, unstable)
  BY DEF IInv, StoreInv, TailInv
<1> USE TypeFacts, LogFacts
<1>2. LastIndex \in Nat /\ j \in store.from..LastIndex
  OBVIOUS
<1>3. CASE InTail(i) /\ InTail(j)
  BY <1>1, <1>3 DEF EntryAt, InTail, Path
<1>4. CASE InTail(i) /\ ~InTail(j)
  BY <1>1, <1>2, <1>4 DEF EntryAt, InTail, Joins, IsEmpty
<1>5. CASE ~InTail(i) /\ ~InTail(j)
  BY <1>1, <1>2, <1>5 DEF EntryAt, InTail, Path
<1>6. CASE ~InTail(i) /\ InTail(j)
  BY <1>2, <1>6 DEF InTail, IsEmpty
<1> QED BY <1>3, <1>4, <1>5, <1>6

\* The committed entries are those that were chosen.
LEMMA CommittedFacts ==
  ASSUME IInv, pending = NoSnapshot, NEW i \in store.from..committed
  PROVE  IsChosen(i, EntryAt(i)) /\ i <= LastIndex
BY TypeFacts, LogFacts DEF IInv, TailInv, EntryAt, InTail, Agreed

\* A pending snapshot is the whole log, and nothing can be read of it.
LEMMA PendingFacts ==
  ASSUME IInv, pending # NoSnapshot
  PROVE  /\ FirstIndex = pending.index + 1 /\ LastIndex = pending.index
         /\ committed = pending.index /\ TermPanics(pending.index)
         /\ \A i \in Nat : i > pending.index => Term(i) = 0
<1> USE TypeFacts
<1>1. /\ IsEmpty(unstable) /\ unstable.from = pending.index /\ committed = pending.index
  BY DEF IInv, TailInv
<1>2. FirstIndex = pending.index + 1 /\ LastIndex = pending.index
  BY <1>1 DEF FirstIndex, LastIndex, MaybeFirstIndex, MaybeLastIndex, NoIndex
<1>3. TermPanics(pending.index)
  BY <1>1, <1>2 DEF TermPanics, InRange, MaybeTermPanics, MaybeLastIndex, IsEmpty
<1>4. \A i \in Nat : i > pending.index => Term(i) = 0
  BY <1>2 DEF Term, InRange
<1> QED BY <1>1, <1>2, <1>3, <1>4

LEMMA BoundFacts ==
  ASSUME IInv
  PROVE  /\ Secured \in Nat /\ hardCommit <= Secured /\ store.from <= Secured
         /\ Secured <= chosen.index
         /\ ready.commit <= committed /\ committed <= chosen.index
         /\ chosen.index \in Nat /\ chosen.index <= MaxIndex
<1> USE TypeFacts
<1>1. Secured \in Nat /\ hardCommit <= Secured /\ store.from <= Secured
  BY DEF Secured, Greater
<1>2. Secured <= chosen.index
  BY DEF IInv, StoreInv
<1>3. committed <= chosen.index
  BY DEF IInv, TailInv
<1>4. ready.commit <= committed
  BY DEF IInv, ReadyInv, ReadyTaken
<1> QED BY <1>1, <1>2, <1>3, <1>4 DEF Indexes

\* A log that has the entry of t's leader at n agrees with that leader up to n.
LEMMA MatchFacts ==
  ASSUME IInv, pending = NoSnapshot, NEW t \in Terms, NEW n \in store.from..LastIndex,
         EntryAt(n) = leaderLog[t][n], NEW i \in store.from..n
  PROVE  EntryAt(i) = leaderLog[t][i]
<1>1. EntryAt(i) = leaderLog[EntryAt(n)][i]
  BY WholePath
<1>2. leaderLog[t][i] = leaderLog[leaderLog[t][n]][i]
  BY TypeFacts, LogFacts, LeaderLogFacts DEF Indexes
<1> QED BY <1>1, <1>2
-----------------------------------------------------------------------------
(* Every action preserves the invariant. *)

LEMMA InitInv == ASSUME Init PROVE IInv
<1> USE BoundsAssumption DEF Init, EmptyStore, StoreLast, StoreFirst
<1>1. /\ IsSegment(store) /\ store.from = 0 /\ store.to = 0 /\ store.term[0] = 0
  BY SegmentFacts DEF EmptyStore, Segment, IsSegment
<1>2. /\ IsSegment(unstable) /\ unstable.from = 1 /\ unstable.to = 0
  <2>1. unstable = NoEntries(1)
    BY <1>1
  <2> QED BY <2>1, NoEntriesFacts
<1>3. /\ IsSegment(ready.seg) /\ ready.seg.from = 0 /\ ready.seg.to = -1
      /\ ready.phase = "idle" /\ ready.snap = NoSnapshot /\ ready.commit = 0
  BY NoEntriesFacts DEF Idle
<1>4. /\ snapshot.index = 0 /\ snapshot.term = 0 /\ committed = 0 /\ applied = 0
      /\ pending.index = 0 /\ pending.term = 0 /\ hardCommit = -1
      /\ chosen.index = 0 /\ chosen.term = 0
  BY <1>1 DEF NoSnapshot, NoHardState
<1>5. leaderLog[0][0] = 0
  BY LeaderLogFacts DEF Terms, Indexes
<1>6. TypeInv
  <2>1. TypeOK
    BY <1>1, <1>2, <1>3, <1>4
    DEF TypeOK, IsEmpty, IsSnapshot, NoSnapshot, NoHardState, Idle, Terms, Indexes
  <2>2. Within(store) /\ Within(unstable) /\ Within(ready.seg)
    BY <1>1, <1>2, <1>3 DEF Within, Terms
  <2> QED BY <2>1, <2>2, <1>4 DEF TypeInv, Terms
<1>7. StoreInv
  BY <1>1, <1>4, <1>5 DEF StoreInv, Path, Agreed, IsChosen, Secured, Greater
<1>8. TailInv
  <2>1. LastIndex = 0
    BY <1>1, <1>2 DEF LastIndex, MaybeLastIndex, IsEmpty, NoIndex
  <2> QED BY <2>1, <1>1, <1>2, <1>3, <1>4, <1>5
          DEF TailInv, Path, Joins, Agreed, IsChosen, IsEmpty, Secured, Greater, NoHardState
<1>9. ReadyInv
  BY <1>3, <1>4 DEF ReadyInv, ReadyTaken, ReadySnapshot, ReadyAndTail, ReadyToWrite,
                    ReadyWritten, Path, Agreed, IsEmpty, Idle
<1> QED BY <1>6, <1>7, <1>8, <1>9 DEF IInv, DownInv

\* A step in which the commit index and what is chosen advance.
LEMMA CommitStep ==
  ASSUME IInv, up, NEW t \in Leaders, NEW m \in Indexes, NEW c \in Indexes, m <= c,
         pending = NoSnapshot, m <= LastIndex,
         \A i \in store.from..m : EntryAt(i) = leaderLog[t][i],
         committed' = Greater(committed, m), Choose(t, c),
         UNCHANGED <<storeVars, unstable, pending, applied, ready, up, leaderLog>>
  PROVE  IInv'
<1> USE TypeFacts
<1>1. /\ store' = store /\ snapshot' = snapshot /\ hardCommit' = hardCommit
      /\ unstable' = unstable /\ pending' = pending /\ applied' = applied
      /\ ready' = ready /\ up' = up /\ leaderLog' = leaderLog
  BY DEF storeVars
<1>2. /\ committed' \in Nat /\ committed <= committed' /\ m <= committed'
      /\ committed' \in {committed, m}
  BY DEF Greater, Indexes
<1>3. /\ chosen' \in [term : Terms, index : Indexes]
      /\ chosen.index <= chosen'.index /\ c <= chosen'.index
      /\ \A j \in 0..chosen.index : leaderLog[chosen'.term][j] = leaderLog[chosen.term][j]
      /\ \A j \in 0..c : leaderLog[chosen'.term][j] = leaderLog[t][j]
  BY ChooseFacts DEF IInv, TypeInv
<1>4. TypeInv'
  BY <1>1, <1>2, <1>3 DEF IInv, TypeInv, TypeOK, Within
<1>5. StoreInv'
  BY <1>1, <1>3 DEF IInv, StoreInv, Path, Agreed, IsChosen, Secured, Greater, Indexes
<1>6. TailInv'
  <2>1. Secured' = Secured /\ LastIndex' = LastIndex
    BY <1>1 DEF Secured, LastIndex
  <2>2. Path(unstable)' /\ Joins(store, unstable)'
    BY <1>1 DEF IInv, TailInv, Path, Joins
  <2>3. /\ Agreed(unstable, committed) /\ store.from <= committed /\ committed <= LastIndex
        /\ applied <= Secured /\ applied <= committed /\ hardCommit <= committed
        /\ ~IsEmpty(unstable) /\ ready.phase # "advance" => unstable.to > Secured
        /\ IF IsEmpty(unstable)
             THEN \/ unstable.from = store.to + 1
                  \/ /\ unstable.from = store.to
                     /\ store.from = store.to /\ snapshot.index = store.to
             ELSE unstable.from <= store.to + 1
        /\ \A i \in store.from..store.to :
             i <= committed /\ (i < unstable.from \/ IsEmpty(unstable))
               => IsChosen(i, store.term[i])
    BY DEF IInv, TailInv
  <2>4. Agreed(unstable, committed)'
    <3> SUFFICES ASSUME NEW i \in unstable.from..unstable.to, i <= committed'
                 PROVE  unstable.term[i] = leaderLog[chosen'.term][i]
      BY <1>1 DEF Agreed, IsChosen
    <3>1. CASE i <= committed
      BY <1>3, <2>3, <3>1, BoundFacts DEF Agreed, IsChosen
    <3>2. CASE i > committed
      BY <1>2, <1>3, <2>3, <3>2 DEF EntryAt, InTail, Indexes
    <3> QED BY <3>1, <3>2
  <2>5. \A i \in store.from..store.to :
          i <= committed' /\ (i < unstable.from \/ IsEmpty(unstable))
            => store.term[i] = leaderLog[chosen'.term][i]
    <3> SUFFICES ASSUME NEW i \in store.from..store.to, i <= committed',
                        i < unstable.from \/ IsEmpty(unstable)
                 PROVE  store.term[i] = leaderLog[chosen'.term][i]
      OBVIOUS
    <3>1. CASE i <= committed
      BY <1>3, <2>3, <3>1, BoundFacts DEF IsChosen
    <3>2. CASE i > committed
      BY <1>2, <1>3, <2>3, <3>2 DEF EntryAt, InTail, IsEmpty, Indexes
    <3> QED BY <3>1, <3>2
  <2>6. committed' <= LastIndex /\ committed' <= chosen'.index
    BY <1>2, <1>3, <2>3, BoundFacts DEF Indexes
  <2> QED BY <1>1, <1>2, <2>1, <2>2, <2>3, <2>4, <2>5, <2>6 DEF TailInv, IsChosen
<1>7. ReadyInv'
  <2>1. Secured' = Secured
    BY <1>1 DEF Secured
  <2> USE BoundFacts
  <2>2. ReadyTaken'
    BY <1>1, <1>2, <1>3, <2>1 DEF IInv, ReadyInv, ReadyTaken, Path, Agreed, IsChosen
  <2>3. ReadySnapshot'
    BY <1>1, <1>3, <2>1 DEF IInv, ReadyInv, ReadySnapshot, IsChosen
  <2>4. ReadyAndTail' /\ ReadyToWrite' /\ ReadyWritten'
    BY <1>1, <1>3, <2>1
    DEF IInv, ReadyInv, ReadyAndTail, ReadyToWrite, ReadyWritten, Joins, Agreed, IsChosen
  <2> QED BY <2>2, <2>3, <2>4 DEF ReadyInv
<1> QED BY <1>1, <1>4, <1>5, <1>6, <1>7 DEF IInv, DownInv

\* A step in which entries of t's leader replace the tail from k on.
LEMMA ExtendStep ==
  ASSUME IInv, up, pending = NoSnapshot, NEW t \in Leaders,
         NEW k \in committed + 1..LastIndex + 1, NEW to \in k..MaxIndex,
         \A i \in store.from..k - 1 : EntryAt(i) = leaderLog[t][i],
         ~AppendPanics(unstable, Entries(t, k, to)),
         unstable' = TruncateAndAppend(unstable, Entries(t, k, to)),
         NEW m \in Indexes, NEW c \in Indexes, m <= c, m <= to,
         committed' = Greater(committed, m), Choose(t, c),
         UNCHANGED <<storeVars, pending, applied, ready, up, leaderLog>>
  PROVE  IInv'
<1> USE TypeFacts, BoundFacts
<1>1. /\ store' = store /\ snapshot' = snapshot /\ hardCommit' = hardCommit
      /\ pending' = pending /\ applied' = applied
      /\ ready' = ready /\ up' = up /\ leaderLog' = leaderLog
  BY DEF storeVars
<1>2. /\ committed' \in Nat /\ committed <= committed' /\ m <= committed'
      /\ committed' \in {committed, m} /\ committed' <= to
  BY DEF Greater, Indexes
<1>3. /\ chosen' \in [term : Terms, index : Indexes]
      /\ chosen.index <= chosen'.index /\ c <= chosen'.index
      /\ \A j \in 0..chosen.index : leaderLog[chosen'.term][j] = leaderLog[chosen.term][j]
      /\ \A j \in 0..c : leaderLog[chosen'.term][j] = leaderLog[t][j]
  BY ChooseFacts DEF IInv, TypeInv
<1>4. /\ t \in Terms
      /\ \A j \in 0..chosen.index : leaderLog[t][j] = leaderLog[chosen.term][j]
  BY DEF Leaders
<1>5. /\ store.from <= committed /\ store.from < k /\ k \in Nat /\ to \in Nat
      /\ k - 1 \in store.from..LastIndex /\ to <= MaxIndex
  BY LogFacts DEF IInv, TailInv
<1> DEFINE f == Lesser(unstable.from, k)
<1>6. /\ f \in Nat /\ f <= k /\ f <= unstable.from /\ f <= store.to + 1
  BY <1>5 DEF Lesser, IInv, TailInv
<1>7. \A i \in f..k - 1 : InTail(i) /\ unstable.term[i] = leaderLog[t][i]
  <2> SUFFICES ASSUME NEW i \in f..k - 1
               PROVE  InTail(i) /\ unstable.term[i] = leaderLog[t][i]
    OBVIOUS
  <2> Entries(t, k, to).from = k
    BY DEF Entries, Segment
  <2>1. unstable.from <= i /\ ~IsEmpty(unstable) /\ k - 1 <= unstable.to
    BY <1>5, <1>6 DEF Lesser, AppendPanics, IsEmpty
  <2>2. InTail(i)
    BY <2>1, <1>5 DEF InTail
  <2>3. CASE i >= store.from
    BY <2>2, <2>3, <1>5 DEF EntryAt
  <2>4. CASE i < store.from
    <3>1. InTail(store.from) /\ unstable.term[store.from] = leaderLog[t][store.from]
      BY <2>1, <2>4, <1>5 DEF InTail, EntryAt
    <3>2. unstable.term[i] = leaderLog[leaderLog[t][store.from]][i]
      BY <2>2, <2>4, <3>1 DEF InTail, IInv, TailInv, Path
    <3>3. leaderLog[t][i] = leaderLog[leaderLog[t][store.from]][i]
      <4>1. store.from \in Indexes /\ i \in 0..store.from
        BY <2>4, <1>5, <1>6 DEF Indexes
      <4> QED BY <4>1, <1>4, LeaderLogFacts
    <3> QED BY <2>2, <3>2, <3>3
  <2> QED BY <2>3, <2>4
<1>8. /\ IsSegment(unstable') /\ unstable'.from = f /\ unstable'.to = to
      /\ \A i \in f..to : unstable'.term[i] = leaderLog[t][i]
  <2> DEFINE e == Entries(t, k, to)
  <2>1. \A i \in k..to : leaderLog[t][i] \in Nat
    BY <1>4, <1>5, LeaderLogFacts DEF Indexes, Terms
  <2>2. IsSegment(e) /\ e.from = k /\ e.to = to /\ \A i \in k..to : e.term[i] = leaderLog[t][i]
    BY <2>1, <1>5, SegmentFacts DEF Entries
  <2>3. CASE k <= unstable.from
    BY <2>2, <2>3, <1>5 DEF TruncateAndAppend, Lesser
  <2>4. CASE k > unstable.from
    <3>1. unstable' = Splice(unstable, e) /\ k <= unstable.to + 1 /\ f = unstable.from
      BY <2>2, <2>4, <1>5 DEF TruncateAndAppend, AppendPanics, Lesser
    <3>2. /\ IsSegment(unstable') /\ unstable'.from = f /\ unstable'.to = to
          /\ \A i \in f..to : unstable'.term[i] =
               IF i < k THEN unstable.term[i] ELSE leaderLog[t][i]
      BY <3>1, <2>2, <2>4, <1>5, SpliceFacts
    <3> QED BY <3>2, <1>7, <1>5, <1>6
  <2> QED BY <2>3, <2>4, <1>5
<1>9. \A i \in 0..to : \A j \in 0..i :
        leaderLog[t][i] \in Terms /\ leaderLog[t][j] = leaderLog[leaderLog[t][i]][j]
  BY <1>4, <1>5, LeaderLogFacts DEF Indexes
<1>10. \A i \in store.from..store.to : i < f => store.term[i] = leaderLog[t][i]
  BY <1>5, <1>6 DEF EntryAt, InTail
<1>11. \A i \in 0..committed' : leaderLog[t][i] = leaderLog[chosen'.term][i]
  BY <1>2, <1>3, <1>4 DEF Indexes
<1>12. TypeInv'
  BY <1>1, <1>2, <1>3, <1>5, <1>6, <1>8, <1>9 DEF IInv, TypeInv, TypeOK, Within
<1>13. StoreInv'
  BY <1>1, <1>3 DEF IInv, StoreInv, Path, Agreed, IsChosen, Secured, Greater, Indexes
<1>14. TailInv'
  <2> HIDE DEF f
  <2>0. Path(unstable)'
    BY <1>1, <1>5, <1>6, <1>8, <1>9 DEF Path
  <2>1. Path(unstable)' /\ Joins(store, unstable)'
    BY <2>0, <1>1, <1>5, <1>6, <1>8, <1>9, <1>10 DEF Joins
  <2>2. Agreed(unstable, committed)'
    BY <1>1, <1>2, <1>6, <1>8, <1>11 DEF Agreed, IsChosen
  <2>3. ~IsEmpty(unstable)' /\ LastIndex' = to
    BY <1>5, <1>6, <1>8 DEF IsEmpty, LastIndex, MaybeLastIndex, NoIndex
  <2>4. \A i \in store.from..store.to :
          i <= committed' /\ i < f => store.term[i] = leaderLog[chosen'.term][i]
    BY <1>2, <1>10, <1>11
  <2>5. committed' <= chosen'.index
    BY <1>2, <1>3 DEF Indexes
  <2>6. Secured' = Secured /\ Secured <= committed
    BY <1>1 DEF Secured, Greater, IInv, TailInv
  <2>7. applied <= Secured /\ applied <= committed
    BY DEF IInv, TailInv
  <2> QED BY <1>1, <1>2, <1>5, <1>6, <1>8, <2>1, <2>2, <2>3, <2>4, <2>5, <2>6, <2>7
          DEF TailInv, IsChosen
<1>15. ReadyInv'
  <2>1. Secured' = Secured
    BY <1>1 DEF Secured
  <2>2. ReadyTaken'
    BY <1>1, <1>2, <1>3, <2>1 DEF IInv, ReadyInv, ReadyTaken, Path, Agreed, IsChosen
  <2>3. ReadySnapshot'
    BY <1>1, <1>3, <2>1 DEF IInv, ReadyInv, ReadySnapshot, IsChosen
  <2>4. ReadyAndTail'
    BY <1>1, <1>5, <1>6, <1>8 DEF IInv, ReadyInv, ReadyAndTail, IsEmpty
  <2>5. ReadyToWrite' /\ ReadyWritten'
    BY <1>1, <1>3, <2>1
    DEF IInv, ReadyInv, ReadyToWrite, ReadyWritten, Joins, Agreed, IsChosen
  <2> QED BY <2>2, <2>3, <2>4, <2>5 DEF ReadyInv
<1> QED BY <1>1, <1>12, <1>13, <1>14, <1>15 DEF IInv, DownInv

\* A leader reads its log, so it has no pending snapshot.
LEMMA AgreesFacts ==
  ASSUME IInv, NEW t \in Terms, pending = NoSnapshot,
         NEW n \in Nat, n <= LastIndex, AgreesWith(t, n)
  PROVE  \A i \in store.from..n : EntryAt(i) = leaderLog[t][i]
BY TypeFacts, LogFacts DEF AgreesWith

LEMMA AppendInv ==
  ASSUME IInv, NEW t \in Terms, NEW to \in Indexes, Append(t, to)
  PROVE  IInv'
<1> USE TypeFacts DEF Append
<1>1. Entries(t, LastIndex + 1, to).from = LastIndex + 1
  BY DEF Entries, Segment
<1>2. pending = NoSnapshot
  BY <1>1, PendingFacts DEF AppendPanics, IsEmpty, IInv, TailInv
<1>3. committed <= LastIndex /\ LastIndex \in Nat
  BY <1>2, LogFacts DEF IInv, TailInv
<1>4. \A i \in store.from..LastIndex : EntryAt(i) = leaderLog[t][i]
  BY <1>2, <1>3, AgreesFacts
<1>5. committed' = Greater(committed, 0) /\ Choose(t, 0) /\ 0 \in Indexes
  BY DEF Greater, Choose, Indexes
<1>6. PICK k : k = LastIndex + 1
  OBVIOUS
<1>7. k \in committed + 1..LastIndex + 1 /\ to \in k..MaxIndex /\ 0 <= to
  BY <1>3, <1>6
<1>8. \A i \in store.from..k - 1 : EntryAt(i) = leaderLog[t][i]
  BY <1>3, <1>4, <1>6
<1>9. /\ up /\ t \in Leaders /\ ~AppendPanics(unstable, Entries(t, k, to))
      /\ unstable' = TruncateAndAppend(unstable, Entries(t, k, to))
      /\ UNCHANGED <<storeVars, pending, applied, ready, up, leaderLog>>
  BY <1>6
<1> HIDE DEF Append
<1> QED BY <1>2, <1>5, <1>7, <1>8, <1>9, ExtendStep

LEMMA LeaderCommitInv ==
  ASSUME IInv, NEW t \in Terms, NEW m \in Indexes, LeaderCommit(t, m)
  PROVE  IInv'
<1> USE TypeFacts DEF LeaderCommit
<1>1. pending = NoSnapshot
  BY PendingFacts DEF Indexes
<1>2. \A i \in store.from..m : EntryAt(i) = leaderLog[t][i]
  BY <1>1, LogFacts, AgreesFacts DEF Indexes
<1> QED BY <1>1, <1>2, CommitStep DEF CommitTo, Indexes

LEMMA FollowerCommitInv ==
  ASSUME IInv, NEW t \in Terms, NEW c \in Indexes, FollowerCommit(t, c)
  PROVE  IInv'
<1> USE TypeFacts DEF FollowerCommit
<1>1. pending = NoSnapshot
  BY PendingFacts DEF Indexes
<1>2. \A i \in store.from..c : EntryAt(i) = leaderLog[t][i]
  BY <1>1, AgreesFacts DEF Indexes
<1> QED BY <1>1, <1>2, CommitStep DEF CommitTo, Indexes

\* find_conflict finds the first index at which the log differs.
LEMMA FindConflictFacts ==
  ASSUME NEW e, e.from \in Nat \ {0}, e.to \in Int
  PROVE  LET k == FindConflict(e) IN
         \/ k = 0 /\ \A i \in e.from..e.to : MatchTerm(i, e.term[i])
         \/ /\ k \in e.from..e.to /\ ~MatchTerm(k, e.term[k])
            /\ \A i \in e.from..k - 1 : MatchTerm(i, e.term[i])
<1>1. CASE Conflicts(e) = {}
  BY <1>1 DEF FindConflict, Conflicts
<1>2. CASE Conflicts(e) # {}
  <2>1. Conflicts(e) \in SUBSET Nat
    BY DEF Conflicts
  <2>2. \E k \in Conflicts(e) : \A j \in Conflicts(e) : k <= j
    BY <1>2, <2>1, NatMin
  <2>3. FindConflict(e) \in Conflicts(e) /\ \A j \in Conflicts(e) : FindConflict(e) <= j
    BY <1>2, <2>2 DEF FindConflict
  <2>4. PICK k : k = FindConflict(e)
    OBVIOUS
  <2>5. k \in e.from..e.to /\ ~MatchTerm(k, e.term[k])
    BY <2>3, <2>4 DEF Conflicts
  <2>6. \A i \in e.from..k - 1 : MatchTerm(i, e.term[i])
    <3> SUFFICES ASSUME NEW i \in e.from..k - 1, i \in Conflicts(e) PROVE FALSE
      BY <2>5 DEF Conflicts
    <3> QED BY <2>3, <2>4, <2>5
  <2> QED BY <2>4, <2>5, <2>6
<1> QED BY <1>1, <1>2

\* A message of a leader that the log matches meets it at the first conflict,
\* above what is committed and at most one above the last index.
LEMMA ReceivesFacts ==
  ASSUME IInv, NEW t \in Terms, NEW prev \in Indexes, NEW to \in Indexes,
         Receives(t, prev, to)
  PROVE  LET e == Entries(t, prev + 1, to)
             k == FindConflict(e)
         IN
         /\ pending = NoSnapshot /\ e.to = to
         /\ k = 0 => \A i \in store.from..to : i <= LastIndex /\ EntryAt(i) = leaderLog[t][i]
         /\ k # 0 =>
              /\ k \in committed + 1..LastIndex + 1 /\ k <= to
              /\ Part(e, k, e.to) = Entries(t, k, to)
              /\ \A i \in store.from..k - 1 : EntryAt(i) = leaderLog[t][i]
<1> USE TypeFacts
<1>1. /\ up /\ t \in Leaders /\ committed <= prev /\ prev <= to
      /\ ~TermPanics(prev) /\ Term(prev) = leaderLog[t][prev]
  BY DEF Receives, MatchTerm
<1>2. t # 0
  BY <1>1 DEF Leaders
<1>3. pending = NoSnapshot
  <2> SUFFICES ASSUME pending # NoSnapshot PROVE FALSE
    OBVIOUS
  <2>1. prev > pending.index
    BY <1>1, PendingFacts DEF Indexes
  <2>2. Term(prev) = 0
    BY <2>1, PendingFacts DEF Indexes
  <2>3. prev # 0
    BY <2>1 DEF Indexes
  <2> QED BY <1>1, <1>2, <2>2, <2>3, LeaderLogFacts
<1>4. prev \in store.from..LastIndex /\ store.from <= committed
  <2>1. store.from <= committed
    BY DEF IInv, TailInv
  <2>2. prev <= LastIndex
    <3>1. prev = 0 => prev <= LastIndex
      BY <1>3, LogFacts
    <3>2. leaderLog[t][prev] = 0 => prev = 0
      BY <1>2, LeaderLogFacts
    <3> QED BY <1>1, <3>1, <3>2, LogFacts, <1>3 DEF Term, InRange, Indexes
  <2> QED BY <1>1, <2>1, <2>2 DEF Indexes
<1>5. \A i \in store.from..prev : EntryAt(i) = leaderLog[t][i]
  BY <1>1, <1>3, <1>4, LogFacts, MatchFacts
<1> DEFINE e == Entries(t, prev + 1, to)
<1>6. /\ e.from = prev + 1 /\ e.to = to
      /\ \A i \in prev + 1..to : e.term[i] = leaderLog[t][i]
      /\ \A k \in prev + 1..to : Part(e, k, to) = Entries(t, k, to)
  <2>1. /\ e.from = prev + 1 /\ e.to = to
        /\ \A i \in prev + 1..to : e.term[i] = leaderLog[t][i]
    BY DEF Entries, Segment
  <2>2. ASSUME NEW k \in prev + 1..to
        PROVE  [i \in k..to |-> e.term[i]] = [i \in k..to |-> leaderLog[t][i]]
    <3> HIDE DEF e
    <3> QED BY <2>1 DEF Indexes
  <2>3. \A k \in prev + 1..to : Part(e, k, to) = Entries(t, k, to)
    BY <2>2 DEF Part, Entries, Segment
  <2> QED BY <2>1, <2>3
<1>7. \A i \in prev + 1..to : MatchTerm(i, leaderLog[t][i]) =>
        i <= LastIndex /\ EntryAt(i) = leaderLog[t][i]
  <2> SUFFICES ASSUME NEW i \in prev + 1..to, MatchTerm(i, leaderLog[t][i])
               PROVE  i <= LastIndex /\ EntryAt(i) = leaderLog[t][i]
    OBVIOUS
  <2>1. i \in Indexes /\ leaderLog[t][i] # 0
    BY <1>1, <1>2, LeaderLogFacts DEF Indexes
  <2>2. i <= LastIndex
    BY <2>1, <1>3, LogFacts DEF MatchTerm, Term, InRange, Indexes
  <2> QED BY <2>1, <2>2, <1>3, <1>4, LogFacts DEF MatchTerm, Indexes
<1> HIDE DEF e
<1>8. \/ /\ FindConflict(e) = 0
          /\ \A i \in prev + 1..to : MatchTerm(i, leaderLog[t][i])
       \/ /\ FindConflict(e) \in prev + 1..to
          /\ \A i \in prev + 1..FindConflict(e) - 1 : MatchTerm(i, leaderLog[t][i])
  <2>1. e.from \in Nat \ {0} /\ e.to \in Int
    BY <1>6 DEF Indexes
  <2> QED BY <2>1, <1>6, FindConflictFacts DEF Indexes
<1>9. FindConflict(e) = 0 =>
        \A i \in store.from..to : i <= LastIndex /\ EntryAt(i) = leaderLog[t][i]
  BY <1>4, <1>5, <1>7, <1>8, LogFacts, <1>3 DEF Indexes
<1>10. ASSUME NEW k, k = FindConflict(e), k # 0
       PROVE  /\ k \in committed + 1..LastIndex + 1 /\ k <= to
              /\ Part(e, k, e.to) = Entries(t, k, to)
              /\ \A i \in store.from..k - 1 : EntryAt(i) = leaderLog[t][i]
  <2>1. /\ k \in prev + 1..to
        /\ \A i \in prev + 1..k - 1 : MatchTerm(i, leaderLog[t][i])
    BY <1>8, <1>10
  <2>2. \A i \in store.from..k - 1 : i <= LastIndex /\ EntryAt(i) = leaderLog[t][i]
    BY <1>4, <1>5, <1>7, <2>1, LogFacts, <1>3 DEF Indexes
  <2>3. k \in committed + 1..LastIndex + 1
    BY <1>1, <1>3, <1>4, <2>1, <2>2, LogFacts DEF Indexes
  <2> QED BY <1>6, <2>1, <2>2, <2>3 DEF Indexes
<1> QED BY <1>3, <1>6, <1>9, <1>10 DEF e

LEMMA MaybeAppendInv ==
  ASSUME IInv, NEW t \in Terms, NEW prev \in Indexes, NEW to \in Indexes,
         NEW c \in Indexes, MaybeAppend(t, prev, to, c)
  PROVE  IInv'
<1> USE TypeFacts
<1> DEFINE e == Entries(t, prev + 1, to)
           m == Lesser(c, to)
<1>1. /\ Receives(t, prev, to) /\ up /\ t \in Leaders
      /\ committed' = Greater(committed, m) /\ Choose(t, c) /\ unstable' = Appended(e)
      /\ ~MaybeAppendPanics(e)
      /\ UNCHANGED <<storeVars, pending, applied, ready, up, leaderLog>>
  BY DEF MaybeAppend, Receives, CommitTo
<1>2. m \in Indexes /\ m <= c /\ m <= to
  BY DEF Lesser, Indexes
<1>3. PICK k : k = FindConflict(e)
  OBVIOUS
<1>4. /\ pending = NoSnapshot /\ e.to = to
      /\ k = 0 => \A i \in store.from..to : i <= LastIndex /\ EntryAt(i) = leaderLog[t][i]
      /\ k # 0 =>
           /\ k \in committed + 1..LastIndex + 1 /\ k <= to
           /\ Part(e, k, e.to) = Entries(t, k, to)
           /\ \A i \in store.from..k - 1 : EntryAt(i) = leaderLog[t][i]
  BY <1>1, <1>3, ReceivesFacts
<1> HIDE DEF e, m
<1>5. CASE k = 0
  <2>1. UNCHANGED <<storeVars, unstable, pending, applied, ready, up, leaderLog>>
    BY <1>1, <1>3, <1>5 DEF Appended
  <2>2. m <= LastIndex /\ \A i \in store.from..m : EntryAt(i) = leaderLog[t][i]
    BY <1>2, <1>4, <1>5, LogFacts DEF Indexes
  <2> QED BY <1>1, <1>2, <1>4, <2>1, <2>2, CommitStep
<1>6. CASE k # 0
  <2>1. k \in committed + 1..LastIndex + 1 /\ to \in k..MaxIndex
    BY <1>4, <1>6, LogFacts DEF Indexes
  <2>2. /\ ~AppendPanics(unstable, Entries(t, k, to))
        /\ unstable' = TruncateAndAppend(unstable, Entries(t, k, to))
    BY <1>1, <1>3, <1>4, <1>6 DEF Appended, MaybeAppendPanics
  <2> QED BY <1>1, <1>2, <1>4, <1>6, <2>1, <2>2, ExtendStep
<1> QED BY <1>5, <1>6

\* A snapshot that replaces the log is ahead of what is committed.
LEMMA RestoreAhead ==
  ASSUME IInv, NEW t \in Terms, NEW s \in Indexes, Restore(t, s),
         ~MatchTerm(s, leaderLog[t][s])
  PROVE  s > committed
<1> USE TypeFacts, BoundFacts
<1>1. t \in Leaders /\ s >= committed /\ ~TermPanics(s)
  BY DEF Restore
<1> SUFFICES ASSUME s = committed PROVE FALSE
  BY <1>1 DEF Indexes
<1>2. pending = NoSnapshot
  BY <1>1, PendingFacts
<1>3. s \in store.from..LastIndex
  BY <1>2 DEF IInv, TailInv, Indexes
<1>4. IsChosen(s, EntryAt(s))
  BY <1>2, <1>3, CommittedFacts
<1>5. leaderLog[t][s] = leaderLog[chosen.term][s]
  BY <1>1 DEF Leaders, Indexes
<1> QED BY <1>2, <1>3, <1>4, <1>5, LogFacts DEF MatchTerm, IsChosen

LEMMA RestoreInv ==
  ASSUME IInv, NEW t \in Terms, NEW s \in Indexes, Restore(t, s)
  PROVE  IInv'
<1> USE TypeFacts, BoundFacts
<1>1. /\ up /\ t \in Leaders /\ s >= committed /\ s > 0 /\ ~TermPanics(s) /\ Choose(t, s)
      /\ UNCHANGED <<storeVars, applied, ready, up, leaderLog>>
  BY DEF Restore
<1>2. t # 0
  BY <1>1 DEF Leaders
<1>3. CASE MatchTerm(s, leaderLog[t][s])
  <2>1. leaderLog[t][s] # 0
    BY <1>1, <1>2, LeaderLogFacts
  <2>2. s <= LastIndex
    BY <1>3, <2>1 DEF MatchTerm, Term, InRange
  <2>3. pending = NoSnapshot
    BY <1>1, <2>2, PendingFacts DEF Indexes
  <2>4. s \in store.from..LastIndex
    BY <1>1, <2>2, <2>3, LogFacts DEF IInv, TailInv, Indexes
  <2>5. \A i \in store.from..s : EntryAt(i) = leaderLog[t][i]
    BY <1>3, <2>3, <2>4, LogFacts, MatchFacts DEF MatchTerm
  <2>6. committed' = Greater(committed, s) /\ unstable' = unstable /\ pending' = pending
    BY <1>3 DEF Restore, CommitTo
  <2> QED BY <1>1, <2>2, <2>3, <2>5, <2>6, CommitStep DEF Indexes
<1>4. CASE ~MatchTerm(s, leaderLog[t][s])
  <2>1. /\ unstable' = NoEntries(s) /\ committed' = s
        /\ pending' = [index |-> s, term |-> leaderLog[t][s]]
    BY <1>4 DEF Restore, RestoredUnstable
  <2>2. /\ store' = store /\ snapshot' = snapshot /\ hardCommit' = hardCommit
        /\ applied' = applied /\ ready' = ready /\ up' = up /\ leaderLog' = leaderLog
    BY <1>1 DEF storeVars
  <2>3. /\ IsSegment(unstable') /\ unstable'.from = s /\ unstable'.to = s - 1
        /\ IsEmpty(unstable')
    BY <2>1, NoEntriesFacts DEF Indexes
  <2>4. /\ pending'.index = s /\ pending'.term = leaderLog[t][s] /\ IsSnapshot(pending')
        /\ pending'.term \in Terms /\ pending' # NoSnapshot
    <3>1. leaderLog[t][s] \in Terms
      BY LeaderLogFacts
    <3> QED BY <1>1, <2>1, <3>1 DEF IsSnapshot, NoSnapshot, Terms, Indexes
  <2>5. s > committed
    BY <1>4, RestoreAhead
  <2>6. /\ chosen' \in [term : Terms, index : Indexes]
        /\ chosen.index <= chosen'.index /\ s <= chosen'.index
        /\ \A j \in 0..chosen.index : leaderLog[chosen'.term][j] = leaderLog[chosen.term][j]
        /\ leaderLog[t][s] = leaderLog[chosen'.term][s]
    BY <1>1, <2>2, ChooseFacts DEF IInv, TypeInv, Indexes
  <2>7. Secured' = Secured
    BY <2>2 DEF Secured
  <2>8. TypeInv'
    BY <2>1, <2>2, <2>3, <2>4, <2>6 DEF IInv, TypeInv, TypeOK, Within, Indexes
  <2>9. StoreInv'
    BY <2>2, <2>6 DEF IInv, StoreInv, Path, Agreed, IsChosen, Secured, Greater, Indexes
  <2>10. TailInv'
    <3>1. LastIndex' = s
      BY <2>3, <2>4 DEF LastIndex, MaybeLastIndex, NoIndex, Indexes
    <3>2. Path(unstable)' /\ Joins(store, unstable)' /\ Agreed(unstable, committed)'
      BY <2>2, <2>3 DEF Path, Joins, Agreed, IsEmpty, Indexes
    <3>3. /\ store.from <= committed /\ applied <= Secured /\ applied <= committed
          /\ hardCommit <= committed /\ Secured <= committed
      BY <1>1 DEF IInv, TailInv, Secured, Greater
    <3> QED BY <1>1, <2>1, <2>2, <2>3, <2>4, <2>5, <2>6, <2>7, <3>1, <3>2, <3>3
            DEF TailInv, IsChosen, Indexes
  <2>11. ReadyInv'
    <3>1. ReadyTaken'
      BY <2>1, <2>2, <2>5, <2>6, <2>7
      DEF IInv, ReadyInv, ReadyTaken, Path, Agreed, IsChosen, Indexes
    <3>2. ReadySnapshot'
      BY <2>2, <2>4, <2>5, <2>6, <2>7 DEF IInv, ReadyInv, ReadySnapshot, IsChosen, Indexes
    <3>3. ReadyAndTail' /\ ReadyToWrite' /\ ReadyWritten'
      BY <2>2, <2>4, <2>6, <2>7
      DEF IInv, ReadyInv, ReadyAndTail, ReadyToWrite, ReadyWritten, Joins, Agreed, IsChosen
    <3> QED BY <3>1, <3>2, <3>3 DEF ReadyInv
  <2> QED BY <1>1, <2>2, <2>8, <2>9, <2>10, <2>11 DEF IInv, DownInv
<1> QED BY <1>3, <1>4

LEMMA PanicInv ==
  ASSUME IInv, Panic
  PROVE  IInv'
<1> USE TypeFacts, BoundFacts
<1>1. /\ ~up' /\ store' = store /\ snapshot' = snapshot /\ hardCommit' = hardCommit
      /\ leaderLog' = leaderLog /\ chosen' = chosen /\ ready' = Idle /\ pending' = NoSnapshot
      /\ committed' = store.from /\ applied' = store.from
      /\ unstable' = NoEntries(store.to + 1)
  BY DEF Panic, New, StoreLast, StoreFirst, storeVars
<1>2. /\ IsSegment(unstable') /\ unstable'.from = store.to + 1 /\ unstable'.to = store.to
      /\ IsEmpty(unstable')
  BY <1>1, NoEntriesFacts
<1>3. /\ IsSegment(ready'.seg) /\ ready'.seg.from = 0 /\ ready'.seg.to = -1
      /\ ready'.phase = "idle" /\ ready'.snap = NoSnapshot /\ ready'.commit = 0
      /\ ready' = [phase |-> ready'.phase, seg |-> ready'.seg,
                    snap |-> ready'.snap, commit |-> ready'.commit]
  BY <1>1, NoEntriesFacts DEF Idle
<1>4. IsSnapshot(NoSnapshot) /\ NoSnapshot.index = 0 /\ NoSnapshot.term = 0
  BY DEF IsSnapshot, NoSnapshot
<1>5. Secured' = Secured
  BY <1>1 DEF Secured
<1>6. TypeInv'
  <2>1. TypeOK
    BY DEF IInv, TypeInv
  <2>2. up' \in BOOLEAN
    BY <1>1 DEF Panic
  <2>3. TypeOK'
    BY <1>1, <1>2, <1>3, <1>4, <2>1, <2>2 DEF TypeOK
  <2>4. Within(store)' /\ Within(unstable)' /\ Within(ready.seg)'
    BY <1>1, <1>2, <1>3 DEF Within
  <2> QED BY <1>1, <1>4, <2>3, <2>4 DEF TypeInv, Terms
<1>7. StoreInv'
  BY <1>1, <1>5 DEF IInv, StoreInv, Path, Agreed, IsChosen
<1>8. TailInv'
  <2>1. LastIndex' = store.to
    BY <1>1, <1>2 DEF LastIndex, MaybeLastIndex, StoreLast, NoIndex
  <2>2. IsChosen(store.from, store.term[store.from])
    BY DEF IInv, StoreInv, Agreed
  <2>3. Path(unstable)' /\ Joins(store, unstable)' /\ Agreed(unstable, committed)'
    BY <1>2 DEF Path, Joins, Agreed
  <2>4. \A i \in store.from..store.to :
          i <= store.from => store.term[i] = leaderLog[chosen.term][i]
    BY <2>2 DEF IsChosen
  <2>5. /\ store.from <= LastIndex' /\ store.from <= chosen'.index
        /\ store.from <= Secured'
    BY <1>1, <1>5, <2>1
  <2> QED BY <1>1, <1>2, <2>3, <2>4, <2>5 DEF TailInv, IsChosen
<1>9. ReadyInv'
  BY <1>1, <1>3, <1>4
  DEF ReadyInv, ReadyTaken, ReadySnapshot, ReadyAndTail, ReadyToWrite, ReadyWritten,
      Path, Agreed, IsEmpty
<1> QED BY <1>1, <1>2, <1>6, <1>7, <1>8, <1>9 DEF IInv, DownInv

\* The shape of ready.
LEMMA ReadyShape ==
  ASSUME IInv
  PROVE  /\ ready = [phase |-> ready.phase, seg |-> ready.seg,
                     snap |-> ready.snap, commit |-> ready.commit]
         /\ ready.phase \in {"idle", "snapshot", "entries", "hardState", "advance"}
         /\ IsSnapshot(ready.snap) /\ IsSnapshot(pending) /\ IsSnapshot(snapshot)
         /\ up \in BOOLEAN /\ TypeOK
BY DEF IInv, TypeInv, TypeOK

LEMMA ProceedFacts ==
  ASSUME IInv, NEW from, NEW to, Proceed(from, to)
  PROVE  /\ ready.phase = from /\ ready'.phase = to /\ ready'.seg = ready.seg
         /\ ready'.snap = ready.snap /\ ready'.commit = ready.commit
         /\ ready' = [phase |-> ready'.phase, seg |-> ready'.seg,
                      snap |-> ready'.snap, commit |-> ready'.commit]
BY ReadyShape DEF Proceed

LEMMA TakeReadyInv ==
  ASSUME IInv, TakeReady
  PROVE  IInv'
<1> USE TypeFacts, BoundFacts
<1>1. /\ up /\ ready.phase = "idle" /\ store' = store /\ snapshot' = snapshot
      /\ hardCommit' = hardCommit /\ unstable' = unstable /\ pending' = pending
      /\ committed' = committed /\ applied' = applied /\ up' = up
      /\ leaderLog' = leaderLog /\ chosen' = chosen
  BY DEF TakeReady, storeVars, logVars
<1>2. /\ ready' = [phase |-> ready'.phase, seg |-> ready'.seg,
                   snap |-> ready'.snap, commit |-> ready'.commit]
      /\ ready'.phase = (IF pending = NoSnapshot THEN "entries" ELSE "snapshot")
      /\ ready'.seg = unstable /\ ready'.snap = pending /\ ready'.commit = committed
  BY DEF TakeReady
<1>3. ready = Idle /\ ready.snap = NoSnapshot
  BY <1>1 DEF IInv, ReadyInv, ReadyTaken, Idle
<1>4. Secured' = Secured /\ LastIndex' = LastIndex
  BY <1>1 DEF Secured, LastIndex
<1>5. TypeInv'
  BY <1>1, <1>2, ReadyShape DEF IInv, TypeInv, TypeOK, Within
<1>6. StoreInv'
  BY <1>1, <1>4 DEF IInv, StoreInv, Path, Agreed, IsChosen
<1>7. TailInv'
  BY <1>1, <1>2, <1>3, <1>4 DEF IInv, TailInv, Path, Joins, Agreed, IsChosen
<1>8. Secured <= committed
  BY <1>1 DEF Secured, Greater, IInv, TailInv
<1>9. ReadyTaken'
  <2>1. Path(unstable) /\ Agreed(unstable, committed)
    BY DEF IInv, TailInv
  <2>2. ~IsEmpty(unstable) => committed <= unstable.to
    <3>1. committed <= LastIndex
      BY DEF IInv, TailInv
    <3> QED BY <3>1 DEF LastIndex, MaybeLastIndex, NoIndex, IsEmpty
  <2> QED BY <1>1, <1>2, <1>4, <1>8, <2>1, <2>2
          DEF ReadyTaken, Path, Agreed, IsChosen
<1>10. ReadySnapshot'
  BY <1>1, <1>2, <1>3, <1>4 DEF ReadySnapshot, IInv, TailInv, IsChosen
<1>11. ReadyAndTail'
  <2>1. ~IsEmpty(unstable) => StableMatches(unstable, pending, unstable.to, unstable.term[unstable.to])
    BY DEF StableMatches, MaybeTerm, IsEmpty
  <2> QED BY <1>1, <1>2, <2>1 DEF ReadyAndTail
<1>12. ReadyToWrite'
  BY <1>1, <1>2, <1>4 DEF ReadyToWrite, IInv, TailInv, Joins, IsChosen
<1>13. ReadyWritten'
  <2>1. pending = NoSnapshot /\ IsEmpty(unstable) => committed <= store.to /\ Agreed(store, committed)
    BY LogFacts DEF IInv, TailInv, Agreed
  <2> QED BY <1>1, <1>2, <2>1 DEF ReadyWritten, Agreed, IsChosen
<1> QED BY <1>1, <1>5, <1>6, <1>7, <1>9, <1>10, <1>11, <1>12, <1>13 DEF IInv, ReadyInv, DownInv

LEMMA ApplySnapshotInv ==
  ASSUME IInv, ApplySnapshot
  PROVE  IInv'
<1> USE TypeFacts, BoundFacts
<1>1. /\ up /\ hardCommit' = hardCommit /\ unstable' = unstable /\ pending' = pending
      /\ committed' = committed /\ applied' = applied /\ up' = up
      /\ leaderLog' = leaderLog /\ chosen' = chosen /\ Proceed("snapshot", "entries")
  BY DEF ApplySnapshot, logVars
<1>2. /\ ready.phase = "snapshot" /\ ready'.phase = "entries" /\ ready'.seg = ready.seg
      /\ ready'.snap = ready.snap /\ ready'.commit = ready.commit
      /\ ready' = [phase |-> ready'.phase, seg |-> ready'.seg,
                   snap |-> ready'.snap, commit |-> ready'.commit]
  BY <1>1, ProceedFacts
<1> DEFINE n == ready.snap.index
<1>3. /\ ready.snap # NoSnapshot /\ n > Secured /\ IsEmpty(ready.seg) /\ ready.seg.from = n
      /\ n = ready.commit /\ IsChosen(n, ready.snap.term)
      /\ pending = ready.snap \/ pending.index > n
  BY <1>2 DEF IInv, ReadyInv, ReadySnapshot
<1>4. snapshot.index <= Secured
  BY DEF IInv, StoreInv
<1>5. store' = SnapshotStore(ready.snap) /\ snapshot' = ready.snap
  BY <1>3, <1>4 DEF ApplySnapshot
<1>6. /\ IsSegment(store') /\ store'.from = n /\ store'.to = n /\ ~IsEmpty(store')
      /\ store'.term[n] = ready.snap.term
  BY <1>5, SnapshotStoreFacts
<1>7. Secured' = n
  BY <1>1, <1>3, <1>6 DEF Secured, Greater
<1>8. n <= MaxIndex /\ ready.snap.term \in Terms
  <2>1. n \in Indexes /\ chosen.term \in Terms
    BY <1>3 DEF Indexes
  <2>2. leaderLog[chosen.term][n] \in Terms
    BY <2>1, LeaderLogFacts
  <2> QED BY <1>3, <2>2 DEF IsChosen
<1>9. /\ IsEmpty(unstable) /\ unstable.from = pending.index /\ committed = pending.index
      /\ pending # NoSnapshot
  <2>1. pending # NoSnapshot
    BY <1>3 DEF NoSnapshot
  <2> QED BY <2>1 DEF IInv, TailInv
<1>10. TypeInv'
  <2>1. Within(store)' /\ Within(unstable)' /\ Within(ready.seg)'
    BY <1>1, <1>2, <1>6, <1>8 DEF Within
  <2>2. pending.index <= MaxIndex /\ pending.term \in Terms
    BY DEF IInv, TypeInv
  <2>3. TypeOK'
    BY <1>1, <1>2, <1>5, <1>6, ReadyShape DEF TypeOK
  <2> QED BY <1>1, <2>1, <2>2, <2>3 DEF TypeInv
<1>11. StoreInv'
  <2>1. n <= chosen.index /\ hardCommit <= n
    BY <1>3
  <2>2. Path(store)' /\ Agreed(store, Secured)'
    BY <1>1, <1>3, <1>6, <1>8, LeaderLogFacts DEF Path, Agreed, IsChosen, Indexes
  <2> QED BY <1>1, <1>3, <1>5, <1>6, <1>7, <2>1, <2>2 DEF StoreInv, IsChosen
<1>12. TailInv'
  <2>1. LastIndex' = LastIndex /\ LastIndex = pending.index
    BY <1>1, <1>9 DEF LastIndex, MaybeLastIndex, NoIndex
  <2>2. Path(unstable)' /\ Joins(store, unstable)' /\ Agreed(unstable, committed)'
    BY <1>1, <1>9 DEF Path, Joins, Agreed, IsEmpty
  <2>3. /\ applied <= Secured /\ applied <= committed /\ hardCommit <= committed
        /\ pending.index > 0 /\ IsChosen(pending.index, pending.term)
        /\ ready.snap # pending => pending.index > ready.commit
    BY <1>1, <1>9 DEF IInv, TailInv
  <2> QED BY <1>1, <1>2, <1>3, <1>6, <1>7, <1>9, <2>1, <2>2, <2>3 DEF TailInv, IsChosen
<1>13. ReadyTaken'
  BY <1>1, <1>2, <1>3, <1>7 DEF IInv, ReadyInv, ReadyTaken, Path, Agreed, IsChosen
<1>14. ReadySnapshot'
  BY <1>1, <1>2, <1>3, <1>5, <1>6, <1>7 DEF ReadySnapshot, IsChosen
<1>15. ReadyAndTail' /\ ReadyToWrite'
  BY <1>1, <1>2, <1>3, <1>9 DEF ReadyAndTail, ReadyToWrite
<1>16. ReadyWritten'
  BY <1>1, <1>2, <1>3, <1>6 DEF ReadyWritten, Agreed, IsChosen
<1> QED BY <1>1, <1>10, <1>11, <1>12, <1>13, <1>14, <1>15, <1>16 DEF IInv, ReadyInv, DownInv

\* What is written takes the place of what is stored from some k on.
LEMMA WrittenFacts ==
  ASSUME IInv, Truncating, AppendToStore, ~IsEmpty(ready.seg)
  PROVE  \E k \in Nat :
           /\ store.from < k /\ k <= ready.seg.to /\ ready.seg.from <= k
           /\ k <= store.to + 1
           /\ k = ready.seg.from \/ (k = store.from + 1 /\ ready.seg.from <= store.from)
           /\ IsSegment(store') /\ store'.from = store.from /\ store'.to = ready.seg.to
           /\ \A i \in store.from..ready.seg.to :
                store'.term[i] = IF i < k THEN store.term[i] ELSE ready.seg.term[i]
<1> USE TypeFacts, BoundFacts
<1> DEFINE seg == ready.seg
           k == Greater(seg.from, store.from + 1)
<1>1. ready.phase = "entries" /\ store' = StoreAppend(store, seg)
  BY DEF AppendToStore, Proceed
<1>2. seg.from <= store.to + 1 /\ seg.to > Secured
  BY <1>1 DEF IInv, ReadyInv, ReadyToWrite
<1>3. /\ k \in Nat /\ store.from < k /\ k <= seg.to /\ seg.from <= k /\ k <= store.to + 1
      /\ k = seg.from \/ (k = store.from + 1 /\ seg.from <= store.from)
  BY <1>2 DEF Greater, IsEmpty
<1>4. store' = Splice(store, Part(seg, k, seg.to))
  BY <1>1, <1>2 DEF StoreAppend, NothingNew, Fresh, StoreFirst
<1> HIDE DEF k
<1>5. PICK p : p = Part(seg, k, seg.to)
  OBVIOUS
<1>6. /\ IsSegment(p) /\ p.from = k /\ p.to = seg.to
      /\ \A i \in k..seg.to : p.term[i] = seg.term[i]
  <2>1. IsSegment(seg) /\ seg.to \in Nat \cup {-1}
    OBVIOUS
  <2>2. k \in Nat /\ seg.from <= k /\ seg.to <= seg.to /\ k <= seg.to + 1
    BY <1>3, <2>1
  <2>3. /\ IsSegment(Part(seg, k, seg.to)) /\ Part(seg, k, seg.to).from = k
        /\ Part(seg, k, seg.to).to = seg.to
        /\ \A i \in k..seg.to : Part(seg, k, seg.to).term[i] = seg.term[i]
    BY <2>1, <2>2, PartFacts
  <2> QED BY <1>5, <2>3
<1>7. store' = Splice(store, p) /\ store.from <= p.from /\ p.from <= store.to + 1
      /\ p.from <= p.to
  BY <1>3, <1>4, <1>5, <1>6
<1>8. /\ IsSegment(store') /\ store'.from = store.from /\ store'.to = p.to
      /\ \A i \in store.from..p.to :
           store'.term[i] = IF i < p.from THEN store.term[i] ELSE p.term[i]
  BY <1>6, <1>7, SpliceFacts
<1>9. \A i \in store.from..seg.to :
        store'.term[i] = IF i < k THEN store.term[i] ELSE seg.term[i]
  BY <1>3, <1>6, <1>8
<1> QED BY <1>3, <1>6, <1>8, <1>9

LEMMA AppendToStoreInv ==
  ASSUME IInv, Truncating, AppendToStore
  PROVE  IInv'
<1> USE TypeFacts, BoundFacts
<1> DEFINE seg == ready.seg
<1>1. /\ up /\ hardCommit' = hardCommit /\ unstable' = unstable /\ pending' = pending
      /\ committed' = committed /\ applied' = applied /\ up' = up /\ snapshot' = snapshot
      /\ leaderLog' = leaderLog /\ chosen' = chosen /\ Proceed("entries", "hardState")
      /\ store' = StoreAppend(store, seg)
  BY DEF AppendToStore, logVars
<1>2. /\ ready.phase = "entries" /\ ready'.phase = "hardState" /\ ready'.seg = seg
      /\ ready'.snap = ready.snap /\ ready'.commit = ready.commit
      /\ ready' = [phase |-> ready'.phase, seg |-> ready'.seg,
                   snap |-> ready'.snap, commit |-> ready'.commit]
  BY <1>1, ProceedFacts
<1>3. CASE IsEmpty(seg)
  <2>1. store' = store
    BY <1>1, <1>3 DEF StoreAppend, NothingNew
  <2>2. Secured' = Secured /\ LastIndex' = LastIndex
    BY <1>1, <2>1 DEF Secured, LastIndex
  <2>3. TypeInv'
    BY <1>1, <1>2, <2>1, ReadyShape DEF IInv, TypeInv, TypeOK, Within
  <2>4. StoreInv'
    BY <1>1, <2>1, <2>2 DEF IInv, StoreInv, Path, Agreed, IsChosen
  <2>5. TailInv'
    BY <1>1, <1>2, <2>1, <2>2 DEF IInv, TailInv, Path, Joins, Agreed, IsChosen
  <2>6. ReadyTaken' /\ ReadyAndTail'
    BY <1>1, <1>2, <2>2
    DEF IInv, ReadyInv, ReadyTaken, ReadyAndTail, Path, Agreed, IsChosen
  <2>7. ReadySnapshot' /\ ReadyToWrite' /\ ReadyWritten'
    BY <1>1, <1>2, <1>3, <2>1
    DEF IInv, ReadyInv, ReadySnapshot, ReadyToWrite, ReadyWritten, Agreed, IsChosen
  <2> QED BY <1>1, <2>3, <2>4, <2>5, <2>6, <2>7 DEF IInv, ReadyInv, DownInv
<1>4. CASE ~IsEmpty(seg)
  <2>1. /\ Joins(store, seg) /\ seg.from <= store.to + 1 /\ seg.to > Secured
        /\ \A i \in store.from..store.to :
             i < seg.from /\ i <= ready.commit => IsChosen(i, store.term[i])
    BY <1>2, <1>4 DEF IInv, ReadyInv, ReadyToWrite
  <2>2. /\ Path(seg) /\ Agreed(seg, ready.commit) /\ Secured <= ready.commit
        /\ ready.commit <= seg.to
    BY <1>2, <1>4 DEF IInv, ReadyInv, ReadyTaken
  <2>3. ready.snap = NoSnapshot
    BY <1>4 DEF IInv, ReadyInv, ReadySnapshot
  <2> HIDE DEF seg
  <2>4. PICK k \in Nat :
          /\ store.from < k /\ k <= seg.to /\ seg.from <= k /\ k <= store.to + 1
          /\ k = seg.from \/ (k = store.from + 1 /\ seg.from <= store.from)
          /\ IsSegment(store') /\ store'.from = store.from /\ store'.to = seg.to
          /\ \A i \in store.from..seg.to :
               store'.term[i] = IF i < k THEN store.term[i] ELSE seg.term[i]
    BY <1>4, WrittenFacts DEF seg
  <2>6. /\ IsSegment(store') /\ store'.from = store.from /\ store'.to = seg.to
        /\ \A i \in store.from..seg.to :
             store'.term[i] = IF i < k THEN store.term[i] ELSE seg.term[i]
    BY <2>4
  <2>7. Secured' = Secured
    BY <1>1, <2>6 DEF Secured
  <2>8. \A i \in store.from..seg.to : store'.term[i] \in Terms
    BY <2>4, <2>6 DEF seg
  <2>9. TypeInv'
    <3>1. ~IsEmpty(store)'
      BY <2>4, <2>6 DEF IsEmpty, seg
    <3>2. TypeOK'
      BY <1>1, <1>2, <2>6, <3>1, ReadyShape DEF TypeOK, seg
    <3>3. Within(store)' /\ Within(unstable)' /\ Within(ready.seg)'
      BY <1>1, <1>2, <2>6, <2>8 DEF Within, seg
    <3> QED BY <1>1, <3>2, <3>3 DEF IInv, TypeInv
  \* The entries below k are those the entries taken have before them.
  <2>10. Path(store)'
    <3> SUFFICES ASSUME NEW i \in store.from..seg.to, NEW j \in store.from..i
                 PROVE  store'.term[j] = leaderLog[store'.term[i]][j]
      BY <1>1, <2>6 DEF Path
    <3>1. CASE i < k
      BY <2>4, <2>6, <3>1 DEF IInv, StoreInv, Path, seg
    <3>2. CASE i >= k /\ j >= k
      BY <2>2, <2>4, <2>6, <3>2 DEF Path, seg
    <3>3. CASE i >= k /\ j < k
      <4>1. store'.term[i] = seg.term[i] /\ i \in seg.from..seg.to
        BY <2>4, <2>6, <3>3 DEF seg
      <4>2. store'.term[j] = store.term[j] /\ j \in store.from..store.to
        BY <2>4, <2>6, <3>3 DEF seg
      <4>3. CASE j < seg.from
        BY <2>1, <4>1, <4>2, <4>3 DEF Joins
      <4>4. CASE j >= seg.from
        <5>1. j = store.from /\ j <= Secured
          BY <2>4, <3>3, <4>4 DEF seg
        <5>2. store.term[j] = leaderLog[chosen.term][j]
          BY <4>2, <5>1 DEF IInv, StoreInv, Agreed, IsChosen
        <5>3. j \in seg.from..seg.to /\ j <= ready.commit
          BY <2>2, <4>1, <4>4, <5>1 DEF seg
        <5>4. seg.term[j] = leaderLog[chosen.term][j]
          BY <2>2, <5>3 DEF Agreed, IsChosen
        <5>5. seg.term[j] = leaderLog[seg.term[i]][j]
          BY <2>2, <4>1, <5>3 DEF Path, seg
        <5> QED BY <4>1, <4>2, <5>2, <5>4, <5>5
      <4> QED BY <4>2, <4>3, <4>4 DEF seg
    <3> QED BY <2>4, <3>1, <3>2, <3>3 DEF seg
  <2>11. \A i \in store.from..seg.to : i <= ready.commit => IsChosen(i, store'.term[i])
    <3> SUFFICES ASSUME NEW i \in store.from..seg.to, i <= ready.commit
                 PROVE  IsChosen(i, store'.term[i])
      OBVIOUS
    <3>1. CASE i >= k
      BY <2>2, <2>4, <2>6, <3>1 DEF Agreed, seg
    <3>2. CASE i < k /\ i < seg.from
      BY <2>1, <2>4, <2>6, <3>2 DEF seg
    <3>3. CASE i < k /\ i >= seg.from
      <4>1. i = store.from /\ store'.term[i] = store.term[i]
        BY <2>4, <2>6, <3>3 DEF seg
      <4> QED BY <4>1 DEF IInv, StoreInv, Agreed
    <3> QED BY <2>4, <3>1, <3>2, <3>3 DEF seg
  <2>12. StoreInv'
    <3>1. Agreed(store, Secured)'
      BY <1>1, <2>2, <2>6, <2>7, <2>11 DEF Agreed, IsChosen, seg
    <3>2. hardCommit <= seg.to
      BY <2>2 DEF seg
    <3> QED BY <1>1, <2>6, <2>7, <2>10, <3>1, <3>2 DEF IInv, StoreInv, IsChosen
  <2>13. TailInv'
    <3>1. /\ pending = NoSnapshot =>
               unstable.from <= seg.from /\ ~IsEmpty(unstable)
      BY <1>2, <1>4 DEF IInv, ReadyInv, ReadyAndTail, seg
    <3>2. pending # NoSnapshot => IsEmpty(unstable)
      BY DEF IInv, TailInv
    <3>3. LastIndex' = LastIndex
      BY <1>1, <3>1 DEF LastIndex, MaybeLastIndex, NoIndex, IsEmpty
    <3>4. \A i \in store.from..seg.to : pending = NoSnapshot /\ i < unstable.from =>
            i \in store.from..store.to /\ store'.term[i] = store.term[i]
      BY <2>4, <2>6, <3>1 DEF seg
    <3>5. Joins(store, unstable)'
      <4>1. Joins(store, unstable)
        BY DEF IInv, TailInv
      <4> QED BY <1>1, <2>6, <3>2, <3>4, <4>1 DEF Joins, IsEmpty
    <3>6. pending = NoSnapshot => unstable.from <= seg.to + 1
      BY <3>1 DEF seg
    <3>7. Path(unstable)' /\ Agreed(unstable, committed)'
      BY <1>1 DEF IInv, TailInv, Path, Agreed, IsChosen
    <3>8. pending = NoSnapshot =>
            \A i \in store.from..seg.to :
               i <= committed /\ i < unstable.from => IsChosen(i, store'.term[i])
      BY <3>4 DEF IInv, TailInv
    <3>9. /\ store.from <= committed /\ committed <= LastIndex
          /\ applied <= Secured /\ applied <= committed /\ hardCommit <= committed
          /\ ~IsEmpty(unstable) => unstable.to > Secured
          /\ pending # NoSnapshot =>
               /\ IsEmpty(unstable) /\ unstable.from = pending.index
               /\ committed = pending.index /\ pending.index > 0
               /\ IsChosen(pending.index, pending.term)
               /\ ready.snap # pending => pending.index > Secured
               /\ ready.snap # pending => pending.index > ready.commit
      BY <1>1, <1>2 DEF IInv, TailInv
    <3>10. pending # NoSnapshot => ready.snap # pending
      BY <2>3
    <3> QED BY <1>1, <1>2, <2>6, <2>7, <3>1, <3>3, <3>5, <3>6, <3>7, <3>8, <3>9, <3>10
            DEF TailInv, IsChosen
  <2>14. ReadyTaken' /\ ReadyAndTail'
    BY <1>1, <1>2, <2>7
    DEF IInv, ReadyInv, ReadyTaken, ReadyAndTail, Path, Agreed, IsChosen, seg
  <2>15. ReadySnapshot' /\ ReadyToWrite'
    BY <1>2, <2>3 DEF ReadySnapshot, ReadyToWrite
  <2>16. ReadyWritten'
    <3>1. Agreed(store, ready.commit)'
      BY <1>1, <1>2, <2>6, <2>11 DEF Agreed, IsChosen
    <3>2. store'.term[seg.to] = seg.term[seg.to]
      BY <2>4, <2>6 DEF seg
    <3> QED BY <1>2, <2>2, <2>6, <3>1, <3>2 DEF ReadyWritten
  <2> QED BY <1>1, <2>9, <2>12, <2>13, <2>14, <2>15, <2>16 DEF IInv, ReadyInv, DownInv
<1> QED BY <1>3, <1>4

LEMMA SetHardStateInv ==
  ASSUME IInv, SetHardState
  PROVE  IInv'
<1> USE TypeFacts, BoundFacts
<1>1. /\ up /\ hardCommit' = ready.commit /\ unstable' = unstable /\ pending' = pending
      /\ committed' = committed /\ applied' = applied /\ up' = up /\ snapshot' = snapshot
      /\ leaderLog' = leaderLog /\ chosen' = chosen /\ store' = store
      /\ Proceed("hardState", "advance")
  BY DEF SetHardState, logVars
<1>2. /\ ready.phase = "hardState" /\ ready'.phase = "advance" /\ ready'.seg = ready.seg
      /\ ready'.snap = ready.snap /\ ready'.commit = ready.commit
      /\ ready' = [phase |-> ready'.phase, seg |-> ready'.seg,
                   snap |-> ready'.snap, commit |-> ready'.commit]
  BY <1>1, ProceedFacts
<1>3. /\ ready.commit <= store.to /\ Agreed(store, ready.commit)
      /\ Secured <= ready.commit
  BY <1>2 DEF IInv, ReadyInv, ReadyTaken, ReadyWritten
<1>4. Secured' = ready.commit /\ LastIndex' = LastIndex
  BY <1>1, <1>3 DEF Secured, Greater, LastIndex
<1>5. TypeInv'
  BY <1>1, <1>2, ReadyShape DEF IInv, TypeInv, TypeOK, Within
<1>6. StoreInv'
  <2>1. Path(store) /\ snapshot.index <= Secured /\ IsChosen(snapshot.index, snapshot.term)
    BY DEF IInv, StoreInv
  <2> QED BY <1>1, <1>3, <1>4, <2>1 DEF StoreInv, Path, Agreed, IsChosen
<1>7. TailInv'
  <2>1. Path(unstable)' /\ Joins(store, unstable)' /\ Agreed(unstable, committed)'
    BY <1>1 DEF IInv, TailInv, Path, Joins, Agreed, IsChosen
  <2>2. /\ store.from <= committed /\ committed <= LastIndex
        /\ applied <= Secured /\ applied <= committed
    BY DEF IInv, TailInv
  <2>3. CASE pending = NoSnapshot
    BY <1>1, <1>2, <1>3, <1>4, <2>1, <2>2, <2>3 DEF IInv, TailInv, IsChosen
  <2>4. CASE pending # NoSnapshot
    <3>1. ready.snap # pending => pending.index > ready.commit
      BY <2>4 DEF IInv, TailInv
    <3> QED BY <1>1, <1>2, <1>3, <1>4, <2>1, <2>2, <2>4, <3>1 DEF IInv, TailInv, IsChosen
  <2> QED BY <2>3, <2>4
<1>8. ReadyTaken' /\ ReadyAndTail'
  BY <1>1, <1>2, <1>4
  DEF IInv, ReadyInv, ReadyTaken, ReadyAndTail, Path, Agreed, IsChosen
<1>9. ReadySnapshot' /\ ReadyToWrite' /\ ReadyWritten'
  BY <1>1, <1>2
  DEF IInv, ReadyInv, ReadySnapshot, ReadyToWrite, ReadyWritten, Agreed, IsChosen
<1> QED BY <1>1, <1>5, <1>6, <1>7, <1>8, <1>9 DEF IInv, ReadyInv, DownInv

\* The step of Advance, once it is known what it leaves of the tail.
LEMMA AdvanceStep ==
  ASSUME IInv, Advance, IsSegment(unstable'), Within(unstable)',
         pending' \in {pending, NoSnapshot}, TailInv'
  PROVE  IInv'
<1> USE TypeFacts, BoundFacts
<1>1. /\ up /\ hardCommit' = hardCommit /\ ready' = Idle
      /\ committed' = committed /\ applied' = applied /\ up' = up /\ snapshot' = snapshot
      /\ leaderLog' = leaderLog /\ chosen' = chosen /\ store' = store
  BY DEF Advance, storeVars
<1>2. /\ IsSegment(NoEntries(0)) /\ NoEntries(0).from = 0 /\ NoEntries(0).to = -1
      /\ IsSnapshot(NoSnapshot) /\ NoSnapshot.index = 0 /\ NoSnapshot.term = 0
  BY NoEntriesFacts DEF IsSnapshot, NoSnapshot
<1>3. /\ ready'.phase = "idle" /\ ready'.seg = NoEntries(0) /\ ready'.snap = NoSnapshot
      /\ ready'.commit = 0
      /\ ready' = [phase |-> ready'.phase, seg |-> ready'.seg,
                   snap |-> ready'.snap, commit |-> ready'.commit]
  BY <1>1 DEF Idle
<1>4. TypeInv'
  <2>1. TypeOK'
    BY <1>1, <1>2, <1>3, ReadyShape DEF TypeOK
  <2>2. Within(store)' /\ Within(ready.seg)'
    BY <1>1, <1>2, <1>3 DEF Within
  <2>3. /\ pending.index <= MaxIndex /\ pending.term \in Terms /\ 0 \in Terms
    BY DEF IInv, TypeInv, Terms
  <2> QED BY <1>2, <2>1, <2>2, <2>3 DEF TypeInv
<1>5. StoreInv'
  <2>1. Secured' = Secured
    BY <1>1 DEF Secured
  <2> QED BY <1>1, <2>1 DEF IInv, StoreInv, Path, Agreed, IsChosen
<1>6. ReadyInv'
  BY <1>1, <1>2, <1>3
  DEF ReadyInv, ReadyTaken, ReadySnapshot, ReadyAndTail, ReadyToWrite, ReadyWritten,
      Path, Agreed, IsEmpty
<1> QED BY <1>1, <1>4, <1>5, <1>6 DEF IInv, DownInv

\* With a snapshot pending the tail stays, and so does the snapshot unless the
\* storage is what it makes of it.
LEMMA SnapshotAdvances ==
  ASSUME IInv, Advance, pending # NoSnapshot
  PROVE  /\ unstable' = unstable
         /\ ready.snap # pending => pending' = pending
         /\ ready.snap = pending =>
              /\ pending' = NoSnapshot
              /\ store.from = pending.index /\ store.to = pending.index
              /\ snapshot.index = pending.index /\ ready.commit = pending.index
<1> USE TypeFacts
<1> DEFINE seg == ready.seg
<1>1. /\ ready.phase = "advance"
      /\ unstable' = IF IsEmpty(seg) THEN unstable
                     ELSE StableTo(unstable, pending, seg.to, seg.term[seg.to])
      /\ pending' = IF ready.snap = NoSnapshot THEN pending
                    ELSE StableSnapshotTo(pending, ready.snap.index)
  BY DEF Advance
<1>2. unstable' = unstable
  <2>1. CASE IsEmpty(seg)
    BY <1>1, <2>1
  <2>2. CASE ~IsEmpty(seg)
    <3>1. seg.term[seg.to] \in Nat
      BY <2>2 DEF IsEmpty, Terms
    <3>2. IsEmpty(unstable) /\ unstable.from = pending.index
      BY DEF IInv, TailInv
    <3>3. ~StableMatches(unstable, pending, seg.to, seg.term[seg.to])
      BY <3>1, <3>2 DEF StableMatches, MaybeTerm, NoTerm, IsEmpty
    <3> QED BY <1>1, <2>2, <3>3 DEF StableTo
  <2> QED BY <2>1, <2>2
<1>3. CASE ready.snap = pending
  BY <1>1, <1>2, <1>3 DEF StableSnapshotTo, IInv, ReadyInv, ReadySnapshot
<1>4. CASE ready.snap # pending
  <2>1. ready.snap # NoSnapshot => pending.index > ready.snap.index
    BY <1>4 DEF IInv, ReadyInv, ReadySnapshot
  <2> QED BY <1>1, <1>2, <1>4, <2>1 DEF StableSnapshotTo
<1> QED BY <1>3, <1>4

\* stable_to() that finds the entry forgets the tail up to the end of the
\* storage, which has the log's entries in the place of those forgotten.
LEMMA TailAdvances ==
  ASSUME IInv, Advance, pending = NoSnapshot, ~IsEmpty(ready.seg),
         StableMatches(unstable, pending, ready.seg.to, ready.seg.term[ready.seg.to])
  PROVE  /\ store.to = ready.seg.to /\ InTail(store.to)
         /\ IsSegment(unstable') /\ unstable'.from = store.to + 1
         /\ unstable'.to = unstable.to
         /\ \A i \in store.to + 1..unstable.to : unstable'.term[i] = unstable.term[i]
         /\ LastIndex = unstable.to
         /\ \A i \in store.from..store.to :
              EntryAt(i) = store.term[i] /\ i \in store.from..LastIndex
<1> USE TypeFacts, BoundFacts
<1> DEFINE seg == ready.seg
<1>1. /\ ready.phase = "advance"
      /\ unstable' = StableTo(unstable, pending, seg.to, seg.term[seg.to])
  BY DEF Advance
<1>2. store.to = seg.to /\ store.term[store.to] = seg.term[seg.to]
  BY <1>1 DEF IInv, ReadyInv, ReadyWritten
<1>3. /\ InTail(store.to) /\ unstable.term[store.to] = store.term[store.to]
  <2>1. MaybeTerm(unstable, pending, seg.to) = seg.term[seg.to] /\ seg.to >= unstable.from
    BY DEF StableMatches
  <2>2. seg.term[seg.to] \in Nat
    BY DEF IsEmpty, Terms
  <2> QED BY <1>2, <2>1, <2>2 DEF MaybeTerm, InTail, NoTerm
<1>4. unstable' = Part(unstable, store.to + 1, unstable.to)
  BY <1>1, <1>2 DEF StableTo
<1>5. PICK k : k = store.to + 1
  OBVIOUS
<1>6. /\ k \in Nat /\ unstable.from <= k /\ k <= unstable.to + 1 /\ k = store.to + 1
  BY <1>3, <1>5 DEF InTail
<1>7. /\ IsSegment(unstable') /\ unstable'.from = k /\ unstable'.to = unstable.to
      /\ \A i \in k..unstable.to : unstable'.term[i] = unstable.term[i]
  <2>1. unstable' = Part(unstable, k, unstable.to)
    BY <1>4, <1>6
  <2>2. IsSegment(unstable) /\ unstable.to \in Nat \cup {-1}
    OBVIOUS
  <2>. HIDE TypeFacts, BoundFacts
  <2>3. LET p == Part(unstable, k, unstable.to) IN
        /\ IsSegment(p) /\ p.from = k /\ p.to = unstable.to
        /\ \A i \in k..unstable.to : p.term[i] = unstable.term[i]
    BY <1>6, <2>2, PartFacts
  <2> QED BY <2>1, <2>3
<1>8. LastIndex = unstable.to
  BY <1>3, LogFacts DEF InTail, IsEmpty
<1>9. ASSUME NEW i \in store.from..store.to
      PROVE  EntryAt(i) = store.term[i] /\ i \in store.from..LastIndex
  <2>1. store.to \in store.from..LastIndex
    BY <1>3, <1>8 DEF InTail
  <2>2. EntryAt(i) = leaderLog[EntryAt(store.to)][i]
    BY <2>1, WholePath
  <2>3. store.term[i] = leaderLog[store.term[store.to]][i]
    BY DEF IInv, StoreInv, Path
  <2>4. EntryAt(store.to) = store.term[store.to]
    BY <1>3 DEF EntryAt
  <2>5. EntryAt(i) = store.term[i]
    BY <2>2, <2>3, <2>4
  <2>6. i \in store.from..LastIndex
    BY <1>8, <2>1
  <2> QED BY <2>5, <2>6
<1> QED BY <1>2, <1>3, <1>6, <1>7, <1>8, <1>9

LEMMA AdvanceInv ==
  ASSUME IInv, Advance
  PROVE  IInv'
<1> USE TypeFacts, BoundFacts
<1> DEFINE seg == ready.seg
<1>1. /\ up /\ hardCommit' = hardCommit /\ ready.phase = "advance" /\ ready' = Idle
      /\ committed' = committed /\ applied' = applied /\ up' = up /\ snapshot' = snapshot
      /\ leaderLog' = leaderLog /\ chosen' = chosen /\ store' = store
  BY DEF Advance, storeVars
<1>2. /\ ready'.phase = "idle" /\ ready'.snap = NoSnapshot /\ ready'.commit = 0
  BY <1>1 DEF Idle
<1>3. /\ Secured = ready.commit /\ ready.commit <= store.to /\ Agreed(store, ready.commit)
      /\ Secured' = Secured
  BY <1>1 DEF IInv, ReadyInv, ReadyTaken, ReadyWritten, Secured
<1>4. /\ unstable' = IF IsEmpty(seg) THEN unstable
                     ELSE StableTo(unstable, pending, seg.to, seg.term[seg.to])
      /\ pending' = IF ready.snap = NoSnapshot THEN pending
                    ELSE StableSnapshotTo(pending, ready.snap.index)
  BY DEF Advance
<1>5. /\ store.from <= committed /\ committed <= LastIndex
      /\ applied <= Secured /\ applied <= committed /\ hardCommit <= committed
      /\ Path(unstable) /\ Joins(store, unstable) /\ Agreed(unstable, committed)
  BY <1>1 DEF IInv, TailInv
\* The tail and the pending snapshot stay.
<1>6. ASSUME unstable' = unstable, pending' = pending,
             pending = NoSnapshot /\ ~IsEmpty(unstable) => unstable.to > Secured,
             pending # NoSnapshot => pending.index > Secured
      PROVE  IInv'
  <2>1. LastIndex' = LastIndex
    BY <1>1, <1>6 DEF LastIndex
  <2>2. Path(unstable)' /\ Joins(store, unstable)' /\ Agreed(unstable, committed)'
    BY <1>1, <1>5, <1>6 DEF Path, Joins, Agreed, IsChosen
  <2>3. CASE pending = NoSnapshot
    BY <1>1, <1>2, <1>3, <1>5, <1>6, <2>1, <2>2, <2>3, AdvanceStep
    DEF IInv, TypeInv, Within, TailInv, IsChosen
  <2>4. CASE pending # NoSnapshot
    <3>1. /\ IsEmpty(unstable) /\ unstable.from = pending.index
          /\ committed = pending.index /\ pending.index > 0
          /\ IsChosen(pending.index, pending.term)
      BY <2>4 DEF IInv, TailInv
    <3>2. TailInv'
      BY <1>1, <1>2, <1>3, <1>5, <1>6, <2>1, <2>2, <2>4, <3>1 DEF TailInv, IsChosen
    <3> QED BY <1>6, <3>2, AdvanceStep DEF IInv, TypeInv, Within
  <2> QED BY <2>3, <2>4
<1>7. CASE pending # NoSnapshot
  <2>1. /\ IsEmpty(unstable) /\ unstable.from = pending.index
        /\ committed = pending.index /\ pending.index > 0
        /\ ready.snap # pending => pending.index > Secured
    BY <1>1, <1>7 DEF IInv, TailInv
  <2>2. unstable' = unstable
    BY <1>7, SnapshotAdvances
  <2>3. CASE ready.snap = pending
    <3>1. /\ store.from = pending.index /\ store.to = pending.index
          /\ snapshot.index = pending.index /\ ready.commit = pending.index
      BY <1>7, <2>3, SnapshotAdvances
    <3>2. pending' = NoSnapshot
      BY <1>7, <2>3, SnapshotAdvances
    <3>3. LastIndex' = pending.index
      BY <1>1, <2>1, <2>2, <3>1, <3>2 DEF LastIndex, MaybeLastIndex, NoIndex, StoreLast
    <3>4. Path(unstable)' /\ Joins(store, unstable)' /\ Agreed(unstable, committed)'
      BY <1>1, <1>5, <2>2 DEF Path, Joins, Agreed, IsChosen
    <3>5. IsChosen(store.from, store.term[store.from])
      BY <1>3, <3>1 DEF Agreed
    <3>6. TailInv'
      BY <1>1, <1>2, <1>3, <1>5, <2>1, <2>2, <3>1, <3>2, <3>3, <3>4, <3>5
      DEF TailInv, IsChosen
    <3> QED BY <2>2, <3>2, <3>6, AdvanceStep DEF IInv, TypeInv, Within
  <2>4. CASE ready.snap # pending
    <3>1. pending' = pending
      BY <1>7, <2>4, SnapshotAdvances
    <3> QED BY <1>6, <1>7, <2>1, <2>2, <2>4, <3>1
  <2> QED BY <2>3, <2>4
<1>8. CASE pending = NoSnapshot
  <2>1. pending.index = 0 /\ ready.snap = NoSnapshot
    BY <1>8 DEF IInv, ReadyInv, ReadySnapshot, NoSnapshot
  <2>2. pending' = NoSnapshot
    BY <1>4, <1>8, <2>1
  <2>3. /\ unstable.from <= seg.from
        /\ ~IsEmpty(seg) => ~IsEmpty(unstable)
        /\ ~IsEmpty(unstable) =>
             \/ unstable.to > Secured
             \/ /\ ~IsEmpty(seg)
                /\ StableMatches(unstable, pending, seg.to, seg.term[seg.to])
    BY <1>1, <1>3, <1>8 DEF IInv, ReadyInv, ReadyAndTail
  <2>4. CASE IsEmpty(seg) \/ ~StableMatches(unstable, pending, seg.to, seg.term[seg.to])
    <3>1. unstable' = unstable
      BY <1>4, <2>4 DEF StableTo
    <3> QED BY <1>6, <1>8, <2>2, <2>3, <2>4, <3>1
  <2>5. CASE /\ ~IsEmpty(seg)
             /\ StableMatches(unstable, pending, seg.to, seg.term[seg.to])
    <3>1. Secured <= store.to
      BY <1>3
    <3>4. PICK k : k = store.to + 1
      OBVIOUS
    <3>5. /\ k \in Nat /\ unstable.from <= k /\ k <= unstable.to + 1 /\ k = store.to + 1
      BY <1>8, <2>5, <3>4, TailAdvances DEF InTail
    <3>6. /\ IsSegment(unstable') /\ unstable'.from = k /\ unstable'.to = unstable.to
          /\ \A i \in k..unstable.to : unstable'.term[i] = unstable.term[i]
      BY <1>8, <2>5, <3>5, TailAdvances
    <3>7. LastIndex = unstable.to
      BY <1>8, <2>5, TailAdvances
    <3>8. LastIndex' = LastIndex
      BY <1>1, <2>2, <3>5, <3>6, <3>7
      DEF LastIndex, MaybeLastIndex, NoIndex, StoreLast, IsEmpty
    <3>9. \A i \in store.from..store.to :
            EntryAt(i) = store.term[i] /\ i \in store.from..LastIndex
      BY <1>8, <2>5, TailAdvances
    <3>10. Path(unstable)'
      BY <1>1, <1>5, <3>5, <3>6 DEF Path
    <3>11. Joins(store, unstable)'
      <4> SUFFICES ASSUME NEW i \in store.from..store.to, NEW j \in k..unstable.to
                   PROVE  store.term[i] = leaderLog[unstable.term[j]][i]
        BY <1>1, <3>6 DEF Joins
      <4>1. j \in store.from..LastIndex /\ i \in store.from..j /\ InTail(j)
        BY <3>5, <3>7 DEF InTail
      <4>2. EntryAt(i) = leaderLog[EntryAt(j)][i]
        BY <1>8, <4>1, WholePath
      <4> QED BY <3>9, <4>1, <4>2 DEF EntryAt
    <3>12. Agreed(unstable, committed)'
      BY <1>1, <1>5, <3>5, <3>6 DEF Agreed, IsChosen
    <3>13. \A i \in store.from..store.to : i <= committed => IsChosen(i, store.term[i])
      BY <1>8, <3>9, CommittedFacts
    <3>14. TailInv'
      BY <1>1, <1>3, <1>5, <2>2, <3>1, <3>5, <3>6, <3>8, <3>10, <3>11, <3>12, <3>13
      DEF TailInv, IsChosen, IsEmpty
    <3>15. Within(unstable)'
      BY <3>5, <3>6 DEF Within
    <3> QED BY <2>2, <3>6, <3>14, <3>15, AdvanceStep
  <2> QED BY <2>4, <2>5
<1> QED BY <1>7, <1>8

LEMMA AppliedToInv ==
  ASSUME IInv, NEW n \in Indexes, AppliedTo(n)
  PROVE  IInv'
<1> USE TypeFacts, BoundFacts
<1>1. /\ up /\ n <= committed /\ n <= hardCommit /\ applied' = n
      /\ store' = store /\ snapshot' = snapshot /\ hardCommit' = hardCommit
      /\ unstable' = unstable /\ pending' = pending /\ committed' = committed
      /\ ready' = ready /\ up' = up /\ leaderLog' = leaderLog /\ chosen' = chosen
  BY DEF AppliedTo, storeVars
<1>2. Secured' = Secured /\ LastIndex' = LastIndex
  BY <1>1 DEF Secured, LastIndex
<1>3. TypeInv'
  BY <1>1 DEF IInv, TypeInv, TypeOK, Within, Indexes
<1>4. StoreInv'
  BY <1>1, <1>2 DEF IInv, StoreInv, Path, Agreed, IsChosen
<1>5. TailInv'
  <2>1. n <= Secured
    BY <1>1 DEF Indexes
  <2> QED BY <1>1, <1>2, <2>1 DEF IInv, TailInv, Path, Joins, Agreed, IsChosen
<1>6. ReadyInv'
  BY <1>1, <1>2 DEF IInv, ReadyInv, ReadyTaken, ReadySnapshot, ReadyAndTail, ReadyToWrite,
                    ReadyWritten, Path, Joins, Agreed, IsChosen
<1> QED BY <1>1, <1>3, <1>4, <1>5, <1>6 DEF IInv, DownInv

LEMMA CreateSnapshotInv ==
  ASSUME IInv, NEW i \in Indexes, CreateSnapshot(i)
  PROVE  IInv'
<1> USE TypeFacts, BoundFacts
<1>1. /\ up /\ snapshot.index < i /\ store.from <= i /\ i <= applied
      /\ snapshot' = [index |-> i, term |-> StoreTerm(store, i)]
      /\ store' = store /\ hardCommit' = hardCommit
      /\ unstable' = unstable /\ pending' = pending /\ committed' = committed
      /\ applied' = applied
      /\ ready' = ready /\ up' = up /\ leaderLog' = leaderLog /\ chosen' = chosen
  BY DEF CreateSnapshot, logVars
<1>2. Secured' = Secured /\ LastIndex' = LastIndex
  BY <1>1 DEF Secured, LastIndex
<1>3. i <= Secured /\ Secured <= store.to /\ i \in store.from..store.to
  <2>1. applied <= Secured /\ hardCommit <= store.to
    BY DEF IInv, StoreInv, TailInv
  <2>2. Secured <= store.to
    BY <2>1 DEF Secured, Greater
  <2> QED BY <1>1, <2>1, <2>2 DEF Indexes
<1>4. /\ snapshot'.index = i /\ snapshot'.term = store.term[i]
      /\ snapshot' = [index |-> snapshot'.index, term |-> snapshot'.term]
      /\ store.term[i] \in Nat /\ i \in Nat
  BY <1>1, <1>3 DEF StoreTerm, Terms, Indexes
<1>5. IsChosen(i, store.term[i])
  BY <1>3 DEF IInv, StoreInv, Agreed
\* The storage is not one that has just been given a snapshot.
<1>6. hardCommit >= store.from
  BY <1>1, <1>3 DEF IInv, StoreInv, Secured, Greater, Indexes
<1>7. ~(snapshot.index = store.to)
  BY <1>1, <1>3 DEF Indexes
<1>8. TypeInv'
  BY <1>1, <1>4 DEF IInv, TypeInv, TypeOK, Within, IsSnapshot
<1>9. StoreInv'
  <2>1. /\ Path(store) /\ Agreed(store, Secured) /\ hardCommit <= store.to
    BY DEF IInv, StoreInv
  <2> QED BY <1>1, <1>2, <1>3, <1>4, <1>5, <1>6, <2>1
          DEF StoreInv, Path, Agreed, IsChosen, Indexes
<1>10. TailInv'
  BY <1>1, <1>2, <1>7 DEF IInv, TailInv, Path, Joins, Agreed, IsChosen
<1>11. ReadySnapshot'
  BY <1>1, <1>2, <1>7 DEF IInv, ReadyInv, ReadySnapshot, IsChosen
<1>12. ReadyTaken' /\ ReadyAndTail' /\ ReadyToWrite' /\ ReadyWritten'
  BY <1>1, <1>2 DEF IInv, ReadyInv, ReadyTaken, ReadyAndTail, ReadyToWrite, ReadyWritten,
                    Path, Joins, Agreed, IsChosen
<1> QED BY <1>1, <1>8, <1>9, <1>10, <1>11, <1>12 DEF IInv, ReadyInv, DownInv

LEMMA CompactInv ==
  ASSUME IInv, NEW i \in Indexes, Compact(i)
  PROVE  IInv'
<1> USE TypeFacts, BoundFacts
<1>1. /\ up /\ i <= applied /\ i > store.from /\ i <= store.to
      /\ store' = Part(store, i, store.to)
      /\ snapshot' = snapshot /\ hardCommit' = hardCommit
      /\ unstable' = unstable /\ pending' = pending /\ committed' = committed
      /\ applied' = applied
      /\ ready' = ready /\ up' = up /\ leaderLog' = leaderLog /\ chosen' = chosen
  BY DEF Compact, Compacted, CompactRefused, CompactPanics, logVars, Indexes
<1>2. i \in Nat
  BY DEF Indexes
<1>3. /\ IsSegment(store') /\ store'.from = i /\ store'.to = store.to
      /\ \A j \in i..store.to : store'.term[j] = store.term[j]
  <2>1. IsSegment(store) /\ store.from <= i /\ i <= store.to + 1
        /\ store.to \in Nat \cup {-1}
    BY <1>1, <1>2
  <2>2. LET p == Part(store, i, store.to) IN
        /\ IsSegment(p) /\ p.from = i /\ p.to = store.to
        /\ \A j \in i..store.to : p.term[j] = store.term[j]
    BY <1>2, <2>1, PartFacts
  <2> QED BY <1>1, <2>2
<1>4. i <= hardCommit /\ Secured' = Secured
  <2>1. applied <= Secured
    BY DEF IInv, TailInv
  <2>2. i <= hardCommit /\ Secured = hardCommit
    BY <1>1, <1>2, <2>1 DEF Secured, Greater
  <2> QED BY <1>1, <1>2, <1>3, <2>2 DEF Secured, Greater
<1>5. LastIndex' = LastIndex
  BY <1>1, <1>3 DEF LastIndex, StoreLast
<1>6. /\ \A j \in store'.from..store'.to :
           j \in store.from..store.to /\ store'.term[j] = store.term[j]
      /\ store.from # store.to
  BY <1>1, <1>2, <1>3
<1>7. TypeInv'
  <2>1. ~IsEmpty(store)'
    BY <1>1, <1>2, <1>3 DEF IsEmpty
  <2>2. TypeOK'
    BY <1>1, <1>3, <2>1 DEF IInv, TypeInv, TypeOK
  <2>3. Within(store)' /\ Within(unstable)' /\ Within(ready.seg)'
    BY <1>1, <1>3, <1>6 DEF IInv, TypeInv, Within
  <2> QED BY <1>1, <2>2, <2>3 DEF IInv, TypeInv
<1>8. StoreInv'
  <2>1. Path(store)'
    BY <1>1, <1>2, <1>3, <1>6 DEF IInv, StoreInv, Path
  <2>2. Agreed(store, Secured)'
    BY <1>1, <1>4, <1>6 DEF IInv, StoreInv, Agreed, IsChosen
  <2> QED BY <1>1, <1>2, <1>3, <1>4, <2>1, <2>2 DEF IInv, StoreInv, IsChosen
<1>9. Joins(store, unstable)'
  BY <1>1, <1>6 DEF IInv, TailInv, Joins
<1>10. TailInv'
  <2>1. /\ Path(unstable)' /\ Agreed(unstable, committed)'
    BY <1>1 DEF IInv, TailInv, Path, Agreed, IsChosen
  <2>2. i <= committed
    BY <1>1, <1>2 DEF IInv, TailInv
  <2>3. CASE pending = NoSnapshot
    <3>1. /\ IF IsEmpty(unstable) THEN unstable.from = store.to + 1
                                 ELSE unstable.from <= store.to + 1
          /\ \A j \in store.from..store.to :
               j <= committed /\ (j < unstable.from \/ IsEmpty(unstable))
                 => IsChosen(j, store.term[j])
      BY <1>6, <2>3 DEF IInv, TailInv
    <3>2. \A j \in store'.from..store'.to :
            j <= committed /\ (j < unstable.from \/ IsEmpty(unstable))
              => IsChosen(j, store'.term[j])
      BY <1>6, <3>1
    <3>3. /\ committed <= LastIndex /\ committed <= chosen.index
          /\ applied <= Secured /\ applied <= committed /\ hardCommit <= committed
          /\ ~IsEmpty(unstable) /\ ready.phase # "advance" => unstable.to > Secured
      BY <1>1 DEF IInv, TailInv
    <3> QED BY <1>1, <1>3, <1>4, <1>5, <1>9, <2>1, <2>2, <2>3, <3>1, <3>2, <3>3
            DEF TailInv, IsChosen
  <2>4. CASE pending # NoSnapshot
    BY <1>1, <1>3, <1>4, <1>5, <1>9, <2>1, <2>2, <2>4 DEF IInv, TailInv, IsChosen
  <2> QED BY <2>3, <2>4
<1>11. ReadyTaken' /\ ReadyAndTail'
  BY <1>1, <1>4 DEF IInv, ReadyInv, ReadyTaken, ReadyAndTail, Path, Agreed, IsChosen
<1>12. ReadySnapshot'
  BY <1>1, <1>4, <1>6 DEF IInv, ReadyInv, ReadySnapshot, IsChosen
<1>13. ReadyToWrite'
  <2>1. CASE ready.phase = "entries" /\ ~IsEmpty(ready.seg)
    <3>1. /\ Joins(store, ready.seg) /\ ready.seg.from <= store.to + 1
          /\ ready.seg.to > Secured
          /\ \A j \in store.from..store.to :
               j < ready.seg.from /\ j <= ready.commit => IsChosen(j, store.term[j])
      BY <2>1 DEF IInv, ReadyInv, ReadyToWrite
    <3>2. Joins(store, ready.seg)'
      BY <1>1, <1>6, <3>1 DEF Joins
    <3> QED BY <1>1, <1>3, <1>4, <1>6, <3>1, <3>2 DEF ReadyToWrite, IsChosen
  <2> QED BY <1>1, <2>1 DEF ReadyToWrite
<1>14. ReadyWritten'
  BY <1>1, <1>3, <1>6 DEF IInv, ReadyInv, ReadyWritten, Agreed, IsChosen
<1> QED BY <1>1, <1>7, <1>8, <1>10, <1>11, <1>12, <1>13, <1>14 DEF IInv, ReadyInv, DownInv

LEMMA RestartInv ==
  ASSUME IInv, NEW n \in Indexes, Restart(n)
  PROVE  IInv'
<1> USE TypeFacts, BoundFacts
<1>1. /\ ~up /\ up' /\ up' \in BOOLEAN /\ committed' = Greater(committed, hardCommit)
      /\ n \in applied..committed' /\ applied' = n
      /\ store' = store /\ snapshot' = snapshot /\ hardCommit' = hardCommit
      /\ unstable' = unstable /\ pending' = pending
      /\ ready' = ready /\ leaderLog' = leaderLog /\ chosen' = chosen
  BY DEF Restart, storeVars
<1>2. /\ IsEmpty(unstable) /\ unstable.from = store.to + 1 /\ pending = NoSnapshot
      /\ ready = Idle /\ committed = store.from /\ applied = store.from
  BY <1>1 DEF IInv, DownInv
<1>3. committed' = Secured /\ committed' \in Nat /\ applied' \in Nat
  BY <1>1, <1>2 DEF Secured, Greater
<1>4. Secured' = Secured /\ LastIndex' = LastIndex /\ LastIndex = store.to
  BY <1>1, <1>2, LogFacts DEF Secured, LastIndex
<1>5. /\ ready.phase = "idle" /\ ready.commit = 0 /\ ready.snap = NoSnapshot
  BY <1>2 DEF Idle
<1>6. TypeInv'
  BY <1>1, <1>3 DEF IInv, TypeInv, TypeOK, Within
<1>7. StoreInv'
  BY <1>1, <1>4 DEF IInv, StoreInv, Path, Agreed, IsChosen
<1>8. TailInv'
  <2>1. Path(unstable)' /\ Joins(store, unstable)' /\ Agreed(unstable, committed)'
    BY <1>1, <1>2 DEF Path, Joins, Agreed, IsEmpty
  <2>2. Agreed(store, Secured) /\ hardCommit <= store.to
    BY DEF IInv, StoreInv
  <2>3. Secured <= store.to
    BY <2>2 DEF Secured, Greater
  <2> QED BY <1>1, <1>2, <1>3, <1>4, <2>1, <2>2, <2>3 DEF TailInv, Agreed, IsChosen
<1>9. ReadyTaken' /\ ReadySnapshot'
  BY <1>1, <1>2, <1>3, <1>4, <1>5
  DEF IInv, ReadyInv, ReadyTaken, ReadySnapshot, Path, Agreed, IsChosen
<1>10. ReadyAndTail' /\ ReadyToWrite' /\ ReadyWritten'
  BY <1>1, <1>5 DEF ReadyAndTail, ReadyToWrite, ReadyWritten
<1> QED BY <1>1, <1>6, <1>7, <1>8, <1>9, <1>10 DEF IInv, ReadyInv, DownInv

LEMMA StutterInv ==
  ASSUME IInv, UNCHANGED vars
  PROVE  IInv'
<1>1. /\ store' = store /\ snapshot' = snapshot /\ hardCommit' = hardCommit
      /\ unstable' = unstable /\ pending' = pending /\ committed' = committed
      /\ applied' = applied /\ ready' = ready /\ up' = up
      /\ leaderLog' = leaderLog /\ chosen' = chosen
  BY DEF vars, storeVars, logVars
<1>2. Secured' = Secured /\ LastIndex' = LastIndex
  BY <1>1 DEF Secured, LastIndex
<1>3. TypeInv' /\ StoreInv'
  BY <1>1, <1>2 DEF IInv, TypeInv, StoreInv, TypeOK, Within, Path, Agreed, IsChosen
<1>4. TailInv' /\ DownInv'
  BY <1>1, <1>2 DEF IInv, TailInv, DownInv, Path, Joins, Agreed, IsChosen
<1>5. ReadyInv'
  BY <1>1, <1>2 DEF IInv, ReadyInv, ReadyTaken, ReadySnapshot, ReadyAndTail, ReadyToWrite,
                    ReadyWritten, Path, Joins, Agreed, IsChosen
<1> QED BY <1>3, <1>4, <1>5 DEF IInv
-----------------------------------------------------------------------------
(* The theorems. *)

\* The invariant is inductive.
LEMMA NextInv ==
  ASSUME IInv, Truncating, [Next]_vars
  PROVE  IInv'
<1>1. CASE LogNext
  <2>1. PICK t \in Terms :
          \/ \E to \in Indexes : Append(t, to)
          \/ \E m \in Indexes : LeaderCommit(t, m) \/ FollowerCommit(t, m) \/ Restore(t, m)
          \/ \E prev, c \in committed..MaxIndex : \E to \in prev..MaxIndex :
               MaybeAppend(t, prev, to, c)
    BY <1>1 DEF LogNext
  <2>2. /\ committed..MaxIndex \subseteq Indexes
        /\ \A prev \in committed..MaxIndex : prev..MaxIndex \subseteq Indexes
    <3>1. committed \in Nat
      BY DEF IInv, TypeInv, TypeOK
    <3> QED BY <3>1, BoundsAssumption DEF Indexes
  <2>. QED
    BY <2>1, <2>2, AppendInv, LeaderCommitInv, FollowerCommitInv, RestoreInv, MaybeAppendInv
<1>2. CASE AppNext
  BY <1>2, TakeReadyInv, ApplySnapshotInv, AppendToStoreInv, SetHardStateInv, AdvanceInv,
     AppliedToInv, CreateSnapshotInv, CompactInv
  DEF AppNext
<1>3. CASE FailNext
  BY <1>3, PanicInv, RestartInv, StutterInv
  DEF FailNext, LogPanics, CyclePanics, Crash, RestartPanics
<1>4. CASE UNCHANGED vars
  BY <1>4, StutterInv
<1> QED BY <1>1, <1>2, <1>3, <1>4 DEF Next

\* IInv holds in every reachable state of a node on a truncating storage.
THEOREM Invariance == ASSUME Truncating PROVE Spec => []IInv
<1>1. Init => IInv
  BY InitInv
<1>2. IInv /\ [Next]_vars => IInv'
  BY NextInv
<1> QED BY <1>1, <1>2, PTL DEF Spec

\* The stored log, the tail, and what the application took keep their shape.
THEOREM TypeCorrect == ASSUME Truncating PROVE Spec => []TypeOK
<1>1. IInv => TypeOK
  BY DEF IInv, TypeInv
<1> QED BY <1>1, Invariance, PTL

\* Up to its commit index the node's log is the one the cluster committed.
THEOREM LogIsTheClusters == ASSUME Truncating PROVE Spec => []LogAgreement
<1>1. ASSUME IInv PROVE LogAgreement
  <2> USE <1>1, TypeFacts
  <2> SUFFICES ASSUME up
               PROVE  /\ FirstIndex - 1 <= committed /\ committed <= LastIndex
                      /\ committed <= chosen.index
                      /\ \A i \in FirstIndex..committed :
                           Term(i) = leaderLog[chosen.term][i]
    BY DEF LogAgreement
  <2>1. /\ store.from <= committed /\ committed <= LastIndex /\ committed <= chosen.index
    BY DEF IInv, TailInv
  <2>2. CASE pending = NoSnapshot
    BY <2>1, <2>2, LogFacts, CommittedFacts DEF IsChosen
  <2>3. CASE pending # NoSnapshot
    BY <2>1, <2>3, PendingFacts
  <2> QED BY <2>2, <2>3
<1> QED BY <1>1, Invariance, PTL

\* What is stored at any instant is enough to restart from.
THEOREM StoreIsRecoverable == ASSUME Truncating PROVE Spec => []Recoverable
<1>1. ASSUME IInv PROVE Recoverable
  <2> USE <1>1, TypeFacts, BoundFacts
  <2>1. /\ hardCommit <= store.to /\ Agreed(store, Secured)
        /\ hardCommit < store.from => snapshot.index = store.from
    BY DEF IInv, StoreInv
  <2> QED BY <2>1 DEF Recoverable, LoadStatePanics, Agreed, IsChosen
<1> QED BY <1>1, Invariance, PTL

\* A snapshot of the node is a prefix of the log the cluster committed.
THEOREM SnapshotsAreCommitted == ASSUME Truncating PROVE Spec => []SnapshotIsCommitted
<1>1. ASSUME IInv PROVE SnapshotIsCommitted
  BY <1>1, TypeFacts, BoundFacts DEF IInv, StoreInv, SnapshotIsCommitted, IsChosen
<1> QED BY <1>1, Invariance, PTL

\* No interleaving makes the log or the storage panic, except when restore()
\* has left the tail without entries at the snapshot's own index.
THEOREM NoOtherPanic == ASSUME Truncating PROVE Spec => []PanicsOnlyAfterRestore
<1>1. ASSUME IInv, up, ~Restored PROVE ~Panics /\ ~PersistPanics
  <2> USE <1>1, TypeFacts, BoundFacts
  <2>1. /\ snapshot.index <= Secured /\ hardCommit <= committed /\ store.from <= committed
        /\ committed <= LastIndex
    BY DEF IInv, StoreInv, TailInv
  <2>2. snapshot.index <= committed
    BY <2>1 DEF Secured, Greater
  <2>3. pending = NoSnapshot
    <3> SUFFICES ASSUME pending # NoSnapshot PROVE Restored
      OBVIOUS
    <3>1. /\ IsEmpty(unstable) /\ unstable.from = pending.index
          /\ pending.index = committed
      BY DEF IInv, TailInv
    <3>2. LastIndex = pending.index
      BY PendingFacts
    <3> QED BY <2>2, <3>1, <3>2 DEF Restored, Greater
  <2>4. LastIndex <= unstable.to
    <3>1. CASE IsEmpty(unstable)
      <4>1. pending.index = 0
        BY <2>3 DEF NoSnapshot
      <4>2. LastIndex = store.to
        BY <2>3, <3>1, LogFacts
      <4>3. ~(unstable.from = store.to /\ snapshot.index = store.to)
        BY <3>1, <4>1, <4>2 DEF Restored, Greater
      <4>4. unstable.from = store.to + 1
        BY <2>3, <3>1, <4>3 DEF IInv, TailInv
      <4> QED BY <3>1, <4>2, <4>4 DEF IsEmpty
    <3>2. CASE ~IsEmpty(unstable)
      BY <2>3, <3>2, LogFacts
    <3> QED BY <3>1, <3>2
  <2>5. \A t \in Leaders : ~AppendTooFar(t)
    <3>1. \A t : Entries(t, LastIndex + 1, LastIndex + 1).from = LastIndex + 1
      BY DEF Entries, Segment
    <3> QED BY <2>3, <2>4, <3>1, LogFacts DEF AppendTooFar, AppendPanics
  <2>6. ASSUME NEW t \in Leaders, NEW prev \in Indexes, NEW to \in prev..MaxIndex,
               Receives(t, prev, to)
        PROVE  ~MaybeAppendPanics(Entries(t, prev + 1, to))
    <3>1. t \in Terms /\ to \in Indexes
      BY DEF Leaders, Indexes
    <3>2. PICK k : k = FindConflict(Entries(t, prev + 1, to))
      OBVIOUS
    <3>3. k # 0 => /\ k \in committed + 1..LastIndex + 1
                   /\ Part(Entries(t, prev + 1, to), k, Entries(t, prev + 1, to).to)
                        = Entries(t, k, to)
      BY <2>6, <3>1, <3>2, ReceivesFacts
    <3>4. k # 0 => k > committed /\ ~AppendPanics(unstable, Entries(t, k, to))
      <4>1. Entries(t, k, to).from = k
        BY DEF Entries, Segment
      <4>2. LastIndex \in Nat
        BY <2>3, LogFacts
      <4> QED BY <2>4, <3>3, <4>1, <4>2 DEF AppendPanics
    <3> QED BY <3>2, <3>3, <3>4 DEF MaybeAppendPanics
  <2>7. \A prev \in Indexes : committed <= prev => ~TermPanics(prev)
    BY <2>1, <2>3, LogFacts DEF TermPanics, InRange, Indexes
  <2>8. ~Panics
    BY <2>5, <2>6, <2>7 DEF Panics
  <2>9. ready.phase = "entries" => ~StoreAppendPanics(store, ready.seg)
    BY DEF IInv, ReadyInv, ReadyToWrite, StoreAppendPanics, NothingNew
  <2>10. ready.phase = "advance" /\ ~IsEmpty(ready.seg)
           => ~MaybeTermPanics(unstable, pending, ready.seg.to)
    <3>1. ready.phase = "advance" /\ ~IsEmpty(ready.seg) => ~IsEmpty(unstable)
      BY <2>3 DEF IInv, ReadyInv, ReadyAndTail
    <3> QED BY <3>1 DEF MaybeTermPanics, MaybeLastIndex
  <2> QED BY <2>8, <2>9, <2>10 DEF PersistPanics
<1>2. IInv => PanicsOnlyAfterRestore
  BY <1>1 DEF PanicsOnlyAfterRestore
<1> QED BY <1>2, Invariance, PTL
=============================================================================
