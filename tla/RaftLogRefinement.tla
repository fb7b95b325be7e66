------------------------- MODULE RaftLogRefinement -------------------------
(***************************************************************************)
(* Proofs that, over a truncating storage, RaftLog's reads give its one    *)
(* log, that persisting does not change it, and that RaftLog with its      *)
(* storage implements DurableLog.                                          *)
(*                                                                         *)
(* What holds in every state that satisfies IInv is stated as an           *)
(* implication, so that it can be cited for the next state too.            *)
(***************************************************************************)
EXTENDS RaftLogProofs

\* A log is its bounds and the terms between them.
LEMMA ViewShape ==
  /\ View.from = FirstIndex /\ View.to = LastIndex
  /\ View = Segment(FirstIndex, LastIndex, View.term)
BY DEF View, Segment

\* What the log begins and ends with, and its entries.
LEMMA ViewFacts ==
  IInv => /\ FirstIndex \in Nat /\ LastIndex \in Nat
          /\ pending = NoSnapshot =>
               /\ FirstIndex = store.from + 1 /\ store.from <= LastIndex
               /\ LastIndex = IF IsEmpty(unstable) THEN store.to ELSE unstable.to
               /\ \A i \in FirstIndex..LastIndex : View.term[i] = EntryAt(i)
          /\ pending # NoSnapshot =>
               /\ FirstIndex = pending.index + 1 /\ LastIndex = pending.index
               /\ IsEmpty(View) /\ committed = pending.index
<1> SUFFICES ASSUME IInv
             PROVE  /\ FirstIndex \in Nat /\ LastIndex \in Nat
                    /\ pending = NoSnapshot =>
                         /\ FirstIndex = store.from + 1 /\ store.from <= LastIndex
                         /\ LastIndex = IF IsEmpty(unstable) THEN store.to ELSE unstable.to
                         /\ \A i \in FirstIndex..LastIndex : View.term[i] = EntryAt(i)
                    /\ pending # NoSnapshot =>
                         /\ FirstIndex = pending.index + 1 /\ LastIndex = pending.index
                         /\ IsEmpty(View) /\ committed = pending.index
  OBVIOUS
<1>1. CASE pending = NoSnapshot
  <2>1. /\ FirstIndex = store.from + 1
        /\ LastIndex = IF IsEmpty(unstable) THEN store.to ELSE unstable.to
        /\ LastIndex \in Nat /\ store.from <= LastIndex /\ store.from \in Nat
    BY <1>1, LogFacts, TypeFacts
  <2>2. ASSUME NEW i \in FirstIndex..LastIndex
        PROVE  View.term[i] = EntryAt(i)
    <3>1. i \in store.from..LastIndex
      BY <2>1, <2>2
    <3>2. ~InTail(i) => i \in store.from..store.to
      BY <1>1, <3>1, LogFacts
    <3>3. View.term[i] = IF i \in unstable.from..unstable.to THEN unstable.term[i]
                         ELSE StoreTerm(store, i)
      BY <2>2 DEF View
    <3> QED BY <3>2, <3>3 DEF EntryAt, InTail, StoreTerm
  <2> QED BY <1>1, <2>1, <2>2
<1>2. CASE pending # NoSnapshot
  <2>1. FirstIndex = pending.index + 1 /\ LastIndex = pending.index
        /\ committed = pending.index /\ pending.index \in Nat
    BY <1>2, PendingFacts, TypeFacts
  <2> QED BY <1>2, <2>1, ViewShape DEF IsEmpty
<1> QED BY <1>1, <1>2

\* Logs with the same bounds and the same entries are the same.
LEMMA SameView ==
  ASSUME FirstIndex' = FirstIndex, LastIndex' = LastIndex,
         \A i \in FirstIndex..LastIndex : View'.term[i] = View.term[i]
  PROVE  View' = View
<1>1. View' = Segment(FirstIndex', LastIndex', View'.term)
  BY DEF View, Segment
<1>2. View = Segment(FirstIndex, LastIndex, View.term)
  BY ViewShape
<1> QED BY <1>1, <1>2 DEF Segment
-----------------------------------------------------------------------------
(* slice() and next_entries() *)

\* slice() takes what is below the tail from the storage, the rest from the tail.
LEMMA SliceFacts ==
  ASSUME IInv, NEW low \in FirstIndex..LastIndex, NEW high \in low + 1..LastIndex + 1
  PROVE  ~SlicePanics(low, high) /\ Slice(low, high) = Part(View, low, high - 1)
<1> USE TypeFacts
<1>1. pending = NoSnapshot /\ FirstIndex \in Nat /\ LastIndex \in Nat
  <2>1. FirstIndex \in Nat /\ LastIndex \in Nat
    BY ViewFacts
  <2>2. pending # NoSnapshot => FirstIndex = LastIndex + 1
    BY ViewFacts
  <2> QED BY <2>1, <2>2
<1>2. /\ FirstIndex = store.from + 1
      /\ LastIndex = IF IsEmpty(unstable) THEN store.to ELSE unstable.to
      /\ \A i \in FirstIndex..LastIndex : View.term[i] = EntryAt(i)
  BY <1>1, ViewFacts
<1>3. low \in Nat /\ high \in Nat /\ low < high /\ high <= LastIndex + 1 /\ store.from < low
  BY <1>1, <1>2
\* A tail without entries begins after what is stored, or nothing is stored.
<1>4. /\ IsEmpty(unstable) => unstable.from = store.to + 1
      /\ ~IsEmpty(unstable) => unstable.from <= store.to + 1
  <2>1. IsEmpty(unstable) => store.from # store.to
    BY <1>2, <1>3
  <2> QED BY <1>1, <2>1 DEF IInv, TailInv
<1>5. ~SlicePanics(low, high)
  <2>1. ~(low > high) /\ ~(high > LastIndex + 1)
    BY <1>1, <1>3
  <2>2. low < unstable.from => ~EntriesPanics(store, low, Lesser(high, unstable.from))
    BY <1>1, <1>2, <1>3, <1>4 DEF EntriesPanics, Lesser, IsEmpty
  <2>3. high > unstable.from =>
          ~UnstableSlicePanics(unstable, Greater(low, unstable.from), high)
    BY <1>1, <1>2, <1>3, <1>4 DEF UnstableSlicePanics, Greater, IsEmpty
  <2> QED BY <2>1, <2>2, <2>3 DEF SlicePanics
<1>6. \A i \in low..high - 1 :
        View.term[i] = IF i < unstable.from THEN store.term[i] ELSE unstable.term[i]
  <2> TAKE i \in low..high - 1
  <2>1. View.term[i] = EntryAt(i)
    BY <1>1, <1>2, <1>3
  <2>2. InTail(i) <=> ~(i < unstable.from)
    BY <1>1, <1>2, <1>3, <1>4 DEF InTail, IsEmpty
  <2> QED BY <2>1, <2>2 DEF EntryAt
<1>7. Part(View, low, high - 1) =
        [from |-> low, to |-> high - 1, term |-> [i \in low..high - 1 |-> View.term[i]]]
  BY DEF Part, Segment
<1>8. CASE high <= unstable.from
  <2>1. Slice(low, high) =
          [from |-> low, to |-> high - 1, term |-> [i \in low..high - 1 |-> store.term[i]]]
    BY <1>8 DEF Slice, StoreEntries, Part, Segment
  <2>2. \A i \in low..high - 1 : View.term[i] = store.term[i]
    BY <1>3, <1>6, <1>8
  <2> QED BY <1>5, <1>7, <2>1, <2>2
<1>9. CASE low >= unstable.from
  <2>1. Slice(low, high) =
          [from |-> low, to |-> high - 1, term |-> [i \in low..high - 1 |-> unstable.term[i]]]
    BY <1>3, <1>9 DEF Slice, UnstableSlice, Part, Segment
  <2>2. \A i \in low..high - 1 : View.term[i] = unstable.term[i]
    BY <1>3, <1>6, <1>9
  <2> QED BY <1>5, <1>7, <2>1, <2>2
<1>10. CASE ~(high <= unstable.from) /\ ~(low >= unstable.from)
  <2> DEFINE s == StoreEntries(store, low, unstable.from)
             u == UnstableSlice(unstable, unstable.from, high)
  <2>1. Slice(low, high) = Splice(s, u)
    BY <1>10 DEF Slice
  <2>2. /\ s.from = low /\ u.to = high - 1 /\ u.from = unstable.from
        /\ \A i \in low..unstable.from - 1 : s.term[i] = store.term[i]
        /\ \A i \in unstable.from..high - 1 : u.term[i] = unstable.term[i]
    BY DEF StoreEntries, UnstableSlice, Part, Segment
  <2> HIDE DEF s, u
  <2>3. Slice(low, high) =
          [from |-> low, to |-> high - 1,
           term |-> [i \in low..high - 1 |->
                       IF i < unstable.from THEN s.term[i] ELSE u.term[i]]]
    BY <2>1, <2>2 DEF Splice
  <2>4. \A i \in low..high - 1 :
          View.term[i] = IF i < unstable.from THEN s.term[i] ELSE u.term[i]
    BY <1>3, <1>6, <2>2
  <2> QED BY <1>5, <1>7, <2>3, <2>4
<1> QED BY <1>3, <1>8, <1>9, <1>10

\* slice() reads the log's own entries, from the storage, the tail or both.
THEOREM SlicesAreTheLog == ASSUME Truncating PROVE Spec => []SliceIsTheLog
<1>1. ASSUME IInv PROVE SliceIsTheLog
  BY <1>1, ViewShape, SliceFacts DEF SliceIsTheLog
<1> QED BY <1>1, Invariance, PTL

\* What was applied reaches to where the log begins, or a snapshot does.
LEMMA AppliedGapStep ==
  ASSUME IInv, AppliedGap, [Next]_vars
  PROVE  AppliedGap'
<1> USE TypeFacts DEF AppliedGap
<1>1. CASE applied' = applied /\ store' = store /\ snapshot' = snapshot
  BY <1>1
<1>2. CASE Panic
  BY <1>2 DEF Panic, New, StoreFirst, storeVars
<1>3. CASE ApplySnapshot
  <2>1. IsSegment(SnapshotStore(ready.snap)) /\ SnapshotStore(ready.snap).from = ready.snap.index
    BY SnapshotStoreFacts
  <2> QED BY <1>1, <1>3, <2>1 DEF ApplySnapshot, logVars
<1>4. ASSUME AppendToStore PROVE AppliedGap'
  <2>1. StoreAppend(store, ready.seg).from = store.from
    BY DEF StoreAppend, Splice
  <2> QED BY <1>4, <2>1 DEF AppendToStore, logVars
<1>5. ASSUME NEW n \in Indexes, AppliedTo(n) PROVE AppliedGap'
  BY <1>5 DEF AppliedTo, storeVars, Indexes
<1>6. ASSUME NEW i \in Indexes, CreateSnapshot(i) PROVE AppliedGap'
  BY <1>6 DEF CreateSnapshot, logVars, Indexes
<1>7. ASSUME NEW i \in Indexes, Compact(i) PROVE AppliedGap'
  BY <1>7 DEF Compact, Compacted, Part, Segment, logVars, Indexes
<1>8. ASSUME NEW n \in Indexes, Restart(n) PROVE AppliedGap'
  <2>1. applied = store.from /\ n \in applied..committed' /\ committed' \in Nat
    BY <1>8 DEF Restart, IInv, DownInv, Greater
  <2> QED BY <1>8, <2>1 DEF Restart, storeVars
<1>9. ASSUME NEW t \in Terms, NEW m \in Indexes,
             Append(t, m) \/ LeaderCommit(t, m) \/ FollowerCommit(t, m) \/ Restore(t, m)
      PROVE  AppliedGap'
  BY <1>1, <1>9 DEF Append, LeaderCommit, FollowerCommit, Restore, storeVars
<1>10. ASSUME NEW t \in Terms, NEW prev, NEW to, NEW c, MaybeAppend(t, prev, to, c)
       PROVE  AppliedGap'
  BY <1>1, <1>10 DEF MaybeAppend, storeVars
<1>11. CASE TakeReady \/ SetHardState \/ Advance \/ RestartPanics \/ UNCHANGED vars
  BY <1>1, <1>11
  DEF TakeReady, SetHardState, Advance, RestartPanics, vars, storeVars, logVars
<1> QED BY <1>2, <1>3, <1>4, <1>5, <1>6, <1>7, <1>8, <1>9, <1>10, <1>11
        DEF Next, LogNext, AppNext, FailNext, LogPanics, CyclePanics, Crash

\* The storage begins above what is applied only where a snapshot put it.
THEOREM GapInvariance == ASSUME Truncating PROVE Spec => []AppliedGap
<1>1. Init => AppliedGap
  BY DEF Init, AppliedGap, EmptyStore, StoreFirst, Segment
<1>2. IInv /\ AppliedGap /\ [Next]_vars => AppliedGap'
  BY AppliedGapStep
<1> QED BY <1>1, <1>2, Invariance, PTL DEF Spec

\* What next_entries() gives the application is what the cluster committed, next
\* to what it applied or to a snapshot.
THEOREM OnlyCommittedIsNext == ASSUME Truncating PROVE Spec => []NextIsCommitted
<1>1. ASSUME IInv, AppliedGap PROVE NextIsCommitted
  <2> USE <1>1, TypeFacts, BoundFacts
  <2>1. /\ applied <= committed /\ store.from <= committed /\ committed <= LastIndex
    BY DEF IInv, TailInv
  <2>2. FirstIndex \in Nat /\ LastIndex \in Nat
    BY ViewFacts
  <2>3. CASE pending # NoSnapshot
    <3>1. FirstIndex = pending.index + 1 /\ committed = pending.index
      BY <2>3, ViewFacts
    <3>2. ~HasNextEntries
      BY <3>1 DEF HasNextEntries, NextFrom, Greater
    <3> QED BY <3>1, <3>2 DEF NextIsCommitted, NextEntriesPanics
  <2>4. CASE pending = NoSnapshot
    <3>1. /\ FirstIndex = store.from + 1
          /\ \A i \in FirstIndex..LastIndex : View.term[i] = EntryAt(i)
      BY <2>4, ViewFacts
    <3>2. NextFrom \in Nat /\ FirstIndex <= NextFrom
      BY <2>2 DEF NextFrom, Greater
    <3>3. ASSUME HasNextEntries
          PROVE  /\ ~NextEntriesPanics
                 /\ NextEntries = Segment(NextFrom, committed, leaderLog[chosen.term])
      <4>1. PICK low, high : low = NextFrom /\ high = committed + 1
        OBVIOUS
      <4>2. low \in FirstIndex..LastIndex /\ high \in low + 1..LastIndex + 1
        BY <2>1, <2>2, <3>2, <3>3, <4>1 DEF HasNextEntries
      <4>3. ~SlicePanics(low, high) /\ Slice(low, high) = Part(View, low, high - 1)
        BY <4>2, SliceFacts
      <4>4. \A i \in low..committed : View.term[i] = leaderLog[chosen.term][i]
        <5> TAKE i \in low..committed
        <5>1. i \in store.from..committed /\ i \in FirstIndex..LastIndex
          BY <2>1, <2>2, <3>1, <4>2
        <5> QED BY <2>4, <3>1, <5>1, CommittedFacts DEF IsChosen
      <4>5. Part(View, low, committed) = Segment(low, committed, leaderLog[chosen.term])
        BY <4>4 DEF Part, Segment
      <4>6. ~SliceCompacted(low)
        BY <4>2, <2>2 DEF SliceCompacted
      <4>7. high - 1 = committed
        BY <4>1
      <4> QED BY <4>1, <4>3, <4>5, <4>6, <4>7 DEF NextEntriesPanics, NextEntries
    <3>4. applied + 1 < FirstIndex =>
            FirstIndex - 1 = snapshot.index /\ FirstIndex - 1 <= committed
      BY <2>1, <3>1 DEF AppliedGap
    <3> QED BY <3>3, <3>4 DEF NextIsCommitted, NextEntriesPanics
  <2> QED BY <2>3, <2>4
<1> QED BY <1>1, Invariance, GapInvariance, PTL
-----------------------------------------------------------------------------
(* The persistence cycle keeps the log. *)

\* What the log is depends on the storage, the tail and the received snapshot.
LEMMA ViewStays ==
  ASSUME store' = store, unstable' = unstable, pending' = pending
  PROVE  View' = View /\ FirstIndex' = FirstIndex /\ LastIndex' = LastIndex
BY DEF View, FirstIndex, LastIndex

LEMMA PendingViewStays ==
  ASSUME IInv, pending # NoSnapshot, unstable' = unstable, pending' = pending
  PROVE  View' = View
<1> USE TypeFacts
<1>1. FirstIndex = LastIndex + 1 /\ LastIndex \in Nat
  BY ViewFacts
<1>2. IsEmpty(unstable)
  BY DEF IInv, TailInv
<1>3. FirstIndex' = FirstIndex /\ LastIndex' = LastIndex
  BY <1>2 DEF FirstIndex, LastIndex, MaybeFirstIndex, MaybeLastIndex, NoIndex
<1> QED BY <1>1, <1>3, SameView

LEMMA TakeReadyView == ASSUME TakeReady PROVE View' = View
BY ViewStays DEF TakeReady, storeVars, logVars

\* A snapshot is written while it, or a newer one, is pending.
LEMMA ApplySnapshotView ==
  ASSUME IInv, ApplySnapshot
  PROVE  View' = View /\ pending # NoSnapshot
<1>1. ready.phase = "snapshot"
  BY DEF ApplySnapshot, Proceed
<1>2. /\ ready.snap # NoSnapshot
      /\ pending = ready.snap \/ pending.index > ready.snap.index
  BY <1>1 DEF IInv, ReadyInv, ReadySnapshot
<1>3. pending # NoSnapshot
  BY <1>2, TypeFacts DEF NoSnapshot
<1> QED BY <1>3, PendingViewStays DEF ApplySnapshot, logVars

\* What is written is the tail as it was taken, and the tail does not begin
\* later now.
LEMMA AppendToStoreView ==
  ASSUME IInv, Truncating, AppendToStore
  PROVE  View' = View
<1> USE TypeFacts
<1>1. unstable' = unstable /\ pending' = pending /\ ready.phase = "entries"
  BY DEF AppendToStore, Proceed, logVars
<1>2. CASE pending # NoSnapshot
  BY <1>1, <1>2, PendingViewStays
<1>3. CASE IsEmpty(ready.seg)
  BY <1>1, <1>3, ViewStays DEF AppendToStore, StoreAppend, NothingNew
<1>4. CASE pending = NoSnapshot /\ ~IsEmpty(ready.seg)
  <2>1. unstable.from <= ready.seg.from /\ ~IsEmpty(unstable)
    BY <1>1, <1>4 DEF IInv, ReadyInv, ReadyAndTail
  <2>2. PICK k \in Nat :
          /\ k <= ready.seg.to /\ ready.seg.from <= k
          /\ store'.from = store.from /\ store'.to = ready.seg.to
          /\ \A i \in store.from..ready.seg.to :
               store'.term[i] = IF i < k THEN store.term[i] ELSE ready.seg.term[i]
    BY <1>4, WrittenFacts
  <2>3. FirstIndex' = FirstIndex /\ LastIndex' = LastIndex
    BY <1>1, <1>4, <2>1, <2>2
    DEF FirstIndex, LastIndex, MaybeFirstIndex, MaybeLastIndex, NoIndex, StoreFirst, IsEmpty
  <2>4. ASSUME NEW i \in FirstIndex..LastIndex, ~InTail(i)
        PROVE  StoreTerm(store', i) = StoreTerm(store, i)
    <3>1. i \in store.from..store.to /\ i < unstable.from
      BY <1>4, <2>1, <2>4, LogFacts
    <3>2. i \in store.from..ready.seg.to /\ i < k
      BY <2>1, <2>2, <3>1
    <3> QED BY <2>2, <3>1, <3>2 DEF StoreTerm
  <2>5. \A i \in FirstIndex..LastIndex : View'.term[i] = View.term[i]
    BY <1>1, <2>3, <2>4 DEF View, InTail
  <2> QED BY <2>3, <2>5, SameView
<1> QED BY <1>2, <1>3, <1>4

LEMMA SetHardStateView == ASSUME SetHardState PROVE View' = View
BY ViewStays DEF SetHardState, logVars

\* The storage has every entry that stable_to() forgets, and the snapshot that
\* stable_snapshot_to() forgets.
LEMMA AdvanceView ==
  ASSUME IInv, Advance
  PROVE  View' = View
<1> USE TypeFacts
<1>1. store' = store
  BY DEF Advance, storeVars
<1>2. CASE pending # NoSnapshot
  <2>1. CASE ready.snap = pending
    <3>1. /\ unstable' = unstable /\ pending' = NoSnapshot /\ IsEmpty(unstable)
          /\ store.from = pending.index /\ store.to = pending.index
      BY <1>2, <2>1, SnapshotAdvances DEF IInv, TailInv
    <3>2. FirstIndex' = pending.index + 1 /\ LastIndex' = pending.index
      BY <1>1, <3>1
      DEF FirstIndex, LastIndex, MaybeFirstIndex, MaybeLastIndex, NoIndex, StoreFirst, StoreLast
    <3>3. FirstIndex = pending.index + 1 /\ LastIndex = pending.index
      BY <1>2, ViewFacts
    <3> QED BY <3>2, <3>3, SameView
  <2>2. CASE ready.snap # pending
    BY <1>2, <2>2, SnapshotAdvances, PendingViewStays
  <2> QED BY <2>1, <2>2
<1>3. CASE pending = NoSnapshot
  <2>1. pending' = NoSnapshot
    BY <1>3 DEF Advance, IInv, ReadyInv, ReadySnapshot, NoSnapshot, StableSnapshotTo
  <2>2. CASE \/ IsEmpty(ready.seg)
             \/ ~StableMatches(unstable, pending, ready.seg.to, ready.seg.term[ready.seg.to])
    BY <1>1, <1>3, <2>1, <2>2, ViewStays DEF Advance, StableTo
  <2>3. CASE /\ ~IsEmpty(ready.seg)
             /\ StableMatches(unstable, pending, ready.seg.to, ready.seg.term[ready.seg.to])
    <3>1. /\ InTail(store.to) /\ unstable'.from = store.to + 1 /\ unstable'.to = unstable.to
          /\ \A i \in store.to + 1..unstable.to : unstable'.term[i] = unstable.term[i]
          /\ LastIndex = unstable.to
          /\ \A i \in store.from..store.to : EntryAt(i) = store.term[i]
      BY <1>3, <2>3, TailAdvances
    <3>2. FirstIndex' = FirstIndex /\ FirstIndex = store.from + 1
      BY <1>1, <1>3, <2>1, ViewFacts DEF FirstIndex
    <3>3. LastIndex' = LastIndex
      BY <1>1, <2>1, <3>1 DEF LastIndex, MaybeLastIndex, NoIndex, StoreLast, IsEmpty, InTail
    <3>4. ASSUME NEW i \in FirstIndex..LastIndex
          PROVE  View'.term[i] = View.term[i]
      <4>1. View.term[i] = EntryAt(i)
        BY <1>3, <3>2, ViewFacts
      <4>2. View'.term[i] = IF i \in store.to + 1..unstable.to THEN unstable'.term[i]
                            ELSE StoreTerm(store, i)
        BY <1>1, <3>1, <3>2, <3>3 DEF View
      <4>3. CASE i > store.to
        <5>1. i \in store.to + 1..unstable.to /\ InTail(i)
          BY <3>1, <3>2, <4>3 DEF InTail
        <5> QED BY <3>1, <4>1, <4>2, <5>1 DEF EntryAt
      <4>4. CASE i <= store.to
        BY <3>1, <3>2, <4>1, <4>2, <4>4 DEF StoreTerm
      <4> QED BY <3>1, <3>2, <4>3, <4>4
    <3> QED BY <3>2, <3>3, <3>4, SameView
  <2> QED BY <2>2, <2>3
<1> QED BY <1>2, <1>3

\* A step that moves ready is one of the cycle, or the end of this incarnation.
LEMMA ReadySteps ==
  ASSUME IInv, [Next]_vars, up, ready' # ready, up'
  PROVE  TakeReady \/ ApplySnapshot \/ AppendToStore \/ SetHardState \/ Advance
<1>1. ~Panic /\ ~RestartPanics /\ ~UNCHANGED vars
  BY DEF Panic, RestartPanics, vars
<1>2. ~\E n \in Indexes : Restart(n)
  BY DEF Restart
<1>3. ~\E i \in Indexes : AppliedTo(i) \/ CreateSnapshot(i) \/ Compact(i)
  BY DEF AppliedTo, CreateSnapshot, Compact
<1>4. ~LogNext
  BY DEF LogNext, Append, LeaderCommit, FollowerCommit, Restore, MaybeAppend
<1> QED BY <1>1, <1>2, <1>3, <1>4
        DEF Next, AppNext, FailNext, LogPanics, CyclePanics, Crash

\* Moving entries and snapshots to the storage never changes what the log is.
THEOREM PersistingKeepsTheLog == ASSUME Truncating PROVE Spec => PersistKeepsLog
<1>1. IInv /\ [Next]_vars => [up /\ ready' # ready => View' = View \/ ~up']_vars
  BY ReadySteps, TakeReadyView, ApplySnapshotView, AppendToStoreView, SetHardStateView,
     AdvanceView
<1> QED BY <1>1, Invariance, PTL DEF Spec, PersistKeepsLog
-----------------------------------------------------------------------------
(* all_entries() *)

LEMMA ReadsAreSlices == IInv => SliceIsTheLog
BY ViewShape, SliceFacts DEF SliceIsTheLog

\* An append to the storage leaves all of the log to be read.
LEMMA ReadAfterAppend ==
  ASSUME IInv, IInv', Truncating, AppendToStore, up', NEW log, log = View, ~IsEmpty(log)
  PROVE  ReadsAll(log)'
<1> USE TypeFacts
<1>1. View' = log /\ unstable' = unstable /\ pending' = pending
  BY AppendToStoreView DEF AppendToStore, logVars
<1>2. log.from = FirstIndex /\ log.to = LastIndex /\ log = Part(log, log.from, log.to)
  BY ViewShape DEF Part
<1>3. log.from \in Nat /\ log.to \in Nat /\ pending = NoSnapshot
  BY <1>2, ViewFacts
<1>4. PICK low, high : low = log.from /\ high = log.to + 1
  OBVIOUS
<1>5. SliceIsTheLog'
  <2>1. (IInv => SliceIsTheLog)'
    BY ReadsAreSlices, PTL
  <2> QED BY <2>1
<1>6. ~SlicePanics(low, high)' /\ Slice(low, high)' = Part(log, low, high - 1)
  <2>1. \A l \in log.from..log.to : \A h \in l + 1..log.to + 1 :
          ~SlicePanics(l, h)' /\ Slice(l, h)' = Part(log, l, h - 1)
    BY <1>1, <1>5 DEF SliceIsTheLog
  <2>2. low \in log.from..log.to /\ high \in low + 1..log.to + 1
    BY <1>3, <1>4 DEF IsEmpty
  <2>. HIDE TypeFacts
  <2> QED BY <2>1, <2>2
<1>7. high - 1 = log.to
  BY <1>3, <1>4
<1>8. store'.from < log.from
  <2>1. View'.from = FirstIndex' /\ FirstIndex' = store'.from + 1
    BY <1>1, <1>3 DEF View, FirstIndex, MaybeFirstIndex, NoIndex, StoreFirst
  <2>2. store'.from \in Nat
    BY DEF IInv, TypeInv, TypeOK, IsSegment
  <2> QED BY <1>1, <1>3, <2>1, <2>2
<1> QED BY <1>2, <1>4, <1>6, <1>7, <1>8 DEF ReadsAll

\* Where the storage is compacted, the log is read from the tail or again.
LEMMA ReadAfterCompact ==
  ASSUME IInv, NEW i \in Indexes, Compact(i), NEW log, log = View, ~IsEmpty(log)
  PROVE  StartsAgain(log)' \/ ReadsAll(log)'
<1> USE TypeFacts
<1>1. /\ unstable' = unstable /\ pending' = pending
      /\ store.from < i /\ i <= store.to /\ store' = Part(store, i, store.to)
  BY DEF Compact, Compacted, CompactRefused, CompactPanics, logVars, Indexes
<1>2. store'.from = i /\ i \in Nat
  BY <1>1 DEF Part, Segment, Indexes
<1>3. log.from = FirstIndex /\ log.to = LastIndex /\ log = Part(log, log.from, log.to)
  BY ViewShape DEF Part
<1>4. log.from \in Nat /\ log.to \in Nat /\ log.from <= log.to /\ pending = NoSnapshot
  BY <1>3, ViewFacts DEF IsEmpty
<1>5. /\ log.from = store.from + 1
      /\ log.to = IF IsEmpty(unstable) THEN store.to ELSE unstable.to
  BY <1>3, <1>4, ViewFacts
<1>6. CASE log.from < unstable.from
  BY <1>1, <1>2, <1>5, <1>6 DEF StartsAgain, EntriesCompacted
<1>7. CASE ~(log.from < unstable.from)
  <2>1. ~IsEmpty(unstable) /\ log.to = unstable.to
    BY <1>1, <1>2, <1>4, <1>5, <1>7 DEF IInv, TailInv
  <2>2. SliceCompacted(log.from)'
    BY <1>1, <1>2, <1>4, <1>5
    DEF SliceCompacted, FirstIndex, MaybeFirstIndex, NoIndex, StoreFirst
  <2>3. ~SlicePanics(log.from, log.to + 1)'
    BY <1>4, <2>2 DEF SlicePanics
  <2>4. Slice(log.from, log.to + 1)' = UnstableSlice(unstable, log.from, log.to + 1)
    BY <1>1, <1>4, <1>7 DEF Slice
  <2>5. \A j \in log.from..log.to : unstable.term[j] = log.term[j]
    BY <1>3, <1>4, <1>7, <2>1, ViewFacts DEF EntryAt, InTail
  <2>6. PICK high : high = log.to + 1 /\ log.to = high - 1
    BY <1>4
  <2>7. UnstableSlice(unstable, log.from, high) = log
    <3>1. UnstableSlice(unstable, log.from, high) = Part(unstable, log.from, log.to)
      BY <2>6, Zenon DEF UnstableSlice
    <3>2. Part(unstable, log.from, log.to) = Part(log, log.from, log.to)
      BY <2>5, Zenon DEF Part, Segment
    <3> QED BY <1>3, <3>1, <3>2
  <2> QED BY <1>1, <1>7, <2>3, <2>4, <2>6, <2>7 DEF ReadsAll
<1> QED BY <1>6, <1>7

\* A reader that all_entries() leaves between checking the bounds and reading
\* starts again or reads the log it saw, whatever is written meanwhile.
THEOREM ReadersAreConsistent == ASSUME Truncating PROVE Spec => ReaderIsConsistent
<1>1. ASSUME IInv, IInv', [Next]_vars, up, up', store' # store, UNCHANGED logVars,
             NEW log, log = View, ~IsEmpty(log)
      PROVE  StartsAgain(log)' \/ ReadsAll(log)'
  <2>1. ~Panic /\ ~RestartPanics /\ ~UNCHANGED vars /\ ~\E n \in Indexes : Restart(n)
    BY <1>1 DEF Panic, RestartPanics, Restart, vars, storeVars
  <2>2. ~LogNext
    BY <1>1 DEF LogNext, Append, LeaderCommit, FollowerCommit, Restore, MaybeAppend, storeVars
  <2>3. /\ ~\E i \in Indexes : AppliedTo(i) \/ CreateSnapshot(i)
        /\ ~(TakeReady \/ SetHardState \/ Advance)
    BY <1>1 DEF AppliedTo, CreateSnapshot, TakeReady, SetHardState, Advance, storeVars
  <2>4. ~ApplySnapshot
    BY <1>1, ApplySnapshotView, ViewFacts
  <2>5. AppendToStore \/ \E i \in Indexes : Compact(i)
    BY <1>1, <2>1, <2>2, <2>3, <2>4
    DEF Next, AppNext, FailNext, LogPanics, CyclePanics, Crash
  <2> QED BY <1>1, <2>5, ReadAfterAppend, ReadAfterCompact
<1>2. IInv /\ IInv' /\ [Next]_vars =>
        [up /\ up' /\ store' # store /\ UNCHANGED logVars =>
           \A log \in {View} : IsEmpty(log) \/ (StartsAgain(log) \/ ReadsAll(log))']_vars
  BY <1>1
<1> QED BY <1>2, Invariance, PTL DEF Spec, ReaderIsConsistent
-----------------------------------------------------------------------------
(* RaftLog and its storage implement DurableLog.  The log, its committed   *)
(* index and its durable index are Log, Here and Secured.                  *)

Log  == IF up THEN View ELSE Part(store, StoreFirst(store), StoreLast(store))
Here == IF up THEN committed ELSE Greater(hardCommit, store.from)

\* While the node is down, what is stored is what the log will be.
LEMMA LogIsView == IInv => Log = View
<1> SUFFICES ASSUME IInv, ~up PROVE Log = View
  BY DEF Log
<1> USE TypeFacts
<1>1. /\ IsEmpty(unstable) /\ unstable.from = store.to + 1 /\ pending = NoSnapshot
  BY DEF IInv, DownInv
<1>2. FirstIndex = StoreFirst(store) /\ LastIndex = StoreLast(store)
  BY <1>1, ViewFacts DEF StoreFirst, StoreLast
<1>3. \A i \in StoreFirst(store)..StoreLast(store) : View.term[i] = store.term[i]
  BY <1>1, <1>2, ViewFacts DEF EntryAt, InTail, IsEmpty, StoreLast
<1>4. Log = Segment(StoreFirst(store), StoreLast(store), store.term)
  BY DEF Log, Part
<1>5. View = Segment(StoreFirst(store), StoreLast(store), View.term)
  BY <1>2, ViewShape
<1> QED BY <1>3, <1>4, <1>5 DEF Segment

\* The committed entries are those that were chosen, and the durable ones are
\* committed.
HereChosen ==
  /\ Log.from \in Nat /\ Log.to \in Nat /\ Here \in Nat /\ Secured \in Nat
  /\ Log.from = FirstIndex /\ Log.to = LastIndex
  /\ Secured <= Here /\ Here <= Log.to /\ Here <= chosen.index
  /\ \A i \in Log.from..Log.to : i <= Here => IsChosen(i, Log.term[i])

\* Whether the node is up or down, what is committed is what the cluster chose.
LEMMA HereIsChosen == IInv => HereChosen
<1> SUFFICES ASSUME IInv
             PROVE  /\ FirstIndex \in Nat /\ LastIndex \in Nat /\ Here \in Nat
                    /\ Secured \in Nat
                    /\ Secured <= Here /\ Here <= LastIndex /\ Here <= chosen.index
                    /\ \A i \in FirstIndex..LastIndex :
                         i <= Here => IsChosen(i, View.term[i])
  BY LogIsView, ViewShape DEF HereChosen
<1> USE TypeFacts, BoundFacts
<1>1. FirstIndex \in Nat /\ LastIndex \in Nat
  BY ViewFacts
<1>2. CASE up
  <2>1. /\ Here = committed /\ committed <= LastIndex
        /\ store.from <= committed /\ hardCommit <= committed
    BY <1>2 DEF Here, IInv, TailInv
  <2>2. Secured <= Here
    BY <2>1 DEF Secured, Greater
  <2>3. ASSUME NEW i \in FirstIndex..LastIndex, i <= committed
        PROVE  IsChosen(i, View.term[i])
    <3>1. pending = NoSnapshot /\ FirstIndex = store.from + 1 /\ View.term[i] = EntryAt(i)
      BY <1>1, <2>3, ViewFacts
    <3>2. i \in store.from..committed
      BY <1>1, <2>3, <3>1
    <3> QED BY <3>1, <3>2, CommittedFacts
  <2> QED BY <1>1, <2>1, <2>2, <2>3
<1>3. CASE ~up
  <2>1. /\ IsEmpty(unstable) /\ pending = NoSnapshot /\ Here = Secured
    BY <1>3 DEF IInv, DownInv, Here, Secured
  <2>2. /\ Agreed(store, Secured) /\ hardCommit <= store.to
    BY DEF IInv, StoreInv
  <2>3. Secured <= store.to
    BY <2>2 DEF Secured, Greater
  <2>4. FirstIndex = store.from + 1 /\ LastIndex = store.to
    BY <2>1, ViewFacts
  <2>5. \A i \in FirstIndex..LastIndex : View.term[i] = store.term[i]
    BY <2>1, <2>4, ViewFacts DEF EntryAt, InTail, IsEmpty
  <2> QED BY <1>1, <2>1, <2>2, <2>3, <2>4, <2>5 DEF Agreed
<1> QED BY <1>2, <1>3

\* The cluster only commits more.
LEMMA ChosenGrows ==
  ASSUME IInv, [Next]_vars
  PROVE  /\ leaderLog' = leaderLog
         /\ \A j \in 0..chosen.index :
              leaderLog[chosen'.term][j] = leaderLog[chosen.term][j]
<1>1. CASE leaderLog' = leaderLog /\ chosen' = chosen
  BY <1>1
<1>2. ASSUME NEW t \in Leaders, NEW i \in Indexes, Choose(t, i), leaderLog' = leaderLog
      PROVE  \A j \in 0..chosen.index : leaderLog[chosen'.term][j] = leaderLog[chosen.term][j]
  BY <1>2, ChooseFacts DEF IInv, TypeInv
<1>3. CASE LogNext
  <2>1. PICK t \in Terms :
          \/ \E to \in Indexes : Append(t, to)
          \/ \E m \in Indexes : LeaderCommit(t, m) \/ FollowerCommit(t, m) \/ Restore(t, m)
          \/ \E prev, c \in committed..MaxIndex : \E to \in prev..MaxIndex :
               MaybeAppend(t, prev, to, c)
    BY <1>3 DEF LogNext
  <2>2. committed..MaxIndex \subseteq Indexes
    BY TypeFacts DEF Indexes
  <2>3. \/ leaderLog' = leaderLog /\ chosen' = chosen
        \/ leaderLog' = leaderLog /\ t \in Leaders /\ \E i \in Indexes : Choose(t, i)
    BY <2>1, <2>2
    DEF Append, LeaderCommit, FollowerCommit, Restore, MaybeAppend, Receives
  <2> QED BY <1>1, <1>2, <2>3
<1>4. CASE AppNext
  BY <1>1, <1>4 DEF AppNext, TakeReady, ApplySnapshot, AppendToStore, SetHardState, Advance,
     AppliedTo, CreateSnapshot, Compact
<1>5. CASE FailNext \/ UNCHANGED vars
  BY <1>1, <1>5 DEF FailNext, LogPanics, CyclePanics, Crash, Panic, RestartPanics, Restart, vars
<1> QED BY <1>3, <1>4, <1>5 DEF Next

\* So the log and the next one agree on what is committed in both.
LEMMA CommittedStays ==
  ASSUME IInv, IInv', [Next]_vars, NEW n \in Nat, n <= Here, n <= Here'
  PROVE  Durable!SameUpTo(Log, Log', n)
<1>1. HereChosen /\ HereChosen'
  <2>1. (IInv => HereChosen)'
    BY HereIsChosen, PTL
  <2> QED BY <2>1, HereIsChosen
<1>2. /\ Log.from \in Nat /\ Log.to \in Nat /\ Here \in Nat /\ Here <= chosen.index
      /\ \A i \in Log.from..Log.to : i <= Here => Log.term[i] = leaderLog[chosen.term][i]
      /\ Here' \in Nat
      /\ \A i \in Log'.from..Log'.to :
           i <= Here' => Log'.term[i] = leaderLog'[chosen'.term][i]
  BY <1>1 DEF HereChosen, IsChosen
<1>3. chosen.index \in Nat
  BY BoundFacts
<1>4. ASSUME NEW i \in (Log.from..Log.to) \cap (Log'.from..Log'.to), i <= n
      PROVE  Log.term[i] = Log'.term[i]
  <2>1. i \in 0..chosen.index /\ i <= Here /\ i <= Here'
    BY <1>2, <1>3, <1>4
  <2>2. Log.term[i] = leaderLog[chosen.term][i]
    BY <1>2, <2>1
  <2>3. Log'.term[i] = leaderLog'[chosen'.term][i]
    BY <1>2, <2>1
  <2> QED BY <2>1, <2>2, <2>3, ChosenGrows
<1> QED BY <1>4 DEF Durable!SameUpTo

LEMMA HereNow ==
  ASSUME IInv, IInv'
  PROVE  HereChosen /\ HereChosen' /\ Log = View /\ Log' = View'
<1>1. (IInv => HereChosen)'
  BY HereIsChosen, PTL
<1>2. (IInv => Log = View)'
  BY LogIsView, PTL
<1> QED BY <1>1, <1>2, HereIsChosen, LogIsView

\* Entries are appended, replace others, or are committed.
LEMMA ReplicateStep ==
  ASSUME IInv, IInv', [Next]_vars, up, up', UNCHANGED <<storeVars, pending>>,
         committed <= committed'
  PROVE  Durable!Replicate
<1>1. HereChosen /\ HereChosen'
  BY HereNow
<1>2. Here <= Here' /\ Here' <= Log'.to /\ Here \in Nat
  BY <1>1 DEF HereChosen, Here
<1>3. Log'.from = Log.from
  BY <1>1 DEF HereChosen, FirstIndex, storeVars
<1>4. Secured' = Secured
  BY DEF Secured, storeVars
<1>5. Durable!SameUpTo(Log, Log', Here)
  BY <1>2, CommittedStays
<1> QED BY <1>2, <1>3, <1>4, <1>5
        DEF Durable!Replicate, Durable!KeepsCommitted, Log, Here, Secured

\* The node's snapshot and commit index are replaced by newer ones.
LEMMA InstallStep ==
  ASSUME IInv, IInv', up, up', UNCHANGED storeVars, pending' # NoSnapshot,
         committed' > committed
  PROVE  Durable!Install
<1>1. HereChosen' /\ Log' = View'
  BY HereNow
<1>2. IsEmpty(View') /\ committed' = pending'.index /\ LastIndex' = pending'.index
  <2>1. (IInv => (pending # NoSnapshot => IsEmpty(View) /\ committed = pending.index
                                         /\ LastIndex = pending.index))'
    BY ViewFacts, PTL
  <2> QED BY <2>1
<1>3. Log'.to = LastIndex'
  BY <1>1 DEF HereChosen
<1>4. Secured' = Secured
  BY DEF Secured, storeVars
<1>5. IsEmpty(Log') /\ Here' = Log'.to /\ Here' > Here
  BY <1>1, <1>2, <1>3 DEF Here
<1> QED BY <1>4, <1>5
        DEF Durable!Install, Durable!IsEmpty, IsEmpty, Log, Here, Secured

\* More is durable, or nothing that DurableLog sees has changed.
LEMMA PersistStep ==
  ASSUME IInv, IInv', up, up', View' = View, committed' = committed, Secured <= Secured'
  PROVE  Durable!Persist
<1>1. HereChosen' /\ Log' = Log
  BY HereNow
<1>2. Here' = Here
  BY DEF Here
<1>3. Secured' <= Here
  BY <1>1, <1>2 DEF HereChosen
<1> QED BY <1>1, <1>2, <1>3 DEF Durable!Persist, Log, Here, Secured

LEMMA StutterStep ==
  ASSUME IInv, IInv', View' = View, Here' = Here, Secured' = Secured
  PROVE  UNCHANGED Durable!vars
<1>1. Log' = Log
  BY HereNow
<1> QED BY <1>1 DEF Durable!vars, Log, Here, Secured

LEMMA CompactStep ==
  ASSUME IInv, IInv', NEW i \in Indexes, Compact(i)
  PROVE  Durable!Compact \/ UNCHANGED Durable!vars
<1> USE TypeFacts
<1>1. /\ up /\ up' /\ unstable' = unstable /\ pending' = pending /\ committed' = committed
      /\ hardCommit' = hardCommit /\ i \in Nat
      /\ store.from < i /\ i <= store.to /\ i <= applied
  BY DEF Compact, CompactRefused, CompactPanics, logVars, Indexes
<1>2. /\ store'.from = i /\ store'.to = store.to
      /\ \A j \in i..store.to : store'.term[j] = store.term[j]
  BY DEF Compact, Compacted, Part, Segment
<1>3. i <= Secured /\ Secured' = Secured
  <2>1. applied <= Secured
    BY DEF IInv, TailInv
  <2>2. i <= hardCommit
    BY <1>1, <2>1 DEF Secured, Greater
  <2> QED BY <1>1, <1>2, <2>2 DEF Secured, Greater
<1>4. Here' = Here
  BY <1>1 DEF Here
<1>5. CASE pending # NoSnapshot
  BY <1>1, <1>3, <1>4, <1>5, PendingViewStays, StutterStep
<1>6. CASE pending = NoSnapshot
  <2>1. /\ HereChosen /\ Log = View /\ Log' = View'
    BY HereNow
  <2>2. FirstIndex = store.from + 1 /\ LastIndex \in Nat
    BY <1>6, ViewFacts
  <2>3. FirstIndex' = i + 1 /\ LastIndex' = LastIndex
    BY <1>1, <1>2, <1>6
    DEF FirstIndex, LastIndex, MaybeFirstIndex, MaybeLastIndex, NoIndex, StoreFirst, StoreLast
  <2>4. PICK k : k = i + 1
    OBVIOUS
  <2>5. k \in Log.from + 1..Secured + 1
    BY <1>1, <1>3, <2>1, <2>2, <2>4 DEF HereChosen
  <2>6. \A j \in k..LastIndex : View'.term[j] = View.term[j]
    <3> TAKE j \in k..LastIndex
    <3>1. StoreTerm(store', j) = StoreTerm(store, j)
      BY <1>1, <1>2, <2>2, <2>4 DEF StoreTerm
    <3>2. j \in FirstIndex..LastIndex /\ j \in FirstIndex'..LastIndex'
      BY <1>1, <2>2, <2>3, <2>4
    <3> QED BY <1>1, <3>1, <3>2 DEF View
  <2>7. View' = Part(View, k, LastIndex)
    <3>1. View' = Segment(FirstIndex', LastIndex', View'.term)
      BY DEF View, Segment
    <3> QED BY <2>3, <2>4, <2>6, <3>1 DEF Part, Segment
  <2>8. Log' = Part(Log, k, Log.to)
    BY <2>1, <2>7 DEF HereChosen
  <2> HIDE TypeFacts
  <2>9. \E j \in Log.from + 1..Secured + 1 :
          Log' = Part(Log, j, Log.to) /\ Here' = Here /\ Secured' = Secured
    BY <1>3, <1>4, <2>5, <2>8
  <2> QED BY <2>9 DEF Durable!Compact, Durable!Part, Durable!Segment, Part, Segment,
                      Log, Here, Secured
<1> QED BY <1>5, <1>6

\* What is left after a failure has the durable entries.
LEMMA FailStep ==
  ASSUME IInv, IInv', [Next]_vars, up, Panic
  PROVE  Durable!Fail
<1> USE TypeFacts
<1>1. HereChosen /\ HereChosen'
  BY HereNow
<1>2. /\ ~up' /\ store' = store /\ hardCommit' = hardCommit /\ pending' = NoSnapshot
  BY DEF Panic, New, storeVars
<1>3. Secured' = Secured /\ Here' = Secured
  BY <1>2 DEF Secured, Here
<1>4. Secured \in Nat /\ Secured <= Here /\ Secured <= Log'.to
  BY <1>1, <1>3 DEF HereChosen
<1>5. Durable!SameUpTo(Log, Log', Secured)
  BY <1>3, <1>4, CommittedStays
<1>6. Log'.from <= Here + 1
  <2>1. Log'.from = store.from + 1
    BY <1>1, <1>2 DEF HereChosen, FirstIndex, MaybeFirstIndex, NoIndex, StoreFirst
  <2>2. store.from <= Here
    BY DEF Here, IInv, TailInv
  <2>3. Here \in Nat
    BY <1>1 DEF HereChosen
  <2> QED BY <2>1, <2>2, <2>3
<1> QED BY <1>3, <1>4, <1>5, <1>6 DEF Durable!Fail, Log, Here, Secured

\* Raft::new reads the stored log and takes the durable commit index.
LEMMA RestartStep ==
  ASSUME IInv, IInv', NEW n \in Indexes, Restart(n)
  PROVE  UNCHANGED Durable!vars
<1> USE TypeFacts
<1>1. /\ ~up /\ up' /\ store' = store /\ hardCommit' = hardCommit /\ unstable' = unstable
      /\ pending' = pending /\ committed' = Greater(committed, hardCommit)
  BY DEF Restart, storeVars
<1>2. committed = store.from
  BY <1>1 DEF IInv, DownInv
<1>3. Here' = Here
  BY <1>1, <1>2 DEF Here, Greater
<1>4. Secured' = Secured
  BY <1>1 DEF Secured
<1> QED BY <1>1, <1>3, <1>4, ViewStays, StutterStep

LEMMA LogNextRefines ==
  ASSUME IInv, IInv', LogNext
  PROVE  Durable!Replicate \/ Durable!Install
<1> USE TypeFacts
<1>1. PICK t \in Terms :
        \/ \E to \in Indexes : Append(t, to)
        \/ \E m \in Indexes : LeaderCommit(t, m) \/ FollowerCommit(t, m) \/ Restore(t, m)
        \/ \E prev, c \in committed..MaxIndex : \E to \in prev..MaxIndex :
             MaybeAppend(t, prev, to, c)
  BY DEF LogNext
<1>2. [Next]_vars
  BY DEF Next
<1>3. \A m \in Int : committed <= Greater(committed, m)
  BY DEF Greater
<1>4. ASSUME NEW m \in Indexes,
             Append(t, m) \/ LeaderCommit(t, m) \/ FollowerCommit(t, m)
      PROVE  Durable!Replicate
  <2>1. /\ up /\ up' /\ UNCHANGED <<storeVars, pending>>
        /\ committed' = committed \/ committed' = Greater(committed, m)
    BY <1>4 DEF Append, LeaderCommit, FollowerCommit, CommitTo
  <2>2. committed <= committed'
    BY <1>3, <2>1 DEF Indexes
  <2> QED BY <1>2, <2>1, <2>2, ReplicateStep
<1>5. ASSUME NEW c \in committed..MaxIndex, NEW prev \in committed..MaxIndex,
             NEW to \in prev..MaxIndex, MaybeAppend(t, prev, to, c)
      PROVE  Durable!Replicate
  <2>1. /\ up /\ up' /\ UNCHANGED <<storeVars, pending>>
        /\ committed' = Greater(committed, Lesser(c, to))
    BY <1>5 DEF MaybeAppend, Receives, CommitTo
  <2>2. Lesser(c, to) \in Int
    BY DEF Lesser
  <2>3. committed <= committed'
    BY <1>3, <2>1, <2>2
  <2> QED BY <1>2, <2>1, <2>3, ReplicateStep
<1>6. ASSUME NEW s \in Indexes, Restore(t, s)
      PROVE  Durable!Replicate \/ Durable!Install
  <2>1. up /\ up' /\ UNCHANGED storeVars /\ s > 0
    BY <1>6 DEF Restore
  <2>2. CASE MatchTerm(s, leaderLog[t][s])
    <3>1. pending' = pending /\ committed' = Greater(committed, s)
      BY <1>6, <2>2 DEF Restore, CommitTo
    <3> QED BY <1>2, <1>3, <2>1, <3>1, ReplicateStep DEF Indexes
  <2>3. CASE ~MatchTerm(s, leaderLog[t][s])
    <3>1. pending' = [index |-> s, term |-> leaderLog[t][s]] /\ committed' = s
      BY <1>6, <2>3 DEF Restore
    <3>2. pending' # NoSnapshot
      BY <2>1, <3>1 DEF NoSnapshot
    <3>3. committed' > committed
      BY <1>6, <2>3, <3>1, RestoreAhead
    <3> QED BY <2>1, <3>2, <3>3, InstallStep
  <2> QED BY <2>2, <2>3
<1> QED BY <1>1, <1>4, <1>5, <1>6

LEMMA AppNextRefines ==
  ASSUME IInv, IInv', Truncating, AppNext
  PROVE  Durable!Persist \/ Durable!Compact \/ UNCHANGED Durable!vars
<1> USE TypeFacts, BoundFacts
<1>1. CASE TakeReady
  BY <1>1, TakeReadyView, PersistStep DEF TakeReady, Secured, storeVars, logVars
<1>2. CASE ApplySnapshot
  <2>1. Secured <= Secured'
    <3>1. ready.phase = "snapshot" /\ hardCommit' = hardCommit
      BY <1>2 DEF ApplySnapshot, Proceed
    <3>2. ready.snap.index > Secured
      BY <3>1 DEF IInv, ReadyInv, ReadySnapshot
    <3>3. store'.from = store.from \/ store'.from = ready.snap.index
      BY <1>2, SnapshotStoreFacts DEF ApplySnapshot
    <3> QED BY <3>1, <3>2, <3>3 DEF Secured, Greater
  <2> QED BY <1>2, <2>1, ApplySnapshotView, PersistStep DEF ApplySnapshot, logVars
<1>3. CASE AppendToStore
  <2>1. Secured' = Secured
    BY <1>3 DEF AppendToStore, StoreAppend, Splice, Secured
  <2> QED BY <1>3, <2>1, AppendToStoreView, PersistStep DEF AppendToStore, logVars
<1>4. CASE SetHardState
  <2>1. Secured <= Secured'
    <3>1. ready.phase = "hardState" /\ hardCommit' = ready.commit /\ store' = store
      BY <1>4 DEF SetHardState, Proceed
    <3>2. Secured <= ready.commit
      BY <3>1 DEF IInv, ReadyInv, ReadyTaken
    <3> QED BY <3>1, <3>2 DEF Secured, Greater
  <2> QED BY <1>4, <2>1, SetHardStateView, PersistStep DEF SetHardState, logVars
<1>5. CASE Advance
  BY <1>5, AdvanceView, PersistStep DEF Advance, Secured, storeVars
<1>6. ASSUME NEW i \in Indexes, AppliedTo(i) \/ CreateSnapshot(i)
      PROVE  UNCHANGED Durable!vars
  <2>1. /\ up' = up /\ store' = store /\ unstable' = unstable /\ pending' = pending
        /\ committed' = committed /\ hardCommit' = hardCommit
    BY <1>6 DEF AppliedTo, CreateSnapshot, storeVars, logVars
  <2> QED BY <2>1, ViewStays, StutterStep DEF Here, Secured
<1> QED BY <1>1, <1>2, <1>3, <1>4, <1>5, <1>6, CompactStep DEF AppNext

LEMMA NextRefines ==
  ASSUME IInv, IInv', Truncating, [Next]_vars
  PROVE  [Durable!Next]_(Durable!vars)
<1>1. CASE LogNext
  BY <1>1, LogNextRefines DEF Durable!Next
<1>2. CASE AppNext
  BY <1>2, AppNextRefines DEF Durable!Next
<1>3. CASE FailNext
  <2>1. CASE RestartPanics
    <3>1. UNCHANGED vars
      BY <2>1 DEF RestartPanics
    <3> QED BY <3>1, ViewStays, StutterStep
            DEF vars, storeVars, logVars, Here, Secured
  <2>2. CASE up /\ Panic
    BY <2>2, FailStep DEF Durable!Next
  <2> QED BY <1>3, <2>1, <2>2, RestartStep DEF FailNext, LogPanics, CyclePanics, Crash
<1>4. CASE UNCHANGED vars
  BY <1>4, ViewStays, StutterStep DEF vars, storeVars, logVars, Here, Secured
<1> QED BY <1>1, <1>2, <1>3, <1>4 DEF Next

LEMMA InitRefines == ASSUME Init PROVE Durable!Init
<1>1. IInv
  BY InitInv
<1>2. /\ store.from = 0 /\ store.to = 0 /\ pending = NoSnapshot /\ up
      /\ committed = 0 /\ hardCommit = -1 /\ IsEmpty(unstable)
  <2>1. unstable = NoEntries(1)
    BY DEF Init, EmptyStore, StoreLast, Segment
  <2> QED BY <2>1, NoEntriesFacts
          DEF Init, EmptyStore, StoreFirst, StoreLast, Segment, NoHardState
<1>3. FirstIndex = 1 /\ LastIndex = 0
  BY <1>1, <1>2, ViewFacts
<1>4. View = Segment(1, 0, View.term)
  BY <1>3, ViewShape
<1>5. View = NoEntries(1)
  BY <1>4 DEF NoEntries, Segment
<1> QED BY <1>2, <1>5
        DEF Durable!Init, Durable!NoEntries, Durable!Segment, NoEntries, Segment, Greater

\* The node's log, split, written, overwritten, compacted, restored and reopened
\* as it is, is one log whose committed prefix stays and of which a failure
\* takes back nothing durable.
THEOREM RaftLogIsDurable == ASSUME Truncating PROVE Spec => ImplementsDurableLog
<1>1. Init => Durable!Init
  BY InitRefines
<1>2. IInv /\ IInv' /\ [Next]_vars => [Durable!Next]_(Durable!vars)
  BY NextRefines
<1> QED BY <1>1, <1>2, Invariance, PTL DEF Spec, ImplementsDurableLog, Durable!Spec
=============================================================================
