----------------------------- MODULE MemStorage -----------------------------
(***************************************************************************)
(* The operations of storage.rs on the stored log, MemStorageCore.entries. *)
(* Its first entry is a dummy that holds the index and the term of the     *)
(* last compacted entry, so a stored log s is never empty and its entries  *)
(* are those at s.from + 1 .. s.to.  An operation that can panic has a     *)
(* predicate that says when; one that can return Err a predicate or value. *)
(***************************************************************************)
EXTENDS Segment

CONSTANT
  Truncating   \* what append does with stored entries that overlap the new
               \* ones: TRUE replaces them, as the trait's user expects;
               \* FALSE keeps them, as MemStorageCore::append does

ASSUME TruncatingAssumption == Truncating \in BOOLEAN

\* MemStorageCore::default: the dummy entry alone.
EmptyStore == Segment(0, 0, [i \in {0} |-> 0])

StoreFirst(s) == s.from + 1
StoreLast(s)  == s.to

\* The value of term() where the code returns Err(Compacted | Unavailable).
ErrTerm == -1

StoreTerm(s, i) == IF i \in s.from..s.to THEN s.term[i] ELSE ErrTerm

\* entries(low, high): an error, a panic, or the entries low .. high - 1.
\* Mutant: the dummy counts as an entry.
CompactedBelowDummy(s, low) == low < s.from
EntriesCompacted(s, low) == low <= s.from
EntriesPanics(s, low, high) ==
  /\ ~EntriesCompacted(s, low)
  /\ high > s.to + 1 \/ s.to = s.from
StoreEntries(s, low, high) == Part(s, low, high - 1)

\* apply_snapshot: the log becomes a dummy at the snapshot.
SnapshotStore(snap) == Segment(snap.index, snap.index, [i \in {snap.index} |-> snap.term])

\* compact(i) returns Err at or below the dummy and panics beyond the log.
CompactRefused(s, i) == i <= s.from
CompactPanics(s, i)  == i > s.to
\* Mutant: compact forgets the dummy too.
CompactedWithDummy(s, i) == Part(s, i + 1, s.to)
Compacted(s, i)      == Part(s, i, s.to)

\* append(e): entries at or below the dummy are skipped, the rest extends the
\* log; where it overlaps the log, line 145 builds the merged vector and drops
\* it unless the storage is a truncating one.
Fresh(s, e) == Part(e, Greater(e.from, StoreFirst(s)), e.to)
NothingNew(s, e) == IsEmpty(e) \/ e.to <= s.from
StoreAppendPanics(s, e) == ~NothingNew(s, e) /\ e.from > s.to + 1
StoreAppend(s, e) ==
  IF NothingNew(s, e) \/ (Fresh(s, e).from <= s.to /\ ~Truncating)
    THEN s
    ELSE Splice(s, Fresh(s, e))
=============================================================================
