------------------------------ MODULE Unstable ------------------------------
(***************************************************************************)
(* The operations of log_unstable.rs on Unstable: u is Unstable.entries    *)
(* with u.from its offset, p is Unstable.snapshot.                         *)
(***************************************************************************)
EXTENDS Segment

\* Option<Snapshot>: a real snapshot has an index above 0
\* (prepare_send_snapshot panics on index 0).
NoSnapshot == [index |-> 0, term |-> 0]

IsSnapshot(p) == /\ p = [index |-> p.index, term |-> p.term]
                 /\ p.index \in Nat
                 /\ p.term \in Nat

NoIndex == -1

MaybeFirstIndex(p) == IF p = NoSnapshot THEN NoIndex ELSE p.index + 1

MaybeLastIndex(u, p) ==
  IF ~IsEmpty(u) THEN u.to ELSE IF p = NoSnapshot THEN NoIndex ELSE p.index

\* maybe_term indexes the entries with every index from the offset to the last
\* index, and the last index may be the snapshot's while there are no entries.
MaybeTermPanics(u, p, i) ==
  i >= u.from /\ i <= MaybeLastIndex(u, p) /\ i > u.to

NoTerm == -2
MaybeTerm(u, p, i) ==
  IF i \in u.from..u.to THEN u.term[i]
  ELSE IF i < u.from /\ p # NoSnapshot /\ i = p.index THEN p.term
  ELSE NoTerm

\* stable_to(i, t) forgets the entries up to i if entry i still has term t.
\* Mutant: the term of the entry is not compared.
StableMatchesIndex(u, p, i, t) == i \in u.from..u.to
StableMatches(u, p, i, t) == MaybeTerm(u, p, i) = t /\ i >= u.from
StableTo(u, p, i, t) == IF StableMatches(u, p, i, t) THEN Part(u, i + 1, u.to) ELSE u

\* Mutant: a newer snapshot is forgotten too.
StableAnySnapshotTo(p, i) == NoSnapshot

StableSnapshotTo(p, i) == IF i = p.index THEN NoSnapshot ELSE p

\* restore(snap): no entries, and the offset is the snapshot's own index.
RestoredUnstable(snap) == NoEntries(snap.index)

\* truncate_and_append(e), e not empty.
AppendPanics(u, e) == e.from > u.to + 1
TruncateAndAppend(u, e) == IF e.from <= u.from THEN e ELSE Splice(u, e)

\* slice(low, high)
UnstableSlicePanics(u, low, high) == low > high \/ low < u.from \/ high > u.to + 1
UnstableSlice(u, low, high) == Part(u, low, high - 1)
=============================================================================
