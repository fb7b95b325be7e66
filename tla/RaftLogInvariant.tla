-------------------------- MODULE RaftLogInvariant --------------------------
(***************************************************************************)
(* The inductive invariant of RaftLog over a truncating storage.           *)
(***************************************************************************)
EXTENDS RaftLog

\* Every entry of s has, before it, what its term's leader has before it.
Path(s) ==
  \A i \in s.from..s.to : \A j \in s.from..i : s.term[j] = leaderLog[s.term[i]][j]

\* The entries of s below e are those that the entries of e have before them.
Joins(s, e) ==
  \A i \in s.from..s.to : \A j \in e.from..e.to :
    i < e.from => s.term[i] = leaderLog[e.term[j]][i]

\* The entries of s up to n are committed ones.
IsChosen(i, t) == t = leaderLog[chosen.term][i]
Agreed(s, n) == \A i \in s.from..s.to : i <= n => IsChosen(i, s.term[i])

Within(s) == s.to <= MaxIndex /\ \A i \in s.from..s.to : s.term[i] \in Terms

\* What a failure cannot take back.
Secured == Greater(hardCommit, store.from)

TypeInv ==
  /\ TypeOK
  /\ Within(store) /\ Within(unstable) /\ Within(ready.seg)
  /\ pending.index <= MaxIndex /\ pending.term \in Terms

StoreInv ==
  /\ Path(store)
  /\ Agreed(store, Secured)
  /\ Secured <= chosen.index
  /\ hardCommit <= store.to
  /\ snapshot.index <= Secured /\ IsChosen(snapshot.index, snapshot.term)
  /\ hardCommit < store.from => snapshot.index = store.from

TailInv ==
  /\ Path(unstable)
  /\ Joins(store, unstable)
  /\ Agreed(unstable, committed)
  /\ IF pending = NoSnapshot
       THEN /\ IF IsEmpty(unstable)
                 THEN \/ unstable.from = store.to + 1
                      \/ /\ unstable.from = store.to
                         /\ store.from = store.to /\ snapshot.index = store.to
                 ELSE unstable.from <= store.to + 1
            /\ \A i \in store.from..store.to :
                 i <= committed /\ (i < unstable.from \/ IsEmpty(unstable))
                   => IsChosen(i, store.term[i])
       ELSE /\ IsEmpty(unstable) /\ unstable.from = pending.index
            /\ committed = pending.index /\ pending.index > 0
            /\ IsChosen(pending.index, pending.term)
            /\ ready.snap # pending \/ ready.phase = "snapshot"
                 => pending.index > Secured
            /\ ready.snap # pending => pending.index > ready.commit
  /\ store.from <= committed /\ committed <= LastIndex /\ committed <= chosen.index
  /\ applied <= Secured /\ applied <= committed
  /\ up => hardCommit <= committed
  /\ ~IsEmpty(unstable) /\ ready.phase # "advance" => unstable.to > Secured

\* What the application took.
ReadyTaken ==
  LET seg == ready.seg IN
  /\ ready.phase = "idle" => ready = Idle
  /\ Path(seg)
  /\ ready.commit <= committed
  /\ Agreed(seg, ready.commit)
  /\ ~IsEmpty(seg) => ready.commit <= seg.to
  /\ ready.phase # "idle" => Secured <= ready.commit
  /\ ready.phase = "advance" => hardCommit = ready.commit

ReadySnapshot ==
  LET snap == ready.snap IN
  /\ ready.phase = "snapshot" => snap # NoSnapshot /\ snap.index > Secured
  /\ snap # NoSnapshot =>
       /\ IsEmpty(ready.seg) /\ ready.seg.from = snap.index
       /\ snap.index = ready.commit /\ IsChosen(snap.index, snap.term)
       /\ pending = snap \/ pending.index > snap.index
       /\ ready.phase # "snapshot" =>
            /\ store.from = snap.index /\ store.to = snap.index
            /\ snapshot.index = snap.index

\* The tail since then: it still has the last entry that was taken, or it was
\* truncated and overwritten above the commit index that was taken.
ReadyAndTail ==
  LET seg == ready.seg IN
  ready.phase # "idle" /\ pending = NoSnapshot =>
    /\ unstable.from <= seg.from
    /\ ~IsEmpty(seg) => ~IsEmpty(unstable)
    /\ ~IsEmpty(unstable) =>
         \/ unstable.to > ready.commit
         \/ /\ ~IsEmpty(seg)
            /\ StableMatches(unstable, pending, seg.to, seg.term[seg.to])

\* Before the entries are written ...
ReadyToWrite ==
  LET seg == ready.seg IN
  ready.phase = "entries" /\ ~IsEmpty(seg) =>
    /\ Joins(store, seg)
    /\ seg.from <= store.to + 1 /\ seg.to > Secured
    /\ \A i \in store.from..store.to :
         i < seg.from /\ i <= ready.commit => IsChosen(i, store.term[i])

\* ... and after.
ReadyWritten ==
  LET seg == ready.seg IN
  /\ ready.phase \in {"hardState", "advance"} \/ (ready.phase = "entries" /\ IsEmpty(seg))
       => ready.commit <= store.to /\ Agreed(store, ready.commit)
  /\ ready.phase \in {"hardState", "advance"} /\ ~IsEmpty(seg) =>
       store.to = seg.to /\ store.term[store.to] = seg.term[seg.to]

ReadyInv ==
  ReadyTaken /\ ReadySnapshot /\ ReadyAndTail /\ ReadyToWrite /\ ReadyWritten

\* While the node is down the memory is what RaftLog::new makes of the storage.
DownInv ==
  ~up => /\ IsEmpty(unstable) /\ unstable.from = store.to + 1
         /\ pending = NoSnapshot /\ ready = Idle
         /\ committed = store.from /\ applied = store.from

IInv == TypeInv /\ StoreInv /\ TailInv /\ ReadyInv /\ DownInv

\* Where the application has not applied what the storage has compacted, it has
\* a snapshot of it.  (Not a part of IInv, which is inductive without it.)
AppliedGap == applied < store.from => snapshot.index = store.from
=============================================================================
