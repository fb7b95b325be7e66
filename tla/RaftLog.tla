------------------------------ MODULE RaftLog -------------------------------
(***************************************************************************)
(* RaftLog<T> of raft_log.rs: the log of one node, split between a Storage *)
(* that the application writes (MemStorage) and an in-memory tail          *)
(* (Unstable), with the callers in raft.rs that guard its operations and   *)
(* the application's persistence cycle.                                    *)
(*                                                                         *)
(* The rest of the cluster is abstracted by two history variables:         *)
(* leaderLog[t] is the log that the leader of term t has or will have, and *)
(* chosen names the longest prefix the cluster is known to have committed. *)
(***************************************************************************)
EXTENDS MemStorage, Unstable

CONSTANTS
  MaxTerm,   \* bound: terms are 0 .. MaxTerm
  MaxIndex   \* bound: log indexes are 0 .. MaxIndex

ASSUME BoundsAssumption == MaxTerm \in Nat /\ MaxIndex \in Nat

VARIABLES
  store,       \* MemStorageCore.entries
  snapshot,    \* MemStorageCore.snapshot, its metadata
  hardCommit,  \* MemStorageCore.hard_state.commit, NoHardState if never set
  unstable,    \* Unstable.{offset, entries}
  pending,     \* Unstable.snapshot
  committed,   \* RaftLog.committed
  applied,     \* RaftLog.applied
  ready,       \* what the application is persisting, and how far it has come
  up,          \* FALSE from a panic or a crash until RaftLog is built again
  leaderLog,   \* history: the log of each term's leader
  chosen       \* history: leaderLog[chosen.term] is committed to chosen.index

storeVars == <<store, snapshot, hardCommit>>
logVars   == <<unstable, pending, committed, applied>>
vars == <<storeVars, logVars, ready, up, leaderLog, chosen>>

Terms   == 0..MaxTerm
Indexes == 0..MaxIndex
NoHardState == -1
-----------------------------------------------------------------------------
(* The read operations. *)

FirstIndex ==
  IF MaybeFirstIndex(pending) # NoIndex THEN MaybeFirstIndex(pending)
                                        ELSE StoreFirst(store)

LastIndex ==
  IF MaybeLastIndex(unstable, pending) # NoIndex
    THEN MaybeLastIndex(unstable, pending) ELSE StoreLast(store)

InRange(i) == FirstIndex - 1 <= i /\ i <= LastIndex

TermPanics(i) == InRange(i) /\ MaybeTermPanics(unstable, pending, i)

\* term(i): 0 outside the log, else from the tail, else from the storage.
Term(i) ==
  IF ~InRange(i) THEN 0
  ELSE IF MaybeTerm(unstable, pending, i) # NoTerm
    THEN MaybeTerm(unstable, pending, i)
    ELSE StoreTerm(store, i)

MatchTerm(i, t) == Term(i) = t

\* find_conflict(e): the first index at which the log differs, 0 if none.
\* Mutant: only entries that exist are compared, new ones are not a conflict.
ConflictsOfExisting(e) ==
  {i \in e.from..Lesser(e.to, LastIndex) : ~MatchTerm(i, e.term[i])}
Conflicts(e) == {i \in e.from..e.to : ~MatchTerm(i, e.term[i])}
FindConflict(e) ==
  LET found == Conflicts(e) IN
  IF found = {} THEN 0 ELSE CHOOSE i \in found : \A j \in found : i <= j

\* slice(low, high, NO_LIMIT): Err(Compacted) below the first index; otherwise
\* the stored entries below the offset followed by those of the tail.
SliceCompacted(low) == low < FirstIndex
SlicePanics(low, high) ==
  \/ low > high
  \/ /\ ~SliceCompacted(low)
     /\ \/ high > LastIndex + 1
        \/ /\ low < high
           /\ \/ /\ low < unstable.from
                 /\ EntriesPanics(store, low, Lesser(high, unstable.from))
              \/ /\ high > unstable.from
                 /\ UnstableSlicePanics(unstable, Greater(low, unstable.from), high)
\* Mutant: what is stored is read from the storage, though the tail replaced it.
SliceOfStoreFirst(low, high) ==
  IF high <= StoreLast(store) + 1 THEN StoreEntries(store, low, high)
  ELSE IF low >= unstable.from THEN UnstableSlice(unstable, low, high)
  ELSE Splice(StoreEntries(store, low, unstable.from),
              UnstableSlice(unstable, unstable.from, high))
Slice(low, high) ==
  LET off == unstable.from IN
  IF high <= off THEN StoreEntries(store, low, high)
  ELSE IF low >= off THEN UnstableSlice(unstable, low, high)
  ELSE Splice(StoreEntries(store, low, off), UnstableSlice(unstable, off, high))

\* next_entries(): what is committed and not applied, as far as it is not in a
\* snapshot.
\* Mutant: all that is not applied.
NextFromApplied == applied + 1
NextFrom == Greater(applied + 1, FirstIndex)
HasNextEntries == committed + 1 > NextFrom
NextEntries == Slice(NextFrom, committed + 1)
NextEntriesPanics ==
  HasNextEntries /\ (SliceCompacted(NextFrom) \/ SlicePanics(NextFrom, committed + 1))

\* all_entries() on the log that it saw, when it comes to read what it needs of
\* the storage: it starts again on Err(Compacted).
StartsAgain(log) == log.from < unstable.from /\ EntriesCompacted(store, log.from)
ReadsAll(log) ==
  /\ ~SlicePanics(log.from, log.to + 1)
  /\ log.from < unstable.from => store.from < log.from
  /\ Slice(log.from, log.to + 1) = log
-----------------------------------------------------------------------------
(* The rest of the cluster. *)

\* The logs of leaders match: an entry of term s at index i is an entry of the
\* leader of term s, with everything that leader's log has before it.
LeaderLogs ==
  {h \in [Terms -> [Indexes -> Terms]] :
     \A t \in Terms : \A i \in Indexes :
       /\ h[t][i] <= t
       /\ (h[t][i] = 0) <=> (t = 0 \/ i = 0)
       /\ \A j \in 0..i : h[t][j] = h[h[t][i]][j]}

\* A leader has every entry known to be committed (Leader Completeness).
Leaders ==
  {t \in Terms \ {0} :
     \A i \in 0..chosen.index : leaderLog[t][i] = leaderLog[chosen.term][i]}

Choose(t, i) ==
  chosen' = IF i > chosen.index THEN [term |-> leaderLog[t][i], index |-> i] ELSE chosen

Entries(t, a, b) == Segment(a, b, leaderLog[t])

\* This node's log is that of the leader of term t up to index n.
AgreesWith(t, n) ==
  \A i \in FirstIndex - 1..n : ~TermPanics(i) /\ Term(i) = leaderLog[t][i]
-----------------------------------------------------------------------------
Idle == [phase |-> "idle", seg |-> NoEntries(0), snap |-> NoSnapshot, commit |-> 0]

Init ==
  /\ store = EmptyStore
  /\ snapshot = NoSnapshot
  /\ hardCommit = NoHardState
  /\ unstable = NoEntries(StoreLast(store) + 1)
  /\ pending = NoSnapshot
  /\ committed = StoreFirst(store) - 1
  /\ applied = StoreFirst(store) - 1
  /\ ready = Idle
  /\ up = TRUE
  /\ leaderLog \in LeaderLogs
  /\ chosen = [term |-> 0, index |-> 0]

\* Mutant: the offset of a new log is its last index, not the next one.
NewAtLast(s) ==
  /\ unstable' = NoEntries(StoreLast(s))
  /\ pending' = NoSnapshot
  /\ committed' = StoreFirst(s) - 1
  /\ applied' = StoreFirst(s) - 1

\* RaftLog::new on the stored log s.
New(s) ==
  /\ unstable' = NoEntries(StoreLast(s) + 1)
  /\ pending' = NoSnapshot
  /\ committed' = StoreFirst(s) - 1
  /\ applied' = StoreFirst(s) - 1

\* The memory is lost; what is left is what RaftLog::new will read.
Panic ==
  /\ up' = FALSE
  /\ New(store)
  /\ ready' = Idle
  /\ UNCHANGED <<storeVars, leaderLog, chosen>>

\* commit_to(i) never lowers committed, and panics beyond the last index.
CommitTo(i) == committed' = Greater(committed, i)

\* Raft::append_entry on the leader of term t: new entries of term t.
Append(t, to) ==
  /\ up /\ t \in Leaders
  /\ to \in LastIndex + 1..MaxIndex
  /\ AgreesWith(t, LastIndex)
  /\ \A i \in LastIndex + 1..to : leaderLog[t][i] = t
  /\ ~AppendPanics(unstable, Entries(t, LastIndex + 1, to))
  /\ unstable' = TruncateAndAppend(unstable, Entries(t, LastIndex + 1, to))
  /\ UNCHANGED <<storeVars, pending, committed, applied, ready, up, leaderLog, chosen>>

\* Raft::maybe_commit on the leader of term t, with m the index a quorum has.
LeaderCommit(t, m) ==
  /\ up /\ t \in Leaders
  /\ AgreesWith(t, LastIndex)
  /\ m > committed /\ m <= LastIndex /\ MatchTerm(m, t)
  /\ CommitTo(m)
  /\ Choose(t, m)
  /\ UNCHANGED <<storeVars, unstable, pending, applied, ready, up, leaderLog>>

\* maybe_append, called at or above the commit index (raft.rs:977) with the
\* entries prev + 1 .. to of the leader of term t, whose commit index is c, and
\* the term of its entry prev.  The handler passes the message's own term
\* instead; where that matches, it is the term of the leader's entry prev.
Receives(t, prev, to) ==
  /\ up /\ committed <= prev /\ prev <= to
  /\ t \in Leaders
  /\ ~TermPanics(prev) /\ MatchTerm(prev, leaderLog[t][prev])

Appended(e) ==
  LET k == FindConflict(e) IN
  IF k = 0 THEN unstable ELSE TruncateAndAppend(unstable, Part(e, k, e.to))

MaybeAppendPanics(e) ==
  LET k == FindConflict(e) IN
  k # 0 /\ (k <= committed \/ AppendPanics(unstable, Part(e, k, e.to)))

MaybeAppend(t, prev, to, c) ==
  /\ Receives(t, prev, to)
  /\ ~MaybeAppendPanics(Entries(t, prev + 1, to))
  /\ unstable' = Appended(Entries(t, prev + 1, to))
  /\ CommitTo(Lesser(c, to))
  /\ Choose(t, c)
  /\ UNCHANGED <<storeVars, pending, applied, ready, up, leaderLog>>

\* Raft::handler_heartbeat: the leader sends min(matched, its commit index).
FollowerCommit(t, c) ==
  /\ up /\ t \in Leaders
  /\ c > committed /\ c <= LastIndex
  /\ AgreesWith(t, c)
  /\ CommitTo(c)
  /\ Choose(t, c)
  /\ UNCHANGED <<storeVars, unstable, pending, applied, ready, up, leaderLog>>

\* Raft::restore: a snapshot of the leader of term t at index s either only
\* moves the commit index or replaces the log.
Restore(t, s) ==
  /\ up /\ t \in Leaders
  /\ s >= committed /\ s > 0
  /\ ~TermPanics(s)
  /\ IF MatchTerm(s, leaderLog[t][s])
       THEN CommitTo(s) /\ UNCHANGED <<unstable, pending>>
       ELSE /\ unstable' = RestoredUnstable([index |-> s, term |-> leaderLog[t][s]])
            /\ pending' = [index |-> s, term |-> leaderLog[t][s]]
            /\ committed' = s
  /\ Choose(t, s)
  /\ UNCHANGED <<storeVars, applied, ready, up, leaderLog>>

\* What a leader sends, or a client proposes, can make the log panic.
AppendTooFar(t) ==
  /\ AgreesWith(t, LastIndex)
  /\ LastIndex < MaxIndex /\ leaderLog[t][LastIndex + 1] = t
  /\ AppendPanics(unstable, Entries(t, LastIndex + 1, LastIndex + 1))

Panics ==
  \E t \in Leaders :
    \/ AppendTooFar(t)
    \/ \E prev \in Indexes : \E to \in prev..MaxIndex :
         Receives(t, prev, to) /\ MaybeAppendPanics(Entries(t, prev + 1, to))
    \/ \E prev \in Indexes : committed <= prev /\ TermPanics(prev)

LogPanics == up /\ Panics /\ Panic
-----------------------------------------------------------------------------
(* The application's persistence cycle.  It takes the tail, the pending    *)
(* snapshot and the commit index, writes them to the storage, and reports  *)
(* what is stable; the log may change between any two of these steps.      *)

TakeReady ==
  /\ up /\ ready.phase = "idle"
  /\ ~IsEmpty(unstable) \/ pending # NoSnapshot \/ committed # hardCommit
  /\ ready' = [phase |-> IF pending = NoSnapshot THEN "entries" ELSE "snapshot",
               seg |-> unstable, snap |-> pending, commit |-> committed]
  /\ UNCHANGED <<storeVars, logVars, up, leaderLog, chosen>>

Proceed(from, to) == ready.phase = from /\ ready' = [ready EXCEPT !.phase = to]

\* MemStorageCore::apply_snapshot returns Err for a snapshot no newer than its own.
ApplySnapshot ==
  /\ up /\ Proceed("snapshot", "entries")
  /\ IF ready.snap.index > snapshot.index
       THEN store' = SnapshotStore(ready.snap) /\ snapshot' = ready.snap
       ELSE UNCHANGED <<store, snapshot>>
  /\ UNCHANGED <<hardCommit, logVars, up, leaderLog, chosen>>

\* MemStorageCore::append of unstable_entries()
AppendToStore ==
  /\ up /\ Proceed("entries", "hardState")
  /\ ~StoreAppendPanics(store, ready.seg)
  /\ store' = StoreAppend(store, ready.seg)
  /\ UNCHANGED <<snapshot, hardCommit, logVars, up, leaderLog, chosen>>

\* Mutant: the commit index is written as it is now, not as it was taken with
\* the entries that are stored.
SetCurrentHardState ==
  /\ up /\ Proceed("hardState", "advance")
  /\ hardCommit' = committed
  /\ UNCHANGED <<store, snapshot, logVars, up, leaderLog, chosen>>

\* MemStorageCore::set_hard_state
SetHardState ==
  /\ up /\ Proceed("hardState", "advance")
  /\ hardCommit' = ready.commit
  /\ UNCHANGED <<store, snapshot, logVars, up, leaderLog, chosen>>

\* RaftLog::{stable_to, stable_snapshot_to}
Advance ==
  /\ up /\ ready.phase = "advance"
  /\ unstable' =
       IF IsEmpty(ready.seg) THEN unstable
       ELSE StableTo(unstable, pending, ready.seg.to, ready.seg.term[ready.seg.to])
  /\ pending' =
       IF ready.snap = NoSnapshot THEN pending
       ELSE StableSnapshotTo(pending, ready.snap.index)
  /\ IsEmpty(ready.seg) \/ ~MaybeTermPanics(unstable, pending, ready.seg.to)
  /\ ready' = Idle
  /\ UNCHANGED <<storeVars, committed, applied, up, leaderLog, chosen>>

PersistPanics ==
  \/ ready.phase = "entries" /\ StoreAppendPanics(store, ready.seg)
  \/ /\ ready.phase = "advance" /\ ~IsEmpty(ready.seg)
     /\ MaybeTermPanics(unstable, pending, ready.seg.to)

CyclePanics == up /\ PersistPanics /\ Panic

\* applied_to(n): the application applies entries whose commit is durable.
AppliedTo(n) ==
  /\ up
  /\ applied < n /\ n <= committed /\ n <= hardCommit
  /\ FirstIndex - 1 <= n
  /\ applied' = n
  /\ UNCHANGED <<storeVars, unstable, pending, committed, ready, up, leaderLog, chosen>>

\* Mutant: a snapshot of all that is stored, applied or not.
CreateUnappliedSnapshot(i) ==
  /\ up
  /\ snapshot.index < i /\ store.from <= i /\ i <= StoreLast(store)
  /\ snapshot' = [index |-> i, term |-> StoreTerm(store, i)]
  /\ UNCHANGED <<store, hardCommit, logVars, ready, up, leaderLog, chosen>>

\* MemStorageCore::create_snapshot at an applied entry
CreateSnapshot(i) ==
  /\ up
  /\ snapshot.index < i /\ store.from <= i /\ i <= applied
  /\ snapshot' = [index |-> i, term |-> StoreTerm(store, i)]
  /\ UNCHANGED <<store, hardCommit, logVars, ready, up, leaderLog, chosen>>

\* Mutant: the log is compacted up to a committed entry.
CompactUnapplied(i) ==
  /\ up /\ i <= committed
  /\ ~CompactRefused(store, i) /\ ~CompactPanics(store, i)
  /\ store' = Compacted(store, i)
  /\ UNCHANGED <<snapshot, hardCommit, logVars, ready, up, leaderLog, chosen>>

\* MemStorageCore::compact up to an applied entry
Compact(i) ==
  /\ up /\ i <= applied
  /\ ~CompactRefused(store, i) /\ ~CompactPanics(store, i)
  /\ store' = Compacted(store, i)
  /\ UNCHANGED <<snapshot, hardCommit, logVars, ready, up, leaderLog, chosen>>
-----------------------------------------------------------------------------
Crash == up /\ Panic

\* Raft::load_state accepts the hard state it finds in the storage.
LoadStatePanics ==
  /\ hardCommit # NoHardState
  /\ hardCommit < store.from \/ hardCommit > store.to

\* Raft::new on the storage that was left: RaftLog::new, load_state, and
\* applied_to with the index n up to which the application has applied.
Restart(n) ==
  /\ ~up /\ ~LoadStatePanics
  /\ up' = TRUE
  /\ committed' = Greater(committed, hardCommit)
  /\ n \in applied..committed' /\ applied' = n
  /\ UNCHANGED <<storeVars, unstable, pending, ready, leaderLog, chosen>>

\* A storage that load_state refuses is refused on every attempt.
RestartPanics == ~up /\ LoadStatePanics /\ UNCHANGED vars

\* A commit index that is sent with entries and is below this node's own does
\* what this node's own would do.
LogNext ==
  \E t \in Terms :
    \/ \E to \in Indexes : Append(t, to)
    \/ \E m \in Indexes : LeaderCommit(t, m) \/ FollowerCommit(t, m) \/ Restore(t, m)
    \/ \E prev, c \in committed..MaxIndex : \E to \in prev..MaxIndex :
         MaybeAppend(t, prev, to, c)

AppNext ==
  \/ TakeReady \/ ApplySnapshot \/ AppendToStore \/ SetHardState \/ Advance
  \/ \E i \in Indexes : AppliedTo(i) \/ CreateSnapshot(i) \/ Compact(i)

FailNext ==
  \/ LogPanics \/ CyclePanics \/ Crash
  \/ RestartPanics \/ \E n \in Indexes : Restart(n)

Next == LogNext \/ AppNext \/ FailNext

Spec == Init /\ [][Next]_vars
-----------------------------------------------------------------------------
(* Properties. *)

TypeOK ==
  /\ IsSegment(store) /\ ~IsEmpty(store)
  /\ IsSnapshot(snapshot) /\ IsSnapshot(pending)
  /\ hardCommit \in Nat \cup {NoHardState}
  /\ IsSegment(unstable)
  /\ committed \in Nat /\ applied \in Nat
  /\ ready = [phase |-> ready.phase, seg |-> ready.seg,
              snap |-> ready.snap, commit |-> ready.commit]
  /\ ready.phase \in {"idle", "snapshot", "entries", "hardState", "advance"}
  /\ IsSegment(ready.seg) /\ IsSnapshot(ready.snap) /\ ready.commit \in Nat
  /\ up \in BOOLEAN
  /\ leaderLog \in LeaderLogs
  /\ chosen \in [term : Terms, index : Indexes]

\* State Machine Safety, seen from one node (committed in RaftLog, maybe_append,
\* commit_to, restore, stable_to): up to its commit index the log exists and is
\* the one the cluster committed, however it is split between the storage and
\* the tail and whatever was written, overwritten, compacted or lost.
LogAgreement ==
  up =>
    /\ FirstIndex - 1 <= committed /\ committed <= LastIndex
    /\ committed <= chosen.index
    /\ \A i \in FirstIndex..committed : Term(i) = leaderLog[chosen.term][i]

\* Moving entries and snapshots from memory to the storage, in the middle of
\* which the log may be truncated and overwritten, never changes what the log
\* is: stable_to forgets an entry only when the storage has that very entry.
View ==
  LET first == FirstIndex
      last  == LastIndex
  IN  [from |-> first, to |-> last,
       term |-> [i \in first..last |->
                   IF i \in unstable.from..unstable.to THEN unstable.term[i]
                   ELSE StoreTerm(store, i)]]

PersistKeepsLog == [][up /\ ready' # ready => View' = View \/ ~up']_vars

\* What is on the storage at any instant, in the middle of a persistence cycle
\* or after a failure, is enough to restart: load_state accepts the commit index,
\* and the stored log has the committed entries up to it.  The one exception is
\* the interval between apply_snapshot and set_hard_state.
Recoverable ==
  hardCommit # NoHardState =>
    /\ LoadStatePanics => hardCommit < store.from /\ store.from = snapshot.index
    /\ \A i \in store.from..store.to :
         i <= hardCommit => store.term[i] = leaderLog[chosen.term][i]

\* slice(): any readable range gives the log's own entries, from the storage, the
\* tail or across the boundary, although the storage may still hold, at and
\* above the offset, entries that the tail has replaced.
SliceIsTheLog ==
  up =>
    LET log == View IN
    \A low \in log.from..log.to : \A high \in low + 1..log.to + 1 :
      /\ ~SlicePanics(low, high)
      /\ Slice(low, high) = Part(log, low, high - 1)

\* What the application is given to apply is what the cluster committed, next to
\* what it has applied; where the log begins later, a snapshot ends there. The
\* log may be split, overwritten, compacted, restored or reopened meanwhile.
NextIsCommitted ==
  up =>
    /\ ~NextEntriesPanics
    /\ HasNextEntries =>
         NextEntries = Segment(NextFrom, committed, leaderLog[chosen.term])
    /\ applied + 1 < FirstIndex =>
         FirstIndex - 1 \in {pending.index, snapshot.index} /\ FirstIndex - 1 <= committed

\* all_entries() takes the storage's lock for each thing it reads (raft_log.rs:237).
\* Whatever is written between checking the bounds and reading, it starts again
\* or reads the log it saw: no panic, and no entry that is compacted by then.
ReaderIsConsistent ==
  [][up /\ up' /\ store' # store /\ UNCHANGED logVars =>
       \A log \in {View} : IsEmpty(log) \/ (StartsAgain(log) \/ ReadsAll(log))']_vars

\* The panics of append, maybe_append, term, stable_to and MemStorageCore::append
\* are unreachable, whatever the interleaving of messages, persistence and
\* failures, except after restore(), which leaves the offset at the snapshot's
\* index instead of after it.
Restored == /\ IsEmpty(unstable) /\ unstable.from = LastIndex
            /\ unstable.from = Greater(pending.index, snapshot.index)

PanicsOnlyAfterRestore == up /\ (Panics \/ PersistPanics) => Restored

\* A snapshot that create_snapshot makes or apply_snapshot accepts is of the
\* log the cluster committed.
SnapshotIsCommitted ==
  snapshot.index <= chosen.index /\ snapshot.term = leaderLog[chosen.term][snapshot.index]

\* RaftLog and its storage implement a durable log.  While the node is down the
\* log is what is stored.
Durable == INSTANCE DurableLog WITH
  log       <- IF up THEN View ELSE Part(store, StoreFirst(store), StoreLast(store)),
  committed <- IF up THEN committed ELSE Greater(hardCommit, store.from),
  durable   <- Greater(hardCommit, store.from)

ImplementsDurableLog == Durable!Spec

\* MemStorageCore::append, on README.md:200: conflicting stored entries are
\* deleted with all that follow them, so what was appended is what is stored.
AppendedIsStored ==
  [][AppendToStore =>
       \A i \in ready.seg.from..ready.seg.to :
         i > store.from => i <= store'.to /\ store'.term[i] = ready.seg.term[i]]_vars

\* must_check_out_of_bounds, log_unstable.rs:119: a batch that maybe_append or
\* append_entry accepts starts within the tail or right after it.
AppendFits ==
  \A t \in Leaders : \A prev \in Indexes : \A to \in prev..MaxIndex :
    Receives(t, prev, to) => ~MaybeAppendPanics(Entries(t, prev + 1, to))

\* raft.rs:799: the entries between applied and committed can be read whenever
\* an election starts.
UnappliedReadable == up => ~SliceCompacted(applied + 1)
=============================================================================
