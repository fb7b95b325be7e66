# TLA+ verification of rs-raft

rs-raft is a Rust library that implements one Raft node: the application feeds it
messages and ticks, takes from it what must be written and sent, and writes it to a
`Storage`. This directory holds TLA+ modules translated from the crate's code, the TLC
configurations that check them on small instances, and TLAPS proofs of what matters most
for all instances.

The crate is work in progress. It does not build: `lib.rs` declares `raw_node` and
`status`, which are absent, `raft.rs` is compiled under `cfg(test)` only, and a number of
lines do not type-check. The models follow the code wherever it says what to do, and read
the lines that cannot compile as below. There are no tests in the repository; what a
finding holds against the code is `src/README.md` (the Raft paper's rules in the
repository's words), an assertion or an `expect` of the code.

| line | written | read as |
|---|---|---|
| raft.rs:243 | `Ok(())` in `Raft::new` | `Ok(raft)` |
| raft.rs:292 | `t` | `timeout` |
| raft.rs:489 | `self.learner_id` | `self.leader_id` |
| raft.rs:1003-1009 | `m` | `msg` |
| log_unstable.rs:85 | `Ok(snapshot)` | `Some(snapshot)` |
| raft_log.rs:113 | `unwarp_or` | `unwrap_or` |
| progress.rs:149, 151 | `Error::Exist` | `Error::Exists` |
| progress.rs:395 | `Inflights` without derives, in a struct that derives them | as if derived |
| raft.rs:208-213 | `Raft::new` inserts the peers with `insert_learner` | as written in `ProgressSet`; in the other modules as if it made them voters |
| raft.rs:203-204 | the timeout's range from the fields of `Config` | from its accessors |
| raft.rs:327 | `send` panics on what is not a vote and has no term | as written in `Election`; in `Replication` as if it panicked on what has one |
| raft.rs:991 | `handler_append_entries` compares the message's term | the term of the entry before the batch; `Replication_log_term` takes it as written |
| progress.rs:282 | `Progress::new` drops its argument | as if it set `next_idx` to it |

## Inventory

| component | state | operations | interacts with |
|---|---|---|---|
| `Unstable` (log_unstable.rs) | offset, entries, pending snapshot | stable_to, stable_snapshot_to, restore, truncate_and_append, slice, maybe_term | owned by `RaftLog` |
| `Storage`, `MemStorage` (storage.rs) | hard state, snapshot, entries behind a dummy entry | set_hard_state, apply_snapshot, create_snapshot, compact, append; reads | read by `RaftLog` and `Raft::new`, written by the application from any thread under an `RwLock` |
| `RaftLog` (raft_log.rs) | storage, tail, committed, applied | append, maybe_append, maybe_commit, commit_to, applied_to, stable_to, restore, slice, term | called by `Raft` and by the application |
| `Inflights` (progress.rs) | ring buffer: start, count, buffer | add, free_to, free_first_one, reset | owned by `Progress` |
| `Progress` (progress.rs) | matched, next_idx, state, paused, pending_snapshot, recent_active | become_*, maybe_update, maybe_decr_to, optimistic_update | owned by `ProgressSet`, used by `Raft::send_append` |
| `ProgressSet` (progress.rs) | progress per node, voters, learners | insert_*, remove, promote_learner, candidacy_status, maximal_committed_index, quorum_recently_active | owned by `Raft` |
| `Raft` (raft.rs) | term, vote, role, leader, votes, timers, messages to send | new, tick, step, campaign, become_*, reset, append_entry, send, handlers | messages of other nodes; the log; the progress set; read requests |
| `ReadOnly` (read_only.rs) | queue of contexts, status per context | add_request, recv_ack, advance | owned by `Raft`, replaced by `reset` |
| `Config` (config.rs) | parameters | validate, min_election_tick, max_election_tick | read by `Raft::new` |
| protobuf types (eraftpb.rs) | generated | - | - |
| errors (errors.rs) | error types | - | - |

What is hard here:

* **The log is split** between a storage that another actor writes and a tail in memory.
  The application takes a batch, and before it is written and reported stable, a new
  leader may truncate and overwrite it, a snapshot may replace it, or the node may crash.
* **Indexes off by one** everywhere: the dummy entry, the offset, the index after a
  snapshot. The storage keeps stale entries above the offset.
* **Messages** of several leaders arrive late, twice and out of order.
* **Votes and terms** across crashes: what is saved, and when, decides whether two leaders
  of one term are possible.
* **The ring buffer** of in-flight messages at its limit, and the flow control of each
  follower's progress.
* **Timers**: randomised timeouts and their bounds.

PROJECT.json lists each hazard with its line.

What makes each component correct:

* `RaftLog` with its storage: up to `committed` the log is the one the cluster committed;
  persisting changes nothing of what the log is; a crash loses nothing that a saved commit
  index covers; reads give the log's own entries; no panic is reachable.
* `Inflights`: a bounded FIFO, whatever the wrap-around.
* `Progress`: `matched` never exceeds what the follower has stored in common with the leader
  and never falls; `next_idx - 1` is an index of the leader's log; what was sent without
  waiting is in the window or acknowledged; whatever was lost, the follower catches up.
  (`matched < next_idx` does not hold: in `Probe` a late rejection may move `next_idx` to
  `matched` or below, which costs a message and nothing else.)
* `ProgressSet`: voters and learners are disjoint and are exactly the nodes with progress;
  a quorum is a majority of the voters.
* `Raft`: at most one leader per term; a node votes once per term, across restarts.
* `ReadOnly`: the queue and the map hold the same requests; requests are confirmed in order.

## Plan

1. The log and its storage: `Segment`, `MemStorage`, `Unstable`, `RaftLog`, the abstract
   `DurableLog` it implements, the inductive invariant and the proofs. **Done.**
2. `Inflights` and the abstract bounded FIFO it implements, with the refinement proved.
   **Done.**
3. `Election`: nodes that campaign, vote, crash and restart; one leader per term, proved for
   any cluster. **Done.**
4. `ProgressSet`: membership, quorums and the commit index, proved. **Done.**
5. `ReadOnly`: the queue of reads, and the proofs. **Done.**
6. `Config`: validation and the range of the timeout. **Done.**
7. `Replication`: `Progress` with everything that moves it, a leader's sending and a
   follower's handlers, between them a network that fails; the abstract `AckedLog` they
   implement, and the proofs. **Done.**
8. The members that `Raft::new` and `restore_raft` bring, and `is_learner`. **Done**, in
   `ProgressSet`.
9. What `next_entries` hands out, and a reader of the log interleaved with the application's
   writes. **Done**, in `RaftLog`.
10. The rest of the proofs: that `RaftLog` implements `DurableLog`, that a slice is the log,
    the order of reads. **Done.**
11. A leader with several followers, whose commit index is the one `ProgressSet` computes.

## Modules

`Segment` is a `Vec<Entry>` with consecutive indexes: an interval and the term of each
index. An entry's data is left out; by log matching, index and term identify an entry.

`MemStorage` and `Unstable` translate the operations of storage.rs and log_unstable.rs as
operators on segments. An operation that can panic has a predicate that says when.
`MemStorage` has the constant `Truncating`. With FALSE `StoreAppend` is
`MemStorageCore::append` as it is written: where the new entries overlap the stored ones
it builds the merged vector and drops it (storage.rs:144-147). With TRUE it stores the
merged vector. `RaftLog<T: Storage>` is generic, its storage is written by the
application, and what `RaftLog` can be held to is what it does on a storage that appends
as its user expects, so the safety runs and the proofs take TRUE; one run and one finding
take FALSE.

`RaftLog` is the state machine of one node's log.

| variable | code |
|---|---|
| store, snapshot, hardCommit | `MemStorageCore.entries`, `.snapshot` (metadata), `.hard_state.commit` |
| unstable, pending | `Unstable.{offset, entries}`, `Unstable.snapshot` |
| committed, applied | `RaftLog.{committed, applied}` |
| ready | what the application took and is persisting, and the step it is at |
| up | the process runs |
| leaderLog, chosen | history variables: the rest of the cluster |

Each action is one call: `Append` (`append_entry`), `LeaderCommit` (`maybe_commit`),
`MaybeAppend` (`handler_append_entries` from its guard on, `maybe_append`),
`FollowerCommit` (`handler_heartbeat`), `Restore` (`Raft::restore`, `RaftLog::restore`),
`AppliedTo`, `CreateSnapshot`, `Compact`, and the steps of the persistence cycle,
`TakeReady`, `ApplySnapshot`, `AppendToStore`, `SetHardState`, `Advance`, in the order
snapshot, entries, hard state that the storage's own operations need. `RawNode` is absent,
so this order is the application's, and an assumption. Between any two steps anything else
may happen. `Crash` loses the memory; `LogPanics` and `CyclePanics` are the panics of the
code, which end the process too; `Restart` is `Raft::new`: `RaftLog::new`, `load_state`
and `applied_to`, and `RestartPanics` when `load_state` refuses what it finds.

Reads change nothing and are operators. `next_entries` is `NextFrom`, `HasNextEntries`,
`NextEntries` and when it panics. `all_entries` takes the storage's lock for the bounds and
again for the entries, and the application may write in between: `ReaderIsConsistent` takes
the log as the reader saw it before a write of the storage (`AppendToStore`,
`ApplySnapshot`, `Compact`) and asks what it reads after it. One write falls between the
two; a second compaction only moves the first index further.

The rest of the cluster is what a correct cluster may do to one node. `leaderLog[t]` is
the log of the leader of term `t`, any assignment in which logs match (Log Matching), and
`chosen` is the longest prefix known to be committed; a message comes from a leader that
has that prefix (Leader Completeness). Messages of all leaders come in any order, any
number of times: a superset of what `Raft::step` lets through, which compares terms. Raft's
own theorem is assumed here; that the node keeps its side of it is what is checked.

`handler_append_entries` passes `msg.get_term()` to `maybe_append` where the term of the
entry before the batch belongs (raft.rs:991). `MaybeAppend` takes the latter. When the
message's term does match, the node's entry at that index has the term of the sender, so
it is the sender's own entry there: every call the handler gets through is a step of the
model. The calls it wrongly rejects change nothing in the log.

`DurableLog` is what the two promise together: one log whose committed prefix never
changes while the node is up, and a durable prefix that no failure changes.
`RaftLog!Durable` instantiates it; while the node is down, the log is what is stored.

`RaftLogInvariant` is the inductive invariant `IInv`, `MCRaftLog` the module TLC runs,
`RaftLogProofs` the proofs of the invariant and what follows from it, `RaftLogRefinement`
those of reading, of persisting, and that `DurableLog` is implemented.

### Elections

`Election` is a cluster: the Raft of every node, its stored hard state, its application,
and the network.

| variable | code |
|---|---|
| voters | `Configuration.voters`, the same on every node and for good |
| last | `RaftLog.{last_term, last_index}`, for good |
| node[id].state, term, vote | `Raft.{state, term, vote}` |
| node[id].yes, no | `Raft.votes`: who accepted and who rejected |
| node[id].msgs | `Raft.msgs`, what the application has not taken yet |
| stored[id] | term and vote of the `HardState` in the storage |
| net | every message sent: one that is delivered stays, so it may arrive again, late, or never |
| elected | history: every `become_leader` |

| action | code |
|---|---|
| MsgHup | `tick_election`, which asks `promotable()` (is this node a voter?), then `step(MsgHup)`, `campaign` |
| LeaderTick | `tick_heartbeat` steps `MsgBeat` or `MsgCheckQuorum` into `step_leader`, which is `unimplemented!()`: the process ends |
| RejectLowerTerm | `step`, the branch of lower terms |
| Approve, Reject | `step` on a vote or pre-vote request |
| CountVote | `step_candidate` on an answer |
| Unimplemented | an answer that reaches `step_follower` or `step_leader` |
| SaveHardState, SendMessages | the application (`RawNode` is absent): it stores the hard state and then sends |
| Restart | a crash or a panic, then `Raft::new` with the stored hard state |

The outcomes of `candidacy_status` are the code's, `Ineligible` as long as nothing is
decided. `step` drops every vote request of a higher term (raft.rs:721, see below), so
nodes meet in a term only if they start in it or their own timeouts bring them there;
`InitTerms` lets them start apart. `PreVoters` are the nodes whose configuration has
`pre_vote`: the code does not ask that they agree. `send` panics on whatever is not a vote message and has
no term, which is all the rest (raft.rs:327), so a new leader's process ends at its first
append to a peer, and vote messages are the only ones there are. A leader of a single voter
lives.

Assumed: the application stores the hard state before it sends; it does not change the
members; it campaigns only through `tick_election` (`step(MsgHup)` itself does not ask
whether the node is a voter). The timers are abstracted: an election timeout may pass at
any time. `leader_id` is not modelled, as only a node that is a leader itself ever has one,
and with it goes the lease test of `step`, whose block returns in any case.

`ElectionInvariant` is the inductive invariant, `ElectionProofs` the proofs.

### Flow-control window

`Inflights` is the ring of progress.rs, `start`, `count` and `buffer` as in the code, with
`add`, `free_to`, `free_first_one` and `reset`. The loop of `free_to` is the number of
indexes it passes (`Passes`). `BoundedFifo` is what it promises: a queue of log indexes,
never longer than the capacity, acknowledged from the front. `InflightsProofs` has the
proofs.

### Replication

`Replication` is one leader in one term and one of its followers. By log matching their two
logs agree up to an index, so a log is a few indexes, and every message speaks of the
leader's.

| variable | code |
|---|---|
| leader.first, last, committed | the leader's `RaftLog`: first index not compacted, last index, commit index |
| leader.inherited | its last index when it was elected: later entries have its term |
| pr | its `Progress` of the follower, the window `ins` as a queue |
| mem.agree, last, committed | the follower's `RaftLog`: up to where it agrees with the leader's, its last index, its commit index |
| restored | `restore` ran, so that the offset is one too low, and the node was not restarted since |
| disk | the same log as the storage has it |
| unsent | `Raft.msgs` of the follower |
| appends, beats, snapshots, answers | the network: MsgAppend, MsgHeartbeat, MsgSnapshot, MsgAppendResponse |

| action | code |
|---|---|
| AppendEntry, MaybeCommit | `append_entry`, `maybe_commit` |
| Compact | the leader's application, `MemStorageCore::compact` |
| SendEntries, SendSnapshot | `send_append` with `prepare_send_entries` or `prepare_send_snapshot` |
| SendHeartbeat | `send_heartbeat` |
| CheckQuorum | `quorum_recently_active`, which clears `recent_active` |
| DeliverAppend | `handler_append_entries`: `AppendBehindCommit`, `AcceptAppend`, `RejectAppend`, or a panic |
| DeliverHeartbeat | `handler_heartbeat`, or a panic in `commit_to` |
| DeliverSnapshot | `handler_snapshot`, `restore`, `restore_raft`: `IgnoreSnapshot`, `FastForward`, `Restore`, or a panic |
| DeliverRefused | `restore_raft` on a snapshot that lists the follower as a learner |
| Persist | the follower's application: stores what changed, then sends |
| DeliverAnswer, OnHeartbeatResponse, ReportUnreachable, ReportSnapshot | `step_leader`, missing |
| Lose, Fail, and the deliveries with `repeated` | the network, and crashes: `Raft::new` on what is stored |

`step_follower` and `step_leader` are `unimplemented!()`. The first is taken to call the
handler of a message. Of the second is taken what the methods of `Progress` are there for: an
acknowledgement goes to `maybe_update`, after which it may or may not change state or free the
window; a rejection goes to `maybe_decr_to`, and a `Progress` in `Replicate` to `become_probe`;
an answer to a heartbeat resumes, and frees one place of a full window; a report of the
application goes to `become_probe`. Each method is the code's.

The other followers are not there; they let the leader commit any entry of its own term at
any time (`CommitsTo`), which is more than any cluster does. A message is delivered once,
twice, later than others, or not at all. `Persist` is one step here: its own steps, and what
a crash between them leaves, are what `RaftLog` is about. The follower's compaction is below
its commit index, where no handler looks. A snapshot may be of any committed index that
covers what the leader compacted. At most one heartbeat is on the network, and answers to
heartbeats may come at any time.

`restore` leaves the follower's offset one too low (see the findings), so until the node
is restarted the next entry panics and, as long as the snapshot is not stored, so does the
term of the last index: `restored` and `TermPanics` say when. A panic is a crash.

`AckedLog` is what this promises the leader: what is acknowledged is held, and what is held
or known to be committed stays so. `Replication!Acked` instantiates it.

`ReplicationProofs` has the inductive invariant and the proofs.

### Membership

`ProgressSet` is `ProgressSet` of progress.rs: the map `progress` (of which it keeps
`matched` and `recent_active`, the fields that the set reads), `voters` and `learners`, and
`is_learner` of `Raft`. Its methods are public and most callers are missing, so any may come at
any time (`Calls`). Each change ends in `assert_progress_and_configuration_consistent`; when
that fails, `panicked` holds until `New`, the next `Raft::new`. `New` makes the set from the
configuration it is given, with the peers as learners, as the code has it, so that voters come
by `insert_voter` or by `RestoreRaft`: a snapshot's configuration, taken unless it makes a
learner of a node that does not take itself for one (`Refuses`). `ConfStates` are the
configurations there are; nodes and learners of each are disjoint, since it was a node's.

`maximal_committed_index` sorts the voters' indexes in descending order and takes the one in
the middle: the one such that more than that many voters have it and no more have any higher
(`MaximalCommittedIndex`; that there is one is part of `CommitsSurvive`). It indexes an empty
vector when there are no voters, and is not asked there. `heard`, `promoted` and `appointed` are
history variables.

`ProgressSetProofs` has the proofs.

### Reads

`ReadOnly` is the queue `read_index_queue` and the map `pending_read_index` (`pending`:
index and acks per context). `AddRequest`, `RecvAck` and `Advance` are the methods, `Reset`
is `Raft::reset`, which replaces the whole by a new one, `Heartbeat` is `bcast_heartbeat`
with the last pending context. The handlers of a leader that would call the methods are
missing; they are taken to call `add_request` with the commit index, `recv_ack` with an
answer of this term to a heartbeat that was sent, and `advance` whenever `has_quorum` holds
of what `recv_ack` returned, at once or later. Contexts are unique in a term: the code
neither makes nor checks them, and a context that comes again is confirmed by late answers
to its first heartbeats. Learners are left out: heartbeats go to them too and `has_quorum`
counts the nodes it is given, so the missing handler has to keep their answers from it.

The inductive invariant `IInv` ends the module; `ReadOnlyProofs` has the proofs.

### Configuration

`Config` has `validate`, the accessors `min_election_tick` and `max_election_tick`, and the
range that `reset_randomized_election_timeout` gives to `gen_range`, over words of any
width. It has no state and no run; it holds two theorems.

## Runs

| run | bounds | checks |
|---|---|---|
| RaftLog_safety | 2 terms, 3 indexes, truncating storage | TypeOK, LogAgreement, Recoverable, SliceIsTheLog, NextIsCommitted, PanicsOnlyAfterRestore, SnapshotIsCommitted, PersistKeepsLog, ReaderIsConsistent, ImplementsDurableLog |
| RaftLog_lost_overwrite | 2 terms, 3 indexes, the crate's storage | AppendedIsStored, violated |
| RaftLog_restore_append | 2 terms, 3 indexes, truncating | AppendFits, violated |
| RaftLog_election_read | 2 terms, 3 indexes, truncating | UnappliedReadable, violated |
| Inflights_ring | 3 slots, 4 indexes | TypeOK, SlotsWritten, ImplementsFifo |
| Election_vote | 3 nodes of which any are voters and one asks for pre-votes, started in terms 0 to 2, elections of term 1, two logs | TypeOK, ElectionSafety, VoteOnce, LeaderIsUpToDate, HardStateKeepsVotes |
| Election_undecided | 3 nodes, terms 0 and 1 | UndecidedStays, violated |
| Election_higher_term | 2 nodes, term 1, fairness | HigherTermAdopted, violated |
| ProgressSet_members | 4 nodes, indexes 0 and 1, 4 configurations to start with or restore | TypeOK, PanicsOnlyAfterPromotion, ActiveQuorumIsFresh, VoterIsNotDemoted, OverlappingQuorums, CommitSurvivesChange |
| ReadOnly_order | 3 reads, 3 voters, commit index 0 to 1 | TypeOK, QueueIsPending, InOrder, IndexesGrow, AnsweredIsConfirmed |
| Replication_flow | indexes 0 to 2, of which at most one inherited; window of 2; 2 messages at a time; fairness | TypeOK, MatchedIsDurable, CommittedIsLeaders, PanicsOnlyAfterRestore, NextInLog, WindowReachesNext, ImplementsAckedLog, FollowerCatchesUp |
| Replication_log_term | the same, the handler as written | HolderAccepts, violated |

What they show, and why the bounds are enough:

* **RaftLog.** Up to its commit index the node's log is the cluster's; persisting, which
  happens in steps between which anything else may happen, does not change it; what is
  handed out to apply is committed and follows what is applied, or a snapshot that covers
  the gap; a reader overtaken by a write starts again or reads the log it saw; a crash at
  any point leaves a storage to restart from; the log panics only after `restore`. Two
  terms give a leader, one that overwrites its entries, and late messages of the first.
  Three indexes hold a compacted entry, a stored
  one and one in the tail, all that a split log can tell apart; a snapshot then lands below,
  inside or beyond the log.
* **Inflights.** The ring is a FIFO wherever the window lies. Three slots give a window
  before, at and across the end of the vector, while it grows and after; the fourth index
  acknowledges more than the window holds.
* **Election.** With three voters a quorum is not all of them, so two candidates can be
  granted votes by different nodes, and in term 1 all three may be candidates; a crash
  between deciding, storing and sending is possible for each. The two logs disagree in which
  is longer and which is later. A node that asks for a pre-vote meets nodes behind it,
  in its term, in the term it asks about, and ahead of it (2, where no election starts), and
  then campaigns against nodes that did not ask.
* **ProgressSet.** Four members pass through sets of one, two, three and four voters, so odd
  and even ones and both neighbours of each. Which index is in the middle is decided by who has
  reached an index and who has not, so two indexes tell all there is. The configurations are
  empty, all voters, and the node a learner or not a member of the others.
* **ReadOnly.** Three reads have one between two others, for answers that overtake; of three
  voters one answer makes a quorum and the other may be late.
* **Replication.** The follower may have all of the leader's log, a part, or a longer one of
  its own; with one inherited entry it may agree with the half of it, and with none the leader
  has two entries of its own to fill the window with. One index compacted leaves one behind
  it, so a follower may need a snapshot, entries, or either in turn. Two messages at a time are
  an append and another that overtakes it, or a message and a late answer. The safety
  properties also held with 3 indexes and 2 messages, and with 2 indexes and 3 messages,
  about 1.3 to 1.9 million states each, more than a run should take. `CheckQuorum` is only
  taken where its effect is read next, which is when a snapshot is needed.

The proofs drop the bounds.

CHECK_DEADLOCK is never switched off: there is always something a node can do, if only
crash and restart.

**Fairness.** Two runs state it.

`Election_higher_term`: `FairSpec` says that the application stores and sends (`WF` of
`SaveHardState` and `SendMessages` of each node) and that each node is given the messages that
wait for it (`WF` of `Step` of each node, for whichever message). This is what the API asks of
the application and what Raft asks of the network for progress. Nothing is assumed of
timeouts, crashes or leaders.

`Replication_flow`: `FollowerCatchesUp` is about what the failures leave behind, so there is a
last failure (`<>[][Calm]_vars`). From then on messages arrive (`WF` of each kind of delivery),
answers to heartbeats come, and the application reports what became of a snapshot (`WF`), as
the interface asks of it: a snapshot that nobody reports on leaves the `Progress` in
`Snapshot` for good. `send_append` is tried again and again (`SF`, as what makes it possible,
an answer or a heartbeat, is undone by the next message). The application stores what changed
(`SF` of `Persist`: a snapshot repeated before the first is stored panics the follower, as
above, and the restart takes what there was to store with it; under `WF` that could go on for
ever). Heartbeats need no fairness. Nothing is assumed of when entries are appended or
compacted, except that there is a last index.

Elsewhere no liveness is stated: nothing in this code says when the application persists,
applies or reads, and no election of four or more voters can be won at all (below).

## What the checks found

Violations, each a finding in PROJECT.json:

* `MemStorageCore::append` stores nothing when the batch overlaps the stored log
  (storage.rs:144-147) and reports success.
* `Unstable::restore` leaves the offset at the snapshot's index (log_unstable.rs:84), so the
  next batch of the leader panics. `PanicsOnlyAfterRestore` shows that this is the only
  state in which the log panics.
* An election that starts between `restore` and `applied_to` panics (raft.rs:799).
* A candidate whose votes are undecided becomes a follower (progress.rs:233-235,
  raft.rs:952-955). With three voters the first answer decides if it is a grant; with four or
  more it never does, so no leader is ever elected.
* A vote request of a higher term is dropped (raft.rs:721, the `return` stands outside the
  test of the lease), so its receiver never adopts the term.
* `handler_append_entries` gives `maybe_append` the leader's term where the term of the entry
  before the batch belongs (raft.rs:991), so the first append of every leader is rejected
  whatever the follower has, index 0 included. The leader goes back entry by entry and each is
  rejected; only a snapshot or, after it, entries of the leader's own term get through.

Proved: every configuration that `validate` accepts makes `Raft::new` panic, as the range the
timeout is drawn from is empty (`Config`, NoTimeoutToDraw).

Met while modelling, and part of the models:

* `send` panics on every message but votes, its test of the term is inverted (raft.rs:327):
  a new leader's first append ends its process.
* `promote_learner` takes the learner out and then fails to remove it from the voters, where
  it never was (progress.rs:169-179): an error, a node in neither set, and a panic at the
  next change of members. `PanicsOnlyAfterPromotion` shows that nothing else leads there.
* `is_learner` is set by `Raft::new` and by snapshots (raft.rs:220, 1104) and not when members
  change: a learner that is removed and inserted as a voter can be made a learner by the next
  snapshot, which `restore_raft` means to refuse (raft.rs:1070-1074), and the peers that
  `Raft::new` inserts as learners refuse one that they could take. `VoterIsNotDemoted` shows
  that `insert_voter` is the only way there.
* `Raft::new` inserts the peers as learners (raft.rs:208-213), `Config::new` ignores its id
  (config.rs:65), `Progress::new` its next index (progress.rs:282), `become_snapshot` sets
  `next_idx` in place of `pending_snapshot` (progress.rs:327).

`Recoverable` has an exception that is a limit of the storage's interface, not of the log:
between `apply_snapshot` and `set_hard_state` a crash leaves a commit index below the
stored log, and `load_state` panics at every restart. The storage has no operation that
does both.

## Proofs

### The log

`RaftLogProofs` proves, for all `MaxTerm` and `MaxIndex`, on a truncating storage:

| theorem | property |
|---|---|
| Invariance | IInv, inductive |
| TypeCorrect | TypeOK |
| LogIsTheClusters | LogAgreement |
| StoreIsRecoverable | Recoverable |
| SnapshotsAreCommitted | SnapshotIsCommitted |
| NoOtherPanic | PanicsOnlyAfterRestore |

The assumptions are `BoundsAssumption` (the bounds are naturals) and `Truncating`.

None of the properties is inductive. `LogAgreement` alone cannot survive `Advance`: that
forgetting entries is safe depends on what the storage has in their place, which depends
on what was written in an earlier step, from a batch taken in a still earlier one, since
when the tail may have been overwritten. `IInv` says of each of these what the next step
needs:

* `StoreInv`: stored entries are consistent with their leaders' logs (`Path`), and
  committed up to `Secured`, the greater of the saved commit index and the first stored
  index: what a failure cannot take back.
* `TailInv`: the tail meets the storage without a gap, the stored entries below it are
  those that come before its entries in their leader's log (`Joins`), and what is
  committed is chosen.
* `ReadyInv`: what was taken, against what is in the tail now (`ReadyAndTail`: the last
  entry taken is still there, or the tail was overwritten above the commit index taken),
  against the storage before it is written (`ReadyToWrite`) and after (`ReadyWritten`).
* `DownInv`: while the node is down the memory is what `RaftLog::new` makes of the storage.

The proof has one lemma per action. The lemmas on segments (`PartFacts`, `SpliceFacts`) and
on the log (`LogFacts`, `WholePath`, `MatchFacts`) carry the arithmetic.

`RaftLogRefinement` goes on from there, under the same assumptions:

| theorem | property |
|---|---|
| SlicesAreTheLog | SliceIsTheLog |
| GapInvariance | AppliedGap, inductive with IInv |
| OnlyCommittedIsNext | NextIsCommitted |
| PersistingKeepsTheLog | PersistKeepsLog |
| ReadersAreConsistent | ReaderIsConsistent |
| RaftLogIsDurable | ImplementsDurableLog |

* `View` is what the log is, whichever part of it the storage has. That a slice is the view
  (`ReadsAreSlices`) rests on where the tail begins: the storage still holds replaced entries
  from there on (`TailInv`), and `slice` reads it up to there only.
* `NextIsCommitted` does not follow from `IInv`: the entries handed out may begin above
  `applied + 1`, and that a snapshot covers the gap is a fact about the order of `restore`,
  `apply_snapshot`, `compact` and `applied_to`. `AppliedGap` states it: the storage starts
  above `applied` only where its snapshot put it.
* For each step of the persistence cycle one lemma says that the view stays
  (`TakeReadyView`, `ApplySnapshotView`, `AppendToStoreView`, `SetHardStateView`,
  `AdvanceView`). `AdvanceView` is the one that needs most of `ReadyInv`: what `stable_to`
  forgets is what the storage has.
* A reader overtaken by an append reads below the tail, where the append writes nothing new
  (`ReadAfterAppend`). A compaction or a snapshot either leaves what it reads or raises the
  first index above where it began, so that it starts again (`ReadAfterCompact`).
* For the refinement, the abstract log is the view while the node is up and the storage's
  entries while it is down, and an entry at or below the commit index is the chosen one
  (`HereIsChosen`). `chosen` only grows (`ChosenGrows`), so the log before a step and after
  it agree where both are committed (`CommittedStays`), whatever the step did. What is left
  is which step it is: `Append`, the commits, `MaybeAppend`, and `Restore` of a snapshot that
  matches are `Replicate`; any other `Restore` is `Install`; the persistence cycle is
  `Persist`; `Compact` is `Compact`, or a stutter while a received snapshot is the log's
  beginning; crashes and panics are `Fail`; `AppliedTo`, `CreateSnapshot` and both restarts
  stutter.

### Elections

`ElectionProofs` proves, for every finite set of nodes and voters, every starting term and
log, with and without pre-votes:

| theorem | property |
|---|---|
| Invariance | IInv, inductive |
| TypeCorrect | TypeOK |
| OneLeaderPerTerm | ElectionSafety |
| VotesOnce | VoteOnce |
| LeadersAreUpToDate | LeaderIsUpToDate |
| HardStateIsKept | HardStateKeepsVotes |

The assumptions are those of the constants. `ElectionSafety` needs to know where votes come
from. A leader has a quorum of granted votes on the network or is the only voter
(`Supported`); two quorums of one set have a node in common; and that node's votes of one
term are for one candidate (`OneChoice`). The last survives a restart because a vote leaves
a node only when the stored hard state already has it (`Backed`), and what is stored never
gets ahead of what the node knows (`StoredBehind`).

### Flow-control window

`InflightsProofs` proves for every capacity and any indexes `TypeCorrect` (TypeOK),
`NeverOutOfBounds` (SlotsWritten) and `RingIsFifo` (ImplementsFifo). The invariant adds that
a window that has reached the end of the vector does so in a vector of full size. Each
operation is then one of the queue: the lemmas follow the window's k-th index across the end.

### Membership

`ProgressSetProofs` proves for any finite set of nodes and any log:

| theorem | property |
|---|---|
| Invariance | IInv, inductive |
| TypeCorrect | TypeOK |
| OnlyPromotionPanics | PanicsOnlyAfterPromotion |
| VotersAreNotDemoted | VoterIsNotDemoted |
| ActivityIsFresh | ActiveQuorumIsFresh |
| QuorumsOverlap | OverlappingQuorums |
| CommitsSurvive | CommitSurvivesChange |

`IInv` says that voters and learners are disjoint members and only a promoted node is neither
(`Shape`), that a node that takes itself for a learner is a voter only if it was appointed
(`RoleIsKnown`), and that the flag of a voter was set since the last check (`FlagsAreFresh`).
A call adds or removes one voter at most, and majorities of sets that differ by one node have
a node in common by counting. For the commit index, the index that `maximal_committed_index`
gives exists, by taking the greatest that more than half of the voters have, and those that
have it are a quorum.

### Replication

`ReplicationProofs` proves, for every bound, every size of the window and both readings of
raft.rs:991:

| theorem | property |
|---|---|
| Invariance | IInv, inductive |
| TypeCorrect | TypeOK |
| AcknowledgedIsDurable | MatchedIsDurable |
| CommittedAgrees | CommittedIsLeaders |
| NoMessagePanics | PanicsOnlyAfterRestore |
| NextStaysInLog | NextInLog |
| WindowAccounts | WindowReachesNext |
| ReplicationIsAckedLog | ImplementsAckedLog |

The assumptions are those of the constants. `MatchedIsDurable` is not inductive: it needs to
know that every acknowledgement, on the network or waiting to be sent, is of what the follower
has, on disk or in memory (`ToLeader`), that what it has in common with the leader never gets
shorter than what it stored, whichever append or snapshot comes (`FollowerLogs`), and that
messages of whatever age speak of the leader's log, a heartbeat of what is already stored
(`ToFollower`), since it carries no more than `matched`. `Tracks` is what the methods of
`Progress` keep: one lemma per method, used by whichever action calls it. For the window it
adds that its indexes grow, so that `free_to`, which drops a prefix, keeps the last one unless
it drops them all. The refinement follows from the invariant: `Persist` stores, a delivered
answer acknowledges, `AppendEntry` extends, and every other step stutters.

### Read requests

`ReadOnlyProofs` proves, for any contexts, any finite set of voters and any bound on the
commit index:

| theorem | property |
|---|---|
| Invariance | IInv, inductive |
| TypeCorrect | TypeOK |
| QueueAndMapAgree | QueueIsPending |
| AnsweredInOrder | InOrder |
| ReadsDoNotGoBack | IndexesGrow |
| ReadsAreConfirmed | AnsweredIsConfirmed |

The assumptions are those of the constants. `advance` walks the queue to the context it is
given and takes out of the map what it passes, so it answers a prefix of the queue and is
right only if a context has one place there. `ArrivedOnce` says so: no context is asked for
twice in a term. With it the answered reads and the queue are the two parts of what was asked
for, in order (`InOrder`), and a place in the queue stands for a read. `AcksAreAnswers` ties
the acknowledgements that `recv_ack` counts to the answers that came, which the queue's later
reads confirm for those before them (`AnsweredIsConfirmed`). The lemmas `InOrderByPosition`
and `GrowByPosition` say what the properties do of each place, which is what an action changes.

### Configuration

`Config` proves `NoTimeoutToDraw` and `AccessorsLeaveTimeouts`: with the accessors in place of
the fields, every valid configuration has timeouts to draw, each of at least one and less
than two election ticks.

### Only model-checked

`FollowerCatchesUp` is about liveness, which the provers do not reach: it stays with TLC, on
the bounds of `Replication_flow`. Every other property of a run that passes is stated by a
theorem. The properties of the runs that end in a violation are false, and have none.

## Not modelled

What arrives at `step_leader` and `step_follower`, which are `unimplemented!()`, beyond what
`Replication` takes them to do; a leader's other followers, and changes of members while it
replicates; leader transfer, of which only `abort_leader_transfer` exists; the timers'
counters; the generated messages (eraftpb.rs), the error types (errors.rs) and the crate's
root (lib.rs), which have no state. The `RwLock` of `MemStorage` makes each of its operations
one step; of the readers that call it more than once, `all_entries` is the one interleaved
with writes.
