---------------------------- MODULE Replication -----------------------------
(***************************************************************************)
(* How a leader of raft.rs brings the log of one follower up to its own:   *)
(* the follower's Progress (progress.rs), the appends, snapshots and       *)
(* heartbeats that are sent, a network that loses, repeats and reorders    *)
(* them, and the follower's handlers with its application and its crashes. *)
(*                                                                         *)
(* One leader in one term.  The two logs agree up to some index (log       *)
(* matching); the follower's may go on with entries of older terms.  A log *)
(* is then a few indexes.                                                  *)
(*                                                                         *)
(* step_leader and step_follower are unimplemented!().  step_follower is   *)
(* taken to call the handler of a message.  step_leader is taken to report *)
(* an acknowledgement with maybe_update and a rejection with maybe_decr_to *)
(* and become_probe, and otherwise to go on as it likes.                   *)
(***************************************************************************)
EXTENDS Integers, Sequences, FiniteSets

CONSTANTS
  MaxIndex,         \* bound: log indexes are 0 .. MaxIndex
  MaxInherited,     \* bound: entries in the leader's log when it is elected
  Cap,              \* Config.max_inflight_msgs
  MaxInFlight,      \* bound: messages on the network, or waiting to be sent
  ComparesLogTerm   \* handler_append_entries compares the term of the entry
                    \* before the batch; as written, it takes the message's

ASSUME BoundsAssumption == MaxIndex \in Nat /\ MaxInherited \in Nat /\ MaxInFlight \in Nat
ASSUME WindowAssumption == Cap \in Nat \ {0}
ASSUME HandlerAssumption == ComparesLogTerm \in BOOLEAN

VARIABLES
  leader,     \* the leader's log: first, last and commit index, and the last
              \* index it inherited, that is, had when it was elected
  pr,         \* its Progress of the follower
  mem,        \* the follower's log: agree, last and commit index
  restored,   \* its log was restored from a snapshot and not reopened since
  disk,       \* what its storage has of it
  unsent,     \* Raft.msgs of the follower: not sent before disk has caught up
  appends, beats, snapshots,   \* the network, to the follower
  answers                      \* and to the leader: MsgAppendResponse

leaderVars   == <<leader, pr>>
followerVars == <<mem, restored, disk, unsent>>
net          == <<appends, beats, snapshots, answers>>
vars         == <<leaderVars, followerVars, net>>

Lesser(a, b)  == IF a < b THEN a ELSE b
Greater(a, b) == IF a > b THEN a ELSE b
Indexes       == 0..MaxIndex

Logs    == [agree : Indexes, last : Indexes, committed : Indexes]
Answers == [index : Indexes, reject : BOOLEAN, hint : Indexes]
Appends == [prev : Indexes, to : Indexes, commit : Indexes]
Leaders == [first : 1..MaxIndex + 1, last : Indexes, committed : Indexes, inherited : Indexes]
Progresses ==
  [matched : Indexes, next_idx : 0..MaxIndex + 1, state : {"Probe", "Replicate", "Snapshot"},
   paused : BOOLEAN, pending_snapshot : {0}, recent_active : BOOLEAN, ins : Seq(Indexes)]

Room == Cardinality(appends) + Cardinality(beats) + Cardinality(snapshots)
          + Cardinality(answers) + Cardinality(unsent) < MaxInFlight
-----------------------------------------------------------------------------
(* Progress.  Its window of in-flight appends is the queue that Inflights   *)
(* implements (BoundedFifo).                                                *)

\* Mutant: the window is kept when the state changes.
ResetStateOnly(p, s) == [p EXCEPT !.paused = FALSE, !.pending_snapshot = 0, !.state = s]
ResetState(p, s) ==
  [p EXCEPT !.paused = FALSE, !.pending_snapshot = 0, !.state = s, !.ins = <<>>]

\* Progress::reset, on a follower of which nothing is known.
Unknown(next) ==
  [matched |-> 0, next_idx |-> next, state |-> "Probe", paused |-> FALSE,
   pending_snapshot |-> 0, recent_active |-> FALSE, ins |-> <<>>]

BecomeProbe(p) ==
  LET from == IF p.state = "Snapshot" THEN Greater(p.matched, p.pending_snapshot) ELSE p.matched
  IN  [ResetState(p, "Probe") EXCEPT !.next_idx = from + 1]

BecomeReplicate(p) == [ResetState(p, "Replicate") EXCEPT !.next_idx = p.matched + 1]

\* The index of the snapshot goes to next_idx; pending_snapshot stays 0.
BecomeSnapshot(p, s) == [ResetState(p, "Snapshot") EXCEPT !.next_idx = s]

SnapshotFailure(p) == [p EXCEPT !.pending_snapshot = 0]

MaybeSnapshotAbort(p) == p.state = "Snapshot" /\ p.matched >= p.pending_snapshot

\* Mutant: the last acknowledgement counts, even an older one.
MaybeUpdateToLast(p, n) ==
  [p EXCEPT !.matched = n, !.paused = @ /\ p.matched >= n, !.next_idx = Greater(@, n + 1)]
MaybeUpdate(p, n) ==
  [p EXCEPT !.matched  = Greater(@, n),
            !.paused   = @ /\ p.matched >= n,
            !.next_idx = Greater(@, n + 1)]

\* Mutant: the rejected index is compared with the next one itself.
IsNewsOfNext(p, rejected) ==
  IF p.state = "Replicate" THEN rejected > p.matched ELSE p.next_idx = rejected
IsNews(p, rejected) ==
  IF p.state = "Replicate" THEN rejected > p.matched
  ELSE p.next_idx # 0 /\ p.next_idx - 1 = rejected

\* Mutant: the follower's last index is taken as it is.
MaybeDecrToHint(p, rejected, last) ==
  IF p.state = "Replicate" THEN [p EXCEPT !.next_idx = p.matched + 1]
  ELSE [p EXCEPT !.next_idx = last + 1, !.paused = FALSE]
MaybeDecrTo(p, rejected, last) ==
  IF p.state = "Replicate" THEN [p EXCEPT !.next_idx = p.matched + 1]
  ELSE [p EXCEPT !.next_idx = Greater(1, Lesser(rejected, last + 1)), !.paused = FALSE]

Full(p) == Len(p.ins) = Cap
IsPaused(p) == \/ p.state = "Probe" /\ p.paused
               \/ p.state = "Replicate" /\ Full(p)
               \/ p.state = "Snapshot"

\* free_to drops the indexes in front of the first that is above "to".
FreeTo(q, to) ==
  LET passed == {n \in 1..Len(q) : \A j \in 1..n : q[j] <= to}
  IN  SubSeq(q, Cardinality(passed) + 1, Len(q))
-----------------------------------------------------------------------------
(* The leader.  Followers that are not modelled let it commit any entry of  *)
(* its term, at any time.                                                   *)

CommitsTo(c, last) ==
  \/ c = leader.committed
  \/ leader.committed < c /\ leader.inherited < c /\ c <= last

\* append_entry, with the maybe_commit it ends in.
AppendEntry(to, c) ==
  /\ leader.last < to /\ to <= MaxIndex
  /\ CommitsTo(c, to)
  /\ leader' = [leader EXCEPT !.last = to, !.committed = c]
  /\ UNCHANGED <<pr, followerVars, net>>

MaybeCommit(c) ==
  /\ c # leader.committed /\ CommitsTo(c, leader.last)
  /\ leader' = [leader EXCEPT !.committed = c]
  /\ UNCHANGED <<pr, followerVars, net>>

\* The application compacts what it has applied and has a snapshot of.
Compact(i) ==
  /\ leader.first <= i /\ i <= leader.committed
  /\ leader' = [leader EXCEPT !.first = i + 1]
  /\ UNCHANGED <<pr, followerVars, net>>

\* send_append, prepare_send_entries: the entries next_idx .. to, as many as
\* the size of a message allows and at least one if there is any.
SendEntries(to) ==
  /\ ~IsPaused(pr)
  /\ \/ pr.next_idx > leader.last /\ to = pr.next_idx - 1
     \/ leader.first <= pr.next_idx /\ to \in pr.next_idx..leader.last
  /\ Room
  /\ appends' = appends \cup
       {[prev |-> pr.next_idx - 1, to |-> to, commit |-> leader.committed]}
  /\ pr' = IF to < pr.next_idx THEN pr
           ELSE IF pr.state = "Replicate"
             THEN [pr EXCEPT !.next_idx = to + 1, !.ins = Append(@, to)]
             ELSE [pr EXCEPT !.paused = TRUE]
  /\ UNCHANGED <<leader, followerVars, beats, snapshots, answers>>

\* send_append, prepare_send_snapshot: the entry next_idx is compacted.
SendSnapshot(s) ==
  /\ ~IsPaused(pr) /\ pr.next_idx <= leader.last /\ pr.next_idx < leader.first
  /\ pr.recent_active
  /\ leader.first - 1 <= s /\ s <= leader.committed
  /\ Room
  /\ snapshots' = snapshots \cup {s}
  /\ pr' = BecomeSnapshot(pr, s)
  /\ UNCHANGED <<leader, followerVars, appends, beats, answers>>

\* Mutant: the leader's own commit index is sent.
SendCommitted ==
  /\ beats = {} /\ Room
  /\ beats' = {leader.committed}
  /\ UNCHANGED <<leaderVars, followerVars, appends, snapshots, answers>>

SendHeartbeat ==
  /\ beats = {} /\ Room
  /\ beats' = {Lesser(pr.matched, leader.committed)}
  /\ UNCHANGED <<leaderVars, followerVars, appends, snapshots, answers>>
-----------------------------------------------------------------------------
(* What is left to step_leader.                                             *)

Active(p) == [p EXCEPT !.recent_active = TRUE]

OnAck(a) ==
  LET p == MaybeUpdate(Active(pr), a.index) IN
  /\ ~a.reject
  /\ \/ pr' = p
     \/ p.state = "Probe" /\ pr' = BecomeReplicate(p)
     \/ p.state = "Replicate" /\ pr' = [p EXCEPT !.ins = FreeTo(@, a.index)]
     \/ MaybeSnapshotAbort(p) /\ pr' = BecomeProbe(p)

OnReject(a) ==
  LET p == MaybeDecrTo(Active(pr), a.index, a.hint) IN
  /\ a.reject
  /\ pr' = IF ~IsNews(pr, a.index) THEN Active(pr)
           ELSE IF pr.state = "Replicate" THEN BecomeProbe(p) ELSE p

\* An answer to a heartbeat, whenever it comes.
OnHeartbeatResponse ==
  /\ pr' = [Active(pr) EXCEPT !.paused = FALSE,
                              !.ins = IF Full(pr) THEN FreeTo(@, @[1]) ELSE @]
  /\ UNCHANGED <<leader, followerVars, net>>

\* MsgUnreachable and MsgSnapStatus of the application
ReportUnreachable ==
  /\ pr.state = "Replicate"
  /\ pr' = BecomeProbe(pr)
  /\ UNCHANGED <<leader, followerVars, net>>

ReportSnapshot ==
  /\ pr.state = "Snapshot"
  /\ pr' \in {[BecomeProbe(p) EXCEPT !.paused = TRUE] : p \in {pr, SnapshotFailure(pr)}}
  /\ UNCHANGED <<leader, followerVars, net>>

\* ProgressSet::quorum_recently_active.  It comes at any time; bound: here only
\* where recent_active is read next, when a snapshot is needed.
CheckQuorum ==
  /\ pr.next_idx < leader.first
  /\ pr' = [pr EXCEPT !.recent_active = FALSE]
  /\ UNCHANGED <<leader, followerVars, net>>
-----------------------------------------------------------------------------
(* The follower.                                                            *)

CommitTo(log, c) == [log EXCEPT !.committed = Greater(@, c)]

Answer(a) == unsent' = unsent \cup {a}
Ack(i)    == Answer([index |-> i, reject |-> FALSE, hint |-> 0])
\* Mutant: the hint is the index after the last.
RejectWithNext(i) == Answer([index |-> i, reject |-> TRUE, hint |-> mem.last + 1])
Reject(i) == Answer([index |-> i, reject |-> TRUE, hint |-> mem.last])

\* restore() leaves the offset of the tail one too low, until RaftLog is built
\* anew: the term of the last index panics as long as the snapshot is pending,
\* and any new entry panics.
TermPanics(i) == restored /\ mem # disk /\ i = mem.last

\* maybe_append: match_term, find_conflict
Matches(m) == m.prev <= mem.agree /\ (ComparesLogTerm \/ leader.inherited < m.prev)

\* Mutant: entries that are there already count as new ones.
HasEntries(m) == m.prev < m.to
Conflicts(m) == mem.agree < m.to

Appended(m) == IF Conflicts(m) THEN [mem EXCEPT !.agree = m.to, !.last = m.to] ELSE mem

AppendPanics(m) ==
  /\ mem.committed <= m.prev
  /\ \/ TermPanics(m.prev)
     \/ Matches(m) /\ Conflicts(m) /\ (restored \/ mem.agree < mem.committed)

\* Raft::new on what is stored, after a crash or a panic.
Reopen == mem' = disk /\ restored' = FALSE /\ unsent' = {}

\* handler_append_entries, by its three ways out
AppendBehindCommit(m) ==
  /\ m.prev < mem.committed
  /\ Ack(mem.committed)
  /\ UNCHANGED <<mem, restored>>

\* Mutant: all that the leader has committed is committed.
AcceptAppendCommitting(m) ==
  /\ mem.committed <= m.prev /\ ~AppendPanics(m) /\ Matches(m)
  /\ mem' = CommitTo(Appended(m), m.commit)
  /\ Ack(m.to)
  /\ UNCHANGED restored
AcceptAppend(m) ==
  /\ mem.committed <= m.prev /\ ~AppendPanics(m) /\ Matches(m)
  /\ mem' = CommitTo(Appended(m), Lesser(m.commit, m.to))
  /\ Ack(m.to)
  /\ UNCHANGED restored

RejectAppend(m) ==
  /\ mem.committed <= m.prev /\ ~AppendPanics(m) /\ ~Matches(m)
  /\ Reject(m.prev)
  /\ UNCHANGED <<mem, restored>>

HandleAppend(m) ==
  \/ AppendBehindCommit(m) \/ AcceptAppend(m) \/ RejectAppend(m)
  \/ AppendPanics(m) /\ Reopen

\* handler_heartbeat; its answer is OnHeartbeatResponse.
HeartbeatPanics(c) == mem.committed < c /\ mem.last < c
HandleHeartbeat(c) ==
  \/ /\ ~HeartbeatPanics(c)
     /\ mem' = CommitTo(mem, c)
     /\ UNCHANGED <<restored, unsent>>
  \/ HeartbeatPanics(c) /\ Reopen

\* handler_snapshot, restore: an older snapshot is ignored, one of a matching
\* entry moves the commit index, any other replaces the log, unless it lists
\* this voter as a learner.
SnapshotPanics(s) == mem.committed <= s /\ TermPanics(s)

IgnoreSnapshot(s) ==
  /\ s < mem.committed
  /\ Ack(mem.committed)
  /\ UNCHANGED <<mem, restored>>

FastForward(s) ==
  /\ mem.committed <= s /\ ~SnapshotPanics(s) /\ s <= mem.agree
  /\ mem' = CommitTo(mem, s)
  /\ Ack(s)
  /\ UNCHANGED restored

RefuseSnapshot(s) ==
  /\ mem.committed <= s /\ mem.agree < s
  /\ Ack(mem.committed)
  /\ UNCHANGED <<mem, restored>>

Restore(s) ==
  /\ mem.committed <= s /\ mem.agree < s
  /\ mem' = [agree |-> s, last |-> s, committed |-> s]
  /\ restored' = TRUE
  /\ Ack(s)

HandleSnapshot(s) ==
  \/ IgnoreSnapshot(s) \/ FastForward(s) \/ Restore(s)
  \/ SnapshotPanics(s) /\ Reopen

\* The application stores what changed and then sends the answers.
Persist ==
  /\ disk # mem \/ unsent # {}
  /\ disk' = mem
  /\ answers' = answers \cup unsent
  /\ unsent' = {}
  /\ UNCHANGED <<leaderVars, mem, restored, appends, beats, snapshots>>

Fail == Reopen /\ UNCHANGED <<leaderVars, disk, net>>
-----------------------------------------------------------------------------
(* The network delivers a message and forgets it or, if it repeats it, not. *)

DeliverAppend(m, repeated) ==
  /\ repeated => Room
  /\ HandleAppend(m)
  /\ appends' = IF repeated THEN appends ELSE appends \ {m}
  /\ UNCHANGED <<leaderVars, disk, beats, snapshots, answers>>

DeliverHeartbeat(c, repeated) ==
  /\ HandleHeartbeat(c)
  /\ beats' = IF repeated THEN beats ELSE beats \ {c}
  /\ UNCHANGED <<leaderVars, disk, appends, snapshots, answers>>

DeliverSnapshot(s, repeated) ==
  /\ repeated => Room
  /\ HandleSnapshot(s)
  /\ snapshots' = IF repeated THEN snapshots ELSE snapshots \ {s}
  /\ UNCHANGED <<leaderVars, disk, appends, beats, answers>>

DeliverAnswer(a, repeated) ==
  /\ OnAck(a) \/ OnReject(a)
  /\ answers' = IF repeated THEN answers ELSE answers \ {a}
  /\ UNCHANGED <<leader, followerVars, appends, beats, snapshots>>

Deliver(repeated) ==
  \/ \E m \in appends : DeliverAppend(m, repeated)
  \/ \E c \in beats : DeliverHeartbeat(c, repeated)
  \/ \E s \in snapshots : DeliverSnapshot(s, repeated)
  \/ \E a \in answers : DeliverAnswer(a, repeated)

Lose ==
  /\ \/ /\ \E m \in appends : appends' = appends \ {m}
        /\ UNCHANGED <<beats, snapshots, answers>>
     \/ /\ \E c \in beats : beats' = beats \ {c}
        /\ UNCHANGED <<appends, snapshots, answers>>
     \/ /\ \E s \in snapshots : snapshots' = snapshots \ {s}
        /\ UNCHANGED <<appends, beats, answers>>
     \/ /\ \E a \in answers : answers' = answers \ {a}
        /\ UNCHANGED <<appends, beats, snapshots>>
  /\ UNCHANGED <<leaderVars, followerVars>>

DeliverRefused ==
  /\ \E s \in snapshots : RefuseSnapshot(s) /\ snapshots' = snapshots \ {s}
  /\ UNCHANGED <<leaderVars, disk, appends, beats, answers>>
-----------------------------------------------------------------------------
\* The leader's log has what the follower's has committed (Leader Completeness).
Init ==
  /\ leader \in Leaders
  /\ leader.first <= leader.committed + 1 /\ leader.committed <= leader.last
  /\ leader.inherited = leader.last /\ leader.last <= MaxInherited
  /\ pr = Unknown(leader.last + 1)
  /\ mem \in Logs /\ mem.committed <= mem.agree /\ mem.agree <= mem.last /\ mem.agree <= leader.last
  /\ restored = FALSE /\ disk = mem /\ unsent = {}
  /\ appends = {} /\ beats = {} /\ snapshots = {} /\ answers = {}

Leading ==
  \/ \E to, c \in Indexes : AppendEntry(to, c)
  \/ \E c \in Indexes : MaybeCommit(c) \/ Compact(c)
  \/ \E to \in Indexes : SendEntries(to) \/ SendSnapshot(to)
  \/ SendHeartbeat \/ OnHeartbeatResponse \/ CheckQuorum
  \/ ReportUnreachable \/ ReportSnapshot

\* What happens when nothing fails, and what may go wrong.
Calm   == Leading \/ Persist \/ Deliver(FALSE)
Faults == Fail \/ Lose \/ Deliver(TRUE) \/ DeliverRefused

Next == Calm \/ Faults

Spec == Init /\ [][Next]_vars

\* Messages that are sent arrive in the end, what changed is stored in the end,
\* even if the node restarts before that time and again, and the leader hears
\* of a heartbeat and of what became of a snapshot.  There is a last failure.
SendAppend == \E i \in Indexes : SendEntries(i) \/ SendSnapshot(i)
FairSpec ==
  /\ Spec
  /\ <>[][Calm]_vars
  /\ SF_vars(SendAppend)
  /\ WF_vars(\E m \in appends : DeliverAppend(m, FALSE))
  /\ WF_vars(\E s \in snapshots : DeliverSnapshot(s, FALSE))
  /\ WF_vars(\E a \in answers : DeliverAnswer(a, FALSE))
  /\ SF_vars(Persist)
  /\ WF_vars(OnHeartbeatResponse)
  /\ WF_vars(ReportSnapshot)
-----------------------------------------------------------------------------
(* Properties. *)

\* The types of the state; the window holds no more than Inflights has room for.
TypeOK ==
  /\ leader \in Leaders
  /\ pr \in Progresses /\ Len(pr.ins) <= Cap
  /\ mem \in Logs /\ disk \in Logs /\ restored \in BOOLEAN
  /\ unsent \subseteq Answers /\ answers \subseteq Answers
  /\ appends \subseteq Appends /\ beats \subseteq Indexes /\ snapshots \subseteq Indexes

\* What the leader counts for a quorum (maybe_update, maximal_committed_index)
\* is in the follower's storage, the same as in the leader's log: no crash, late
\* append, late answer or snapshot takes it back.
MatchedIsDurable == pr.matched <= disk.agree

\* State Machine Safety at the follower (maybe_append, commit_to, restore): it
\* takes for committed only what it has in common with the leader, though the
\* leader's commit index comes with every message and runs ahead of its log.
CommittedIsLeaders == mem.committed <= mem.agree /\ disk.committed <= disk.agree

\* No message in flight, of whatever age, makes the follower panic: not a commit
\* index beyond its log, not a batch that conflicts with what it committed.  The
\* exception is what restore() leaves.
PanicsOnlyAfterRestore ==
  /\ \A m \in appends : AppendPanics(m) => restored
  /\ \A c \in beats : ~HeartbeatPanics(c)

\* next_idx stays where send_append can use it: next_idx - 1 does not underflow,
\* and is an index of the leader's log, whose term it is sent with, whatever
\* hint a follower with a longer log gave.
NextInLog == 1 <= pr.next_idx /\ pr.next_idx <= leader.last + 1

LastOf(q) == IF q = <<>> THEN 0 ELSE q[Len(q)]

\* What was sent optimistically is acknowledged or accounted for by the window:
\* its last index is the one before next_idx, through acknowledgements and
\* rejections of any age, and no window outlives the state it was filled in.
\* (A window of one is emptied by free_first_one.)
WindowReachesNext ==
  /\ pr.state = "Replicate" /\ Cap > 1 =>
       pr.next_idx = Greater(pr.matched, LastOf(pr.ins)) + 1
  /\ pr.state # "Replicate" => pr.ins = <<>>

\* Leader and follower implement the acknowledged log of AckedLog: what the
\* leader counts never falls, and what the follower stored is never undone.
Acked == INSTANCE AckedLog WITH
  last <- leader.last, held <- disk.agree, known <- disk.committed, acked <- pr.matched

ImplementsAckedLog == Acked!Spec

\* The flow control never gets stuck (is_paused, maybe_decr_to, become_*): from
\* whatever messages, windows, snapshots and restarts the failures left behind,
\* the follower has all of the leader's log in the end, and the leader knows.
FollowerCatchesUp == <>[](pr.matched = leader.last)

\* README.md:186-190, the result of AppendEntries: "true if follower contained
\* entry matching prevLogIndex and prevLogTerm".
HolderAccepts == [][\A a \in unsent' \ unsent : a.reject => mem.agree < a.index]_vars
=============================================================================
