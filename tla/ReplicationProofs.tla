-------------------------- MODULE ReplicationProofs --------------------------
(***************************************************************************)
(* Proofs about Replication, for every bound, every size of the window and *)
(* either reading of handler_append_entries.                               *)
(***************************************************************************)
EXTENDS Replication, FiniteSetTheorems, SequenceTheorems, TLAPS

USE BoundsAssumption, WindowAssumption, HandlerAssumption

Growing(q) == \A i, j \in 1..Len(q) : i < j => q[i] < q[j]

\* A window that reaches the entry before "next".
Reaches(q, matched, next) == next = Greater(matched, LastOf(q)) + 1

\* What is always true of a Progress when the leader's log ends at "last" and
\* the follower's storage holds it up to "held".
Tracks(p, last, held) ==
  /\ p \in Progresses /\ Len(p.ins) <= Cap /\ Growing(p.ins)
  /\ p.matched <= held /\ 1 <= p.next_idx /\ p.next_idx <= last + 1
  /\ p.state = "Replicate" /\ Cap > 1 => Reaches(p.ins, p.matched, p.next_idx)
  /\ p.state # "Replicate" => p.ins = <<>>

\* The commit index covers what is compacted.
LeaderLog == leader \in Leaders /\ leader.first <= leader.committed + 1 /\ leader.committed <= leader.last

\* What the follower has in common with its leader never gets shorter than what
\* it stored, and ends in both logs.
FollowerLogs ==
  /\ mem \in Logs /\ disk \in Logs /\ restored \in BOOLEAN
  /\ disk.agree <= mem.agree /\ disk.committed <= mem.committed
  /\ mem.agree <= mem.last /\ mem.agree <= leader.last
  /\ mem.committed <= mem.agree /\ disk.committed <= disk.agree /\ disk.agree <= disk.last

\* Messages to the follower speak of the leader's log, a heartbeat of what the
\* follower has stored.
ToFollower ==
  /\ appends \subseteq Appends /\ \A m \in appends : m.to <= leader.last
  /\ beats \subseteq Indexes /\ \A c \in beats : c <= disk.agree
  /\ snapshots \subseteq Indexes /\ \A s \in snapshots : s <= leader.last

\* Acknowledgements speak of what the follower holds: sent ones, of what it has
\* stored.
Acknowledges(set, held) == set \subseteq Answers /\ \A a \in set : ~a.reject => a.index <= held
ToLeader == Acknowledges(answers, disk.agree) /\ Acknowledges(unsent, mem.agree)

IInv == LeaderLog /\ Tracks(pr, leader.last, disk.agree) /\ FollowerLogs /\ ToFollower /\ ToLeader
-----------------------------------------------------------------------------
\* free_to leaves the newest indexes, and drops the last one only if it is not
\* above "to".
LEMMA FreeToKeeps ==
  ASSUME NEW q \in Seq(Indexes), NEW to \in Indexes
  PROVE  /\ FreeTo(q, to) \in Seq(Indexes) /\ Len(FreeTo(q, to)) <= Len(q)
         /\ Growing(q) => Growing(FreeTo(q, to))
         /\ FreeTo(q, to) # <<>> => LastOf(FreeTo(q, to)) = LastOf(q)
         /\ FreeTo(q, to) = <<>> => LastOf(q) <= to
<1> DEFINE passed == {n \in 1..Len(q) : \A j \in 1..n : q[j] <= to}
           c == Cardinality(passed)
<1>1. Len(q) \in Nat /\ \A j \in 1..Len(q) : q[j] \in Indexes
  OBVIOUS
<1>2. IsFiniteSet(1..Len(q)) /\ Cardinality(1..Len(q)) = Len(q)
  BY <1>1, FS_Interval
<1>3. /\ IsFiniteSet(passed) /\ c <= Len(q)
      /\ c = Len(q) => passed = 1..Len(q)
  <2>1. passed \in SUBSET (1..Len(q))
    OBVIOUS
  <2> QED BY <1>2, <2>1, FS_Subset
<1>4. c \in Nat
  BY <1>3, FS_CardinalityType
<1>5. PICK k \in Nat : k = c
  BY <1>4
<1>6. k <= Len(q) /\ (k = Len(q) => passed = 1..Len(q))
  BY <1>3, <1>5
<1>7. FreeTo(q, to) = SubSeq(q, k + 1, Len(q))
  BY <1>5 DEF FreeTo
<1> HIDE DEF c
<1>8. PICK r : r = SubSeq(q, k + 1, Len(q))
  OBVIOUS
<1>9. r \in Seq(Indexes) /\ Len(r) = Len(q) - k /\ \A i \in 1..Len(r) : r[i] = q[i + k]
  BY <1>1, <1>6, <1>8
<1>10. Growing(q) => Growing(r)
  BY <1>1, <1>6, <1>9 DEF Growing
<1>11. r # <<>> => LastOf(r) = LastOf(q)
  BY <1>1, <1>6, <1>9 DEF LastOf
<1>12. r = <<>> => LastOf(q) <= to
  <2>1. SUFFICES ASSUME r = <<>> PROVE LastOf(q) <= to
    OBVIOUS
  <2>2. k = Len(q)
    BY <1>1, <1>6, <1>9, <2>1
  <2>3. Len(q) # 0 => q[Len(q)] <= to
    BY <1>1, <1>6, <2>2
  <2>4. q = <<>> => LastOf(q) <= to
    BY DEF LastOf, Indexes
  <2>5. q # <<>> => Len(q) # 0
    BY <1>1
  <2> QED BY <2>3, <2>4, <2>5 DEF LastOf
<1> QED BY <1>1, <1>6, <1>7, <1>8, <1>9, <1>10, <1>11, <1>12

\* The window of a Progress is a sequence, and its last index an index.
LEMMA Windows ==
  ASSUME NEW p \in Progresses
  PROVE  /\ p.ins \in Seq(Indexes) /\ Len(p.ins) \in Nat
         /\ LastOf(p.ins) \in Indexes
         /\ Growing(<<>>) /\ LastOf(<<>>) = 0 /\ <<>> \in Seq(Indexes) /\ Len(<<>>) = 0
<1>1. p.ins \in Seq(Indexes)
  BY DEF Progresses
<1>2. PICK q \in Seq(Indexes) : q = p.ins
  BY <1>1
<1>3. Len(q) \in Nat /\ LastOf(q) \in Indexes
  BY DEF LastOf, Indexes
<1>4. Growing(<<>>) /\ LastOf(<<>>) = 0 /\ <<>> \in Seq(Indexes) /\ Len(<<>>) = 0
  BY DEF Growing, LastOf
<1> QED BY <1>1, <1>2, <1>3, <1>4

\* become_probe and become_replicate start behind what is acknowledged.
LEMMA Becoming ==
  ASSUME NEW last \in Indexes, NEW held \in Indexes, held <= last, NEW p, Tracks(p, last, held)
  PROVE  /\ Tracks(BecomeProbe(p), last, held) /\ BecomeProbe(p).matched = p.matched
         /\ Tracks(BecomeReplicate(p), last, held) /\ BecomeReplicate(p).matched = p.matched
<1>1. p \in Progresses /\ p.matched <= held
  BY DEF Tracks
<1>2. Growing(<<>>) /\ LastOf(<<>>) = 0 /\ <<>> \in Seq(Indexes) /\ Len(<<>>) = 0
  BY <1>1, Windows
<1>3. p.matched \in Nat /\ p.pending_snapshot = 0
  BY <1>1 DEF Progresses, Indexes
<1>4. ASSUME NEW s \in {"Probe", "Replicate"}
      PROVE  /\ Tracks([ResetState(p, s) EXCEPT !.next_idx = p.matched + 1], last, held)
             /\ [ResetState(p, s) EXCEPT !.next_idx = p.matched + 1].matched = p.matched
  <2>1. PICK r : r = [ResetState(p, s) EXCEPT !.next_idx = p.matched + 1]
    OBVIOUS
  <2>2. PICK q : q = ResetState(p, s)
    OBVIOUS
  <2>3. q \in Progresses /\ q.matched = p.matched /\ q.ins = <<>> /\ q.state = s
    BY <1>1, <1>2, <1>3, <2>2 DEF ResetState, Progresses, Indexes
  <2>4. r = [q EXCEPT !.next_idx = p.matched + 1] /\ p.matched + 1 \in 0..MaxIndex + 1
    BY <1>1, <2>1, <2>2 DEF Progresses, Indexes
  <2>5. r \in Progresses /\ r.matched = p.matched /\ r.next_idx = p.matched + 1 /\ r.ins = <<>>
    BY <2>3, <2>4 DEF Progresses
  <2>6. Reaches(r.ins, r.matched, r.next_idx)
    BY <1>2, <1>3, <2>5 DEF Reaches, Greater
  <2> QED BY <1>1, <1>2, <1>3, <2>1, <2>5, <2>6 DEF Tracks, Indexes
<1>5. BecomeProbe(p) = [ResetState(p, "Probe") EXCEPT !.next_idx = p.matched + 1]
  BY <1>3 DEF BecomeProbe, Greater
<1>6. BecomeReplicate(p) = [ResetState(p, "Replicate") EXCEPT !.next_idx = p.matched + 1]
  BY DEF BecomeReplicate
<1> QED BY <1>4, <1>5, <1>6

\* An acknowledgement of what the follower holds moves matched and next_idx on.
LEMMA Updating ==
  ASSUME NEW last \in Indexes, NEW held \in Indexes, held <= last, NEW p, Tracks(p, last, held),
         NEW n \in Indexes, n <= held
  PROVE  /\ Tracks(MaybeUpdate(p, n), last, held)
         /\ MaybeUpdate(p, n).matched = Greater(p.matched, n)
         /\ MaybeUpdate(p, n).state = p.state
         /\ MaybeUpdate(p, n).ins = p.ins
<1>1. PICK r : r = MaybeUpdate(p, n)
  OBVIOUS
<1>2. p \in Progresses /\ p.matched \in Nat /\ p.next_idx \in Nat /\ n \in Nat
  BY DEF Tracks, Progresses, Indexes
<1>3. /\ r \in Progresses /\ r.matched = Greater(p.matched, n) /\ r.state = p.state
      /\ r.next_idx = Greater(p.next_idx, n + 1) /\ r.ins = p.ins
  <2>1. PICK b \in BOOLEAN : b = (p.paused /\ p.matched >= n)
    OBVIOUS
  <2>2. PICK m \in Indexes : m = Greater(p.matched, n)
    BY <1>2 DEF Greater, Progresses
  <2>3. PICK i \in 0..MaxIndex + 1 : i = Greater(p.next_idx, n + 1)
    BY <1>2 DEF Greater, Progresses, Indexes
  <2>4. r = [p EXCEPT !.matched = m, !.paused = b, !.next_idx = i]
    BY <1>1, <2>1, <2>2, <2>3 DEF MaybeUpdate
  <2> QED BY <1>2, <2>2, <2>3, <2>4 DEF Progresses
<1>4. p.ins \in Seq(Indexes) /\ LastOf(p.ins) \in Nat
  BY <1>2, Windows DEF Indexes
<1>5. Reaches(p.ins, p.matched, p.next_idx) => Reaches(r.ins, r.matched, r.next_idx)
  BY <1>2, <1>3, <1>4 DEF Reaches, Greater
<1>6. r.matched <= held /\ 1 <= r.next_idx /\ r.next_idx <= last + 1
  BY <1>2, <1>3 DEF Tracks, Greater, Indexes
<1> QED BY <1>1, <1>3, <1>5, <1>6 DEF Tracks

\* The flags of a Progress say nothing of the follower's log.
LEMMA Flagging ==
  ASSUME NEW last, NEW held, NEW p, Tracks(p, last, held), NEW b \in BOOLEAN
  PROVE  /\ Tracks([p EXCEPT !.recent_active = b], last, held)
         /\ Tracks([p EXCEPT !.paused = b], last, held)
<1>1. ASSUME NEW r, r = [p EXCEPT !.recent_active = b] \/ r = [p EXCEPT !.paused = b]
      PROVE  /\ r \in Progresses /\ r.ins = p.ins /\ r.matched = p.matched
             /\ r.next_idx = p.next_idx /\ r.state = p.state
  <2>1. p \in Progresses
    BY DEF Tracks
  <2> QED BY <1>1, <2>1 DEF Progresses
<1>2. ASSUME NEW r, r = [p EXCEPT !.recent_active = b] \/ r = [p EXCEPT !.paused = b]
      PROVE  Tracks(r, last, held)
  BY <1>1, <1>2 DEF Tracks
<1> QED BY <1>2

LEMMA ActiveTracks ==
  ASSUME NEW last, NEW held, NEW p, Tracks(p, last, held)
  PROVE  /\ Tracks(Active(p), last, held) /\ Active(p).matched = p.matched
         /\ Active(p).ins = p.ins /\ Active(p).state = p.state
<1>1. p \in Progresses
  BY DEF Tracks
<1> QED BY <1>1, Flagging DEF Active, Progresses

\* free_to drops no more than what is acknowledged, and free_first_one only the
\* first index of a full window.
LEMMA Freeing ==
  ASSUME NEW last \in Indexes, NEW held \in Indexes, NEW p, Tracks(p, last, held),
         NEW to \in Indexes, to <= p.matched \/ (Len(p.ins) = Cap /\ to = p.ins[1]),
         NEW r, r = [p EXCEPT !.ins = FreeTo(p.ins, to)]
  PROVE  Tracks(r, last, held)
<1>1. p \in Progresses /\ p.matched \in Nat
  BY DEF Tracks, Progresses, Indexes
<1>2. PICK q \in Seq(Indexes) : q = p.ins
  BY <1>1, Windows
<1>3. PICK f : f = FreeTo(q, to)
  OBVIOUS
<1>4. /\ f \in Seq(Indexes) /\ Len(f) <= Len(q) /\ Growing(f)
      /\ f # <<>> => LastOf(f) = LastOf(q)
      /\ f = <<>> => LastOf(q) <= to
  BY <1>2, <1>3, FreeToKeeps DEF Tracks
<1>5. r = [p EXCEPT !.ins = f]
  BY <1>2, <1>3
<1>6. /\ r \in Progresses /\ r.ins = f /\ r.matched = p.matched
      /\ r.next_idx = p.next_idx /\ r.state = p.state
  BY <1>1, <1>4, <1>5 DEF Progresses
<1>7. LastOf(q) \in Nat /\ LastOf(<<>>) = 0 /\ Len(q) \in Nat /\ Len(f) \in Nat
  BY <1>1, <1>2, <1>4, Windows DEF Indexes
<1>8. ASSUME p.state = "Replicate", Cap > 1 PROVE Reaches(f, p.matched, p.next_idx)
  <2>1. Reaches(q, p.matched, p.next_idx) /\ Growing(q)
    BY <1>2, <1>8 DEF Tracks
  <2>2. CASE f # <<>>
    BY <1>4, <2>1, <2>2 DEF Reaches
  <2>3. CASE f = <<>> /\ to <= p.matched
    BY <1>1, <1>4, <1>7, <2>1, <2>3 DEF Reaches, Greater, Indexes
  <2>4. CASE f = <<>> /\ Len(q) = Cap /\ to = q[1]
    <3>1. q[1] < q[Len(q)] /\ LastOf(q) = q[Len(q)]
      BY <1>7, <1>8, <2>1, <2>4 DEF Growing, LastOf
    <3>2. q[1] \in Nat /\ q[Len(q)] \in Nat
      BY <1>7, <1>8, <2>4 DEF Indexes
    <3> QED BY <1>4, <2>4, <3>1, <3>2
  <2> QED BY <1>2, <2>2, <2>3, <2>4
<1>9. p.state # "Replicate" => f = <<>>
  <2>1. p.state # "Replicate" => q = <<>>
    BY <1>2 DEF Tracks
  <2>2. Len(q) = 0 => f = <<>>
    BY <1>4, <1>7
  <2> QED BY <1>1, <2>1, <2>2, Windows
<1> QED BY <1>2, <1>4, <1>6, <1>7, <1>8, <1>9 DEF Tracks

\* A rejection moves next_idx back by no more than it must, and not below 1.
LEMMA Stepping ==
  ASSUME NEW last \in Indexes, NEW held \in Indexes, NEW p, Tracks(p, last, held),
         NEW rejected \in Indexes, NEW hint \in Indexes, p.state # "Replicate", IsNews(p, rejected)
  PROVE  Tracks(MaybeDecrTo(p, rejected, hint), last, held)
<1>1. p \in Progresses /\ p.next_idx \in Nat /\ p.next_idx <= last + 1
  BY DEF Tracks, Progresses
<1>2. p.next_idx - 1 = rejected
  BY DEF IsNews
<1>3. PICK n : n = Greater(1, Lesser(rejected, hint + 1))
  OBVIOUS
<1>4. n \in 1..last + 1 /\ n \in 0..MaxIndex + 1
  BY <1>1, <1>2, <1>3 DEF Greater, Lesser, Indexes
<1>5. PICK r : r = [p EXCEPT !.next_idx = n, !.paused = FALSE]
  OBVIOUS
<1>6. r \in Progresses /\ r.matched = p.matched /\ r.next_idx = n /\ r.ins = p.ins /\ r.state = p.state
  BY <1>1, <1>4, <1>5 DEF Progresses
<1>7. Tracks(r, last, held)
  BY <1>4, <1>6 DEF Tracks
<1> QED BY <1>3, <1>5, <1>7 DEF MaybeDecrTo
-----------------------------------------------------------------------------
LEMMA LogFacts ==
  ASSUME IInv
  PROVE  /\ leader.last \in Indexes /\ leader.committed \in Indexes /\ leader.first \in 1..MaxIndex + 1
         /\ disk.agree \in Indexes /\ disk.last \in Indexes /\ disk.committed \in Indexes
         /\ mem.agree \in Indexes /\ mem.last \in Indexes /\ mem.committed \in Indexes
         /\ disk.agree <= leader.last
<1>1. leader \in Leaders /\ disk \in Logs /\ mem \in Logs
  BY DEF IInv, LeaderLog, FollowerLogs
<1>2. disk.agree \in Nat /\ mem.agree \in Nat /\ leader.last \in Nat
  BY <1>1 DEF Leaders, Logs, Indexes
<1> QED BY <1>1, <1>2 DEF IInv, FollowerLogs, Leaders, Logs

\* Steps that change nothing but the Progress.
LEMMA ProgressStep ==
  ASSUME IInv, Tracks(pr', leader.last, disk.agree), UNCHANGED <<leader, followerVars, net>>
  PROVE  IInv'
<1>1. /\ leader' = leader /\ mem' = mem /\ restored' = restored /\ disk' = disk /\ unsent' = unsent
      /\ appends' = appends /\ beats' = beats /\ snapshots' = snapshots /\ answers' = answers
  BY DEF followerVars, net
<1> QED BY <1>1 DEF IInv, LeaderLog, FollowerLogs, ToFollower, ToLeader

\* Steps of the leader's log.
LEMMA LogStep ==
  ASSUME IInv, leader' \in Leaders, leader.last <= leader'.last,
         leader'.first <= leader'.committed + 1, leader'.committed <= leader'.last,
         UNCHANGED <<pr, followerVars, net>>
  PROVE  IInv'
<1>1. /\ pr' = pr /\ mem' = mem /\ restored' = restored /\ disk' = disk /\ unsent' = unsent
      /\ appends' = appends /\ beats' = beats /\ snapshots' = snapshots /\ answers' = answers
  BY DEF followerVars, net
<1>2. PICK a, b \in Nat : a = leader.last /\ b = leader'.last /\ a <= b
  BY LogFacts DEF Leaders, Indexes
<1>3. LeaderLog'
  BY DEF LeaderLog
<1>4. Tracks(pr, b, disk.agree)
  <2>1. Tracks(pr, a, disk.agree)
    BY <1>2 DEF IInv
  <2>2. pr.next_idx \in Nat
    BY <2>1 DEF Tracks, Progresses
  <2> QED BY <1>2, <2>1, <2>2 DEF Tracks
<1>5. FollowerLogs'
  <2>1. FollowerLogs /\ mem.agree \in Nat
    BY LogFacts DEF IInv, Indexes
  <2> QED BY <1>1, <1>2, <2>1 DEF FollowerLogs
<1>6. ToFollower'
  <2>1. ToFollower
    BY DEF IInv
  <2>2. \A m \in appends : m.to \in Nat
    BY <2>1 DEF ToFollower, Appends, Indexes
  <2>3. \A s \in snapshots : s \in Nat
    BY <2>1 DEF ToFollower, Indexes
  <2> QED BY <1>1, <1>2, <2>1, <2>2, <2>3 DEF ToFollower
<1>7. ToLeader'
  BY <1>1 DEF IInv, ToLeader
<1> QED BY <1>1, <1>2, <1>3, <1>4, <1>5, <1>6, <1>7 DEF IInv

LEMMA AppendEntryInv ==
  ASSUME IInv, NEW to \in Indexes, NEW c \in Indexes, AppendEntry(to, c)
  PROVE  IInv'
<1>1. leader \in Leaders
  BY DEF IInv, LeaderLog
<1>2. leader' \in Leaders /\ leader'.last = to /\ leader'.committed = c /\ leader'.first = leader.first
  BY <1>1 DEF AppendEntry, Leaders
<1>3. leader.committed <= c /\ c <= to /\ leader.last <= to
  BY LogFacts DEF AppendEntry, CommitsTo, IInv, LeaderLog, Indexes
<1>4. leader.first <= c + 1
  BY <1>3, LogFacts DEF IInv, LeaderLog, Indexes
<1> QED BY <1>2, <1>3, <1>4, LogStep DEF AppendEntry

LEMMA MaybeCommitInv ==
  ASSUME IInv, NEW c \in Indexes, MaybeCommit(c)
  PROVE  IInv'
<1>1. leader \in Leaders
  BY DEF IInv, LeaderLog
<1>2. leader' \in Leaders /\ leader'.last = leader.last /\ leader'.committed = c /\ leader'.first = leader.first
  BY <1>1 DEF MaybeCommit, Leaders
<1>3. leader.committed <= c /\ c <= leader.last
  BY LogFacts DEF MaybeCommit, CommitsTo, Indexes
<1>4. leader.first <= c + 1 /\ leader.last <= leader.last
  BY <1>3, LogFacts DEF IInv, LeaderLog, Indexes
<1> QED BY <1>2, <1>3, <1>4, LogStep DEF MaybeCommit

LEMMA CompactInv ==
  ASSUME IInv, NEW i \in Indexes, Compact(i)
  PROVE  IInv'
<1>1. leader \in Leaders
  BY DEF IInv, LeaderLog
<1>2. i + 1 \in 1..MaxIndex + 1
  BY DEF Indexes
<1>3. leader' \in Leaders /\ leader'.last = leader.last /\ leader'.committed = leader.committed /\ leader'.first = i + 1
  BY <1>1, <1>2 DEF Compact, Leaders
<1>4. i + 1 <= leader.committed + 1 /\ leader.committed <= leader.last /\ leader.last <= leader.last
  BY LogFacts DEF Compact, IInv, LeaderLog, Indexes
<1> QED BY <1>3, <1>4, LogStep DEF Compact

\* Steps that send to the follower.
LEMMA SendStep ==
  ASSUME IInv, Tracks(pr', leader.last, disk.agree), ToFollower',
         UNCHANGED <<leader, followerVars, answers>>
  PROVE  IInv'
<1>1. /\ leader' = leader /\ mem' = mem /\ restored' = restored /\ disk' = disk /\ unsent' = unsent
      /\ answers' = answers
  BY DEF followerVars
<1> QED BY <1>1 DEF IInv, LeaderLog, FollowerLogs, ToLeader

\* A batch that is sent optimistically fills the window up to its last index.
LEMMA WindowExtends ==
  ASSUME NEW last \in Indexes, NEW held \in Indexes, NEW p, Tracks(p, last, held),
         p.state = "Replicate", ~Full(p), NEW to \in p.next_idx..last
  PROVE  Tracks([p EXCEPT !.next_idx = to + 1, !.ins = Append(@, to)], last, held)
<1>1. p \in Progresses /\ p.next_idx \in Nat /\ p.matched \in Nat /\ p.matched <= held /\ 1 <= p.next_idx
  BY DEF Tracks, Progresses, Indexes
<1>2. PICK q \in Seq(Indexes) : q = p.ins
  BY <1>1, Windows
<1>3. Len(q) \in Nat /\ Len(q) < Cap /\ Growing(q) /\ LastOf(q) \in Nat
  BY <1>1, <1>2, Windows DEF Tracks, Full, Indexes
<1>4. to \in Indexes /\ to + 1 \in 0..MaxIndex + 1 /\ to + 1 <= last + 1 /\ p.next_idx <= to
  BY <1>1 DEF Indexes
<1>5. PICK w : w = Append(q, to)
  OBVIOUS
<1>6. /\ w \in Seq(Indexes) /\ Len(w) = Len(q) + 1 /\ w[Len(q) + 1] = to
      /\ \A j \in 1..Len(q) : w[j] = q[j]
  BY <1>4, <1>5
<1>7. LastOf(w) = to
  BY <1>3, <1>6 DEF LastOf
<1>8. PICK r : r = [p EXCEPT !.next_idx = to + 1, !.ins = w]
  OBVIOUS
<1>9. r \in Progresses /\ r.ins = w /\ r.next_idx = to + 1 /\ r.matched = p.matched /\ r.state = p.state
  BY <1>1, <1>4, <1>6, <1>8 DEF Progresses
<1>10. Cap > 1 => p.next_idx = Greater(p.matched, LastOf(q)) + 1
  BY <1>2 DEF Tracks, Reaches
<1>11. Growing(w)
  <2>1. CASE Cap = 1
    BY <1>3, <1>6, <2>1 DEF Growing
  <2>2. CASE Cap > 1
    <3>1. LastOf(q) < to
      BY <1>1, <1>3, <1>4, <1>10, <2>2 DEF Greater
    <3>2. ASSUME NEW j \in 1..Len(q) PROVE q[j] < to
      <4>1. q[j] \in Nat /\ q[Len(q)] \in Nat /\ LastOf(q) = q[Len(q)]
        BY <1>3 DEF LastOf, Indexes
      <4>2. j = Len(q) \/ q[j] < q[Len(q)]
        BY <1>3 DEF Growing
      <4> QED BY <1>4, <3>1, <4>1, <4>2 DEF Indexes
    <3> QED BY <1>3, <1>6, <3>2 DEF Growing
  <2> QED BY <2>1, <2>2
<1>12. Cap > 1 => Reaches(w, r.matched, r.next_idx)
  BY <1>1, <1>3, <1>4, <1>7, <1>9, <1>10 DEF Reaches, Greater, Indexes
<1>13. Tracks(r, last, held)
  BY <1>1, <1>3, <1>4, <1>6, <1>9, <1>11, <1>12 DEF Tracks, Indexes
<1> QED BY <1>2, <1>5, <1>8, <1>13

LEMMA SendEntriesInv ==
  ASSUME IInv, NEW to \in Indexes, SendEntries(to)
  PROVE  IInv'
<1>1. /\ Tracks(pr, leader.last, disk.agree) /\ pr.next_idx \in Nat
      /\ 1 <= pr.next_idx /\ pr.next_idx <= leader.last + 1
  BY DEF IInv, Tracks, Progresses
<1>2. to <= leader.last /\ pr.next_idx - 1 \in Indexes
  BY <1>1, LogFacts DEF SendEntries, Indexes
<1>3. Tracks(pr', leader.last, disk.agree)
  <2>1. CASE to < pr.next_idx
    BY <1>1, <2>1 DEF SendEntries
  <2>2. CASE ~(to < pr.next_idx) /\ pr.state = "Replicate"
    <3>1. pr' = [pr EXCEPT !.next_idx = to + 1, !.ins = Append(@, to)] /\ ~Full(pr)
      BY <2>2 DEF SendEntries, IsPaused
    <3>2. to \in pr.next_idx..leader.last
      BY <1>1, <1>2, <2>2 DEF Indexes
    <3> QED BY <1>1, <2>2, <3>1, <3>2, LogFacts, WindowExtends
  <2>3. CASE ~(to < pr.next_idx) /\ pr.state # "Replicate"
    <3>1. pr' = [pr EXCEPT !.paused = TRUE]
      BY <2>3 DEF SendEntries
    <3> QED BY <1>1, <3>1, Flagging
  <2> QED BY <2>1, <2>2, <2>3
<1>4. ToFollower'
  <2>1. PICK m : m = [prev |-> pr.next_idx - 1, to |-> to, commit |-> leader.committed]
    OBVIOUS
  <2>2. m \in Appends /\ m.to <= leader.last
    BY <1>2, <2>1, LogFacts DEF Appends
  <2>3. appends' = appends \cup {m} /\ beats' = beats /\ snapshots' = snapshots /\ leader' = leader /\ disk' = disk
    BY <2>1 DEF SendEntries, followerVars
  <2> QED BY <2>2, <2>3 DEF IInv, ToFollower
<1> QED BY <1>3, <1>4, SendStep DEF SendEntries

LEMMA SendSnapshotInv ==
  ASSUME IInv, NEW s \in Indexes, SendSnapshot(s)
  PROVE  IInv'
<1>1. /\ Tracks(pr, leader.last, disk.agree) /\ pr \in Progresses /\ pr.next_idx \in Nat /\ 1 <= pr.next_idx
  BY DEF IInv, Tracks, Progresses
<1>2. 1 <= s /\ s <= leader.last
  BY <1>1, LogFacts DEF SendSnapshot, IInv, LeaderLog, Indexes
<1>3. Tracks(pr', leader.last, disk.agree)
  <2>1. PICK q : q = ResetState(pr, "Snapshot")
    OBVIOUS
  <2>2. <<>> \in Seq(Indexes) /\ Len(<<>>) = 0 /\ Growing(<<>>)
    BY <1>1, Windows
  <2>3. q \in Progresses /\ q.matched = pr.matched /\ q.ins = <<>> /\ q.state = "Snapshot"
    BY <1>1, <2>1, <2>2 DEF ResetState, Progresses
  <2>4. pr' = [q EXCEPT !.next_idx = s] /\ s \in 0..MaxIndex + 1
    BY <2>1 DEF SendSnapshot, BecomeSnapshot, Indexes
  <2>5. /\ pr' \in Progresses /\ pr'.matched = pr.matched /\ pr'.ins = <<>> /\ pr'.next_idx = s
        /\ pr'.state = "Snapshot"
    BY <2>3, <2>4 DEF Progresses
  <2> QED BY <1>1, <1>2, <2>2, <2>5, LogFacts DEF Tracks, Indexes
<1>4. ToFollower'
  <2>1. appends' = appends /\ beats' = beats /\ snapshots' = snapshots \cup {s} /\ leader' = leader /\ disk' = disk
    BY DEF SendSnapshot, followerVars
  <2> QED BY <1>2, <2>1 DEF IInv, ToFollower
<1> QED BY <1>3, <1>4, SendStep DEF SendSnapshot

LEMMA SendHeartbeatInv ==
  ASSUME IInv, SendHeartbeat
  PROVE  IInv'
<1>1. pr.matched \in Indexes /\ pr.matched <= disk.agree /\ Tracks(pr, leader.last, disk.agree)
  BY DEF IInv, Tracks, Progresses
<1>2. PICK c : c = Lesser(pr.matched, leader.committed)
  OBVIOUS
<1>3. c \in Indexes /\ c <= disk.agree
  BY <1>1, <1>2, LogFacts DEF Lesser, Indexes
<1>4. ToFollower'
  <2>1. appends' = appends /\ beats' = {c} /\ snapshots' = snapshots /\ leader' = leader /\ disk' = disk
    BY <1>2 DEF SendHeartbeat, leaderVars, followerVars
  <2> QED BY <1>3, <2>1 DEF IInv, ToFollower
<1>5. pr' = pr /\ UNCHANGED <<leader, followerVars, answers>>
  BY DEF SendHeartbeat, leaderVars
<1> QED BY <1>1, <1>4, <1>5, SendStep
-----------------------------------------------------------------------------
LEMMA OnHeartbeatResponseInv ==
  ASSUME IInv, OnHeartbeatResponse
  PROVE  IInv'
<1>1. Tracks(pr, leader.last, disk.agree)
  BY DEF IInv
<1>2. PICK a : a = Active(pr)
  OBVIOUS
<1>3. Tracks(a, leader.last, disk.agree) /\ a \in Progresses /\ a.ins = pr.ins
  <2>1. Tracks(a, leader.last, disk.agree) /\ a.ins = pr.ins
    BY <1>1, <1>2, ActiveTracks
  <2> QED BY <2>1 DEF Tracks
<1>4. PICK r : r = [a EXCEPT !.paused = FALSE]
  OBVIOUS
<1>5. Tracks(r, leader.last, disk.agree) /\ r \in Progresses /\ r.ins = pr.ins
  BY <1>3, <1>4, Flagging DEF Progresses
<1>6. CASE ~Full(pr)
  <2>1. pr' = [a EXCEPT !.paused = FALSE, !.ins = pr.ins]
    BY <1>2, <1>3, <1>6 DEF OnHeartbeatResponse
  <2>2. pr' = r
    BY <1>3, <1>4, <2>1 DEF Progresses
  <2> QED BY <1>5, <2>2, ProgressStep DEF OnHeartbeatResponse
<1>7. CASE Full(pr)
  <2>1. pr' = [a EXCEPT !.paused = FALSE, !.ins = FreeTo(pr.ins, pr.ins[1])]
    BY <1>2, <1>3, <1>7 DEF OnHeartbeatResponse
  <2>2. pr' = [r EXCEPT !.ins = FreeTo(pr.ins, pr.ins[1])]
    BY <1>3, <1>4, <2>1 DEF Progresses
  <2>3. PICK q \in Seq(Indexes) : q = pr.ins
    BY <1>1, Windows DEF Tracks
  <2>4. Len(q) = Cap /\ q[1] \in Indexes
    BY <1>7, <2>3 DEF Full
  <2>5. Tracks(pr', leader.last, disk.agree)
    BY <1>5, <2>2, <2>3, <2>4, Freeing, LogFacts
  <2> QED BY <2>5, ProgressStep DEF OnHeartbeatResponse
<1> QED BY <1>6, <1>7

LEMMA ReportsInv ==
  ASSUME IInv, CheckQuorum \/ ReportUnreachable \/ ReportSnapshot
  PROVE  IInv'
<1>1. Tracks(pr, leader.last, disk.agree) /\ pr \in Progresses
  BY DEF IInv, Tracks
<1>2. CASE CheckQuorum
  <2>1. Tracks(pr', leader.last, disk.agree)
    BY <1>1, <1>2, Flagging DEF CheckQuorum
  <2> QED BY <1>2, <2>1, ProgressStep DEF CheckQuorum
<1>3. CASE ReportUnreachable
  <2>1. Tracks(pr', leader.last, disk.agree)
    BY <1>1, <1>3, LogFacts, Becoming DEF ReportUnreachable
  <2> QED BY <1>3, <2>1, ProgressStep DEF ReportUnreachable
<1>4. CASE ReportSnapshot
  <2>1. SnapshotFailure(pr) = pr
    BY <1>1 DEF SnapshotFailure, Progresses
  <2>2. pr' = [BecomeProbe(pr) EXCEPT !.paused = TRUE]
    BY <1>4, <2>1 DEF ReportSnapshot
  <2>3. Tracks(BecomeProbe(pr), leader.last, disk.agree)
    BY <1>1, LogFacts, Becoming
  <2>4. Tracks(pr', leader.last, disk.agree)
    BY <2>2, <2>3, Flagging
  <2> QED BY <1>4, <2>4, ProgressStep DEF ReportSnapshot
<1> QED BY <1>2, <1>3, <1>4

\* Whatever an acknowledgement leads to, it counts no more than is acknowledged.
LEMMA OnAckTracks ==
  ASSUME IInv, NEW a \in answers, OnAck(a)
  PROVE  Tracks(pr', leader.last, disk.agree) /\ pr'.matched = Greater(pr.matched, a.index)
<1>1. a.index \in Indexes /\ a.index <= disk.agree
  BY DEF IInv, ToLeader, Acknowledges, Answers, OnAck
<1>2. Tracks(Active(pr), leader.last, disk.agree) /\ Active(pr).matched = pr.matched
  BY ActiveTracks DEF IInv
<1>3. PICK p : p = MaybeUpdate(Active(pr), a.index)
  OBVIOUS
<1>4. Tracks(p, leader.last, disk.agree) /\ p.matched = Greater(pr.matched, a.index)
  BY <1>1, <1>2, <1>3, LogFacts, Updating
<1>5. CASE pr' = p
  BY <1>4, <1>5
<1>6. CASE pr' = BecomeReplicate(p) \/ pr' = BecomeProbe(p)
  BY <1>4, <1>6, LogFacts, Becoming
<1>7. CASE pr' = [p EXCEPT !.ins = FreeTo(@, a.index)]
  <2>1. p \in Progresses /\ p.matched \in Nat /\ pr.matched \in Nat
    BY <1>4 DEF Tracks, Progresses, IInv, Indexes
  <2>2. a.index <= p.matched
    BY <1>1, <1>4, <2>1 DEF Greater, Indexes
  <2>3. pr'.matched = p.matched
    BY <1>7, <2>1 DEF Progresses
  <2>4. Tracks(pr', leader.last, disk.agree)
    BY <1>1, <1>4, <1>7, <2>1, <2>2, LogFacts, Freeing
  <2> QED BY <1>4, <2>3, <2>4
<1> QED BY <1>3, <1>5, <1>6, <1>7 DEF OnAck

LEMMA OnRejectTracks ==
  ASSUME IInv, NEW a \in answers, OnReject(a)
  PROVE  Tracks(pr', leader.last, disk.agree) /\ pr'.matched = pr.matched
<1>1. a.index \in Indexes /\ a.hint \in Indexes
  BY DEF IInv, ToLeader, Acknowledges, Answers
<1>2. pr \in Progresses /\ Tracks(pr, leader.last, disk.agree)
  BY DEF IInv, Tracks
<1>3. PICK r : r = Active(pr)
  OBVIOUS
<1>4. /\ Tracks(r, leader.last, disk.agree) /\ r \in Progresses /\ r.matched = pr.matched
      /\ r.state = pr.state /\ r.next_idx = pr.next_idx
  BY <1>2, <1>3, ActiveTracks DEF Active, Progresses
<1>5. PICK p : p = MaybeDecrTo(r, a.index, a.hint)
  OBVIOUS
<1>6. CASE ~IsNews(pr, a.index)
  BY <1>3, <1>4, <1>6 DEF OnReject
<1>7. CASE IsNews(pr, a.index) /\ pr.state = "Replicate"
  <2>1. pr' = BecomeProbe(p)
    BY <1>3, <1>5, <1>7 DEF OnReject
  <2>2. p = [r EXCEPT !.next_idx = r.matched + 1]
    BY <1>4, <1>5, <1>7 DEF MaybeDecrTo
  <2>3. BecomeProbe(p) = BecomeProbe(r)
    <3>1. p.matched = r.matched /\ p.state = r.state
      BY <1>4, <2>2 DEF Progresses
    <3>2. [ResetState(p, "Probe") EXCEPT !.next_idx = r.matched + 1]
            = [ResetState(r, "Probe") EXCEPT !.next_idx = r.matched + 1]
      BY <1>4, <2>2 DEF ResetState, Progresses
    <3> QED BY <1>4, <1>7, <3>1, <3>2 DEF BecomeProbe
  <2> QED BY <1>4, <2>1, <2>3, LogFacts, Becoming
<1>8. CASE IsNews(pr, a.index) /\ pr.state # "Replicate"
  <2>1. pr' = p
    BY <1>3, <1>5, <1>8 DEF OnReject
  <2>2. IsNews(r, a.index)
    BY <1>4, <1>8 DEF IsNews
  <2>3. Tracks(p, leader.last, disk.agree)
    BY <1>1, <1>4, <1>5, <1>8, <2>2, LogFacts, Stepping
  <2>4. p.matched = r.matched
    BY <1>4, <1>5, <1>8 DEF MaybeDecrTo, Progresses
  <2> QED BY <1>4, <2>1, <2>3, <2>4
<1> QED BY <1>6, <1>7, <1>8

LEMMA DeliverAnswerInv ==
  ASSUME IInv, NEW a \in answers, NEW repeated \in BOOLEAN, DeliverAnswer(a, repeated)
  PROVE  IInv'
<1>1. Tracks(pr', leader.last, disk.agree)
  BY OnAckTracks, OnRejectTracks DEF DeliverAnswer
<1>2. /\ leader' = leader /\ mem' = mem /\ restored' = restored /\ disk' = disk /\ unsent' = unsent
      /\ appends' = appends /\ beats' = beats /\ snapshots' = snapshots
  BY DEF DeliverAnswer, followerVars
<1>3. answers' \subseteq answers
  BY DEF DeliverAnswer
<1>4. ToLeader'
  BY <1>2, <1>3 DEF IInv, ToLeader, Acknowledges
<1> QED BY <1>1, <1>2, <1>4 DEF IInv, LeaderLog, FollowerLogs, ToFollower
-----------------------------------------------------------------------------
\* Steps of the follower between two times that it stores its log.
LEMMA FollowerStep ==
  ASSUME IInv, FollowerLogs', Acknowledges(unsent', mem'.agree), UNCHANGED <<leaderVars, disk, answers>>,
         appends' \subseteq appends, beats' \subseteq beats, snapshots' \subseteq snapshots
  PROVE  IInv'
<1>1. leader' = leader /\ pr' = pr /\ disk' = disk /\ answers' = answers
  BY DEF leaderVars
<1>2. ToFollower'
  BY <1>1 DEF IInv, ToFollower
<1>3. ToLeader'
  BY <1>1 DEF IInv, ToLeader
<1> QED BY <1>1, <1>2, <1>3 DEF IInv, LeaderLog

\* Whatever a handler leaves in the log, and answers.
LEMMA HandlerStep ==
  ASSUME IInv, UNCHANGED <<leaderVars, disk>>, mem' \in Logs, restored' \in BOOLEAN,
         mem.agree <= mem'.agree, mem.committed <= mem'.committed,
         mem'.agree <= mem'.last, mem'.agree <= leader.last, mem'.committed <= mem'.agree,
         NEW a \in Answers, ~a.reject => a.index <= mem'.agree, unsent' \subseteq unsent \cup {a}
  PROVE  FollowerLogs' /\ Acknowledges(unsent', mem'.agree)
<1>1. leader' = leader /\ disk' = disk
  BY DEF leaderVars
<1>2. /\ mem.agree \in Nat /\ mem.committed \in Nat /\ disk.agree \in Nat /\ disk.committed \in Nat
      /\ mem'.agree \in Nat /\ mem'.committed \in Nat
  BY LogFacts DEF Logs, Indexes
<1>3. FollowerLogs'
  BY <1>1, <1>2 DEF IInv, FollowerLogs
<1>4. ASSUME NEW b \in unsent', ~b.reject
      PROVE  b.index <= mem'.agree
  <2>1. CASE b = a
    BY <1>4, <2>1
  <2>2. CASE b \in unsent
    <3>1. b.index <= mem.agree /\ b.index \in Nat
      BY <1>4, <2>2 DEF IInv, ToLeader, Acknowledges, Answers, Indexes
    <3> QED BY <1>2, <3>1
  <2> QED BY <2>1, <2>2
<1>5. unsent' \subseteq Answers
  BY DEF IInv, ToLeader, Acknowledges
<1> QED BY <1>3, <1>4, <1>5 DEF Acknowledges

LEMMA ReopenKeeps ==
  ASSUME IInv, Reopen, UNCHANGED <<leaderVars, disk>>
  PROVE  FollowerLogs' /\ Acknowledges(unsent', mem'.agree)
<1>1. leader' = leader /\ disk' = disk /\ mem' = disk /\ restored' = FALSE /\ unsent' = {}
  BY DEF Reopen, leaderVars
<1>2. disk \in Logs /\ disk.agree <= leader.last /\ disk.committed <= disk.agree /\ disk.agree <= disk.last
  BY LogFacts DEF IInv, FollowerLogs
<1>3. disk.agree <= disk.agree /\ disk.committed <= disk.committed
  BY <1>2 DEF Logs, Indexes
<1>4. FollowerLogs'
  BY <1>1, <1>2, <1>3 DEF FollowerLogs
<1>5. Acknowledges({}, mem'.agree)
  BY DEF Acknowledges
<1> QED BY <1>1, <1>4, <1>5

LEMMA CommitToFacts ==
  ASSUME NEW log \in Logs, NEW c \in Indexes
  PROVE  /\ CommitTo(log, c) \in Logs
         /\ CommitTo(log, c).agree = log.agree /\ CommitTo(log, c).last = log.last
         /\ CommitTo(log, c).committed = Greater(log.committed, c)
<1>1. PICK g \in Indexes : g = Greater(log.committed, c)
  BY DEF Greater, Logs
<1>2. PICK r : r = [log EXCEPT !.committed = g]
  OBVIOUS
<1>3. r \in Logs /\ r.agree = log.agree /\ r.last = log.last /\ r.committed = g
  BY <1>2 DEF Logs
<1> QED BY <1>1, <1>2, <1>3 DEF CommitTo

\* An append that matches leaves all of its entries in the follower's log.
LEMMA AcceptAppendKeeps ==
  ASSUME IInv, NEW m \in appends, AcceptAppend(m), UNCHANGED <<leaderVars, disk>>
  PROVE  FollowerLogs' /\ Acknowledges(unsent', mem'.agree)
<1>1. /\ m.to \in Indexes /\ m.commit \in Indexes /\ m.to <= leader.last
  BY DEF IInv, ToFollower, Appends
<1>2. PICK log : log = Appended(m)
  OBVIOUS
<1>3. /\ mem \in Logs /\ mem.agree <= mem.last /\ mem.agree <= leader.last /\ mem.committed <= mem.agree
  BY DEF IInv, FollowerLogs
<1>4. /\ log \in Logs /\ mem.agree <= log.agree /\ m.to <= log.agree /\ log.committed = mem.committed
      /\ log.agree <= log.last /\ log.agree <= leader.last
  <2>1. CASE Conflicts(m)
    <3>1. log = [mem EXCEPT !.agree = m.to, !.last = m.to]
      BY <1>2, <2>1 DEF Appended
    <3>2. log \in Logs /\ log.agree = m.to /\ log.last = m.to /\ log.committed = mem.committed
      BY <1>1, <1>3, <3>1 DEF Logs
    <3>3. mem.agree < m.to /\ mem.agree \in Nat /\ m.to \in Nat
      BY <1>1, <1>3, <2>1 DEF Conflicts, Logs, Indexes
    <3> QED BY <1>1, <3>2, <3>3
  <2>2. CASE ~Conflicts(m)
    <3>1. log = mem
      BY <1>2, <2>2 DEF Appended
    <3>2. m.to <= mem.agree /\ mem.agree <= mem.agree
      BY <1>1, <1>3, <2>2 DEF Conflicts, Logs, Indexes
    <3> QED BY <1>3, <3>1, <3>2
  <2> QED BY <2>1, <2>2
<1>5. PICK c : c = Lesser(m.commit, m.to)
  OBVIOUS
<1>6. c \in Indexes /\ c <= m.to
  BY <1>1, <1>5 DEF Lesser, Indexes
<1>7. mem' = CommitTo(log, c) /\ restored' = restored
  BY <1>2, <1>5 DEF AcceptAppend
<1>8. /\ mem' \in Logs /\ mem'.agree = log.agree /\ mem'.last = log.last
      /\ mem'.committed = Greater(log.committed, c)
  BY <1>4, <1>6, <1>7, CommitToFacts
<1>9. mem.committed <= mem'.committed /\ mem'.committed <= mem'.agree
  BY <1>1, <1>3, <1>4, <1>6, <1>8 DEF Greater, Logs, Indexes
<1>10. PICK a : a = [index |-> m.to, reject |-> FALSE, hint |-> 0]
  OBVIOUS
<1>11. a \in Answers /\ a.index = m.to
  BY <1>1, <1>10 DEF Answers, Indexes
<1>12. unsent' = unsent \cup {a}
  BY <1>10 DEF AcceptAppend, Ack, Answer
<1>13. restored' \in BOOLEAN
  BY <1>7 DEF IInv, FollowerLogs
<1> QED BY <1>4, <1>8, <1>9, <1>11, <1>12, <1>13, HandlerStep

\* Answers that tell of what the follower has, with its log as it was.
LEMMA AnswerKeeps ==
  ASSUME IInv, UNCHANGED <<leaderVars, disk, mem, restored>>,
         NEW a \in Answers, ~a.reject => a.index <= mem.agree, unsent' = unsent \cup {a}
  PROVE  FollowerLogs' /\ Acknowledges(unsent', mem'.agree)
<1>1. /\ mem \in Logs /\ mem.agree <= mem.last /\ mem.agree <= leader.last /\ mem.committed <= mem.agree
      /\ restored \in BOOLEAN
  BY DEF IInv, FollowerLogs
<1>2. mem.agree <= mem.agree /\ mem.committed <= mem.committed
  BY <1>1 DEF Logs, Indexes
<1>3. mem' = mem /\ restored' = restored
  OBVIOUS
<1> QED BY <1>1, <1>2, <1>3, HandlerStep

\* An acknowledgement of the commit index, and a rejection, tell of such.
LEMMA CommitAnswer ==
  ASSUME IInv, NEW a,
         \/ a = [index |-> mem.committed, reject |-> FALSE, hint |-> 0]
         \/ \E i \in Indexes : a = [index |-> i, reject |-> TRUE, hint |-> mem.last]
  PROVE  a \in Answers /\ (~a.reject => a.index <= mem.agree)
<1>1. mem.committed \in Indexes /\ mem.last \in Indexes /\ mem.committed <= mem.agree /\ 0 \in Indexes
  BY LogFacts DEF IInv, FollowerLogs, Indexes
<1>2. CASE a = [index |-> mem.committed, reject |-> FALSE, hint |-> 0]
  BY <1>1, <1>2 DEF Answers
<1>3. ASSUME NEW i \in Indexes, a = [index |-> i, reject |-> TRUE, hint |-> mem.last]
      PROVE  a \in Answers /\ a.reject = TRUE
  BY <1>1, <1>3 DEF Answers
<1> QED BY <1>2, <1>3

LEMMA HandleAppendKeeps ==
  ASSUME IInv, NEW m \in appends, HandleAppend(m), UNCHANGED <<leaderVars, disk>>
  PROVE  FollowerLogs' /\ Acknowledges(unsent', mem'.agree)
<1>1. CASE AppendBehindCommit(m)
  <2>1. PICK a : a = [index |-> mem.committed, reject |-> FALSE, hint |-> 0]
    OBVIOUS
  <2>2. unsent' = unsent \cup {a} /\ mem' = mem /\ restored' = restored
    BY <1>1, <2>1 DEF AppendBehindCommit, Ack, Answer
  <2> QED BY <2>1, <2>2, CommitAnswer, AnswerKeeps
<1>2. CASE RejectAppend(m)
  <2>1. m.prev \in Indexes
    BY DEF IInv, ToFollower, Appends
  <2>2. PICK a : a = [index |-> m.prev, reject |-> TRUE, hint |-> mem.last]
    OBVIOUS
  <2>3. unsent' = unsent \cup {a} /\ mem' = mem /\ restored' = restored
    BY <1>2, <2>2 DEF RejectAppend, Reject, Answer
  <2> QED BY <2>1, <2>2, <2>3, CommitAnswer, AnswerKeeps
<1> QED BY <1>1, <1>2, AcceptAppendKeeps, ReopenKeeps DEF HandleAppend

\* A heartbeat commits no more than the follower has stored, and never panics.
LEMMA HandleHeartbeatKeeps ==
  ASSUME IInv, NEW c \in beats, HandleHeartbeat(c), UNCHANGED <<leaderVars, disk>>
  PROVE  FollowerLogs' /\ Acknowledges(unsent', mem'.agree)
<1>1. CASE HeartbeatPanics(c) /\ Reopen
  BY <1>1, ReopenKeeps
<1>2. CASE mem' = CommitTo(mem, c) /\ restored' = restored /\ unsent' = unsent
  <2>1. c \in Indexes /\ c <= disk.agree
    BY DEF IInv, ToFollower
  <2>2. /\ mem \in Logs /\ disk \in Logs /\ mem.agree <= mem.last /\ mem.agree <= leader.last
        /\ mem.committed <= mem.agree /\ disk.agree <= mem.agree
    BY DEF IInv, FollowerLogs
  <2>3. mem' \in Logs /\ mem'.agree = mem.agree /\ mem'.last = mem.last /\ mem'.committed = Greater(mem.committed, c)
    BY <1>2, <2>1, <2>2, CommitToFacts
  <2>4. mem.agree <= mem'.agree /\ mem.committed <= mem'.committed /\ mem'.committed <= mem'.agree
    BY <2>1, <2>2, <2>3 DEF Greater, Logs, Indexes
  <2>5. PICK a : a = [index |-> mem.committed, reject |-> FALSE, hint |-> 0]
    OBVIOUS
  <2>6. a \in Answers /\ (~a.reject => a.index <= mem.agree)
    BY <2>5, CommitAnswer
  <2>7. restored' \in BOOLEAN /\ unsent' \subseteq unsent \cup {a}
    BY <1>2 DEF IInv, FollowerLogs
  <2> QED BY <2>2, <2>3, <2>4, <2>6, <2>7, HandlerStep
<1> QED BY <1>1, <1>2 DEF HandleHeartbeat

LEMMA HandleSnapshotKeeps ==
  ASSUME IInv, NEW s \in snapshots, HandleSnapshot(s) \/ RefuseSnapshot(s), UNCHANGED <<leaderVars, disk>>
  PROVE  FollowerLogs' /\ Acknowledges(unsent', mem'.agree)
<1>1. s \in Indexes /\ s <= leader.last
  BY DEF IInv, ToFollower
<1>2. /\ mem \in Logs /\ mem.agree <= mem.last /\ mem.agree <= leader.last
      /\ mem.committed <= mem.agree /\ restored \in BOOLEAN
  BY DEF IInv, FollowerLogs
<1>3. CASE IgnoreSnapshot(s) \/ RefuseSnapshot(s)
  <2>1. PICK a : a = [index |-> mem.committed, reject |-> FALSE, hint |-> 0]
    OBVIOUS
  <2>2. unsent' = unsent \cup {a} /\ mem' = mem /\ restored' = restored
    BY <1>3, <2>1 DEF IgnoreSnapshot, RefuseSnapshot, Ack, Answer
  <2> QED BY <2>1, <2>2, CommitAnswer, AnswerKeeps
<1>4. CASE FastForward(s) \/ Restore(s)
  <2>1. PICK a : a = [index |-> s, reject |-> FALSE, hint |-> 0]
    OBVIOUS
  <2>2. a \in Answers /\ a.index = s
    BY <1>1, <2>1 DEF Answers, Indexes
  <2>3. unsent' = unsent \cup {a}
    BY <1>4, <2>1 DEF FastForward, Restore, Ack, Answer
  <2>4. restored' \in BOOLEAN
    BY <1>2, <1>4 DEF FastForward, Restore
  <2>5. CASE FastForward(s)
    <3>1. mem' = CommitTo(mem, s) /\ s <= mem.agree
      BY <2>5 DEF FastForward
    <3>2. mem' \in Logs /\ mem'.agree = mem.agree /\ mem'.last = mem.last /\ mem'.committed = Greater(mem.committed, s)
      BY <1>1, <1>2, <3>1, CommitToFacts
    <3>3. mem.agree <= mem'.agree /\ mem.committed <= mem'.committed /\ mem'.committed <= mem'.agree
      BY <1>1, <1>2, <3>1, <3>2 DEF Greater, Logs, Indexes
    <3> QED BY <1>2, <2>2, <2>3, <2>4, <3>1, <3>2, <3>3, HandlerStep
  <2>6. CASE Restore(s)
    <3>1. mem' = [agree |-> s, last |-> s, committed |-> s] /\ mem.committed <= s /\ mem.agree < s
      BY <2>6 DEF Restore
    <3>2. mem' \in Logs /\ mem'.agree = s /\ mem'.last = s /\ mem'.committed = s
      BY <1>1, <3>1 DEF Logs
    <3>3. mem.agree <= s /\ s <= s
      BY <1>1, <1>2, <3>1 DEF Logs, Indexes
    <3> QED BY <1>1, <1>2, <2>2, <2>3, <2>4, <3>1, <3>2, <3>3, HandlerStep
  <2> QED BY <1>4, <2>5, <2>6
<1> QED BY <1>3, <1>4, ReopenKeeps DEF HandleSnapshot

LEMMA DeliverInv ==
  ASSUME IInv, Deliver(TRUE) \/ Deliver(FALSE) \/ DeliverRefused
  PROVE  IInv'
<1>1. ASSUME NEW m \in appends, NEW repeated \in BOOLEAN, DeliverAppend(m, repeated)
      PROVE  IInv'
  <2>1. /\ HandleAppend(m) /\ UNCHANGED <<leaderVars, disk, answers>> /\ UNCHANGED <<leaderVars, disk>>
        /\ appends' \subseteq appends /\ beats' \subseteq beats /\ snapshots' \subseteq snapshots
    BY <1>1 DEF DeliverAppend
  <2> QED BY <2>1, HandleAppendKeeps, FollowerStep
<1>2. ASSUME NEW c \in beats, NEW repeated \in BOOLEAN, DeliverHeartbeat(c, repeated)
      PROVE  IInv'
  <2>1. /\ HandleHeartbeat(c) /\ UNCHANGED <<leaderVars, disk, answers>> /\ UNCHANGED <<leaderVars, disk>>
        /\ appends' \subseteq appends /\ beats' \subseteq beats /\ snapshots' \subseteq snapshots
    BY <1>2 DEF DeliverHeartbeat
  <2> QED BY <2>1, HandleHeartbeatKeeps, FollowerStep
<1>3. ASSUME NEW s \in snapshots, NEW repeated \in BOOLEAN, DeliverSnapshot(s, repeated)
      PROVE  IInv'
  <2>1. /\ HandleSnapshot(s) /\ UNCHANGED <<leaderVars, disk, answers>> /\ UNCHANGED <<leaderVars, disk>>
        /\ appends' \subseteq appends /\ beats' \subseteq beats /\ snapshots' \subseteq snapshots
    BY <1>3 DEF DeliverSnapshot
  <2> QED BY <2>1, HandleSnapshotKeeps, FollowerStep
<1>4. CASE DeliverRefused
  <2>1. PICK s \in snapshots : RefuseSnapshot(s) /\ snapshots' = snapshots \ {s}
    BY <1>4 DEF DeliverRefused
  <2>2. /\ UNCHANGED <<leaderVars, disk, answers>> /\ UNCHANGED <<leaderVars, disk>>
        /\ appends' \subseteq appends /\ beats' \subseteq beats /\ snapshots' \subseteq snapshots
    BY <1>4, <2>1 DEF DeliverRefused
  <2> QED BY <2>1, <2>2, HandleSnapshotKeeps, FollowerStep
<1> QED BY <1>1, <1>2, <1>3, <1>4, DeliverAnswerInv DEF Deliver

\* What is stored covers what the answers then sent acknowledge.
LEMMA PersistInv ==
  ASSUME IInv, Persist
  PROVE  IInv'
<1>1. /\ leader' = leader /\ pr' = pr /\ mem' = mem /\ restored' = restored /\ disk' = mem /\ unsent' = {}
      /\ answers' = answers \cup unsent
      /\ appends' = appends /\ beats' = beats /\ snapshots' = snapshots
  BY DEF Persist, leaderVars
<1>2. disk.agree \in Nat /\ mem.agree \in Nat /\ mem.committed \in Nat /\ disk.agree <= mem.agree
  BY LogFacts DEF IInv, FollowerLogs, Indexes
<1>3. Tracks(pr, leader.last, mem.agree)
  <2>1. Tracks(pr, leader.last, disk.agree)
    BY DEF IInv
  <2>2. pr.matched \in Nat
    BY <2>1 DEF Tracks, Progresses, Indexes
  <2>3. pr.matched <= mem.agree
    BY <1>2, <2>1, <2>2 DEF Tracks
  <2> QED BY <2>1, <2>3 DEF Tracks
<1>4. FollowerLogs'
  <2>1. FollowerLogs /\ mem.agree <= mem.agree /\ mem.committed <= mem.committed
    BY <1>2 DEF IInv
  <2> QED BY <1>1, <2>1 DEF FollowerLogs
<1>5. ToFollower'
  <2>1. ToFollower
    BY DEF IInv
  <2>2. \A c \in beats : c \in Nat
    BY <2>1 DEF ToFollower, Indexes
  <2>3. \A c \in beats : c <= mem.agree
    BY <1>2, <2>1, <2>2 DEF ToFollower
  <2> QED BY <1>1, <2>1, <2>3 DEF ToFollower
<1>6. ToLeader'
  <2>1. Acknowledges(answers, disk.agree) /\ Acknowledges(unsent, mem.agree)
    BY DEF IInv, ToLeader
  <2>2. \A a \in answers : a.index \in Nat
    BY <2>1 DEF Acknowledges, Answers, Indexes
  <2>3. \A a \in answers : ~a.reject => a.index <= mem.agree
    BY <1>2, <2>1, <2>2 DEF Acknowledges
  <2> QED BY <1>1, <2>1, <2>3 DEF ToLeader, Acknowledges
<1> QED BY <1>1, <1>3, <1>4, <1>5, <1>6 DEF IInv, LeaderLog

LEMMA FailInv ==
  ASSUME IInv, Fail
  PROVE  IInv'
<1>1. /\ Reopen /\ UNCHANGED <<leaderVars, disk, answers>> /\ UNCHANGED <<leaderVars, disk>>
      /\ appends' \subseteq appends /\ beats' \subseteq beats /\ snapshots' \subseteq snapshots
  BY DEF Fail, net
<1> QED BY <1>1, ReopenKeeps, FollowerStep

LEMMA LoseInv ==
  ASSUME IInv, Lose
  PROVE  IInv'
<1>1. /\ leader' = leader /\ pr' = pr /\ mem' = mem /\ restored' = restored /\ disk' = disk /\ unsent' = unsent
  BY DEF Lose, leaderVars, followerVars
<1>2. /\ appends' \subseteq appends /\ beats' \subseteq beats /\ snapshots' \subseteq snapshots
      /\ answers' \subseteq answers
  BY DEF Lose
<1>3. ToFollower'
  BY <1>1, <1>2 DEF IInv, ToFollower
<1>4. ToLeader'
  BY <1>1, <1>2 DEF IInv, ToLeader, Acknowledges
<1> QED BY <1>1, <1>3, <1>4 DEF IInv, LeaderLog, FollowerLogs

LEMMA UnchangedInv ==
  ASSUME IInv, UNCHANGED vars
  PROVE  IInv'
<1>1. /\ leader' = leader /\ pr' = pr /\ mem' = mem /\ restored' = restored /\ disk' = disk /\ unsent' = unsent
      /\ appends' = appends /\ beats' = beats /\ snapshots' = snapshots /\ answers' = answers
  BY DEF vars, leaderVars, followerVars, net
<1> QED BY <1>1 DEF IInv, LeaderLog, FollowerLogs, ToFollower, ToLeader

LEMMA InitInv ==
  ASSUME Init
  PROVE  IInv
<1>1. leader \in Leaders /\ leader.last \in Indexes
  BY DEF Init, Leaders
<1>2. /\ mem \in Logs /\ disk = mem /\ restored = FALSE /\ unsent = {} /\ appends = {} /\ beats = {}
      /\ snapshots = {} /\ answers = {}
  BY DEF Init
<1>3. disk.agree \in Nat /\ mem.agree \in Nat /\ mem.committed \in Nat
  BY <1>2 DEF Logs, Indexes
<1>4. LeaderLog
  BY DEF Init, LeaderLog
<1>5. FollowerLogs
  <2>1. mem.agree <= mem.agree /\ mem.committed <= mem.committed
    BY <1>2, <1>3
  <2>2. mem.committed <= mem.agree /\ mem.agree <= mem.last /\ mem.agree <= leader.last
    BY DEF Init
  <2> QED BY <1>2, <2>1, <2>2 DEF FollowerLogs
<1>6. Tracks(pr, leader.last, disk.agree)
  <2>1. PICK n \in 1..MaxIndex + 1 : n = leader.last + 1
    BY <1>1 DEF Indexes
  <2>2. pr = Unknown(n)
    BY <2>1 DEF Init
  <2>3. <<>> \in Seq(Indexes) /\ Len(<<>>) = 0 /\ Growing(<<>>)
    BY DEF Growing
  <2>4. /\ pr \in Progresses /\ pr.matched = 0 /\ pr.next_idx = n /\ pr.state = "Probe" /\ pr.ins = <<>>
    BY <2>1, <2>2, <2>3 DEF Unknown, Progresses, Indexes
  <2> QED BY <1>1, <1>3, <2>1, <2>3, <2>4 DEF Tracks, Indexes
<1>7. ToFollower /\ ToLeader
  BY <1>2 DEF ToFollower, ToLeader, Acknowledges
<1> QED BY <1>4, <1>5, <1>6, <1>7 DEF IInv

LEMMA LeadingInv ==
  ASSUME IInv, Leading
  PROVE  IInv'
<1> USE DEF Leading
<1>1. ASSUME NEW to \in Indexes, NEW c \in Indexes, AppendEntry(to, c) PROVE IInv'
  BY <1>1, AppendEntryInv
<1>2. ASSUME NEW c \in Indexes, MaybeCommit(c) \/ Compact(c) PROVE IInv'
  BY <1>2, MaybeCommitInv, CompactInv
<1>3. ASSUME NEW to \in Indexes, SendEntries(to) \/ SendSnapshot(to) PROVE IInv'
  BY <1>3, SendEntriesInv, SendSnapshotInv
<1>4. CASE SendHeartbeat \/ OnHeartbeatResponse \/ CheckQuorum \/ ReportUnreachable \/ ReportSnapshot
  BY <1>4, SendHeartbeatInv, OnHeartbeatResponseInv, ReportsInv
<1> QED BY <1>1, <1>2, <1>3, <1>4

LEMMA NextInv ==
  ASSUME IInv, [Next]_vars
  PROVE  IInv'
<1>1. CASE Leading
  BY <1>1, LeadingInv
<1>2. CASE Persist
  BY <1>2, PersistInv
<1>3. CASE Fail \/ Lose
  BY <1>3, FailInv, LoseInv
<1>4. CASE Deliver(FALSE) \/ Deliver(TRUE) \/ DeliverRefused
  BY <1>4, DeliverInv
<1>5. CASE UNCHANGED vars
  BY <1>5, UnchangedInv
<1> QED BY <1>1, <1>2, <1>3, <1>4, <1>5 DEF Next, Calm, Faults
-----------------------------------------------------------------------------
\* The invariant holds in every behaviour.
THEOREM Invariance == Spec => []IInv
<1>1. Init => IInv
  BY InitInv
<1>2. IInv /\ [Next]_vars => IInv'
  BY NextInv
<1> QED BY <1>1, <1>2, PTL DEF Spec

\* The state stays within its types, and no more appends are in flight than
\* max_inflight_msgs allows, for every bound and every size of the window.
THEOREM TypeCorrect == Spec => []TypeOK
<1>1. IInv => TypeOK
  BY DEF IInv, LeaderLog, Tracks, FollowerLogs, ToFollower, ToLeader, Acknowledges, TypeOK
<1> QED BY <1>1, Invariance, PTL

\* The leader counts for a quorum only what the follower has stored, however
\* messages are lost, repeated and reordered and however often it restarts.
THEOREM AcknowledgedIsDurable == Spec => []MatchedIsDurable
<1>1. IInv => MatchedIsDurable
  BY DEF IInv, Tracks, MatchedIsDurable
<1> QED BY <1>1, Invariance, PTL

\* The follower commits only what it has in common with the leader's log.
THEOREM CommittedAgrees == Spec => []CommittedIsLeaders
<1>1. IInv => CommittedIsLeaders
  BY DEF IInv, FollowerLogs, CommittedIsLeaders
<1> QED BY <1>1, Invariance, PTL

\* No message, of whatever age, makes the follower panic, except after restore().
THEOREM NoMessagePanics == Spec => []PanicsOnlyAfterRestore
<1>1. ASSUME IInv PROVE PanicsOnlyAfterRestore
  <2>1. /\ mem.agree \in Nat /\ mem.committed \in Nat /\ mem.last \in Nat /\ disk.agree \in Nat
        /\ mem.committed <= mem.agree /\ mem.agree <= mem.last /\ disk.agree <= mem.agree
    BY <1>1, LogFacts DEF IInv, FollowerLogs, Indexes
  <2>2. ASSUME NEW m \in appends, AppendPanics(m) PROVE restored
    <3>1. ~(mem.agree < mem.committed)
      BY <2>1
    <3> QED BY <2>2, <3>1 DEF AppendPanics, TermPanics
  <2>3. ASSUME NEW c \in beats PROVE ~HeartbeatPanics(c)
    <3>1. c <= disk.agree /\ c \in Nat
      BY <1>1 DEF IInv, ToFollower, Indexes
    <3> QED BY <2>1, <3>1 DEF HeartbeatPanics
  <2> QED BY <2>2, <2>3 DEF PanicsOnlyAfterRestore
<1> QED BY <1>1, Invariance, PTL

\* next_idx - 1 is always an index of the leader's log.
THEOREM NextStaysInLog == Spec => []NextInLog
<1>1. IInv => NextInLog
  BY DEF IInv, Tracks, NextInLog
<1> QED BY <1>1, Invariance, PTL

\* The window accounts for everything sent and not acknowledged, for every size
\* of it that is not 1.
THEOREM WindowAccounts == Spec => []WindowReachesNext
<1>1. IInv => WindowReachesNext
  BY DEF IInv, Tracks, Reaches, WindowReachesNext
<1> QED BY <1>1, Invariance, PTL
-----------------------------------------------------------------------------
(* Replication implements AckedLog: an append to the leader's log extends   *)
(* it, Persist stores, an acknowledgement acknowledges.                     *)

\* Steps that AckedLog does not see.
Unseen ==
  leader'.last = leader.last /\ disk' = disk /\ pr'.matched = pr.matched

LEMMA UnseenStutters ==
  ASSUME Unseen
  PROVE  [Acked!Next]_(Acked!vars)
BY DEF Unseen, Acked!vars

LEMMA ProgressUnseen ==
  ASSUME IInv,
         \/ \E to \in Indexes : SendEntries(to) \/ SendSnapshot(to)
         \/ SendHeartbeat \/ OnHeartbeatResponse \/ CheckQuorum \/ ReportUnreachable \/ ReportSnapshot
  PROVE  Unseen
<1>1. pr \in Progresses /\ Tracks(pr, leader.last, disk.agree)
  BY DEF IInv, Tracks
<1>2. ASSUME NEW to \in Indexes, SendEntries(to)
      PROVE  Unseen
  BY <1>1, <1>2 DEF SendEntries, Unseen, followerVars, Progresses
<1>3. ASSUME NEW s \in Indexes, SendSnapshot(s)
      PROVE  Unseen
  BY <1>1, <1>3 DEF SendSnapshot, BecomeSnapshot, ResetState, Unseen, followerVars, Progresses
<1>4. CASE SendHeartbeat
  BY <1>4 DEF SendHeartbeat, Unseen, leaderVars, followerVars
<1>5. CASE OnHeartbeatResponse
  BY <1>1, <1>5 DEF OnHeartbeatResponse, Active, Unseen, followerVars, Progresses
<1>6. CASE CheckQuorum
  BY <1>1, <1>6 DEF CheckQuorum, Unseen, followerVars, Progresses
<1>7. CASE ReportUnreachable
  BY <1>1, <1>7, LogFacts, Becoming DEF ReportUnreachable, Unseen, followerVars
<1>8. CASE ReportSnapshot
  <2>1. SnapshotFailure(pr) = pr
    BY <1>1 DEF SnapshotFailure, Progresses
  <2>2. PICK p : p = BecomeProbe(pr)
    OBVIOUS
  <2>3. p \in Progresses /\ p.matched = pr.matched
    BY <1>1, <2>2, LogFacts, Becoming DEF Tracks
  <2>4. pr' = [p EXCEPT !.paused = TRUE]
    BY <1>8, <2>1, <2>2 DEF ReportSnapshot
  <2>5. pr'.matched = pr.matched
    BY <2>3, <2>4 DEF Progresses
  <2> QED BY <1>8, <2>5 DEF ReportSnapshot, Unseen, followerVars
<1> QED BY <1>2, <1>3, <1>4, <1>5, <1>6, <1>7, <1>8

LEMMA AnswerRefines ==
  ASSUME IInv, NEW a \in answers, NEW repeated \in BOOLEAN, DeliverAnswer(a, repeated)
  PROVE  Acked!Acknowledge
<1>1. leader' = leader /\ disk' = disk
  BY DEF DeliverAnswer, followerVars
<1>2. pr.matched \in Nat /\ disk.agree \in Nat /\ a.index \in Nat
  <2>1. pr \in Progresses
    BY DEF IInv, Tracks
  <2>2. a \in Answers
    BY DEF IInv, ToLeader, Acknowledges
  <2>3. pr.matched \in Indexes /\ a.index \in Indexes
    BY <2>1, <2>2 DEF Progresses, Answers
  <2> QED BY <2>3, LogFacts DEF Indexes
<1>3. /\ Tracks(pr', leader.last, disk.agree)
      /\ pr'.matched = pr.matched \/ pr'.matched = Greater(pr.matched, a.index)
  BY OnAckTracks, OnRejectTracks DEF DeliverAnswer
<1>4. pr'.matched <= disk.agree
  BY <1>3 DEF Tracks
<1>5. pr'.matched \in pr.matched..disk.agree
  BY <1>2, <1>3, <1>4 DEF Greater
<1> QED BY <1>1, <1>5 DEF Acked!Acknowledge

LEMMA AppendEntryRefines ==
  ASSUME IInv, NEW to \in Indexes, NEW c \in Indexes, AppendEntry(to, c)
  PROVE  Acked!Extend
<1>1. leader \in Leaders
  BY DEF IInv, LeaderLog
<1>2. leader'.last = to /\ leader.last < to /\ pr' = pr /\ disk' = disk /\ to \in Nat
  BY <1>1 DEF AppendEntry, Leaders, followerVars, Indexes
<1> QED BY <1>2 DEF Acked!Extend

LEMMA CommitUnseen ==
  ASSUME IInv, NEW c \in Indexes, MaybeCommit(c) \/ Compact(c)
  PROVE  Unseen
<1>1. leader \in Leaders
  BY DEF IInv, LeaderLog
<1> QED BY <1>1 DEF MaybeCommit, Compact, Leaders, Unseen, followerVars

LEMMA PersistRefines ==
  ASSUME IInv, Persist
  PROVE  Acked!Store
<1>1. leader' = leader /\ pr' = pr /\ disk' = mem
  BY DEF Persist, leaderVars
<1>2. /\ disk.agree \in Nat /\ mem.agree \in Nat /\ leader.last \in Nat /\ disk.committed \in Nat
      /\ mem.committed \in Nat
  BY LogFacts DEF Indexes
<1>3. /\ disk.agree <= mem.agree /\ mem.agree <= leader.last
      /\ disk.committed <= mem.committed /\ mem.committed <= mem.agree
  BY DEF IInv, FollowerLogs
<1> QED BY <1>1, <1>2, <1>3 DEF Acked!Store

LEMMA NetworkUnseen ==
  ASSUME \/ Fail \/ Lose \/ DeliverRefused
         \/ \E m \in appends, repeated \in BOOLEAN : DeliverAppend(m, repeated)
         \/ \E c \in beats, repeated \in BOOLEAN : DeliverHeartbeat(c, repeated)
         \/ \E s \in snapshots, repeated \in BOOLEAN : DeliverSnapshot(s, repeated)
  PROVE  Unseen
<1>1. CASE Fail \/ Lose \/ DeliverRefused
  BY <1>1 DEF Fail, Lose, DeliverRefused, Unseen, leaderVars, followerVars
<1>2. ASSUME NEW m \in appends, NEW repeated \in BOOLEAN, DeliverAppend(m, repeated)
      PROVE  Unseen
  BY <1>2 DEF DeliverAppend, Unseen, leaderVars
<1>3. ASSUME NEW c \in beats, NEW repeated \in BOOLEAN, DeliverHeartbeat(c, repeated)
      PROVE  Unseen
  BY <1>3 DEF DeliverHeartbeat, Unseen, leaderVars
<1>4. ASSUME NEW s \in snapshots, NEW repeated \in BOOLEAN, DeliverSnapshot(s, repeated)
      PROVE  Unseen
  BY <1>4 DEF DeliverSnapshot, Unseen, leaderVars
<1> QED BY <1>1, <1>2, <1>3, <1>4

LEMMA NextRefines ==
  ASSUME IInv, [Next]_vars
  PROVE  [Acked!Next]_(Acked!vars)
<1>1. CASE Leading
  <2>1. ASSUME NEW to \in Indexes, NEW c \in Indexes, AppendEntry(to, c)
        PROVE  Acked!Next
    BY <2>1, AppendEntryRefines DEF Acked!Next
  <2>2. ASSUME NEW c \in Indexes, MaybeCommit(c) \/ Compact(c)
        PROVE  Unseen
    BY <2>2, CommitUnseen
  <2>3. ASSUME NEW to \in Indexes, SendEntries(to) \/ SendSnapshot(to)
        PROVE  Unseen
    BY <2>3, ProgressUnseen
  <2>4. CASE SendHeartbeat \/ OnHeartbeatResponse \/ CheckQuorum \/ ReportUnreachable \/ ReportSnapshot
    BY <2>4, ProgressUnseen, UnseenStutters
  <2> QED BY <1>1, <2>1, <2>2, <2>3, <2>4, UnseenStutters DEF Leading
<1>2. CASE Persist
  BY <1>2, PersistRefines DEF Acked!Next
<1>3. CASE Fail \/ Lose \/ DeliverRefused
  BY <1>3, NetworkUnseen, UnseenStutters
<1>4. ASSUME NEW repeated \in BOOLEAN, Deliver(repeated)
      PROVE  [Acked!Next]_(Acked!vars)
  <2>1. ASSUME NEW a \in answers, DeliverAnswer(a, repeated)
        PROVE  Acked!Next
    BY <2>1, AnswerRefines DEF Acked!Next
  <2>2. CASE \/ \E m \in appends : DeliverAppend(m, repeated)
             \/ \E c \in beats : DeliverHeartbeat(c, repeated)
             \/ \E s \in snapshots : DeliverSnapshot(s, repeated)
    BY <2>2, NetworkUnseen, UnseenStutters
  <2> QED BY <1>4, <2>1, <2>2 DEF Deliver
<1>5. CASE UNCHANGED vars
  <2>1. Unseen
    BY <1>5 DEF vars, leaderVars, followerVars, Unseen
  <2> QED BY <2>1, UnseenStutters
<1> QED BY <1>1, <1>2, <1>3, <1>4, <1>5 DEF Next, Calm, Faults

\* Leader, network and follower implement the acknowledged log, for every bound
\* and every size of the window: nothing that is acknowledged is taken back.
THEOREM ReplicationIsAckedLog == Spec => ImplementsAckedLog
<1>1. Init => Acked!Init
  <2>1. ASSUME Init PROVE Acked!Init
    <3>1. IInv /\ pr.matched = 0 /\ disk = mem
      BY <2>1, InitInv DEF Init, Unknown
    <3>2. /\ disk.agree \in Nat /\ leader.last \in Nat /\ disk.committed \in Nat
          /\ disk.agree <= leader.last /\ disk.committed <= disk.agree
      BY <3>1, LogFacts DEF IInv, FollowerLogs, Indexes
    <3> QED BY <3>1, <3>2 DEF Acked!Init
  <2> QED BY <2>1
<1>2. IInv /\ [Next]_vars => [Acked!Next]_(Acked!vars)
  BY NextRefines
<1> QED BY <1>1, <1>2, Invariance, PTL DEF Spec, ImplementsAckedLog, Acked!Spec
=============================================================================
