----------------------------- MODULE ProgressSet ----------------------------
(***************************************************************************)
(* ProgressSet of progress.rs: who the members of the cluster are, which   *)
(* of them vote, how far each has come and who was heard of.  Of a         *)
(* Progress it reads matched and recent_active.  With it goes is_learner,  *)
(* what Raft itself knows of its membership.                               *)
(*                                                                         *)
(* The methods are public and the callers of some are missing, so they are *)
(* called in any order.  A failed assertion ends the process.              *)
(***************************************************************************)
EXTENDS Integers, FiniteSets

CONSTANTS
  Ids,       \* the ids of nodes that may be members
  Self,      \* the node whose set this is
  MaxIndex,  \* bound on the indexes of the log
  ConfStates \* the <<nodes, learners>> the node may be started or restored with

ASSUME IdsAssumption == IsFiniteSet(Ids) /\ Self \in Ids
ASSUME ConfAssumption ==
  \A c \in ConfStates : c[1] \subseteq Ids /\ c[2] \subseteq Ids /\ c[1] \cap c[2] = {}
ASSUME BoundAssumption == MaxIndex \in Nat

VARIABLES
  progress,   \* ProgressSet.progress, a map from ids
  voters,     \* Configuration.voters
  learners,   \* Configuration.learners
  is_learner, \* Raft.is_learner
  panicked,   \* an assertion has failed
  heard,      \* history: the nodes heard of since the last quorum check
  promoted,   \* history: the members that promote_learner failed for
  appointed   \* history: insert_voter has made the node itself a voter

vars == <<progress, voters, learners, is_learner, panicked, heard, promoted, appointed>>

Members == DOMAIN progress
-----------------------------------------------------------------------------
(* What the methods compute. *)

\* Mutant: half is enough.
HalfOf(total) == total \div 2
Majority(total) == (total \div 2) + 1

\* The debug assertions, and the comparison of sizes that release builds keep.
Consistent(p, v, l) ==
  /\ v \cup l = DOMAIN p
  /\ Cardinality(v) + Cardinality(l) = Cardinality(DOMAIN p)

\* matched[matched.len() / 2], in descending order: more than that many voters
\* have it, and not more have any higher index.
\* Mutant: of two middle positions, the first.
FirstMiddle(total) == (total - 1) \div 2
Middle(total) == total \div 2

AtLeast(i) == {v \in voters : progress[v].matched >= i}
MaximalCommittedIndex ==
  CHOOSE i \in {progress[v].matched : v \in voters} :
    /\ Cardinality(AtLeast(i)) > Middle(Cardinality(voters))
    /\ Cardinality(AtLeast(i + 1)) <= Middle(Cardinality(voters))

\* quorum_recently_active's answer.
QuorumActive ==
  Cardinality({v \in voters : v = Self \/ progress[v].recent_active})
    >= Majority(Cardinality(voters))
-----------------------------------------------------------------------------
\* A member that joins: set_progress gives it its matched.
\* Mutant: it gets its next index instead.
JoinedAtNext(n) == [matched |-> n + 1, recent_active |-> FALSE]
Joined(n) == [matched |-> n, recent_active |-> FALSE]

\* Raft::new inserts peers and learners alike as learners.
Init ==
  \E c \in ConfStates :
    /\ progress = [q \in c[1] \cup c[2] |-> Joined(0)]
    /\ voters = {} /\ learners = c[1] \cup c[2]
    /\ is_learner = (Self \in c[2])
    /\ panicked = FALSE
    /\ heard = {} /\ promoted = {} /\ appointed = FALSE

\* Raft::new once more, after a failure.
New(c) ==
  /\ progress' = [q \in c[1] \cup c[2] |-> Joined(0)]
  /\ voters' = {} /\ learners' = c[1] \cup c[2]
  /\ is_learner' = (Self \in c[2])
  /\ panicked' = FALSE
  /\ heard' = {} /\ promoted' = {} /\ appointed' = FALSE

\* A membership change ends in the assertion.
CheckConsistent == panicked' = ~Consistent(progress, voters, learners)'

\* restore_raft refuses a snapshot in which the node is a learner, unless it
\* is one already.
Refuses(others) == Members # {} /\ ~is_learner /\ Self \in others

\* What the node then takes itself for.
\* Mutant: it remembers that it was a learner.
RoleKept(c) == is_learner \/ Self \in c[2]
Role(c) == IF Self \in c[1] \cup c[2] THEN Self \in c[2] ELSE is_learner

\* restore_raft, on a snapshot with this configuration; n is the last index of
\* the log that it replaces.
RestoreRaft(c, n) ==
  /\ ~Refuses(c[2])
  /\ progress' = [q \in c[1] \cup c[2] |-> Joined(IF q = Self THEN n ELSE 0)]
  /\ voters' = c[1] /\ learners' = c[2]
  /\ is_learner' = Role(c)
  /\ heard' = {} /\ promoted' = {} /\ appointed' = FALSE
  /\ CheckConsistent

Inserted(id, n) == [q \in Members \cup {id} |-> IF q = id THEN Joined(n) ELSE progress[q]]

\* insert_voter and insert_learner are errors for a member.
InsertVoter(id, n) ==
  /\ id \notin Members
  /\ progress' = Inserted(id, n)
  /\ voters' = voters \cup {id}
  /\ appointed' = (appointed \/ id = Self)
  /\ UNCHANGED <<learners, is_learner, heard, promoted>>
  /\ CheckConsistent

InsertLearner(id, n) ==
  /\ id \notin Members
  /\ progress' = Inserted(id, n)
  /\ learners' = learners \cup {id}
  /\ UNCHANGED <<voters, is_learner, heard, promoted, appointed>>
  /\ CheckConsistent

\* Mutant: a learner that is removed stays in the configuration.
RemoveVoterOnly(id) ==
  /\ progress' = [q \in Members \ {id} |-> progress[q]]
  /\ voters' = voters \ {id}
  /\ heard' = heard \ {id} /\ promoted' = promoted \ {id}
  /\ UNCHANGED <<learners, is_learner, appointed>>
  /\ CheckConsistent
Remove(id) ==
  /\ progress' = [q \in Members \ {id} |-> progress[q]]
  /\ voters' = voters \ {id}
  /\ learners' = learners \ {id}
  /\ heard' = heard \ {id} /\ promoted' = promoted \ {id}
  /\ UNCHANGED <<is_learner, appointed>>
  /\ CheckConsistent

\* promote_learner takes the node from the learners and then fails to take it
\* from the voters, before it comes to the assertion.
PromoteLearner(id) ==
  /\ id \in learners
  /\ learners' = learners \ {id}
  /\ voters' = voters \ {id}
  /\ promoted' = promoted \cup {id}
  /\ UNCHANGED <<progress, is_learner, heard, appointed>>
  /\ panicked' = (id \in voters /\ ~Consistent(progress, voters, learners)')

\* Progress::maybe_update, for the node's own log and for every answer.
MaybeUpdate(id, n) ==
  /\ id \in Members /\ progress[id].matched < n
  /\ progress' = [progress EXCEPT ![id].matched = n]
  /\ UNCHANGED <<voters, learners, is_learner, panicked, heard, promoted, appointed>>

\* An answer of a member sets recent_active.
HearOf(id) ==
  /\ id \in Members
  /\ progress' = [progress EXCEPT ![id].recent_active = TRUE]
  /\ heard' = heard \cup {id}
  /\ UNCHANGED <<voters, learners, is_learner, panicked, promoted, appointed>>

\* Mutant: the flags of the voters stay set.
FlagsKept ==
  [q \in Members |->
     [progress[q] EXCEPT !.recent_active = @ /\ q \notin learners]]
\* The flag of the node itself is left as it is, unless it is a learner.
FlagsCleared ==
  [q \in Members |->
     [progress[q] EXCEPT !.recent_active = @ /\ q \notin learners
                                             /\ (q \in voters => q = Self)]]

QuorumRecentlyActive ==
  /\ progress' = FlagsCleared
  /\ heard' = {}
  /\ UNCHANGED <<voters, learners, is_learner, panicked, promoted, appointed>>

\* Raft::reset, on every change of role or term; n is the last index.
Reset(n) ==
  /\ progress' = [q \in Members |->
                    [matched |-> IF q = Self THEN n ELSE 0, recent_active |-> FALSE]]
  /\ UNCHANGED <<voters, learners, is_learner, panicked, heard, promoted, appointed>>

Call(id, n) ==
  \/ InsertVoter(id, n)
  \/ InsertLearner(id, n)
  \/ Remove(id)
  \/ PromoteLearner(id)
  \/ MaybeUpdate(id, n)
  \/ HearOf(id)
  \/ QuorumRecentlyActive
  \/ Reset(n)

Calls == ~panicked /\ \E id \in Ids, n \in 0..MaxIndex : Call(id, n)

Next ==
  \/ \E c \in ConfStates : New(c)
  \/ ~panicked /\ \E c \in ConfStates, n \in 0..MaxIndex : RestoreRaft(c, n)
  \/ Calls

Spec == Init /\ [][Next]_vars
-----------------------------------------------------------------------------
ProgressRecords == [matched : 0..MaxIndex, recent_active : BOOLEAN]

TypeOK ==
  /\ Members \subseteq Ids /\ progress \in [Members -> ProgressRecords]
  /\ voters \in SUBSET Ids /\ learners \in SUBSET Ids
  /\ is_learner \in BOOLEAN /\ panicked \in BOOLEAN /\ appointed \in BOOLEAN
  /\ heard \in SUBSET Ids /\ promoted \in SUBSET Ids

\* assert_progress_and_configuration_consistent (progress.rs:182) fails only
\* after a promote_learner: in whatever order members come, go and come back,
\* the others keep voters, learners and progress in step.
PanicsOnlyAfterPromotion == panicked => promoted # {}

Quorums(S) == {Q \in SUBSET S : Cardinality(Q) >= Majority(Cardinality(S))}

\* The members change one at a time, so a quorum before a call and one after it
\* have a node in common, and no two leaders or commit decisions can miss each
\* other; New and RestoreRaft, which change the set and not the cluster, start over.
OverlappingQuorums ==
  [][\A Q \in Quorums(voters), R \in Quorums(voters)' : Q \cap R # {} \/ ~Calls]_vars

\* An index that maximal_committed_index (progress.rs:199) gives is matched by
\* a node of every quorum of the configuration that the next membership change
\* leaves, so whoever it elects has the entry.
CommitSurvivesChange ==
  [][voters # {} =>
       \A Q \in Quorums(voters)' :
         \/ \E q \in Q \cap voters : progress[q].matched >= MaximalCommittedIndex
         \/ ~Calls]_vars

\* "can not become learner when restores snapshot" (raft.rs:1074): no snapshot
\* makes a learner of a voter, though it is is_learner that is asked, which
\* restores and restarts must keep in step with the configuration.  Only
\* insert_voter leaves it behind.
VoterIsNotDemoted == Self \in voters /\ ~Refuses({Self}) => appointed

\* The answer of quorum_recently_active (progress.rs:242) is about the time
\* since the last check: a majority of the present voters was heard of since,
\* the node itself included.
ActiveQuorumIsFresh ==
  QuorumActive => (voters \cap heard) \cup ({Self} \cap voters) \in Quorums(voters)
=============================================================================
