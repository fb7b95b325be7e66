-------------------------- MODULE ProgressSetProofs -------------------------
(***************************************************************************)
(* Proofs about ProgressSet, for any number of nodes and any log.          *)
(***************************************************************************)
EXTENDS ProgressSet, FiniteSetTheorems, WellFoundedInduction, TLAPS

USE IdsAssumption, BoundAssumption

\* Only a node that promote_learner failed for is in neither set.
Shape ==
  /\ voters \cap learners = {} /\ voters \cup learners \subseteq Members
  /\ Members \ (voters \cup learners) \subseteq promoted

\* A learner became a voter by insert_voter, if it did.
RoleIsKnown == Self \in voters /\ is_learner => appointed

\* The flag of a voter is set by an answer, since the last check.
FlagsAreFresh == \A v \in voters : progress[v].recent_active => v \in heard \cup {Self}

IInv == TypeOK /\ Shape /\ PanicsOnlyAfterPromotion /\ RoleIsKnown /\ FlagsAreFresh

-----------------------------------------------------------------------------
(* The configuration. *)

\* Two disjoint sets that make up the members pass the assertion.
LEMMA SplitIsConsistent ==
  ASSUME NEW p, IsFiniteSet(DOMAIN p), NEW v, NEW l,
         v \cup l = DOMAIN p, v \cap l = {}
  PROVE  Consistent(p, v, l)
<1>1. IsFiniteSet(v) /\ IsFiniteSet(l)
  BY FS_Subset
<1>2. Cardinality(DOMAIN p) = Cardinality(v) + Cardinality(l) - Cardinality({})
  BY <1>1, FS_Union
<1>3. Cardinality(v) \in Nat /\ Cardinality(l) \in Nat /\ Cardinality({}) = 0
  BY <1>1, FS_CardinalityType, FS_EmptySet
<1> QED BY <1>2, <1>3 DEF Consistent

\* So where nothing was promoted, the next assertion holds.
LEMMA CheckedShape ==
  ASSUME TypeOK', Shape', CheckConsistent
  PROVE  PanicsOnlyAfterPromotion'
<1>1. CASE promoted' = {}
  <2>1. IsFiniteSet(DOMAIN progress')
    BY FS_Subset DEF TypeOK, Members
  <2>2. voters' \cup learners' = DOMAIN progress' /\ voters' \cap learners' = {}
    BY <1>1 DEF Shape, Members
  <2>3. Consistent(progress', voters', learners')
    BY <2>1, <2>2, SplitIsConsistent
  <2> QED BY <2>3 DEF CheckConsistent, PanicsOnlyAfterPromotion, Consistent
<1> QED BY <1>1 DEF PanicsOnlyAfterPromotion

LEMMA InsertedFacts ==
  ASSUME TypeOK, NEW id \in Ids, NEW n \in 0..MaxIndex
  PROVE  /\ DOMAIN Inserted(id, n) = Members \cup {id}
         /\ Inserted(id, n) \in [Members \cup {id} -> ProgressRecords]
BY DEF TypeOK, Inserted, Joined, ProgressRecords, Members

LEMMA CallShape ==
  ASSUME IInv, NEW id \in Ids, NEW n \in 0..MaxIndex, ~panicked, Call(id, n)
  PROVE  TypeOK' /\ Shape' /\ PanicsOnlyAfterPromotion'
<1>1. CASE InsertVoter(id, n)
  <2>1. Members' = Members \cup {id} /\ progress' \in [Members' -> ProgressRecords]
    <3>1. progress' = Inserted(id, n) /\ TypeOK
      BY <1>1 DEF InsertVoter, IInv
    <3> QED BY <3>1, InsertedFacts DEF Members
  <2>2. Shape'
    BY <1>1, <2>1 DEF IInv, Shape, InsertVoter
  <2>3. TypeOK'
    BY <1>1, <2>1 DEF IInv, TypeOK, InsertVoter, CheckConsistent
  <2> QED BY <1>1, <2>2, <2>3, CheckedShape DEF IInv, InsertVoter
<1>2. CASE InsertLearner(id, n)
  <2>1. Members' = Members \cup {id} /\ progress' \in [Members' -> ProgressRecords]
    <3>1. progress' = Inserted(id, n) /\ TypeOK
      BY <1>2 DEF InsertLearner, IInv
    <3> QED BY <3>1, InsertedFacts DEF Members
  <2>2. Shape'
    BY <1>2, <2>1 DEF IInv, Shape, InsertLearner
  <2>3. TypeOK'
    BY <1>2, <2>1 DEF IInv, TypeOK, InsertLearner, CheckConsistent
  <2> QED BY <1>2, <2>2, <2>3, CheckedShape DEF IInv, InsertLearner
<1>3. CASE Remove(id)
  <2>1. Members' = Members \ {id} /\ TypeOK'
    BY <1>3 DEF IInv, TypeOK, Remove, CheckConsistent, Members
  <2>2. Shape'
    BY <1>3, <2>1 DEF IInv, Shape, Remove
  <2> QED BY <1>3, <2>1, <2>2, CheckedShape DEF IInv, Remove
<1>4. CASE PromoteLearner(id)
  <2>1. Members' = Members /\ TypeOK'
    BY <1>4 DEF IInv, TypeOK, PromoteLearner, Members
  <2>2. Shape'
    BY <1>4, <2>1 DEF IInv, Shape, PromoteLearner
  <2> QED BY <1>4, <2>1, <2>2 DEF IInv, PromoteLearner, PanicsOnlyAfterPromotion
<1>5. CASE MaybeUpdate(id, n) \/ HearOf(id) \/ QuorumRecentlyActive \/ Reset(n)
  <2>1. Members' = Members /\ progress' \in [Members -> ProgressRecords]
    <3>1. progress \in [Members -> ProgressRecords]
      BY DEF IInv, TypeOK
    <3>2. CASE MaybeUpdate(id, n)
      BY <3>1, <3>2 DEF MaybeUpdate, Members, ProgressRecords
    <3>3. CASE HearOf(id)
      BY <3>1, <3>3 DEF HearOf, Members, ProgressRecords
    <3>4. CASE QuorumRecentlyActive
      <4>1. ASSUME NEW q \in Members
            PROVE  FlagsCleared[q] \in ProgressRecords
        BY <3>1 DEF FlagsCleared, ProgressRecords
      <4> QED BY <3>4, <4>1 DEF QuorumRecentlyActive, FlagsCleared, Members
    <3>5. CASE Reset(n)
      BY <3>5 DEF Reset, Members, ProgressRecords
    <3> QED BY <1>5, <3>2, <3>3, <3>4, <3>5
  <2>2. UNCHANGED <<voters, learners, is_learner, panicked, promoted, appointed>>
    BY <1>5 DEF MaybeUpdate, HearOf, QuorumRecentlyActive, Reset
  <2>3. heard' \in SUBSET Ids
    BY <1>5 DEF IInv, TypeOK, MaybeUpdate, HearOf, QuorumRecentlyActive, Reset
  <2> QED BY <2>1, <2>2, <2>3 DEF IInv, TypeOK, Shape, PanicsOnlyAfterPromotion
<1> QED BY <1>1, <1>2, <1>3, <1>4, <1>5 DEF Call

\* No call makes a voter of a learner but insert_voter, or sets the flag of a
\* voter that was not heard of.
LEMMA CallRole ==
  ASSUME IInv, NEW id \in Ids, NEW n \in 0..MaxIndex, ~panicked, Call(id, n)
  PROVE  RoleIsKnown'
BY DEF IInv, RoleIsKnown, Call, InsertVoter, InsertLearner, Remove, PromoteLearner, MaybeUpdate,
       HearOf, QuorumRecentlyActive, Reset

LEMMA CallFlags ==
  ASSUME IInv, NEW id \in Ids, NEW n \in 0..MaxIndex, ~panicked, Call(id, n)
  PROVE  FlagsAreFresh'
<1>1. /\ voters \subseteq Members /\ progress \in [Members -> ProgressRecords]
      /\ \A v \in voters : progress[v].recent_active => v \in heard \cup {Self}
  BY DEF IInv, TypeOK, Shape, FlagsAreFresh
<1>2. CASE InsertVoter(id, n)
  BY <1>1, <1>2 DEF InsertVoter, Inserted, Joined, FlagsAreFresh
<1>3. CASE InsertLearner(id, n)
  BY <1>1, <1>3 DEF InsertLearner, Inserted, Joined, FlagsAreFresh
<1>4. CASE Remove(id)
  BY <1>1, <1>4 DEF Remove, FlagsAreFresh
<1>5. CASE PromoteLearner(id)
  BY <1>1, <1>5 DEF PromoteLearner, FlagsAreFresh
<1>6. CASE MaybeUpdate(id, n) \/ HearOf(id)
  BY <1>1, <1>6 DEF MaybeUpdate, HearOf, FlagsAreFresh, ProgressRecords, Members
<1>7. CASE QuorumRecentlyActive
  <2>1. ASSUME NEW v \in voters, v # Self PROVE ~FlagsCleared[v].recent_active
    BY <1>1, <2>1 DEF FlagsCleared, ProgressRecords
  <2> QED BY <1>7, <2>1 DEF QuorumRecentlyActive, FlagsAreFresh
<1>8. CASE Reset(n)
  BY <1>1, <1>8 DEF Reset, FlagsAreFresh
<1> QED BY <1>2, <1>3, <1>4, <1>5, <1>6, <1>7, <1>8 DEF Call

\* The configurations that come from elsewhere.
LEMMA ConfFacts ==
  ASSUME NEW c \in ConfStates
  PROVE  /\ c[1] \in SUBSET Ids /\ c[2] \in SUBSET Ids /\ c[1] \cap c[2] = {}
         /\ c[1] \cup c[2] \in SUBSET Ids
BY ConfAssumption

\* The set that restore_raft makes.
LEMMA RestoreInv ==
  ASSUME IInv, NEW c \in ConfStates, NEW n \in 0..MaxIndex, RestoreRaft(c, n)
  PROVE  IInv'
<1>1. TypeOK'
  <2>1. Members' = c[1] \cup c[2] /\ progress' \in [Members' -> ProgressRecords]
    BY DEF RestoreRaft, Joined, Members, ProgressRecords
  <2>2. is_learner' \in BOOLEAN
    <3>1. is_learner' = Role(c) /\ is_learner \in BOOLEAN
      BY DEF RestoreRaft, IInv, TypeOK
    <3>2. CASE Self \in c[1] \cup c[2]
      <4>1. is_learner' = (Self \in c[2])
        BY <3>1, <3>2 DEF Role
      <4>2. (Self \in c[2]) \in BOOLEAN
        OBVIOUS
      <4> QED BY <4>1, <4>2
    <3>3. CASE Self \notin c[1] \cup c[2]
      BY <3>1, <3>3 DEF Role
    <3> QED BY <3>2, <3>3
  <2>3. panicked' \in BOOLEAN /\ appointed' \in BOOLEAN
    BY DEF RestoreRaft, CheckConsistent
  <2>4. voters' \in SUBSET Ids /\ learners' \in SUBSET Ids /\ heard' = {} /\ promoted' = {}
    BY ConfFacts DEF RestoreRaft
  <2> QED BY <2>1, <2>2, <2>3, <2>4, ConfFacts DEF TypeOK
<1>2. Shape'
  BY ConfFacts DEF RestoreRaft, Shape, Members
<1>3. PanicsOnlyAfterPromotion'
  BY <1>1, <1>2, CheckedShape DEF RestoreRaft
<1>4. RoleIsKnown'
  BY ConfFacts DEF RestoreRaft, Role, RoleIsKnown
<1>5. FlagsAreFresh'
  BY DEF RestoreRaft, Joined, FlagsAreFresh
<1> QED BY <1>1, <1>2, <1>3, <1>4, <1>5 DEF IInv

\* The set that Raft::new makes.
LEMMA InitInv == Init => IInv
<1> SUFFICES ASSUME Init PROVE IInv
  OBVIOUS
<1>1. PICK c \in ConfStates :
        /\ progress = [q \in c[1] \cup c[2] |-> Joined(0)]
        /\ voters = {} /\ learners = c[1] \cup c[2]
        /\ is_learner = (Self \in c[2])
        /\ panicked = FALSE
        /\ heard = {} /\ promoted = {} /\ appointed = FALSE
  BY DEF Init
<1>2. Members = c[1] \cup c[2] /\ progress \in [Members -> ProgressRecords]
  BY <1>1 DEF Joined, Members, ProgressRecords
<1>3. is_learner \in BOOLEAN
  BY <1>1
<1>4. voters = {} /\ learners = Members /\ ~panicked /\ panicked \in BOOLEAN /\ ~appointed
      /\ appointed \in BOOLEAN /\ heard = {} /\ promoted = {}
  BY <1>1, <1>2
<1>5. TypeOK
  BY <1>2, <1>3, <1>4, ConfFacts DEF TypeOK
<1> QED BY <1>4, <1>5 DEF IInv, Shape, PanicsOnlyAfterPromotion, RoleIsKnown, FlagsAreFresh

LEMMA NewInv ==
  ASSUME NEW c \in ConfStates, New(c)
  PROVE  IInv'
<1>1. Members' = c[1] \cup c[2] /\ progress' \in [Members' -> ProgressRecords]
  BY DEF New, Joined, Members, ProgressRecords
<1>2. is_learner' \in BOOLEAN
  BY DEF New
<1>3. voters' = {} /\ learners' = Members' /\ ~panicked' /\ panicked' \in BOOLEAN
      /\ ~appointed' /\ appointed' \in BOOLEAN /\ heard' = {} /\ promoted' = {}
  BY <1>1 DEF New
<1>4. TypeOK'
  BY <1>1, <1>2, <1>3, ConfFacts DEF TypeOK
<1> QED BY <1>3, <1>4 DEF IInv, Shape, PanicsOnlyAfterPromotion, RoleIsKnown, FlagsAreFresh

LEMMA NextInv ==
  ASSUME IInv, [Next]_vars
  PROVE  IInv'
<1>1. CASE Calls
  BY <1>1, CallShape, CallRole, CallFlags DEF Calls, IInv
<1>2. CASE UNCHANGED vars
  BY <1>2 DEF vars, IInv, TypeOK, Shape, PanicsOnlyAfterPromotion, RoleIsKnown, FlagsAreFresh, Members
<1> QED BY <1>1, <1>2, NewInv, RestoreInv DEF Next

\* The configuration and the members keep in step.
THEOREM Invariance == Spec => []IInv
BY InitInv, NextInv, PTL DEF Spec

\* The state is well typed.
THEOREM TypeCorrect == Spec => []TypeOK
<1>1. IInv => TypeOK
  BY DEF IInv
<1> QED BY <1>1, Invariance, PTL

\* The assertion of progress.rs:182 fails only after a promote_learner.
THEOREM OnlyPromotionPanics == Spec => []PanicsOnlyAfterPromotion
<1>1. IInv => PanicsOnlyAfterPromotion
  BY DEF IInv
<1> QED BY <1>1, Invariance, PTL

-----------------------------------------------------------------------------
(* Quorums. *)

LEMMA MajorityFacts ==
  \A n \in Nat : Majority(n) \in Nat /\ 2 * Majority(n) > n
BY DEF Majority

\* Majorities of two sets that differ in one element have one in common.
LEMMA QuorumsMeet ==
  ASSUME NEW V, IsFiniteSet(V), NEW id, NEW W, W \in {V, V \cup {id}, V \ {id}},
         NEW Q \in Quorums(V), NEW R \in Quorums(W)
  PROVE  Q \cap R # {}
<1>1. PICK n \in Nat : n = Cardinality(V)
  BY FS_CardinalityType
<1>2. IsFiniteSet(W) /\ IsFiniteSet(V \cup {id})
  BY FS_AddElement, FS_RemoveElement
<1>3. PICK m \in Nat : m = Cardinality(W)
  BY <1>2, FS_CardinalityType
<1>4. Q \subseteq V /\ R \subseteq W /\ Cardinality(Q) >= Majority(n) /\ Cardinality(R) >= Majority(m)
  BY <1>1, <1>3 DEF Quorums
<1>5. Cardinality(Q) \in Nat /\ Cardinality(R) \in Nat
  BY <1>2, <1>4, FS_Subset, FS_CardinalityType
<1>6. 2 * (Cardinality(Q) + Cardinality(R)) > n + m + 1
  <2>1. 2 * Majority(n) > n /\ 2 * Majority(m) > m /\ Majority(n) \in Nat /\ Majority(m) \in Nat
    BY MajorityFacts
  <2> QED BY <1>4, <1>5, <2>1
<1>7. CASE W = V \cup {id} /\ id \notin V
  <2>1. m = n + 1
    BY <1>1, <1>3, <1>7, FS_AddElement
  <2>2. Cardinality(Q) + Cardinality(R) > Cardinality(W)
    BY <1>3, <1>5, <1>6, <2>1
  <2> QED BY <1>2, <1>4, <1>7, <2>2, FS_MajoritiesIntersect
<1>8. CASE W = V \/ W = V \ {id}
  <2>1. m = n \/ m = n - 1
    BY <1>1, <1>3, <1>8, FS_RemoveElement
  <2>2. Cardinality(Q) + Cardinality(R) > Cardinality(V)
    BY <1>1, <1>5, <1>6, <2>1
  <2>3. R \subseteq V
    BY <1>4, <1>8
  <2> QED BY <1>4, <2>2, <2>3, FS_MajoritiesIntersect
<1>9. W = V \cup {id} /\ id \in V => W = V
  OBVIOUS
<1> QED BY <1>7, <1>8, <1>9

\* No call changes more than one voter.
LEMMA OneVoterChanges ==
  ASSUME Calls
  PROVE  \E id : voters' \in {voters, voters \cup {id}, voters \ {id}}
<1>1. ASSUME NEW id \in Ids, NEW n \in 0..MaxIndex, Call(id, n)
      PROVE  voters' \in {voters, voters \cup {id}, voters \ {id}}
  BY <1>1 DEF Call, InsertVoter, InsertLearner, Remove, PromoteLearner, MaybeUpdate, HearOf,
              QuorumRecentlyActive, Reset
<1> QED BY <1>1 DEF Calls

LEMMA VotersFinite == TypeOK => IsFiniteSet(voters)
BY FS_Subset DEF TypeOK

\* Quorums before and after a call meet, for any number of nodes.
LEMMA CallsOverlap ==
  ASSUME TypeOK, Calls, NEW Q \in Quorums(voters), NEW R \in Quorums(voters)'
  PROVE  Q \cap R # {}
<1>1. R \in Quorums(voters')
  BY DEF Quorums
<1>2. PICK id : voters' \in {voters, voters \cup {id}, voters \ {id}}
  BY OneVoterChanges
<1> QED BY <1>1, <1>2, VotersFinite, QuorumsMeet

\* Quorums of successive configurations meet.
THEOREM QuorumsOverlap == Spec => OverlappingQuorums
<1>1. TypeOK /\ [Next]_vars
        => [\A Q \in Quorums(voters), R \in Quorums(voters)' : Q \cap R # {} \/ ~Calls]_vars
  BY CallsOverlap
<1> QED BY <1>1, TypeCorrect, PTL DEF Spec, OverlappingQuorums

\* The answer of quorum_recently_active is about nodes that were heard of.
THEOREM ActivityIsFresh == Spec => []ActiveQuorumIsFresh
<1> DEFINE active == {v \in voters : v = Self \/ progress[v].recent_active}
           fresh  == (voters \cap heard) \cup ({Self} \cap voters)
<1>1. ASSUME IInv, QuorumActive PROVE fresh \in Quorums(voters)
  <2>1. active \subseteq fresh
    BY <1>1 DEF IInv, FlagsAreFresh
  <2>2. IsFiniteSet(voters) /\ fresh \subseteq voters
    BY <1>1, VotersFinite DEF IInv
  <2>3. IsFiniteSet(fresh)
    BY <2>2, FS_Subset
  <2>4. Cardinality(active) <= Cardinality(fresh) /\ Cardinality(active) \in Nat
    BY <2>1, <2>3, FS_Subset, FS_CardinalityType
  <2>5. Cardinality(fresh) \in Nat /\ Cardinality(voters) \in Nat
    BY <2>2, <2>3, FS_CardinalityType
  <2>6. Cardinality(active) >= Majority(Cardinality(voters))
    BY <1>1 DEF QuorumActive
  <2>7. Majority(Cardinality(voters)) \in Nat
    BY <2>5, MajorityFacts
  <2>8. Cardinality(fresh) >= Majority(Cardinality(voters))
    BY <2>4, <2>5, <2>6, <2>7
  <2> QED BY <2>2, <2>8 DEF Quorums
<1>2. IInv => ActiveQuorumIsFresh
  BY <1>1 DEF ActiveQuorumIsFresh
<1> QED BY <1>2, Invariance, PTL

\* No snapshot makes a learner of a voter that insert_voter did not appoint
\* (raft.rs:1070).
THEOREM VotersAreNotDemoted == Spec => []VoterIsNotDemoted
<1>1. IInv => VoterIsNotDemoted
  BY DEF IInv, Shape, RoleIsKnown, VoterIsNotDemoted, Refuses
<1> QED BY <1>1, Invariance, PTL

-----------------------------------------------------------------------------
(* maximal_committed_index. *)

LEMMA Smallest ==
  ASSUME NEW S \in SUBSET Nat, S # {}
  PROVE  \E i \in S : \A j \in S : i <= j
<1> DEFINE Less == {p \in Nat \X Nat : p[1] < p[2]}
<1>1. IsWellFoundedOn(Less, Nat)
  BY NatLessThanWellFounded DEF OpToRel
<1>2. PICK i \in S : \A j \in S : ~(<<j, i>> \in Less)
  <2> HIDE DEF Less
  <2> QED BY <1>1, WFMin
<1>3. ASSUME NEW j \in S PROVE i <= j
  <2>1. i \in Nat /\ j \in Nat
    OBVIOUS
  <2>2. (j < i) => <<j, i>> \in Less
    BY <2>1
  <2> QED BY <1>2, <2>1, <2>2
<1> QED BY <1>3

LEMMA Largest ==
  ASSUME NEW S \in SUBSET Nat, S # {}, NEW b \in Nat, \A i \in S : i <= b
  PROVE  \E i \in S : \A j \in S : j <= i
<1> DEFINE T == {b - i : i \in S}
<1>1. T \in SUBSET Nat /\ T # {}
  <2>1. \A i \in S : b - i \in Nat
    OBVIOUS
  <2> QED BY <2>1
<1>2. PICK k \in T : \A j \in T : k <= j
  BY <1>1, Smallest
<1>3. PICK i \in S : k = b - i
  OBVIOUS
<1>4. ASSUME NEW j \in S PROVE j <= i
  <2>1. b - i <= b - j
    BY <1>2, <1>3
  <2>2. i \in Nat /\ j \in Nat
    OBVIOUS
  <2> QED BY <2>1, <2>2
<1> QED BY <1>4

LEMMA AtLeastFacts ==
  ASSUME TypeOK, Shape
  PROVE  /\ \A v \in voters : progress[v].matched \in 0..MaxIndex
         /\ \A i : AtLeast(i) \subseteq voters /\ Cardinality(AtLeast(i)) \in Nat
<1>1. \A v \in voters : progress[v].matched \in 0..MaxIndex
  BY DEF TypeOK, Shape, ProgressRecords
<1>2. ASSUME NEW i PROVE AtLeast(i) \subseteq voters /\ Cardinality(AtLeast(i)) \in Nat
  <2>1. AtLeast(i) \subseteq voters
    BY DEF AtLeast
  <2> QED BY <2>1, VotersFinite, FS_Subset, FS_CardinalityType
<1> QED BY <1>1, <1>2

\* The index it looks for exists, so the voters that have it are a quorum.
LEMMA CommitIndexOfQuorum ==
  ASSUME TypeOK, Shape, voters # {}
  PROVE  AtLeast(MaximalCommittedIndex) \in Quorums(voters)
<1> DEFINE S == {progress[v].matched : v \in voters}
<1> DEFINE G == {i \in S : Cardinality(AtLeast(i)) > Middle(Cardinality(voters))}
<1>1. PICK n \in Nat : n = Cardinality(voters) /\ n > 0
  BY VotersFinite, FS_CardinalityType, FS_EmptySet
<1>2. S \in SUBSET Nat /\ S # {} /\ \A i \in S : i <= MaxIndex
  BY AtLeastFacts
<1>3. G # {}
  <2>1. PICK m \in S : \A j \in S : m <= j
    BY <1>2, Smallest
  <2>2. AtLeast(m) = voters
    BY <2>1 DEF AtLeast
  <2>3. n > Middle(n)
    BY <1>1 DEF Middle
  <2> QED BY <1>1, <2>2, <2>3
<1>4. PICK i \in G : \A j \in G : j <= i
  <2>1. G \in SUBSET Nat /\ \A j \in G : j <= MaxIndex
    BY <1>2
  <2> HIDE DEF G
  <2> QED BY <1>3, <2>1, Largest
<1>5. Cardinality(AtLeast(i + 1)) <= Middle(n)
  <2>1. CASE AtLeast(i + 1) = {}
    BY <2>1, FS_EmptySet DEF Middle
  <2>2. CASE AtLeast(i + 1) # {}
    <3> DEFINE U == {progress[v].matched : v \in AtLeast(i + 1)}
    <3>1. U \subseteq S /\ U # {}
      BY <2>2, AtLeastFacts
    <3>2. PICK j \in U : \A x \in U : j <= x
      BY <1>2, <3>1, Smallest
    <3>3. j >= i + 1 /\ j \in S /\ i \in Nat /\ j \in Nat
      BY <1>2, <3>1, <3>2 DEF AtLeast
    <3>4. AtLeast(j) = AtLeast(i + 1)
      <4>1. \A v \in voters : progress[v].matched \in Nat
        BY AtLeastFacts
      <4>2. \A v \in AtLeast(i + 1) : progress[v].matched >= j
        BY <3>2, <3>3, <4>1, AtLeastFacts
      <4>3. \A v \in voters : progress[v].matched >= j => progress[v].matched >= i + 1
        BY <3>3, <4>1
      <4> QED BY <4>2, <4>3 DEF AtLeast
    <3>5. j \notin G
      BY <1>4, <3>3
    <3>6. Cardinality(AtLeast(j)) \in Nat /\ Middle(n) \in Nat
      BY AtLeastFacts DEF Middle
    <3> QED BY <1>1, <3>3, <3>4, <3>5, <3>6
  <2> QED BY <2>1, <2>2
<1>6. Cardinality(AtLeast(MaximalCommittedIndex)) > Middle(n)
  BY <1>1, <1>4, <1>5 DEF MaximalCommittedIndex
<1>7. Cardinality(AtLeast(MaximalCommittedIndex)) >= Majority(n)
  BY <1>6, AtLeastFacts DEF Majority, Middle
<1> QED BY <1>1, <1>7, AtLeastFacts DEF Quorums

\* A commit index survives the next membership change, for any number of nodes
\* (progress.rs:199).
THEOREM CommitsSurvive == Spec => CommitSurvivesChange
<1>1. ASSUME IInv, Calls, voters # {}, NEW R \in Quorums(voters)'
      PROVE  \E q \in R \cap voters : progress[q].matched >= MaximalCommittedIndex
  <2>1. PICK A : A = AtLeast(MaximalCommittedIndex)
    OBVIOUS
  <2>2. A \in Quorums(voters) /\ A \subseteq voters
    BY <1>1, <2>1, CommitIndexOfQuorum, AtLeastFacts DEF IInv
  <2>3. A \cap R # {}
    BY <1>1, <2>2, CallsOverlap DEF IInv
  <2> QED BY <2>1, <2>2, <2>3 DEF AtLeast
<1>2. IInv /\ [Next]_vars
        => [voters # {} =>
              \A Q \in Quorums(voters)' :
                \/ \E q \in Q \cap voters : progress[q].matched >= MaximalCommittedIndex
                \/ ~Calls]_vars
  BY <1>1
<1> QED BY <1>2, Invariance, PTL DEF Spec, CommitSurvivesChange
=============================================================================
