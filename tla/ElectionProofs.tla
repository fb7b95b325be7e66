--------------------------- MODULE ElectionProofs ---------------------------
(***************************************************************************)
(* Proofs about Election, for every finite cluster, every initial terms    *)
(* and logs, and elections with and without pre-votes.                     *)
(***************************************************************************)
EXTENDS ElectionInvariant, FiniteSetTheorems, TLAPS

USE NodesAssumption, TermAssumption, LastsAssumption, OptionAssumption

\* A message that node id adds to its queue as it goes on to state r.
NewMessage(id, r, m) ==
  /\ m \in Messages /\ m.from = id /\ Sound(m)
  /\ IsVote(m) => m.term = r.term /\ Choice(m) = r.vote

\* What every handler does to the state of node id.
GoesOn(id, r) ==
  /\ r \in NodeStates
  /\ Advances(node[id], r)
  /\ \A m \in r.msgs : m \in node[id].msgs \/ NewMessage(id, r, m)
  /\ CountsVotes(id, r)

\* At most one election is recorded, one of node id that has the votes.
Records(id) ==
  \/ elected' = elected
  \/ \E t \in Nat : elected' = elected \cup {<<t, id>>} /\ Supported(t, id)

-----------------------------------------------------------------------------
(* Types. *)

LEMMA MessageTypes ==
  ASSUME NEW m \in Messages
  PROVE  /\ m.term \in Nat /\ m.from \in Nodes /\ m.to \in Nodes /\ Choice(m) \in Nodes
         /\ IsRequest(m) => m.last \in Lasts
         /\ ~IsRequest(m) => m.reject \in BOOLEAN
BY DEF Messages, RequestMessages, ResponseMessages, Choice, IsRequest

LEMMA NodeTypes ==
  ASSUME IInv, NEW id \in Nodes
  PROVE  /\ node[id] \in NodeStates
         /\ node[id].term \in Nat /\ node[id].vote \in Nodes \cup {None}
         /\ node[id].msgs \in SUBSET Messages
         /\ node[id].yes \in SUBSET Nodes /\ node[id].no \in SUBSET Nodes
         /\ stored[id].term \in Nat /\ stored[id].vote \in Nodes \cup {None}
         /\ last[id] \in Lasts
         /\ \A m \in node[id].msgs : m.from = id
<1>1. node[id] \in NodeStates /\ stored[id] \in [term : Nat, vote : Nodes \cup {None}]
  BY DEF IInv, TypeOK
<1> QED BY <1>1 DEF IInv, TypeOK, NodeStates

\* A vote a node has sent or is about to send is covered by what it knows.
LEMMA SentIsCovered ==
  ASSUME IInv, NEW id \in Nodes, NEW m \in SentBy(id), IsVote(m)
  PROVE  Covers(node[id], m)
<1>1. CASE m \in node[id].msgs
  BY <1>1 DEF IInv, Backed
<1>2. CASE m \in net /\ m.from = id
  <2>1. Covers(stored[id], m) /\ Advances(stored[id], node[id])
    BY <1>2 DEF IInv, Backed, StoredBehind
  <2>2. m \in Messages
    BY <1>2 DEF IInv, TypeOK
  <2> QED BY <2>1, <2>2, MessageTypes, NodeTypes DEF Covers, Advances
<1> QED BY <1>1, <1>2 DEF SentBy

-----------------------------------------------------------------------------
(* The two ways in which the state of one node changes. *)

LEMMA GoesOnInv ==
  ASSUME IInv, NEW id \in Nodes, NEW r, GoesOn(id, r), Records(id),
         node' = [node EXCEPT ![id] = r],
         UNCHANGED <<voters, last, stored, net>>
  PROVE  IInv'
<1>1. /\ node \in [Nodes -> NodeStates] /\ node' \in [Nodes -> NodeStates]
      /\ node'[id] = r /\ \A q \in Nodes \ {id} : node'[q] = node[q]
  BY DEF IInv, TypeOK, GoesOn
<1>2. r.term \in Nat /\ r.vote \in Nodes \cup {None} /\ r.msgs \in SUBSET Messages
  BY DEF GoesOn, NodeStates
<1>3. \A m \in r.msgs : m.from = id
  BY NodeTypes DEF GoesOn, NewMessage
<1>4. TypeOK'
  <2>1. elected' \in SUBSET (Nat \X Nodes)
    BY DEF Records, IInv, TypeOK
  <2>2. \A q \in Nodes : \A m \in node'[q].msgs : m.from = q
    BY <1>1, <1>3, NodeTypes
  <2> QED BY <1>1, <2>1, <2>2 DEF IInv, TypeOK
<1>5. StoredBehind'
  <2>1. Advances(stored[id], node[id]) /\ Advances(node[id], r)
    BY DEF IInv, StoredBehind, GoesOn
  <2>2. Advances(stored[id], r)
    BY <1>2, <2>1, NodeTypes DEF Advances
  <2>3. ASSUME NEW q \in Nodes PROVE Advances(stored'[q], node'[q])
    <3>1. CASE q = id
      BY <1>1, <2>2, <3>1
    <3>2. CASE q # id
      <4>1. Advances(stored[q], node[q])
        BY DEF IInv, StoredBehind
      <4> QED BY <1>1, <3>2, <4>1
    <3> QED BY <3>1, <3>2
  <2> QED BY <2>3 DEF StoredBehind, Advances
<1>6. ASSUME NEW m \in r.msgs, IsVote(m)
      PROVE  Covers(r, m)
  <2>1. CASE m \in node[id].msgs
    <3>1. Covers(node[id], m) /\ Advances(node[id], r)
      BY <1>6, <2>1 DEF IInv, Backed, GoesOn
    <3>2. m \in Messages
      BY <1>2
    <3> QED BY <1>2, <3>1, <3>2, MessageTypes, NodeTypes DEF Covers, Advances
  <2>2. CASE NewMessage(id, r, m)
    BY <1>6, <2>2 DEF NewMessage, Covers
  <2> QED BY <2>1, <2>2 DEF GoesOn
<1>7. Backed'
  <2>1. ASSUME NEW q \in Nodes, NEW m \in node'[q].msgs, IsVote(m)
        PROVE  Covers(node'[q], m)
    <3>1. CASE q = id
      BY <1>1, <1>6, <2>1, <3>1
    <3>2. CASE q # id
      BY <1>1, <2>1, <3>2 DEF IInv, Backed
    <3> QED BY <3>1, <3>2
  <2>2. \A m \in net' : IsVote(m) => Covers(stored'[m.from], m)
    BY DEF IInv, Backed
  <2> QED BY <2>1, <2>2 DEF Backed, Covers, IsVote, Choice
<1>8. \A q \in Nodes : q # id => SentBy(q)' = SentBy(q)
  BY <1>1 DEF SentBy
<1>9. \A m \in SentBy(id)' : m \in SentBy(id) \/ NewMessage(id, r, m)
  BY <1>1 DEF SentBy, GoesOn
<1>10. OneChoice'
  <2>1. ASSUME NEW m \in SentBy(id)', NEW w \in SentBy(id)', IsVote(m), IsVote(w), m.term = w.term
        PROVE  Choice(m) = Choice(w)
    <3>1. ASSUME NEW x \in SentBy(id), IsVote(x), x.term = r.term
          PROVE  Choice(x) = r.vote
      <4>1. Covers(node[id], x) /\ Advances(node[id], r)
        BY <3>1, SentIsCovered DEF GoesOn
      <4>2. x \in Messages
        BY NodeTypes DEF SentBy, IInv, TypeOK
      <4> QED BY <1>2, <3>1, <4>1, <4>2, MessageTypes, NodeTypes DEF Covers, Advances
    <3>2. CASE m \in SentBy(id) /\ w \in SentBy(id)
      BY <2>1, <3>2 DEF IInv, OneChoice
    <3>3. CASE NewMessage(id, r, m) /\ NewMessage(id, r, w)
      BY <2>1, <3>3 DEF NewMessage
    <3>4. CASE NewMessage(id, r, m) /\ w \in SentBy(id)
      BY <2>1, <3>1, <3>4 DEF NewMessage
    <3>5. CASE m \in SentBy(id) /\ NewMessage(id, r, w)
      BY <2>1, <3>1, <3>5 DEF NewMessage
    <3> QED BY <1>9, <3>2, <3>3, <3>4, <3>5
  <2>2. ASSUME NEW q \in Nodes, NEW m \in SentBy(q)', NEW w \in SentBy(q)',
               IsVote(m), IsVote(w), m.term = w.term
        PROVE  Choice(m) = Choice(w)
    <3>1. CASE q = id
      BY <2>1, <2>2, <3>1
    <3>2. CASE q # id
      BY <1>8, <2>2, <3>2 DEF IInv, OneChoice
    <3> QED BY <3>1, <3>2
  <2> QED BY <2>2 DEF OneChoice, IsVote, Choice
<1>11. \A m : Sound(m) => Sound(m)'
  BY DEF Sound, VotedFor, IsRequest, Granted, NotBehind, IsVote, Choice
<1>12. AllSound'
  <2>1. ASSUME NEW q \in Nodes, NEW m \in SentBy(q)'
        PROVE  Sound(m)
    <3>1. CASE q = id
      BY <1>9, <2>1, <3>1 DEF IInv, AllSound, NewMessage
    <3>2. CASE q # id
      BY <1>8, <2>1, <3>2 DEF IInv, AllSound
    <3> QED BY <3>1, <3>2
  <2> QED BY <1>11, <2>1 DEF AllSound
<1>13. (\A q \in Nodes : CountsVotes(q, node[q]))'
  <2>1. \A q \in Nodes : CountsVotes(q, node'[q])
    BY <1>1 DEF IInv, GoesOn
  <2> QED BY <2>1 DEF CountsVotes, GrantedBy, Granted
<1>14. (\A e \in elected : Supported(e[1], e[2]))'
  <2>1. \A e \in elected' : Supported(e[1], e[2])
    BY DEF Records, IInv
  <2> QED BY <2>1 DEF Supported, VotedFor, NotBehind, Quorum, IsVote, Choice
<1> QED BY <1>4, <1>5, <1>7, <1>10, <1>12, <1>13, <1>14 DEF IInv

LEMMA LoadedInv ==
  ASSUME IInv, NEW id \in Nodes, Records(id),
         node' = [node EXCEPT ![id] = Loaded(id)],
         UNCHANGED <<voters, last, stored, net>>
  PROVE  IInv'
<1>1. /\ Loaded(id) \in NodeStates /\ Loaded(id).msgs = {} /\ Loaded(id).state = "FOLLOWER"
      /\ Loaded(id).term = stored[id].term /\ Loaded(id).vote = stored[id].vote
  BY NodeTypes DEF Loaded, NodeStates
<1>2. /\ node \in [Nodes -> NodeStates] /\ node' \in [Nodes -> NodeStates]
      /\ node'[id] = Loaded(id) /\ \A q \in Nodes \ {id} : node'[q] = node[q]
  BY <1>1 DEF IInv, TypeOK
<1>3. \A q \in Nodes : node'[q].msgs \subseteq node[q].msgs
  BY <1>1, <1>2
<1>4. TypeOK'
  <2>1. elected' \in SUBSET (Nat \X Nodes)
    BY DEF Records, IInv, TypeOK
  <2> QED BY <1>2, <1>3, <2>1 DEF IInv, TypeOK
<1>5. StoredBehind'
  <2>1. \A q \in Nodes : Advances(stored[q], node'[q])
    BY <1>1, <1>2, NodeTypes DEF IInv, StoredBehind, Advances
  <2> QED BY <2>1 DEF StoredBehind, Advances
<1>6. Backed'
  <2>1. \A q \in Nodes : \A m \in node'[q].msgs : IsVote(m) => Covers(node'[q], m)
    BY <1>1, <1>2 DEF IInv, Backed
  <2>2. \A m \in net' : IsVote(m) => Covers(stored'[m.from], m)
    BY DEF IInv, Backed
  <2> QED BY <2>1, <2>2 DEF Backed, Covers, IsVote, Choice
<1>7. \A q \in Nodes : SentBy(q)' \subseteq SentBy(q)
  BY <1>3 DEF SentBy
<1>8. OneChoice'
  BY <1>7 DEF IInv, OneChoice, IsVote, Choice
<1>9. \A m : Sound(m) => Sound(m)'
  BY DEF Sound, VotedFor, IsRequest, Granted, NotBehind, IsVote, Choice
<1>10. AllSound'
  BY <1>7, <1>9 DEF IInv, AllSound
<1>11. (\A q \in Nodes : CountsVotes(q, node[q]))'
  <2>1. CountsVotes(id, Loaded(id))
    BY <1>1 DEF CountsVotes
  <2>2. \A q \in Nodes : CountsVotes(q, node'[q])
    BY <1>2, <2>1 DEF IInv
  <2> QED BY <2>2 DEF CountsVotes, GrantedBy, Granted
<1>12. (\A e \in elected : Supported(e[1], e[2]))'
  <2>1. \A e \in elected' : Supported(e[1], e[2])
    BY DEF Records, IInv
  <2> QED BY <2>1 DEF Supported, VotedFor, NotBehind, Quorum, IsVote, Choice
<1> QED BY <1>4, <1>5, <1>6, <1>8, <1>10, <1>11, <1>12 DEF IInv

-----------------------------------------------------------------------------
(* The methods of Raft. *)

LEMMA VotersFacts ==
  ASSUME IInv
  PROVE  /\ voters \subseteq Nodes /\ voters # {} /\ IsFiniteSet(voters)
         /\ Cardinality(voters) \in Nat
         /\ Quorum \in Nat /\ Quorum + Quorum > Cardinality(voters)
         /\ Quorum <= 1 => Cardinality(voters) <= 1
<1>1. voters \subseteq Nodes /\ voters # {}
  BY DEF IInv, TypeOK
<1>2. IsFiniteSet(voters) /\ Cardinality(voters) \in Nat
  BY <1>1, FS_Subset, FS_CardinalityType
<1> QED BY <1>1, <1>2 DEF Quorum, Majority

\* A node whose own vote is enough is the only voter.
LEMMA OwnVoteElects ==
  ASSUME IInv, NEW id \in voters, Quorum <= 1
  PROVE  voters = {id}
<1>1. IsFiniteSet(voters) /\ Cardinality(voters) \in Nat /\ Cardinality(voters) <= 1
  BY VotersFacts
<1>2. Cardinality(voters) # 0
  BY <1>1, FS_EmptySet
<1>3. PICK x : voters = {x}
  BY <1>1, <1>2, FS_Singleton
<1> QED BY <1>3

LEMMA CampaignElectionGoesOn ==
  ASSUME IInv, NEW id \in Nodes, id \in voters, NEW s \in NodeStates,
         s.term = node[id].term, s.vote = node[id].vote, s.msgs = node[id].msgs,
         NEW r, r = CampaignElection(s, id)
  PROVE  /\ GoesOn(id, r)
         /\ r.state = "Leader" => voters = {id}
<1>1. PICK c : c = RegisterVote(BecomeCandidate(s, id), id, TRUE)
  OBVIOUS
<1>2. c = [state |-> "Candidate", term |-> s.term + 1, vote |-> id, yes |-> {id}, no |-> {},
           msgs |-> s.msgs]
  BY <1>1 DEF RegisterVote, BecomeCandidate, Reset, NodeStates
<1>3. Cardinality(c.yes) = 1
  BY <1>2, FS_Singleton
<1>4. s.term \in Nat /\ s.msgs \subseteq Messages /\ node[id].term \in Nat
  BY NodeTypes DEF NodeStates
<1>5. CASE IsElected(c)
  <2>1. r = BecomeLeader(c)
    BY <1>1, <1>5 DEF CampaignElection
  <2>2. r = [state |-> "Leader", term |-> s.term + 1, vote |-> id, yes |-> {}, no |-> {},
             msgs |-> s.msgs]
    BY <1>2, <2>1 DEF BecomeLeader, Reset
  <2>3. voters = {id}
    <3>1. Quorum <= 1
      BY <1>3, <1>5 DEF IsElected
    <3> QED BY <3>1, OwnVoteElects
  <2> QED BY <1>4, <2>2, <2>3 DEF GoesOn, NodeStates, Advances, CountsVotes
<1>6. CASE ~IsElected(c)
  <2> DEFINE requests == {Request("MsgRequestVote", s.term + 1, id, v) : v \in voters \ {id}}
  <2>1. r = Send(c, requests)
    <3>1. c.term = s.term + 1
      BY <1>2
    <3> QED BY <1>1, <1>6, <3>1 DEF CampaignElection
  <2>2. r = [state |-> "Candidate", term |-> s.term + 1, vote |-> id, yes |-> {id}, no |-> {},
             msgs |-> s.msgs \cup requests]
    BY <1>2, <2>1 DEF Send
  <2>3. ASSUME NEW v \in voters
        PROVE  NewMessage(id, r, Request("MsgRequestVote", s.term + 1, id, v))
    BY <1>4, <2>2, NodeTypes, VotersFacts
    DEF NewMessage, Request, Messages, RequestMessages, Sound, IsRequest, Granted, IsVote, Choice
  <2>4. \A m \in r.msgs : m \in node[id].msgs \/ NewMessage(id, r, m)
    BY <2>2, <2>3
  <2>5. r.msgs \subseteq Messages
    BY <1>4, <2>2, <2>3 DEF NewMessage
  <2>6. r \in NodeStates
    BY <1>4, <2>2, <2>5 DEF NodeStates
  <2> QED BY <1>4, <2>2, <2>4, <2>6 DEF GoesOn, Advances, CountsVotes
<1> QED BY <1>5, <1>6

LEMMA CampaignPreElectionGoesOn ==
  ASSUME IInv, NEW id \in Nodes, id \in voters, NEW r, r = CampaignPreElection(node[id], id)
  PROVE  /\ GoesOn(id, r)
         /\ r.state = "Leader" => voters = {id}
<1> DEFINE s == node[id]
<1>1. PICK c : c = RegisterVote(BecomePreCandidate(s), id, TRUE)
  OBVIOUS
<1>2. s \in NodeStates
  BY NodeTypes
<1>3. c = [state |-> "PreCandidate", term |-> s.term, vote |-> s.vote, yes |-> {id}, no |-> {},
           msgs |-> s.msgs]
  BY <1>1, <1>2 DEF RegisterVote, BecomePreCandidate, NodeStates
<1>4. s.term \in Nat /\ s.msgs \subseteq Messages
  BY NodeTypes
<1>5. CASE IsElected(c)
  <2>1. r = CampaignElection(c, id)
    BY <1>1, <1>5 DEF CampaignPreElection
  <2>2. c \in NodeStates
    BY <1>2, <1>3 DEF NodeStates
  <2> QED BY <1>3, <2>1, <2>2, CampaignElectionGoesOn
<1>6. CASE ~IsElected(c)
  <2> DEFINE requests == {Request("MsgRequestPreVote", s.term + 1, id, v) : v \in voters \ {id}}
  <2>1. r = Send(c, requests)
    <3>1. c.term + 1 = s.term + 1
      BY <1>3
    <3> QED BY <1>1, <1>6, <3>1 DEF CampaignPreElection
  <2>2. r = [state |-> "PreCandidate", term |-> s.term, vote |-> s.vote, yes |-> {id}, no |-> {},
             msgs |-> s.msgs \cup requests]
    BY <1>3, <2>1 DEF Send
  <2>3. ASSUME NEW v \in voters
        PROVE  NewMessage(id, r, Request("MsgRequestPreVote", s.term + 1, id, v))
    BY <1>4, <2>2, NodeTypes, VotersFacts
    DEF NewMessage, Request, Messages, RequestMessages, Sound, IsRequest, Granted, IsVote, Choice
  <2>4. \A m \in r.msgs : m \in node[id].msgs \/ NewMessage(id, r, m)
    BY <2>2, <2>3
  <2>5. r.msgs \subseteq Messages
    BY <1>4, <2>2, <2>3 DEF NewMessage
  <2>6. r \in NodeStates
    BY <1>2, <1>4, <2>2, <2>5 DEF NodeStates
  <2> QED BY <1>4, <2>2, <2>4, <2>6 DEF GoesOn, Advances, CountsVotes
<1> QED BY <1>5, <1>6

\* A handler that goes on to state r, and a leader only as the only voter.
LEMMA BecomesInv ==
  ASSUME IInv, NEW id \in Nodes, NEW r, GoesOn(id, r), Becomes(id, r),
         r.state = "Leader" /\ node[id].state # "Leader" => voters = {id}
  PROVE  IInv'
<1>1. Records(id)
  <2>1. CASE r.state = "Leader" /\ node[id].state # "Leader"
    <3>1. Supported(r.term, id)
      BY <2>1 DEF Supported
    <3>2. r.term \in Nat
      BY DEF GoesOn, NodeStates
    <3> QED BY <2>1, <3>1, <3>2 DEF Records, Becomes
  <2>2. CASE ~(r.state = "Leader" /\ node[id].state # "Leader")
    BY <2>2 DEF Records, Becomes
  <2> QED BY <2>1, <2>2
<1> QED BY <1>1, GoesOnInv DEF Becomes

-----------------------------------------------------------------------------
(* The actions. *)

LEMMA MsgHupInv ==
  ASSUME IInv, NEW id \in Nodes, MsgHup(id)
  PROVE  IInv'
<1>1. id \in voters
  BY DEF MsgHup
<1>2. PICK r : r = Campaign(node[id], id)
  OBVIOUS
<1>3. GoesOn(id, r) /\ (r.state = "Leader" => voters = {id})
  <2>1. CASE id \in PreVoters
    BY <1>1, <1>2, <2>1, CampaignPreElectionGoesOn DEF Campaign
  <2>2. CASE id \notin PreVoters
    BY <1>1, <1>2, <2>2, CampaignElectionGoesOn, NodeTypes DEF Campaign
  <2> QED BY <2>1, <2>2
<1> QED BY <1>2, <1>3, BecomesInv DEF MsgHup

LEMMA RestartInv ==
  ASSUME IInv, NEW id \in Nodes, Restart(id)
  PROVE  IInv'
BY LoadedInv DEF Restart, Records

LEMMA SaveHardStateInv ==
  ASSUME IInv, NEW id \in Nodes, SaveHardState(id)
  PROVE  IInv'
<1>1. /\ stored \in [Nodes -> [term : Nat, vote : Nodes \cup {None}]]
      /\ stored' = [stored EXCEPT ![id] = HardState(id)]
      /\ HardState(id) \in [term : Nat, vote : Nodes \cup {None}]
      /\ UNCHANGED <<voters, last, node, net, elected>>
  BY NodeTypes DEF SaveHardState, HardState, IInv, TypeOK
<1>2. stored'[id] = HardState(id) /\ \A q \in Nodes \ {id} : stored'[q] = stored[q]
  BY <1>1
<1>3. TypeOK'
  BY <1>1 DEF IInv, TypeOK
<1>4. StoredBehind'
  <2>1. Advances(HardState(id), node[id])
    BY NodeTypes DEF Advances, HardState
  <2>2. \A q \in Nodes : Advances(stored'[q], node'[q])
    BY <1>1, <1>2, <2>1 DEF IInv, StoredBehind
  <2> QED BY <2>2 DEF StoredBehind, Advances
<1>5. Backed'
  <2>1. ASSUME NEW m \in net, IsVote(m)
        PROVE  Covers(stored'[m.from], m)
    <3>1. m \in Messages /\ m.from \in Nodes /\ m \in SentBy(m.from)
      BY MessageTypes DEF IInv, TypeOK, SentBy
    <3>2. CASE m.from = id
      <4>1. Covers(node[id], m)
        BY <2>1, <3>1, <3>2, SentIsCovered
      <4> QED BY <1>2, <3>2, <4>1 DEF Covers, HardState
    <3>3. CASE m.from # id
      BY <1>2, <2>1, <3>1, <3>3 DEF IInv, Backed
    <3> QED BY <3>2, <3>3
  <2>2. \A q \in Nodes : \A m \in node'[q].msgs : IsVote(m) => Covers(node'[q], m)
    BY <1>1 DEF IInv, Backed
  <2> QED BY <1>1, <2>1, <2>2 DEF Backed, Covers, IsVote, Choice
<1>6. \A q \in Nodes : SentBy(q)' = SentBy(q)
  BY <1>1 DEF SentBy
<1>7. OneChoice'
  BY <1>6 DEF IInv, OneChoice, IsVote, Choice
<1>8. AllSound'
  <2>1. \A m : Sound(m) => Sound(m)'
    BY <1>1 DEF Sound, VotedFor, IsRequest, Granted, NotBehind, IsVote, Choice
  <2> QED BY <1>6, <2>1 DEF IInv, AllSound
<1>9. (\A q \in Nodes : CountsVotes(q, node[q]))'
  BY <1>1 DEF IInv, CountsVotes, GrantedBy, Granted
<1>10. (\A e \in elected : Supported(e[1], e[2]))'
  BY <1>1 DEF IInv, Supported, VotedFor, NotBehind, Quorum, IsVote, Choice
<1> QED BY <1>3, <1>4, <1>5, <1>7, <1>8, <1>9, <1>10 DEF IInv

LEMMA SendMessagesInv ==
  ASSUME IInv, NEW id \in Nodes, SendMessages(id)
  PROVE  IInv'
<1>1. /\ stored[id] = HardState(id) /\ net' = net \cup node[id].msgs
      /\ node' = [node EXCEPT ![id].msgs = {}]
      /\ voters' = voters /\ last' = last /\ stored' = stored /\ elected' = elected
  BY DEF SendMessages
<1>2. /\ node \in [Nodes -> NodeStates] /\ node' \in [Nodes -> NodeStates]
      /\ node'[id] = [node[id] EXCEPT !.msgs = {}]
      /\ \A q \in Nodes \ {id} : node'[q] = node[q]
  <2>1. node \in [Nodes -> NodeStates]
    BY DEF IInv, TypeOK
  <2>2. [node[id] EXCEPT !.msgs = {}] \in NodeStates
    BY NodeTypes DEF NodeStates
  <2>3. node' = [node EXCEPT ![id] = [node[id] EXCEPT !.msgs = {}]]
    BY <1>1
  <2> QED BY <2>1, <2>2, <2>3
<1>3. /\ node'[id].state = node[id].state /\ node'[id].term = node[id].term
      /\ node'[id].vote = node[id].vote /\ node'[id].yes = node[id].yes /\ node'[id].msgs = {}
  BY <1>2, NodeTypes DEF NodeStates
<1>4. TypeOK'
  <2>1. net' \subseteq Messages
    BY <1>1, NodeTypes DEF IInv, TypeOK
  <2>2. \A q \in Nodes : \A m \in node'[q].msgs : m.from = q
    BY <1>2, <1>3, NodeTypes
  <2> QED BY <1>1, <1>2, <2>1, <2>2 DEF IInv, TypeOK
<1>5. StoredBehind'
  <2>1. ASSUME NEW q \in Nodes
        PROVE  Advances(stored[q], node'[q])
    <3>1. Advances(stored[q], node[q])
      BY DEF IInv, StoredBehind
    <3>2. node'[q].term = node[q].term /\ node'[q].vote = node[q].vote
      BY <1>2, <1>3
    <3> QED BY <3>1, <3>2 DEF Advances
  <2> QED BY <1>1, <2>1 DEF StoredBehind, Advances
<1>6. Backed'
  <2>1. ASSUME NEW m \in net', IsVote(m)
        PROVE  Covers(stored[m.from], m)
    <3>1. CASE m \in net
      BY <2>1, <3>1 DEF IInv, Backed
    <3>2. CASE m \in node[id].msgs
      <4>1. Covers(node[id], m) /\ m.from = id
        BY <2>1, <3>2, NodeTypes DEF IInv, Backed
      <4> QED BY <1>1, <4>1 DEF Covers, HardState
    <3> QED BY <1>1, <3>1, <3>2
  <2>2. \A q \in Nodes : \A m \in node'[q].msgs : IsVote(m) => Covers(node'[q], m)
    BY <1>2, <1>3 DEF IInv, Backed
  <2> QED BY <1>1, <2>1, <2>2 DEF Backed, Covers, IsVote, Choice
<1>7. \A q \in Nodes : SentBy(q)' = SentBy(q)
  <2>1. SentBy(id)' = SentBy(id)
    BY <1>1, <1>3, NodeTypes DEF SentBy
  <2>2. \A q \in Nodes \ {id} : SentBy(q)' = SentBy(q)
    BY <1>1, <1>2, NodeTypes DEF SentBy
  <2> QED BY <2>1, <2>2
<1>8. OneChoice'
  BY <1>7 DEF IInv, OneChoice, IsVote, Choice
<1>9. \A q, t, c : VotedFor(q, t, c) => VotedFor(q, t, c)'
  BY <1>1 DEF VotedFor, IsVote, Choice
<1>10. AllSound'
  <2>1. \A m : Sound(m) => Sound(m)'
    BY <1>1, <1>9 DEF Sound, IsRequest, Granted, NotBehind
  <2> QED BY <1>7, <2>1 DEF IInv, AllSound
<1>11. (\A q \in Nodes : CountsVotes(q, node[q]))'
  <2>1. \A q, t, c : GrantedBy(q, t, c) => GrantedBy(q, t, c)'
    BY <1>1 DEF GrantedBy, Granted
  <2>2. ASSUME NEW q \in Nodes
        PROVE  CountsVotes(q, node[q])'
    <3>1. CountsVotes(q, node[q])
      BY DEF IInv
    <3>2. node'[q].state = node[q].state /\ node'[q].yes = node[q].yes /\ node'[q].term = node[q].term
      BY <1>2, <1>3
    <3> QED BY <1>1, <2>1, <3>1, <3>2 DEF CountsVotes
  <2> QED BY <2>2
<1>12. (\A e \in elected : Supported(e[1], e[2]))'
  BY <1>1, <1>9 DEF IInv, Supported, NotBehind, Quorum
<1> QED BY <1>4, <1>5, <1>6, <1>8, <1>10, <1>11, <1>12 DEF IInv

-----------------------------------------------------------------------------
(* Messages. *)

LEMMA NetFacts ==
  ASSUME IInv, NEW m \in net
  PROVE  /\ m \in Messages /\ m.from \in Nodes /\ m.to \in Nodes /\ m.term \in Nat
         /\ Sound(m)
         /\ IsRequest(m) => m.to \in voters /\ m.last = last[m.from]
         /\ last[m.from] \in Lasts /\ last[m.to] \in Lasts
<1>1. m \in Messages /\ m.from \in Nodes /\ m.to \in Nodes /\ m.term \in Nat
  BY MessageTypes DEF IInv, TypeOK
<1>2. Sound(m)
  BY <1>1 DEF IInv, AllSound, SentBy
<1> QED BY <1>1, <1>2, NodeTypes DEF Sound

\* Node id once its rejection of m waits to be sent.
Rejecting(id, m) == Send(node[id], {Response(m, node[id].term, TRUE)})

LEMMA RejectsGoesOn ==
  ASSUME IInv, NEW m \in net, IsRequest(m), NEW id, id = m.to,
         NEW r, r = Rejecting(id, m)
  PROVE  GoesOn(id, r) /\ r.state = node[id].state
<1>1. id \in Nodes /\ id \in voters /\ m.from \in Nodes
  BY NetFacts
<1>2. PICK n \in NodeStates : n = node[id]
  BY <1>1, NodeTypes
<1>3. PICK w : w = Response(m, n.term, TRUE)
  OBVIOUS
<1>4. r = [state |-> n.state, term |-> n.term, vote |-> n.vote, yes |-> n.yes, no |-> n.no,
           msgs |-> n.msgs \cup {w}]
  BY <1>2, <1>3 DEF Rejecting, Send, NodeStates
<1>5. /\ n.state \in {"FOLLOWER", "PreCandidate", "Candidate", "Leader"} /\ n.term \in Nat
      /\ n.vote \in Nodes \cup {None} /\ n.yes \in SUBSET Nodes /\ n.no \in SUBSET Nodes
      /\ n.msgs \in SUBSET Messages
  BY DEF NodeStates
<1>6. /\ w \in Messages /\ w.from = id /\ w.reject = TRUE
      /\ w.type \in {"MsgRequestVoteResponse", "MsgRequestPreVoteResponse"}
  BY <1>1, <1>3, <1>5 DEF Response, ResponseType, Messages, ResponseMessages
<1>7. NewMessage(id, r, w)
  BY <1>1, <1>6 DEF NewMessage, Sound, IsRequest, Granted, IsVote
<1>8. r \in NodeStates
  <2>1. n.msgs \cup {w} \in SUBSET Messages
    BY <1>5, <1>6
  <2> QED BY <1>4, <1>5, <2>1 DEF NodeStates
<1>9. CountsVotes(id, r)
  <2>1. \A q \in Nodes : CountsVotes(q, node[q])
    BY DEF IInv
  <2> QED BY <1>1, <1>2, <1>4, <2>1 DEF CountsVotes
<1>10. /\ r.state = node[id].state /\ r.term = node[id].term
       /\ r.vote = node[id].vote /\ r.msgs = node[id].msgs \cup {w}
  BY <1>2, <1>4
<1>11. Advances(node[id], r)
  BY <1>2, <1>5, <1>10 DEF Advances
<1>12. \A x \in r.msgs : x \in node[id].msgs \/ NewMessage(id, r, x)
  BY <1>7, <1>10
<1> QED BY <1>8, <1>9, <1>10, <1>11, <1>12 DEF GoesOn

LEMMA RejectLowerTermInv ==
  ASSUME IInv, NEW m \in net, NEW id, id = m.to, RejectLowerTerm(id, m)
  PROVE  IInv'
<1>1. IsRequest(m) /\ id \in Nodes
  BY NetFacts DEF RejectLowerTerm, IsRequest
<1>2. PICK r : r = Rejecting(id, m)
  OBVIOUS
<1> QED BY <1>1, <1>2, RejectsGoesOn, BecomesInv DEF RejectLowerTerm, Rejecting

LEMMA RejectInv ==
  ASSUME IInv, NEW m \in net, NEW id, id = m.to, Reject(id, m)
  PROVE  IInv'
<1>1. IsRequest(m) /\ id \in Nodes
  BY NetFacts DEF Reject
<1>2. PICK r : r = Rejecting(id, m)
  OBVIOUS
<1> QED BY <1>1, <1>2, RejectsGoesOn, BecomesInv DEF Reject, Rejecting

LEMMA ApproveInv ==
  ASSUME IInv, NEW m \in net, NEW id, id = m.to, Approve(id, m)
  PROVE  IInv'
<1>1. /\ id \in Nodes /\ id \in voters /\ m.from \in Nodes /\ m.term \in Nat /\ IsRequest(m)
      /\ m.last = last[m.from] /\ last[m.from] \in Lasts /\ last[id] \in Lasts
  BY NetFacts DEF Approve
<1>2. PICK n \in NodeStates : n = node[id]
  BY <1>1, NodeTypes
<1>3. PICK w : w = Response(m, m.term, FALSE)
  OBVIOUS
<1>4. PICK v : v = IF m.type = "MsgRequestVote" THEN m.from ELSE n.vote
  OBVIOUS
<1>5. PICK r : r = [state |-> n.state, term |-> n.term, vote |-> v, yes |-> n.yes, no |-> n.no,
                    msgs |-> n.msgs \cup {w}]
  OBVIOUS
<1>6. Becomes(id, r)
  BY <1>2, <1>3, <1>4, <1>5 DEF Approve, Send, NodeStates
<1>7. m.term = n.term /\ CanVote(n, m) /\ UpToDate(m.last, last[id])
  BY <1>2 DEF Approve, VoteApproved
<1>8. n.term \in Nat /\ n.vote \in Nodes \cup {None}
  BY DEF NodeStates
<1>9. /\ w \in Messages /\ w.from = id /\ w.to = m.from /\ w.term = m.term /\ ~w.reject
      /\ w.type = IF m.type = "MsgRequestVote" THEN "MsgRequestVoteResponse"
                                              ELSE "MsgRequestPreVoteResponse"
  BY <1>1, <1>3 DEF Response, ResponseType, Messages, ResponseMessages
<1>10. NewMessage(id, r, w)
  <2>1. NotBehind(last[m.from], last[id])
    BY <1>1, <1>7 DEF NotBehind, UpToDate
  <2>2. m.type = "MsgRequestVote" => VotedFor(m.from, m.term, m.from)
    BY DEF VotedFor, IsVote, Choice
  <2>3. Granted(w) => m.type = "MsgRequestVote"
    BY <1>9 DEF Granted
  <2>4. Sound(w)
    BY <1>1, <1>9, <2>1, <2>2, <2>3 DEF Sound, IsRequest
  <2>5. IsVote(w) => w.term = r.term /\ Choice(w) = r.vote
    BY <1>4, <1>5, <1>7, <1>9 DEF IsVote, Choice
  <2> QED BY <1>9, <2>4, <2>5 DEF NewMessage
<1>11. r \in NodeStates
  BY <1>1, <1>4, <1>5, <1>8, <1>9 DEF NodeStates
<1>12. Advances(n, r)
  BY <1>4, <1>5, <1>7, <1>8 DEF Advances, CanVote
<1>13. CountsVotes(id, r)
  <2>1. CountsVotes(id, n)
    BY <1>1, <1>2 DEF IInv
  <2> QED BY <1>5, <2>1 DEF CountsVotes
<1>14. GoesOn(id, r)
  BY <1>2, <1>5, <1>10, <1>11, <1>12, <1>13 DEF GoesOn
<1> QED BY <1>1, <1>2, <1>5, <1>6, <1>14, BecomesInv

LEMMA CountVoteInv ==
  ASSUME IInv, NEW m \in net, NEW id, id = m.to, CountVote(id, m)
  PROVE  IInv'
<1>1. id \in Nodes /\ m.from \in Nodes /\ m.term \in Nat /\ m \in Messages /\ Sound(m)
  BY NetFacts
<1>2. PICK n \in NodeStates : n = node[id]
  BY <1>1, NodeTypes
<1>3. PICK s : s = RegisterVote(n, m.from, ~m.reject)
  OBVIOUS
<1>4. ~IsRequest(m) /\ AtTerm(n, m) /\ Awaits(n, m) /\ m.from \in voters
  BY <1>1, <1>2 DEF CountVote, Sound
<1>5. /\ s \in NodeStates /\ s.state = n.state /\ s.term = n.term /\ s.vote = n.vote
      /\ s.msgs = n.msgs /\ s.yes \subseteq n.yes \cup (IF m.reject THEN {} ELSE {m.from})
  BY <1>1, <1>3 DEF RegisterVote, NodeStates
<1>6. n.term \in Nat /\ n.vote \in Nodes \cup {None}
  BY DEF NodeStates
<1>7. id \in voters
  BY <1>1, <1>2, <1>4 DEF IInv, CountsVotes, Awaits
<1>8. CountsVotes(id, s)
  <2>1. CASE s.state = "Candidate"
    <3>1. \A q \in n.yes \ {id} : GrantedBy(q, n.term, id)
      BY <1>1, <1>2, <1>5, <2>1 DEF IInv, CountsVotes
    <3>2. m.type = "MsgRequestVoteResponse" /\ m.term = n.term
      BY <1>4, <1>5, <2>1 DEF Awaits, AtTerm, PreVoteGranted
    <3>3. ~m.reject => GrantedBy(m.from, n.term, id)
      BY <3>2 DEF GrantedBy, Granted
    <3> QED BY <1>5, <1>7, <3>1, <3>3 DEF CountsVotes
  <2>2. CASE s.state # "Candidate"
    BY <1>7, <2>2 DEF CountsVotes
  <2> QED BY <2>1, <2>2
<1>9. GoesOn(id, s)
  BY <1>2, <1>5, <1>6, <1>8 DEF GoesOn, Advances
<1>10. CASE IsElected(s) /\ s.state = "PreCandidate" /\ Becomes(id, CampaignElection(s, id))
  <2>1. PICK r : r = CampaignElection(s, id)
    OBVIOUS
  <2>2. GoesOn(id, r) /\ (r.state = "Leader" => voters = {id})
    BY <1>1, <1>2, <1>5, <1>7, <2>1, CampaignElectionGoesOn
  <2> QED BY <1>1, <1>10, <2>1, <2>2, BecomesInv
<1>11. CASE /\ IsElected(s) /\ s.state = "Candidate"
            /\ node' = [node EXCEPT ![id] = Loaded(id)]
            /\ elected' = elected \cup {<<s.term, id>>}
            /\ UNCHANGED <<voters, last, stored, net>>
  <2>1. Supported(s.term, id)
    <3>1. ASSUME NEW q \in s.yes \ {id}
          PROVE  /\ VotedFor(q, s.term, id) /\ VotedFor(id, s.term, id)
                 /\ NotBehind(last[id], last[q]) /\ q \in voters
      <4>1. PICK g \in net : Granted(g) /\ g.from = q /\ g.to = id /\ g.term = s.term
        BY <1>8, <1>11 DEF CountsVotes, GrantedBy
      <4>2. ~IsRequest(g) /\ IsVote(g) /\ Choice(g) = id
        BY <4>1 DEF Granted, IsRequest, IsVote, Choice
      <4>3. Sound(g)
        BY NetFacts
      <4> QED BY <4>1, <4>2, <4>3 DEF Sound, VotedFor
    <3>2. CASE s.yes \subseteq {id}
      <4>0. IsFiniteSet({id}) /\ Cardinality({id}) = 1
        BY FS_Singleton
      <4>1. IsFiniteSet(s.yes) /\ Cardinality(s.yes) <= 1
        BY <3>2, <4>0, FS_Subset
      <4>2. Quorum <= 1
        <5>1. Cardinality(s.yes) \in Nat
          BY <4>1, FS_CardinalityType
        <5> QED BY <1>11, <4>1, <5>1, VotersFacts DEF IsElected
      <4> QED BY <1>7, <4>2, OwnVoteElects DEF Supported
    <3>3. CASE ~(s.yes \subseteq {id})
      <4>1. VotedFor(id, s.term, id)
        BY <3>1, <3>3
      <4>2. s.yes \in SUBSET voters
        BY <1>7, <3>1
      <4>3. NotBehind(last[id], last[id])
        <5>1. last[id] \in Nat \X Nat
          BY <1>1, NodeTypes
        <5> QED BY <5>1 DEF NotBehind
      <4>4. \A q \in s.yes : VotedFor(q, s.term, id) /\ NotBehind(last[id], last[q])
        BY <3>1, <4>1, <4>3
      <4> QED BY <1>7, <1>11, <4>2, <4>4 DEF Supported, IsElected
    <3> QED BY <3>2, <3>3
  <2>2. Records(id)
    BY <1>5, <1>6, <1>11, <2>1 DEF Records
  <2> QED BY <1>1, <1>11, <2>2, LoadedInv
<1>12. CASE IsIneligible(s) /\ Becomes(id, BecomeFollower(s, s.term))
  <2>1. PICK r : r = BecomeFollower(s, s.term)
    OBVIOUS
  <2>2. r = [state |-> "FOLLOWER", term |-> s.term, vote |-> s.vote, yes |-> {}, no |-> {},
             msgs |-> s.msgs]
    BY <1>5, <2>1 DEF BecomeFollower, Reset, NodeStates
  <2>3. GoesOn(id, r)
    BY <1>2, <1>5, <1>6, <2>2 DEF GoesOn, Advances, CountsVotes, NodeStates
  <2> QED BY <1>1, <1>12, <2>1, <2>2, <2>3, BecomesInv
<1>13. CASE IsEligible(s) /\ Becomes(id, s)
  BY <1>1, <1>2, <1>5, <1>9, <1>13, BecomesInv
<1> QED BY <1>2, <1>3, <1>10, <1>11, <1>12, <1>13 DEF CountVote

LEMMA NextInv ==
  ASSUME IInv, [Next]_vars
  PROVE  IInv'
<1>1. ASSUME NEW id \in Nodes, MsgHup(id) PROVE IInv'
  BY <1>1, MsgHupInv
<1>2. ASSUME NEW id \in Nodes, LeaderTick(id) PROVE IInv'
  BY <1>2, RestartInv DEF LeaderTick
<1>3. ASSUME NEW id \in Nodes, SaveHardState(id) PROVE IInv'
  BY <1>3, SaveHardStateInv
<1>4. ASSUME NEW id \in Nodes, SendMessages(id) PROVE IInv'
  BY <1>4, SendMessagesInv
<1>5. ASSUME NEW id \in Nodes, Restart(id) PROVE IInv'
  BY <1>5, RestartInv
<1>6. ASSUME NEW m \in net, Step(m.to, m) PROVE IInv'
  <2>1. PICK id \in Nodes : id = m.to
    BY NetFacts
  <2>2. CASE RejectLowerTerm(id, m)
    BY <2>1, <2>2, RejectLowerTermInv
  <2>3. CASE Approve(id, m)
    BY <2>1, <2>3, ApproveInv
  <2>4. CASE Reject(id, m)
    BY <2>1, <2>4, RejectInv
  <2>5. CASE CountVote(id, m)
    BY <2>1, <2>5, CountVoteInv
  <2>6. CASE Unimplemented(id, m)
    BY <2>1, <2>6, RestartInv DEF Unimplemented
  <2> QED BY <1>6, <2>1, <2>2, <2>3, <2>4, <2>5, <2>6 DEF Step
<1>7. CASE UNCHANGED vars
  <2>1. /\ voters' = voters /\ last' = last /\ node' = node /\ stored' = stored /\ net' = net
        /\ elected' = elected
    BY <1>7 DEF vars
  <2>2. TypeOK' /\ StoredBehind'
    BY <2>1 DEF IInv, TypeOK, StoredBehind, Advances
  <2>3. Backed'
    BY <2>1 DEF IInv, Backed, Covers, IsVote, Choice
  <2>4. \A q \in Nodes : SentBy(q)' = SentBy(q)
    BY <2>1 DEF SentBy
  <2>5. OneChoice'
    BY <2>4 DEF IInv, OneChoice, IsVote, Choice
  <2>6. AllSound'
    <3>1. \A m : Sound(m) => Sound(m)'
      BY <2>1 DEF Sound, VotedFor, IsRequest, Granted, NotBehind, IsVote, Choice
    <3> QED BY <2>4, <3>1 DEF IInv, AllSound
  <2>7. (\A q \in Nodes : CountsVotes(q, node[q]))'
    BY <2>1 DEF IInv, CountsVotes, GrantedBy, Granted
  <2>8. (\A e \in elected : Supported(e[1], e[2]))'
    BY <2>1 DEF IInv, Supported, VotedFor, NotBehind, Quorum, IsVote, Choice
  <2> QED BY <2>2, <2>3, <2>5, <2>6, <2>7, <2>8 DEF IInv
<1> QED BY <1>1, <1>2, <1>3, <1>4, <1>5, <1>6, <1>7 DEF Next

LEMMA InitInv ==
  ASSUME Init
  PROVE  IInv
<1>1. /\ stored \in [Nodes -> [term : Nat, vote : {None}]]
      /\ node = [n \in Nodes |-> Loaded(n)] /\ net = {} /\ elected = {}
      /\ voters \in (SUBSET Nodes) \ {{}} /\ last \in [Nodes -> Lasts]
  BY DEF Init
<1>2. ASSUME NEW id \in Nodes
      PROVE  /\ node[id] \in NodeStates /\ node[id].msgs = {} /\ node[id].state = "FOLLOWER"
             /\ node[id].term = stored[id].term /\ node[id].vote = None /\ stored[id].vote = None
             /\ stored[id].term \in Nat
  <2>1. stored[id].term \in Nat /\ stored[id].vote = None
    BY <1>1
  <2>2. node[id] = [state |-> "FOLLOWER", term |-> stored[id].term, vote |-> None,
                    yes |-> {}, no |-> {}, msgs |-> {}]
    BY <1>1, <2>1 DEF Loaded
  <2> QED BY <2>1, <2>2 DEF NodeStates
<1>3. TypeOK
  <2>1. node \in [Nodes -> NodeStates]
    BY <1>1, <1>2
  <2>2. stored \in [Nodes -> [term : Nat, vote : Nodes \cup {None}]]
    BY <1>1
  <2> QED BY <1>1, <1>2, <2>1, <2>2 DEF TypeOK
<1> QED BY <1>1, <1>2, <1>3
    DEF IInv, StoredBehind, Advances, Backed, OneChoice, AllSound, SentBy, CountsVotes

-----------------------------------------------------------------------------
(* The theorems. *)

\* The invariant is inductive.
THEOREM Invariance ==
  Spec => []IInv
<1>1. Init => IInv
  BY InitInv
<1>2. IInv /\ [Next]_vars => IInv'
  BY NextInv
<1> QED BY <1>1, <1>2, PTL DEF Spec

\* The state is well typed.
THEOREM TypeCorrect ==
  Spec => []TypeOK
<1>1. IInv => TypeOK
  BY DEF IInv
<1> QED BY <1>1, Invariance, PTL

\* A node votes once in a term, over any number of restarts (raft.rs:770).
THEOREM VotesOnce ==
  Spec => []VoteOnce
<1>1. IInv => VoteOnce
  <2> SUFFICES ASSUME IInv, NEW m \in net, NEW w \in net,
                      IsVote(m), IsVote(w), m.from = w.from, m.term = w.term
               PROVE  Choice(m) = Choice(w)
    BY DEF VoteOnce
  <2>1. m.from \in Nodes /\ m \in SentBy(m.from) /\ w \in SentBy(m.from)
    BY NetFacts DEF SentBy
  <2> QED BY <2>1 DEF IInv, OneChoice
<1> QED BY <1>1, Invariance, PTL

\* A term has one leader at most (README.md:41), in a cluster of any size.
THEOREM OneLeaderPerTerm ==
  Spec => []ElectionSafety
<1>1. IInv => ElectionSafety
  <2> SUFFICES ASSUME IInv, NEW e \in elected, NEW f \in elected, e[1] = f[1]
               PROVE  e[2] = f[2]
    BY DEF ElectionSafety
  <2>1. Supported(e[1], e[2]) /\ Supported(e[1], f[2])
    BY DEF IInv
  <2>2. CASE voters = {e[2]} \/ voters = {f[2]}
    BY <2>1, <2>2 DEF Supported
  <2>3. CASE ~(voters = {e[2]} \/ voters = {f[2]})
    <3>1. PICK Q \in SUBSET voters : /\ Cardinality(Q) >= Quorum
                                     /\ \A q \in Q : VotedFor(q, e[1], e[2])
      BY <2>1, <2>3 DEF Supported
    <3>2. PICK R \in SUBSET voters : /\ Cardinality(R) >= Quorum
                                     /\ \A q \in R : VotedFor(q, e[1], f[2])
      BY <2>1, <2>3 DEF Supported
    <3>3. Cardinality(Q) \in Nat /\ Cardinality(R) \in Nat
      BY VotersFacts, FS_Subset, FS_CardinalityType
    <3>4. Cardinality(Q) + Cardinality(R) > Cardinality(voters)
      BY <3>1, <3>2, <3>3, VotersFacts
    <3>5. PICK q : q \in Q /\ q \in R
      BY <3>4, VotersFacts, FS_MajoritiesIntersect
    <3>6. VotedFor(q, e[1], e[2]) /\ VotedFor(q, e[1], f[2])
      BY <3>1, <3>2, <3>5
    <3>7. PICK m \in net, w \in net : /\ IsVote(m) /\ m.from = q /\ m.term = e[1] /\ Choice(m) = e[2]
                                      /\ IsVote(w) /\ w.from = q /\ w.term = e[1] /\ Choice(w) = f[2]
      BY <3>6 DEF VotedFor
    <3>8. m \in SentBy(q) /\ w \in SentBy(q) /\ q \in Nodes
      BY <3>7, NetFacts DEF SentBy
    <3> QED BY <3>7, <3>8 DEF IInv, OneChoice
  <2> QED BY <2>2, <2>3
<1> QED BY <1>1, Invariance, PTL

\* A leader's log is at least as up to date as those of a majority of the
\* voters (raft.rs:826).
THEOREM LeadersAreUpToDate ==
  Spec => []LeaderIsUpToDate
<1>1. IInv => LeaderIsUpToDate
  <2> SUFFICES ASSUME IInv, NEW e \in elected
               PROVE  \E Q \in SUBSET voters :
                        /\ Cardinality(Q) >= Quorum
                        /\ \A q \in Q : NotBehind(last[e[2]], last[q])
    BY DEF LeaderIsUpToDate
  <2>1. Supported(e[1], e[2])
    BY DEF IInv
  <2>2. CASE voters = {e[2]}
    <3>1. Quorum = 1 /\ Cardinality(voters) = 1
      <4>1. Cardinality(voters) = 1
        BY <2>2, FS_Singleton
      <4>2. Majority(1) = 1
        BY DEF Majority
      <4> QED BY <4>1, <4>2 DEF Quorum
    <3>2. e[2] \in Nodes
      BY <2>2, VotersFacts
    <3>3. last[e[2]] \in Nat \X Nat
      BY <3>2, NodeTypes
    <3>4. NotBehind(last[e[2]], last[e[2]])
      BY <3>3 DEF NotBehind
    <3> QED BY <2>2, <3>1, <3>4
  <2>3. CASE voters # {e[2]}
    BY <2>1, <2>3 DEF Supported
  <2> QED BY <2>2, <2>3
<1> QED BY <1>1, Invariance, PTL

\* No crash, panic or late message makes the stored hard state forget a term
\* or a vote (raft.rs:484, 1164).
THEOREM HardStateIsKept ==
  Spec => HardStateKeepsVotes
<1>1. ASSUME IInv, [Next]_vars
      PROVE  \A id \in Nodes : Advances(stored[id], stored'[id])
  <2>1. \A id \in Nodes : Advances(stored[id], stored[id])
    BY <1>1, NodeTypes DEF Advances
  <2>2. ASSUME NEW id \in Nodes, SaveHardState(id)
        PROVE  \A q \in Nodes : Advances(stored[q], stored'[q])
    <3>1. Advances(stored[id], HardState(id))
      BY <1>1 DEF IInv, StoredBehind, Advances, HardState
    <3> QED BY <1>1, <2>1, <2>2, <3>1 DEF SaveHardState, IInv, TypeOK
  <2>3. CASE stored' = stored
    BY <2>1, <2>3
  <2> QED BY <1>1, <2>2, <2>3
      DEF Next, Step, vars, MsgHup, LeaderTick, SendMessages, Restart, RejectLowerTerm, Approve,
          Reject, CountVote, Unimplemented, Becomes
<1>2. IInv /\ [Next]_vars
        => [\A id \in Nodes :
              /\ stored[id].term <= stored'[id].term
              /\ stored[id].term = stored'[id].term /\ stored[id].vote # None
                   => stored'[id].vote = stored[id].vote]_vars
  BY <1>1 DEF Advances
<1> QED BY <1>2, Invariance, PTL DEF Spec, HardStateKeepsVotes
=============================================================================
