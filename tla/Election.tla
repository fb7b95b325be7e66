------------------------------ MODULE Election ------------------------------
(***************************************************************************)
(* Elections of raft.rs: the nodes of one cluster, the application around  *)
(* each of them, and a network that loses, repeats and reorders messages.  *)
(*                                                                         *)
(* send() panics on every message but a vote request or answer that has no *)
(* term yet (raft.rs:327), so these are the only messages there are.  A    *)
(* panic ends the process; the application starts it again from the hard   *)
(* state in its storage.  leader_id is set on a leader only.  The timers   *)
(* are abstracted: an election timeout may pass at any time.               *)
(***************************************************************************)
EXTENDS Integers, FiniteSets

CONSTANTS
  Nodes,            \* the members of the cluster, voters and learners
  None,             \* INVALID_ID
  InitTerms,        \* the terms the nodes may start with
  MaxTerm,          \* bound: no election is started beyond this term
  Lasts,            \* the <<last_term, last_index>> the logs may have
  PreVoters         \* the nodes with Config.pre_vote

ASSUME NodesAssumption == IsFiniteSet(Nodes) /\ None \notin Nodes
ASSUME TermAssumption == InitTerms \subseteq Nat /\ MaxTerm \in Nat
ASSUME LastsAssumption == Lasts \subseteq Nat \X Nat
ASSUME OptionAssumption == PreVoters \subseteq Nodes

VARIABLES
  voters,   \* Configuration.voters, the same on every node
  last,     \* last_term and last_index of each log
  node,     \* state, term, vote, votes and msgs of each Raft
  stored,   \* term and vote of each stored HardState
  net,      \* every message sent
  elected   \* history: the <<term, node>> of every become_leader

vars == <<voters, last, node, stored, net, elected>>
-----------------------------------------------------------------------------
(* Messages.  A response carries no more than its sender's verdict. *)

\* Mutant: the sender and the receiver are swapped.
RequestSwapped(type, t, from, to) ==
  [type |-> type, term |-> t, from |-> to, to |-> from, last |-> last[from]]
Request(type, t, from, to) ==
  [type |-> type, term |-> t, from |-> from, to |-> to, last |-> last[from]]

ResponseType(type) ==
  IF type = "MsgRequestVote" THEN "MsgRequestVoteResponse" ELSE "MsgRequestPreVoteResponse"

Response(m, t, reject) ==
  [type |-> ResponseType(m.type), term |-> t, from |-> m.to, to |-> m.from, reject |-> reject]

IsRequest(m) == m.type \in {"MsgRequestVote", "MsgRequestPreVote"}

Send(s, ms) == [s EXCEPT !.msgs = @ \cup ms]
-----------------------------------------------------------------------------
(* The methods of Raft, on the state s of one node.  Of votes, yes are the *)
(* nodes that accepted and no those that rejected.                         *)

\* Mutant: half of the voters, not more than half.
HalfOf(total) == total \div 2
Majority(total) == (total \div 2) + 1

Reset(s, t) ==
  [s EXCEPT !.term = t, !.vote = IF s.term = t THEN @ ELSE None, !.yes = {}, !.no = {}]

BecomeFollower(s, t) == [Reset(s, t) EXCEPT !.state = "FOLLOWER"]

BecomeCandidate(s, id) ==
  [Reset(s, s.term + 1) EXCEPT !.vote = id, !.state = "Candidate"]

BecomePreCandidate(s) == [s EXCEPT !.state = "PreCandidate", !.yes = {}, !.no = {}]

\* The entry it appends is not in the log any more when the next request is
\* compared with it: the leader of a cluster of several voters panics first.
BecomeLeader(s) == [Reset(s, s.term) EXCEPT !.state = "Leader"]

\* The first answer of a node counts.
RegisterVote(s, id, accepted) ==
  IF id \in s.yes \cup s.no THEN s
  ELSE IF accepted THEN [s EXCEPT !.yes = @ \cup {id}]
  ELSE [s EXCEPT !.no = @ \cup {id}]

\* candidacy_status counts every registered vote.  A quorum of rejections is
\* Eligible, and no quorum yet is Ineligible.
Quorum == Majority(Cardinality(voters))
IsElected(s) == Cardinality(s.yes) >= Quorum
IsEligible(s) == ~IsElected(s) /\ Cardinality(s.no) = Quorum
IsIneligible(s) == ~IsElected(s) /\ ~IsEligible(s)

CampaignElection(s, id) ==
  LET c == RegisterVote(BecomeCandidate(s, id), id, TRUE)
  IN  IF IsElected(c) THEN BecomeLeader(c)
      ELSE Send(c, {Request("MsgRequestVote", c.term, id, v) : v \in voters \ {id}})

CampaignPreElection(s, id) ==
  LET c == RegisterVote(BecomePreCandidate(s), id, TRUE)
  IN  IF IsElected(c) THEN CampaignElection(c, id)
      ELSE Send(c, {Request("MsgRequestPreVote", c.term + 1, id, v) : v \in voters \ {id}})

Campaign(s, id) == IF id \in PreVoters THEN CampaignPreElection(s, id) ELSE CampaignElection(s, id)

\* is_up_to_date(a) of a log whose last entry is b.
\* Mutant: the longer log wins whatever its last term.
LongerLog(a, b) == a[2] >= b[2]
UpToDate(a, b) == a[1] > b[1] \/ (a[1] = b[1] /\ a[2] >= b[2])

\* Mutant: a vote given to another node is not looked at.
CanAlwaysVote(s, m) == s.state # "Leader"
CanVote(s, m) ==
  \/ s.vote = m.from
  \/ s.vote = None /\ s.state # "Leader"
  \/ m.type = "MsgRequestPreVote" /\ m.term > s.term
-----------------------------------------------------------------------------
(* What the application and the restarts do. *)

\* Raft::new with the stored hard state.
\* Mutant: load_state restores the term and not the vote.
LoadedWithoutVote(id) ==
  [state |-> "FOLLOWER", term |-> stored[id].term, vote |-> None,
   yes |-> {}, no |-> {}, msgs |-> {}]
Loaded(id) ==
  [state |-> "FOLLOWER", term |-> stored[id].term, vote |-> stored[id].vote,
   yes |-> {}, no |-> {}, msgs |-> {}]

HardState(id) == [term |-> node[id].term, vote |-> node[id].vote]

Init ==
  /\ voters \in (SUBSET Nodes) \ {{}}
  /\ last \in [Nodes -> Lasts]
  /\ stored \in [Nodes -> [term : InitTerms, vote : {None}]]
  /\ node = [n \in Nodes |-> Loaded(n)]
  /\ net = {}
  /\ elected = {}

\* Node id is in state s, which is recorded if it just became leader.
Becomes(id, s) ==
  /\ node' = [node EXCEPT ![id] = s]
  /\ elected' = IF s.state = "Leader" /\ node[id].state # "Leader"
                  THEN elected \cup {<<s.term, id>>} ELSE elected
  /\ UNCHANGED <<voters, last, stored, net>>

\* The process ends, by a crash or a panic, and is started again.
Restart(id) ==
  /\ node' = [node EXCEPT ![id] = Loaded(id)]
  /\ UNCHANGED <<voters, last, stored, net, elected>>

SaveHardState(id) ==
  /\ stored' = [stored EXCEPT ![id] = HardState(id)]
  /\ UNCHANGED <<voters, last, node, net, elected>>

\* Messages go out once the hard state they speak of is stored.
SendMessages(id) ==
  /\ stored[id] = HardState(id)
  /\ net' = net \cup node[id].msgs
  /\ node' = [node EXCEPT ![id].msgs = {}]
  /\ UNCHANGED <<voters, last, stored, elected>>

-----------------------------------------------------------------------------
(* step(). *)

\* MsgHup comes from tick_election, which asks promotable().
MsgHup(id) ==
  /\ id \in voters
  /\ node[id].state # "Leader"
  /\ node[id].term < MaxTerm
  /\ Becomes(id, Campaign(node[id], id))

\* MsgBeat or MsgCheckQuorum: step_leader is not implemented.
LeaderTick(id) ==
  /\ node[id].state = "Leader"
  /\ Restart(id)

\* A pre-vote request of an older term is answered with the newer one.
RejectLowerTerm(id, m) ==
  /\ m.type = "MsgRequestPreVote" /\ m.term < node[id].term
  /\ Becomes(id, Send(node[id], {Response(m, node[id].term, TRUE)}))

\* A request of a higher term is dropped (raft.rs:721), so only those of the
\* node's own term are decided.
VoteApproved(s, id, m) == CanVote(s, m) /\ UpToDate(m.last, last[id])

Approve(id, m) ==
  /\ IsRequest(m) /\ m.term = node[id].term
  /\ VoteApproved(node[id], id, m)
  /\ LET s == Send(node[id], {Response(m, m.term, FALSE)})
     IN  Becomes(id, IF m.type = "MsgRequestVote" THEN [s EXCEPT !.vote = m.from] ELSE s)

Reject(id, m) ==
  /\ IsRequest(m) /\ m.term = node[id].term
  /\ ~VoteApproved(node[id], id, m)
  /\ Becomes(id, Send(node[id], {Response(m, node[id].term, TRUE)}))

\* A pre-vote is given at the term asked about, above the candidate's own.
PreVoteGranted(m) == m.type = "MsgRequestPreVoteResponse" /\ ~m.reject

\* An answer that does not make the node follow its term first.
AtTerm(s, m) == m.term = s.term \/ (m.term > s.term /\ PreVoteGranted(m))

Awaits(s, m) == \/ s.state = "PreCandidate" /\ m.type = "MsgRequestPreVoteResponse"
                \/ s.state = "Candidate" /\ m.type = "MsgRequestVoteResponse"

\* step_candidate.  bcast_append panics in send() when there is a peer to send
\* to, and here there is one: the node that answered.
CountVote(id, m) ==
  /\ ~IsRequest(m) /\ AtTerm(node[id], m) /\ Awaits(node[id], m)
  /\ LET s == RegisterVote(node[id], m.from, ~m.reject) IN
     \/ /\ IsElected(s) /\ s.state = "PreCandidate"
        /\ Becomes(id, CampaignElection(s, id))
     \/ /\ IsElected(s) /\ s.state = "Candidate"
        /\ node' = [node EXCEPT ![id] = Loaded(id)]
        /\ elected' = elected \cup {<<s.term, id>>}
        /\ UNCHANGED <<voters, last, stored, net>>
     \/ IsIneligible(s) /\ Becomes(id, BecomeFollower(s, s.term))
     \/ IsEligible(s) /\ Becomes(id, s)

\* step_follower and step_leader are not implemented; an answer of a higher
\* term makes the node a follower first.
Unimplemented(id, m) ==
  /\ ~IsRequest(m)
  /\ \/ AtTerm(node[id], m) /\ node[id].state \in {"FOLLOWER", "Leader"}
     \/ m.term > node[id].term /\ ~PreVoteGranted(m)
  /\ Restart(id)

\* Every other message leaves the node as it is.
Step(id, m) ==
  \/ RejectLowerTerm(id, m)
  \/ Approve(id, m)
  \/ Reject(id, m)
  \/ CountVote(id, m)
  \/ Unimplemented(id, m)

Next ==
  \/ \E id \in Nodes : \/ MsgHup(id)
                       \/ LeaderTick(id)
                       \/ SaveHardState(id)
                       \/ SendMessages(id)
                       \/ Restart(id)
  \/ \E m \in net : Step(m.to, m)

Spec == Init /\ [][Next]_vars

\* Messages arrive and the application does its part; no timeout need pass and
\* no node need fail.
Fairness ==
  /\ \A id \in Nodes : WF_vars(SaveHardState(id)) /\ WF_vars(SendMessages(id))
  /\ \A id \in Nodes : WF_vars(\E m \in net : m.to = id /\ Step(id, m))

FairSpec == Spec /\ Fairness
-----------------------------------------------------------------------------
Terms == 0..MaxTerm

RequestMessages ==
  [type : {"MsgRequestVote", "MsgRequestPreVote"}, term : Nat, from : Nodes, to : Nodes,
   last : Lasts]
ResponseMessages ==
  [type : {"MsgRequestVoteResponse", "MsgRequestPreVoteResponse"}, term : Nat,
   from : Nodes, to : Nodes, reject : BOOLEAN]
Messages == RequestMessages \cup ResponseMessages

NodeStates ==
  [state : {"FOLLOWER", "PreCandidate", "Candidate", "Leader"}, term : Nat,
   vote : Nodes \cup {None}, yes : SUBSET Nodes, no : SUBSET Nodes, msgs : SUBSET Messages]

\* The state is well typed, and a node speaks for itself.
TypeOK ==
  /\ voters \in (SUBSET Nodes) \ {{}}
  /\ last \in [Nodes -> Lasts]
  /\ node \in [Nodes -> NodeStates]
  /\ stored \in [Nodes -> [term : Nat, vote : Nodes \cup {None}]]
  /\ net \in SUBSET Messages
  /\ elected \in SUBSET (Nat \X Nodes)
  /\ \A id \in Nodes : \A m \in node[id].msgs : m.from = id

\* Election Safety (README.md:41): a term has one leader at most, whatever is
\* lost, repeated or delayed and whoever restarts in the middle of the term.
ElectionSafety ==
  \A e, f \in elected : e[1] = f[1] => e[2] = f[2]

\* A request commits a candidate to itself, a granted one its sender.
IsVote(m) == \/ m.type = "MsgRequestVote"
             \/ m.type = "MsgRequestVoteResponse" /\ ~m.reject
Choice(m) == IF m.type = "MsgRequestVote" THEN m.from ELSE m.to

\* A node votes once in a term (raft.rs:770, 824): the votes the network has
\* seen of it are for one candidate, over any number of restarts and repeated
\* requests.
VoteOnce ==
  \A m, w \in net : IsVote(m) /\ IsVote(w) /\ m.from = w.from /\ m.term = w.term
                      => Choice(m) = Choice(w)

VotedFor(q, t, id) ==
  \E m \in net : IsVote(m) /\ m.from = q /\ m.term = t /\ Choice(m) = id

\* The election restriction (raft.rs:826): a leader's log is at least as up to
\* date as those of a majority of the voters, so it has every committed entry.
NotBehind(a, b) == b[1] < a[1] \/ (b[1] = a[1] /\ b[2] <= a[2])
LeaderIsUpToDate ==
  \A e \in elected :
    \E Q \in SUBSET voters : /\ Cardinality(Q) >= Quorum
                             /\ \A q \in Q : NotBehind(last[e[2]], last[q])

\* What is stored never goes back to an older term, and never to another vote
\* of the same term (raft.rs:278, 484, 1164).
HardStateKeepsVotes ==
  [][\A id \in Nodes :
       /\ stored[id].term <= stored'[id].term
       /\ stored[id].term = stored'[id].term /\ stored[id].vote # None
            => stored'[id].vote = stored[id].vote]_vars

-----------------------------------------------------------------------------
(* What README.md says of elections and the code does not do. *)

\* README.md:275-288, a candidate stops being one when it wins, when a leader
\* of the term appears, or at a timeout: not while its votes are undecided.
UndecidedStays ==
  [][\A m \in net :
       LET s == RegisterVote(node[m.to], m.from, ~m.reject) IN
       /\ CountVote(m.to, m)
       /\ node[m.to].state = "Candidate" /\ ~IsElected(s) /\ Cardinality(s.no) < Quorum
       /\ node'[m.to].msgs # {}      \* no restart, which would lose them
       => node'[m.to].state = "Candidate"]_vars

\* README.md:262, a request of a higher term makes its receiver adopt it.
HigherTermAdopted ==
  \A id \in Nodes, t \in Terms :
    (\E m \in net : m.to = id /\ m.term >= t /\ m.type = "MsgRequestVote")
      ~> (node[id].term >= t)
=============================================================================
