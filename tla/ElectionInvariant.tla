------------------------- MODULE ElectionInvariant --------------------------
(***************************************************************************)
(* Why ElectionSafety is inductive: a vote that is on the network is       *)
(* stored, what is stored is behind what the node knows by at most the     *)
(* votes it has not sent yet, and a leader's votes are on the network.     *)
(***************************************************************************)
EXTENDS Election

\* A hard state h that does not let its node take back the vote m.
Covers(h, m) == h.term > m.term \/ (h.term = m.term /\ h.vote = Choice(m))

\* A node in state s may go on to state r: it is not back in an older term, and
\* has not changed its vote.
Advances(s, r) == /\ s.term <= r.term
                  /\ s.term = r.term /\ s.vote # None => r.vote = s.vote

StoredBehind == \A id \in Nodes : Advances(stored[id], node[id])

Backed == /\ \A id \in Nodes : \A m \in node[id].msgs : IsVote(m) => Covers(node[id], m)
          /\ \A m \in net : IsVote(m) => Covers(stored[m.from], m)

SentBy(id) == {m \in net : m.from = id} \cup node[id].msgs

OneChoice ==
  \A id \in Nodes : \A m, w \in SentBy(id) :
    IsVote(m) /\ IsVote(w) /\ m.term = w.term => Choice(m) = Choice(w)

Granted(m) == m.type = "MsgRequestVoteResponse" /\ ~m.reject

\* What a message says besides the vote.  A candidate has sent, so stored, its
\* own vote before anyone grants it another.
Sound(m) ==
  /\ IsRequest(m) => m.to \in voters /\ m.last = last[m.from]
  /\ ~IsRequest(m) => m.from \in voters
  /\ Granted(m) => VotedFor(m.to, m.term, m.to) /\ NotBehind(last[m.to], last[m.from])

AllSound == \A id \in Nodes : \A m \in SentBy(id) : Sound(m)

GrantedBy(q, t, id) == \E m \in net : Granted(m) /\ m.from = q /\ m.to = id /\ m.term = t

\* Node id in state s: a candidate is a voter and counts votes it was granted.
CountsVotes(id, s) ==
  /\ s.state \in {"PreCandidate", "Candidate"} => id \in voters
  /\ s.state = "Candidate" => \A q \in s.yes \ {id} : GrantedBy(q, s.term, id)

Supported(t, id) ==
  /\ id \in voters
  /\ \/ voters = {id}
     \/ \E Q \in SUBSET voters :
          /\ Cardinality(Q) >= Quorum
          /\ \A q \in Q : VotedFor(q, t, id) /\ NotBehind(last[id], last[q])

IInv ==
  /\ TypeOK
  /\ StoredBehind
  /\ Backed
  /\ OneChoice
  /\ AllSound
  /\ \A id \in Nodes : CountsVotes(id, node[id])
  /\ \A e \in elected : Supported(e[1], e[2])
=============================================================================
