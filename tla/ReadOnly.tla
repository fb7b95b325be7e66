------------------------------ MODULE ReadOnly ------------------------------
(***************************************************************************)
(* ReadOnly of read_only.rs: the read requests a leader has not answered,  *)
(* in the queue of their contexts and in the map of what is known of each. *)
(*                                                                         *)
(* The leader's handlers that would call it are missing.  They are taken   *)
(* to do what its methods are for: heartbeats carry                        *)
(* last_pending_request_ctx(), an answer that brings a context is recorded *)
(* with recv_ack(), and once has_quorum() of what that returned, whenever  *)
(* that is, advance() gives the reads to answer.  Contexts are unique in a *)
(* term, and step() lets no answer of an earlier term through.  Answers of *)
(* learners are left out, as has_quorum() only counts what it is given.    *)
(***************************************************************************)
EXTENDS Integers, FiniteSets, Sequences, SequencesExt

CONSTANTS
  Ctxs,      \* the contexts of read requests
  Voters,    \* the voters
  Self,      \* the leader
  MaxIndex   \* bound on the commit index

ASSUME VotersAssumption == IsFiniteSet(Voters) /\ Self \in Voters
ASSUME BoundAssumption == MaxIndex \in Nat

VARIABLES
  queue,      \* read_index_queue
  pending,    \* pending_read_index, a map from contexts
  committed,  \* the leader's commit index
  sent,       \* the contexts that heartbeats have carried
  arrived,    \* history: the contexts, in the order of the requests
  answered,   \* history: the reads that advance() gave, in this order
  answers     \* history: the <<context, node>> of the answers received

vars == <<queue, pending, committed, sent, arrived, answered, answers>>
-----------------------------------------------------------------------------
Majority(total) == (total \div 2) + 1
HasQuorum(ids) == Cardinality(ids) >= Majority(Cardinality(Voters))

Init ==
  /\ queue = <<>> /\ pending = [ctx \in {} |-> 0]
  /\ committed \in 0..MaxIndex
  /\ sent = {} /\ arrived = <<>> /\ answered = <<>> /\ answers = {}

\* A request that is pending is not added again.
\* Mutant: the map is not asked.
NeverAsked(ctx) == TRUE
IsNew(ctx) == ctx \notin DOMAIN pending

\* Contexts are unique in a term: none comes again once it is answered.
NotAnswered(ctx) == \A k \in DOMAIN answered : answered[k].ctx # ctx

Queued(ctx, index) ==
  /\ IsNew(ctx) /\ NotAnswered(ctx)
  /\ pending' = [c \in DOMAIN pending \cup {ctx} |->
                   IF c = ctx THEN [index |-> index, acks |-> {}] ELSE pending[c]]
  /\ queue' = Append(queue, ctx)
  /\ arrived' = Append(arrived, ctx)
  /\ UNCHANGED <<committed, sent, answered, answers>>

\* Mutant: a read waits for the entry after the last committed one.
AddRequestAtNext(ctx) == Queued(ctx, committed + 1)
AddRequest(ctx) == Queued(ctx, committed)

\* A heartbeat carries last_pending_request_ctx().
Heartbeat ==
  /\ queue # <<>>
  /\ sent' = sent \cup {Last(queue)}
  /\ UNCHANGED <<queue, pending, committed, arrived, answered, answers>>

\* An answer may be late or repeated; one to a read that is not pending is
\* ignored.
\* Mutant: it makes an entry instead.
RecvAckOrInsert(ctx, from) ==
  /\ pending' = [c \in DOMAIN pending \cup {ctx} |->
                   IF c # ctx THEN pending[c]
                   ELSE IF c \in DOMAIN pending THEN [pending[c] EXCEPT !.acks = @ \cup {from}]
                   ELSE [index |-> 0, acks |-> {from}]]
  /\ answers' = answers \cup {<<ctx, from>>}
  /\ UNCHANGED <<queue, committed, sent, arrived, answered>>

RecvAck(ctx, from) ==
  /\ pending' = [c \in DOMAIN pending |->
                   IF c = ctx THEN [pending[c] EXCEPT !.acks = @ \cup {from}] ELSE pending[c]]
  /\ answers' = answers \cup {<<ctx, from>>}
  /\ UNCHANGED <<queue, committed, sent, arrived, answered>>

\* advance(): the reads up to and including that of the context.
Position(ctx) == CHOOSE k \in DOMAIN queue : queue[k] = ctx

\* Mutant: one read more than confirmed.
OneMore(ctx) == IF Position(ctx) < Len(queue) THEN Position(ctx) + 1 ELSE Position(ctx)
Confirmed(ctx) == Position(ctx)

\* Mutant: a read with a quorum is answered before older ones.
AdvanceOne(ctx) ==
  /\ ctx \in DOMAIN pending /\ HasQuorum(pending[ctx].acks \cup {Self})
  /\ answered' = Append(answered, [ctx |-> ctx, index |-> pending[ctx].index])
  /\ queue' = SelectSeq(queue, LAMBDA c : c # ctx)
  /\ pending' = [c \in DOMAIN pending \ {ctx} |-> pending[c]]
  /\ UNCHANGED <<committed, sent, arrived, answers>>

Advance(ctx) ==
  /\ ctx \in DOMAIN pending /\ HasQuorum(pending[ctx].acks \cup {Self})
  /\ LET i == Confirmed(ctx)
         done == {queue[k] : k \in 1..i}
     IN  /\ answered' = answered \o
                          [k \in 1..i |-> [ctx |-> queue[k], index |-> pending[queue[k]].index]]
         /\ queue' = SubSeq(queue, i + 1, Len(queue))
         /\ pending' = [c \in DOMAIN pending \ done |-> pending[c]]
  /\ UNCHANGED <<committed, sent, arrived, answers>>

\* Raft::reset, on every change of role or term.
Reset ==
  /\ queue' = <<>> /\ pending' = [ctx \in {} |-> 0]
  /\ sent' = {} /\ arrived' = <<>> /\ answered' = <<>> /\ answers' = {}
  /\ UNCHANGED committed

Commit ==
  /\ committed < MaxIndex
  /\ committed' = committed + 1
  /\ UNCHANGED <<queue, pending, sent, arrived, answered, answers>>

Next ==
  \/ \E ctx \in Ctxs : AddRequest(ctx) \/ Advance(ctx)
  \/ \E ctx \in sent, from \in Voters \ {Self} : RecvAck(ctx, from)
  \/ Heartbeat
  \/ Reset
  \/ Commit

Spec == Init /\ [][Next]_vars
-----------------------------------------------------------------------------
TypeOK ==
  /\ queue \in Seq(Ctxs)
  /\ DOMAIN pending \subseteq Ctxs
  /\ pending \in [DOMAIN pending -> [index : 0..MaxIndex, acks : SUBSET Voters]]
  /\ committed \in 0..MaxIndex
  /\ sent \in SUBSET Ctxs /\ answers \in SUBSET (Ctxs \X Voters)
  /\ arrived \in Seq(Ctxs) /\ answered \in Seq([ctx : Ctxs, index : 0..MaxIndex])

\* The queue and the map hold the same reads, each once, so advance() (79-96)
\* finds the reads it pops and does not panic.
QueueIsPending == ToSet(queue) = DOMAIN pending /\ IsInjective(queue)

\* Reads are answered in the order of the requests, none is lost and none is
\* answered twice.
InOrder == arrived = [k \in DOMAIN answered |-> answered[k].ctx] \o queue

\* No read goes back behind an earlier one: what it may return was committed
\* no earlier than what the reads before it may return, and is committed.
IndexesGrow ==
  LET index(k) == IF k <= Len(answered) THEN answered[k].index ELSE pending[arrived[k]].index
  IN  \A j, k \in DOMAIN arrived : j <= k => index(j) <= index(k) /\ index(k) <= committed

\* A read is answered after a majority, the leader included, has answered
\* heartbeats sent since its request came, its own or those of later reads.
AnsweredIsConfirmed ==
  \A k \in DOMAIN answered :
    HasQuorum({Self} \cup
              {n \in Voters : \E j \in DOMAIN arrived : j >= k /\ <<arrived[j], n>> \in answers})
-----------------------------------------------------------------------------
(* The inductive invariant. *)

ArrivedOnce == IsInjective(arrived)

\* What counts for a pending read was answered to a heartbeat with its context.
AcksAreAnswers ==
  \A ctx \in DOMAIN pending : \A n \in pending[ctx].acks : <<ctx, n>> \in answers

IInv ==
  /\ TypeOK /\ QueueIsPending /\ InOrder /\ ArrivedOnce
  /\ IndexesGrow /\ AcksAreAnswers /\ AnsweredIsConfirmed
=============================================================================
