----------------------------- MODULE DurableLog -----------------------------
(***************************************************************************)
(* What RaftLog and its Storage promise together, whatever the split of    *)
(* the log between memory and storage: one log with a committed prefix     *)
(* that never changes while the node is up, and a durable prefix that not  *)
(* even a failure changes.  Entries of the prefix may be compacted.        *)
(***************************************************************************)
EXTENDS Segment

VARIABLES
  log,        \* the entries log.from .. log.to; those below are compacted
  committed,  \* entries up to this index are committed
  durable     \* entries up to this index survive a failure

vars == <<log, committed, durable>>

\* Two logs have the same entries up to n, where both have them.
SameUpTo(l, m, n) ==
  \A i \in (l.from..l.to) \cap (m.from..m.to) : i <= n => l.term[i] = m.term[i]

Init ==
  /\ log = NoEntries(1)
  /\ committed = 0
  /\ durable = 0

\* From l to m, nothing is compacted and only what is not committed changes.
KeepsCommitted(l, m) ==
  /\ m.from = l.from
  /\ SameUpTo(l, m, committed)
  /\ committed' <= m.to

\* New entries, possibly in the place of uncommitted ones, and progress of
\* the commit index.
Replicate ==
  /\ durable' = durable
  /\ committed <= committed'
  /\ KeepsCommitted(log, log')

\* A snapshot takes the place of the whole log, ahead of what is committed.
Install ==
  /\ IsEmpty(log')
  /\ committed' = log'.to /\ committed' > committed
  /\ durable' = durable

\* More of the committed prefix becomes durable.
Persist ==
  /\ UNCHANGED <<log, committed>>
  /\ durable <= durable' /\ durable' <= committed

\* A committed and durable prefix is forgotten.
Compact ==
  \E i \in log.from + 1..durable + 1 :
    /\ log' = Part(log, i, log.to)
    /\ UNCHANGED <<committed, durable>>

\* A failure may take back what is not durable.
Fail ==
  /\ committed' = durable
  /\ durable' = durable
  /\ log'.from <= committed + 1
  /\ log'.to >= durable
  /\ SameUpTo(log, log', durable)

Next == Replicate \/ Install \/ Persist \/ Compact \/ Fail

Spec == Init /\ [][Next]_vars
=============================================================================
