------------------------------ MODULE Segment ------------------------------
(***************************************************************************)
(* A Vec<Entry> whose entries carry consecutive indexes, as every vector   *)
(* of entries in this crate does: the stored log (MemStorageCore.entries), *)
(* its in-memory tail (Unstable.entries) and the entries of a message.     *)
(* An entry is known by its index and its term, so the vector is a         *)
(* function from the interval of its indexes to terms.                     *)
(***************************************************************************)
EXTENDS Integers

\* The indexes a .. b of f.  It is empty, and still knows where it starts,
\* when b = a - 1.
Segment(a, b, f) == [from |-> a, to |-> b, term |-> [i \in a..b |-> f[i]]]

NoEntries(a) == Segment(a, a - 1, <<>>)

IsSegment(s) ==
  /\ s = [from |-> s.from, to |-> s.to, term |-> s.term]
  /\ s.from \in Nat
  /\ s.to \in Nat \cup {-1}
  /\ s.from <= s.to + 1
  /\ s.term \in [s.from..s.to -> Nat]

IsEmpty(s) == s.to < s.from

\* &entries[a..=b]
Part(s, a, b) == Segment(a, b, s.term)

\* s truncated at e.from, then extended by e.
Splice(s, e) ==
  [from |-> s.from,
   to   |-> e.to,
   term |-> [i \in s.from..e.to |-> IF i < e.from THEN s.term[i] ELSE e.term[i]]]

\* core::cmp::{min, max}
Lesser(a, b)  == IF a <= b THEN a ELSE b
Greater(a, b) == IF a <= b THEN b ELSE a
=============================================================================
