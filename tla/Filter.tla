------------------------------- MODULE Filter -------------------------------
(* JavaScript's Array.prototype.filter, by the positions that stay.  It is SelectSeq (MCParts
   compares the two), in a form whose properties SequenceLemmas proves.                  *)
EXTENDS Naturals, Sequences, FiniteSets

\* The place a position that stays has among those that stay.
Rank(i, kept) == Cardinality({j \in kept : j <= i})

\* The elements of s at the positions of kept, in their order.
Filtered(s, kept) ==
  [k \in 1 .. Cardinality(kept) |-> s[CHOOSE i \in kept : Rank(i, kept) = k]]
=============================================================================
