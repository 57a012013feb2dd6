---------------------------- MODULE SubSequences ----------------------------
(***************************************************************************)
(* Parts of a sequence, by the positions of their elements.                *)
(***************************************************************************)
EXTENDS Integers, Sequences, FiniteSets

\* The numbers of a finite set in increasing order, and the elements of a
\* sequence at such positions.
InOrder(S) ==
  [n \in 1..Cardinality(S) |-> CHOOSE p \in S : Cardinality({q \in S : q <= p}) = n]
At(s, positions) ==
  LET order == InOrder(positions)
  IN  [n \in DOMAIN order |-> s[order[n]]]
=============================================================================
