------------------------------- MODULE Listing -------------------------------
(* Numbers in order: what a loop over them comes to first, second and so on.   *)
EXTENDS Integers, FiniteSets

\* The members of a finite set of numbers, the smallest first.
InOrder(S) == [n \in 1..Cardinality(S) |-> CHOOSE k \in S : Cardinality({j \in S : j <= k}) = n]
=============================================================================
