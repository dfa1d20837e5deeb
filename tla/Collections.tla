---------------------------- MODULE Collections ----------------------------
(***************************************************************************)
(* Filtering a list: the elements at a set of positions, in their order.   *)
(* Sums over positions are SumFunctionOnSet of the community modules.      *)
(***************************************************************************)
EXTENDS Integers, FiniteSets

\* The elements of s at the positions K: the n-th is at the position that has n
\* members of K up to it.
Pick(s, K) ==
    [n \in 1..Cardinality(K) |-> s[CHOOSE i \in K : Cardinality({j \in K : j <= i}) = n]]
=============================================================================
