------------------------------ MODULE Positions ------------------------------
(***************************************************************************)
(* Ids in their order, as ORDER BY id gives them.                          *)
(***************************************************************************)
EXTENDS Integers, FiniteSets

\* The n-th of a finite set of numbers, counted from 1.
Nth(K, n) == CHOOSE i \in K : Cardinality({j \in K : j <= i}) = n

\* A finite set of numbers as a sequence.
Sorted(K) == [n \in 1..Cardinality(K) |-> Nth(K, n)]
=============================================================================
