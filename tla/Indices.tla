------------------------------ MODULE Indices -------------------------------
(***************************************************************************)
(* What a Go loop that appends some of the elements of a slice leaves: the *)
(* chosen elements, in order.                                              *)
(***************************************************************************)
EXTENDS Naturals, FiniteSets

\* The n-th smallest of the indices I.
Nth(I, n) == CHOOSE i \in I : Cardinality({j \in I : j <= i}) = n

\* A function on some indices as a sequence, in the order of the indices.
Squeeze(g) == [n \in 1..Cardinality(DOMAIN g) |-> g[Nth(DOMAIN g, n)]]
=============================================================================
