----------------------------- MODULE Selection -----------------------------
(***************************************************************************)
(* What a loop keeps of a sequence when it passes over it once: the        *)
(* elements at some of its positions, in their order.                      *)
(***************************************************************************)
EXTENDS Integers, Sequences, FiniteSets

\* The j-th smallest member of P.
Rank(P, i) == Cardinality({e \in P : e <= i})
Kth(P, j)  == CHOOSE i \in P : Rank(P, i) = j

\* The elements of q at the positions P.
SelectAt(q, P) == [j \in 1 .. Cardinality(P) |-> q[Kth(P, j)]]
=============================================================================
