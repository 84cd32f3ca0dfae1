-------------------------------- MODULE Ordinals --------------------------------
(* The n-th member of a finite set of natural numbers, in increasing order, and *)
(* what a sequence holds at the positions in such a set.                        *)
EXTENDS Naturals, FiniteSets

UpTo(S, i) == {j \in S : j <= i}

AnyOf(S) == CHOOSE i \in S : TRUE

Nth(S, n) == AnyOf({i \in S : Cardinality(UpTo(S, i)) = n})

Picked(S, seq) == [n \in 1 .. Cardinality(S) |-> seq[Nth(S, n)]]
================================================================================
