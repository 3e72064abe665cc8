------------------------------- MODULE Lists -------------------------------
(***************************************************************************)
(* Filtering a list: which elements stay is a set of positions, and they   *)
(* keep their order.  The code writes it as a comprehension with an if.    *)
(***************************************************************************)
EXTENDS Integers, Sequences, FiniteSets

\* The elements of a finite set of naturals, in their order.
InOrder(S) ==
    [k \in 1..Cardinality(S) |-> CHOOSE n \in S : Cardinality({m \in S : m < n}) = k - 1]

\* The elements of a list that pass, in their order.
Where(list, places) == [k \in 1..Cardinality(places) |-> list[InOrder(places)[k]]]
=============================================================================
