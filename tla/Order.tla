-------------------------------- MODULE Order --------------------------------
(***************************************************************************)
(* Lists that the program appends to in the order of what it numbers: the  *)
(* blocks of a column as they are created, the polygons of a cell of a     *)
(* grid as they are looked at.                                             *)
(***************************************************************************)
EXTENDS Naturals, FiniteSets

\* The elements of a finite set of numbers from the least on.
InOrder(S) ==
  [k \in 1..Cardinality(S) |-> CHOOSE x \in S : Cardinality({y \in S : y < x}) = k - 1]

=============================================================================
