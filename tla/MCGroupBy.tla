----------------------------- MODULE MCGroupBy -----------------------------
(***************************************************************************)
(* A grid of two cells by three, five tuples for two threads, so that each *)
(* is dealt two of them, and one filter.  The tuples stand in the corners  *)
(* of the grid, on its far border and outside the filter.  Three polygons, *)
(* two of which overlap, and a tuple in none of them.                      *)
(***************************************************************************)
EXTENDS GroupBy

MCFilters == <<[first |-> 1, second |-> 2]>>

MCFilterBy == <<1>>

MCTuples ==
  {[x |-> 0, y |-> 0, value |-> <<1>>],
   [x |-> 3, y |-> 1, value |-> <<2>>],
   [x |-> 1, y |-> 5, value |-> <<1>>],
   [x |-> 4, y |-> 2, value |-> <<1>>],
   [x |-> 2, y |-> 4, value |-> <<3>>]}

MCAnswers == [1..5 -> MCTuples]

MCPolyTuples ==
  {[region |-> {0, 1}, value |-> 1], [region |-> {1}, value |-> 1],
   [region |-> {}, value |-> 1], [region |-> {2}, value |-> 2]}

MCPolyAnswers == [1..5 -> MCPolyTuples]

=============================================================================
