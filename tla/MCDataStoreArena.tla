-------------------------- MODULE MCDataStoreArena --------------------------
(***************************************************************************)
(* A small arena for TLC: a CSV dataset with a narrow and a wide column,   *)
(* loaded from a short file and from a longer version of it, so that the   *)
(* second loading extends a block the first one saved and opens another    *)
(* one, and a polygon dataset.  A block takes three narrow cells or one    *)
(* wide one.                                                               *)
(***************************************************************************)
EXTENDS DataStoreArena

CONSTANTS day, spacetime, xs, short, long, poly

MCRows == (short :> CsvRows(<<day, spacetime>>, 1))
       @@ (long :> CsvRows(<<day, spacetime>>, 2))
       @@ (poly :> PolyRows(<<xs>>, <<1>>))
MCTypeSize == (day :> 1) @@ (spacetime :> 2) @@ (xs :> 2)

=============================================================================
