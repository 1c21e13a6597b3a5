--------------------------- MODULE MCMatrixCalls ---------------------------
(***************************************************************************)
(* Small integers: three vectors (one with a zero, one with a sign), turns *)
(* of 90 and 180 degrees about the axes and about one between them, of 120 *)
(* about the diagonal, one of no angle about no axis.                      *)
(***************************************************************************)
EXTENDS MatrixCalls

MCVectors == {<<2, 1, -1>>, <<1, 3, 0>>}

Turn(x, y, z, cos2, s2, k2) == [axis |-> <<x, y, z>>, cos2 |-> cos2, s2 |-> s2, k2 |-> k2]

MCTurns ==
  {Turn(0, 0, 1, 0, 2, 2), Turn(0, -1, 0, 0, 2, 2), Turn(2, 0, 0, -2, 0, 1),
   Turn(0, 1, 1, -2, 0, 2), Turn(1, 1, 1, -1, 1, 1), Turn(0, 0, 0, 2, 0, 0)}

MCQuaternions == {<<1, 1, -1, 1>>, <<0, 0, 2, 0>>}

\* A translation nobody flagged, a projection, and one of rank 1.
MCMatrices ==
  {Columns(<<<<1, 0, 0, 0>>, <<0, 1, 0, 0>>, <<0, 0, 1, 0>>, <<0, 2, 0, 1>>>>),
   Columns(<<<<1, 0, 2, 1>>, <<0, 0, 1, 0>>, <<0, 1, 0, 0>>, <<1, 0, 0, 2>>>>)}

MCWindows ==
  {<<0, 1, 0, 2, -1, 1>>, <<-1, 1, 1, -1, 1, 2>>, <<0, 2, 0, 1, 1, 3>>, <<0, 0, 0, 1, 1, 2>>}

MCViews == {<<FALSE, 2, 1, 2, 3>>, <<FALSE, 1, 1, 1, 2>>, <<FALSE, 1, 0, 1, 2>>,
            <<TRUE, 0, 1, 1, 2>>}

MCEyes == {<<<<1, 0, 0>>, <<1, 0, -3>>, <<0, 1, 0>>>>, <<<<0, 2, 1>>, <<1, 2, 1>>, <<0, 0, 2>>>>}

MCRects == {[x |-> 1, y |-> 0, w |-> 2, h |-> 1], [x |-> -1, y |-> 2, w |-> 0, h |-> 3]}

MCPoints == {<<1, 2, -1>>}

MCNumbers == {0, 2}

MCPlaces == {<<0, 0>>, <<0, 3>>, <<3, 1>>}

=============================================================================
