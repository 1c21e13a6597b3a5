--------------------------- MODULE MCPolygonStore ---------------------------
(***************************************************************************)
(* Two files: a band that crosses a row of three cells with no corner in   *)
(* the middle one; and this one with a polygon that has a dent.            *)
(***************************************************************************)
EXTENDS PolygonStore

Band == <<<<0, 0>>, <<12, 1>>, <<12, 4>>, <<0, 2>>>>
Dented == <<<<1, 1>>, <<6, 4>>, <<12, 2>>, <<5, 8>>>>

MCPolygons == [few |-> <<Band>>, more |-> <<Band, Dented>>]

MCFiles == {"few", "more"}
MCColumns == {"layerNumPoints", "layerXs", "layerYs"}

Points(f) == Len(FlattenSeq(MCPolygons[f]))

MCRows ==
  [f \in MCFiles |->
    PolyRows(<<"layerNumPoints", "layerXs", "layerYs">>,
             <<Len(MCPolygons[f]), Points(f), Points(f)>>)]

MCTypeSize == [c \in MCColumns |-> IF c = "layerNumPoints" THEN 1 ELSE 2]

=============================================================================
