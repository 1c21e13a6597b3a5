----------------------------- MODULE MCGpuQuery -----------------------------
(***************************************************************************)
(* Two devices and five blocks, of which the last is dealt to no device.   *)
(* The regions of "wide" put the data elsewhere and leave too little room  *)
(* for all blocks; "all" meets every block and "few" does not.             *)
(***************************************************************************)
EXTENDS GpuQuery

MCQueries == {"few", "all", "wide"}
MCHits == [q \in MCQueries |->
  CASE q = "few" -> <<0, 2, 4>> [] q = "all" -> <<0, 1, 2, 3, 4>> [] q = "wide" -> <<1, 3, 4>>]
MCBase == [q \in MCQueries |-> IF q = "wide" THEN 2 ELSE 1]
MCRoom == [q \in MCQueries |-> IF q = "wide" THEN 1 ELSE 2]

=============================================================================
