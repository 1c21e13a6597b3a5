--------------------------- MODULE MCRequestQueue ---------------------------
(***************************************************************************)
(* A small RequestQueue for TLC: two pushers race for a queue of two       *)
(* places, and a popper and a taker race for what is in it, so that both   *)
(* wait sets hold two threads at once and notify_one has a choice.         *)
(***************************************************************************)
EXTENDS RequestQueue

CONSTANTS p1, p2, c1, k1

MCPushers == {p1, p2}
MCPoppers == {c1}
MCTakers == {k1}

=============================================================================
