--------------------------- MODULE MCIndexedStore ---------------------------
(***************************************************************************)
(* Blocks of up to four records with one key, in leaves of two, for        *)
(* TLC: enough for a split that moves records, indexed twice.  A block     *)
(* of different keys shows what the sort does whatever it makes of equals. *)
(***************************************************************************)
EXTENDS IndexedStore

CONSTANT Lengths

MCBlocks ==
  UNION {{[i \in 1..n |-> [key |-> keys[i], index |-> i - 1]] :
            keys \in [1..n -> [1..Size -> Keys]]} : n \in Lengths}

\* Blocks that can be sorted in one way only.
MCDistinctBlocks ==
  {b \in MCBlocks : \A i, k \in DOMAIN b : b[i].key = b[k].key => i = k}

=============================================================================
