----------------------------- MODULE MCKdIndex -----------------------------
(***************************************************************************)
(* Small blocks for TLC, all of those of up to MaxLen records: leaves of   *)
(* two records instead of 256, so that five records make a tree of three   *)
(* leaves, two of them a level deeper, split by each key in turn, with the *)
(* last one padded; two values per key, so that most keys are equal.       *)
(***************************************************************************)
EXTENDS KdIndex

CONSTANT MaxLen

MCBlocks ==
  UNION {{[i \in 1..n |-> [key |-> keys[i], index |-> i - 1]] :
            keys \in [1..n -> [1..Size -> Keys]]} : n \in 1..MaxLen}

=============================================================================
