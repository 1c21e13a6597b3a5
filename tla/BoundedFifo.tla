---------------------------- MODULE BoundedFifo ----------------------------
(***************************************************************************)
(* What a RequestQueue promises its two sides, with no thread, lock or     *)
(* condition variable in sight: a first-in first-out buffer of at most     *)
(* MaxSize requests (0 means unbounded).  A request leaves the buffer      *)
(* exactly once, in the order it entered; while there is something in the  *)
(* buffer, something keeps leaving it.                                     *)
(*                                                                         *)
(* RequestQueue implements this specification: a caller may think of a     *)
(* queue operation as one atomic step.                                     *)
(***************************************************************************)
EXTENDS Naturals, Sequences

CONSTANTS
  Requests,   \* whatever is pushed
  MaxSize     \* RequestQueue::maxSize

VARIABLES
  buffer,     \* the requests inside, oldest first
  delivered   \* history: every request that left, in the order it left

fifoVars == <<buffer, delivered>>

Full(q) == MaxSize > 0 /\ Len(q) >= MaxSize

FifoInit ==
  /\ buffer = <<>>
  /\ delivered = <<>>

Enqueue ==
  /\ ~Full(buffer)
  /\ \E r \in Requests : buffer' = Append(buffer, r)
  /\ UNCHANGED delivered

Dequeue ==
  /\ buffer # <<>>
  /\ delivered' = Append(delivered, Head(buffer))
  /\ buffer' = Tail(buffer)

FifoNext == Enqueue \/ Dequeue

\* The safety half: steps only.
FifoSafety == FifoInit /\ [][FifoNext]_fifoVars

FifoSpec == FifoSafety /\ WF_fifoVars(Dequeue)
=============================================================================
