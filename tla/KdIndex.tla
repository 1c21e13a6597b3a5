------------------------------ MODULE KdIndex ------------------------------
(***************************************************************************)
(* DataLayer/kdindex: the k-d tree over one block of the spacetime column. *)
(* buildKdTree (KdIndex.cpp) sorts the records in place, splits them at a  *)
(* multiple of the leaf size and recurses; each leaf is appended to the    *)
(* keys file, padded to the leaf size, and the nodes are numbered from one *)
(* counter.  The recursion is kept as the list of calls still to be made,  *)
(* the next one first.  KdBlock.hpp and the RT_CPU branch of CudaDb.cpp    *)
(* answer a query from the two files.                                      *)
(*                                                                         *)
(* A record ("trip") is its Size keys and its index, the row it came from; *)
(* keys are compared only, so a few numbers stand for all of them.         *)
(***************************************************************************)
EXTENDS Integers, Sequences, SequencesExt, FiniteSets, FiniteSetsExt, Functions

CONSTANTS
  MaxRecords,  \* KdBlock::MAX_RECORDS_PER_BLOCK, 256
  Size,        \* keys of a record: two per place, one per time
  Keys,        \* the values of a key
  Blocks       \* the blocks to be indexed, each a sequence of records

Trips == [key : [1..Size -> Keys], index : Nat]

ASSUME KdAssumption ==
  /\ MaxRecords \in Nat \ {0}
  /\ Size \in Nat \ {0}
  /\ Keys \subseteq Nat
  /\ Blocks \subseteq Seq(Trips) \ {<<>>}
  /\ \A b \in Blocks : \A i \in DOMAIN b : b[i].index = i - 1

Extra == Size + 1   \* EXTRA_BLOCKS_PER_LEAF: the nodes after a leaf's own

Pad == [key |-> <<>>, index |-> -1]   \* what fills up the last leaf

VARIABLES
  trips,     \* the block, in the arena's memory
  calls,     \* the calls of buildKdTree still to be made
  nodes,     \* the nodes written so far, by position
  freeNode,  \* the next position to be given out
  keysFile   \* the records in the keys file

vars == <<trips, calls, nodes, freeNode, keysFile>>

-----------------------------------------------------------------------------
\* Building

\* (Mutated: the plain half, not a multiple of the leaf size.)
Half(n) == n \div 2

\* medianIndex + 1: half of n, rounded up to a multiple of the leaf size.
Split(n) == ((n \div 2 + MaxRecords - 1) \div MaxRecords) * MaxRecords

IsLeaf(n) == n <= MaxRecords

\* (Mutated: without the positions that leaves take.)
AllocatedForNodes(n) == 2 * (n \div MaxRecords + 1)

\* The positions createStingIndex allocates for the tree of n records.
Allocated(n) == 2 * (n \div MaxRecords + 1) * Extra

\* The ways in which sortArray can leave positions first..last, sorted by one
\* key: it is not stable, so the order of equal keys is any.  (An injection of
\* a finite set into itself is a permutation.)
Sortings(first, last, j) ==
  {p \in Injection(first..last, first..last) :
     \A a, b \in first..last : a < b => trips[p[a]].key[j] <= trips[p[b]].key[j]}

\* (Mutated: swap() moves the keys and leaves the index behind.)
PermutedKeys(p) ==
  [i \in DOMAIN trips |->
    IF i \in DOMAIN p THEN [trips[p[i]] EXCEPT !.index = trips[i].index]
                      ELSE trips[i]]

\* The chain of swaps that brings every record to its place, in the block.
Permuted(p) ==
  [i \in DOMAIN trips |-> IF i \in DOMAIN p THEN trips[p[i]] ELSE trips[i]]

\* The positions a node takes: a leaf holds an offset and a range per key, too.
LeafExtra(n) == IF IsLeaf(n) THEN Extra ELSE 0
Area(node, n) == node..(node + LeafExtra(n))

\* The two recursive calls for a call that splits m records off.
LeftCall(call, m) ==
  [first |-> call.first, n |-> m, depth |-> call.depth + 1, node |-> freeNode]

\* (Mutated: the second call does not step over the first one's leaf.)
RightCallNext(call, m) ==
  [first |-> call.first + m, n |-> call.n - m, depth |-> call.depth + 1,
   node |-> freeNode + 1]

\* (Mutated: the second call begins at the median record.)
RightCallEarly(call, m) ==
  [first |-> call.first + m - 1, n |-> call.n - m, depth |-> call.depth + 1,
   node |-> freeNode + 1 + LeafExtra(m)]

\* (Mutated: the second call is given the number of records of both.)
RightCallBoth(call, m) ==
  [first |-> call.first + m, n |-> call.n, depth |-> call.depth + 1,
   node |-> freeNode + 1 + LeafExtra(m)]

RightCall(call, m) ==
  [first |-> call.first + m, n |-> call.n - m, depth |-> call.depth + 1,
   node |-> freeNode + 1 + LeafExtra(m)]

\* kdNodes[i] = node
WithNode(i, node) ==
  [k \in DOMAIN nodes \cup {i} |-> IF k = i THEN node ELSE nodes[k]]

\* n <= MAX_RECORDS_PER_BLOCK
WriteLeaf ==
  /\ calls # <<>> /\ IsLeaf(Head(calls).n)
  /\ LET call == Head(calls)
         own == SubSeq(trips, call.first, call.first + call.n - 1)
         keys(j) == {own[i].key[j] : i \in DOMAIN own}
     IN  /\ nodes' = WithNode(call.node,
              [child |-> 0, median |-> call.n, offset |-> Len(keysFile),
               lo |-> [j \in 1..Size |-> Min(keys(j))],
               hi |-> [j \in 1..Size |-> Max(keys(j))]])
         /\ keysFile' = keysFile \o own \o [i \in 1..(MaxRecords - call.n) |-> Pad]
  /\ calls' = Tail(calls)
  /\ UNCHANGED <<trips, freeNode>>

\* The records are sorted by the key of this depth and cut in two.  The
\* program exits instead ("BINGO") if the cut leaves nothing on the right.
SplitNode ==
  /\ calls # <<>> /\ ~IsLeaf(Head(calls).n)
  /\ LET call == Head(calls)
         j == (call.depth % Size) + 1
         m == Split(call.n)
     IN  /\ m # call.n
         /\ \E p \in Sortings(call.first, call.first + call.n - 1, j) :
              trips' = Permuted(p)
         /\ nodes' = WithNode(call.node,
              [child |-> freeNode, median |-> trips'[call.first + m - 1].key[j]])
         /\ freeNode' = freeNode + 2 + LeafExtra(m) + LeafExtra(call.n - m)
         /\ calls' = <<LeftCall(call, m), RightCall(call, m)>> \o Tail(calls)
  /\ UNCHANGED keysFile

\* The files are written and the index stays as it is.
Built == calls = <<>>

Init ==
  /\ trips \in Blocks
  /\ calls = <<[first |-> 1, n |-> Len(trips), depth |-> 0, node |-> 0]>>
  /\ nodes = <<>>
  /\ freeNode = 1
  /\ keysFile = <<>>

Next ==
  \/ WriteLeaf
  \/ SplitNode
  \/ Built /\ UNCHANGED vars

Spec == Init /\ [][Next]_vars

-----------------------------------------------------------------------------
\* Searching

Query == [lo : [1..Size -> Keys], hi : [1..Size -> Keys]]

\* KdQuery::isMatched
isMatched(q, trip) ==
  \A j \in 1..Size : q.lo[j] <= trip.key[j] /\ trip.key[j] <= q.hi[j]

\* KdQuery::rangeMatched
rangeMatched(node, q) ==
  \A j \in 1..Size : ~(node.lo[j] > q.hi[j] \/ q.lo[j] > node.hi[j])

\* The tree file holds the positions below freeNode; the mapping of a file
\* reads as zeros behind its end.
TreeNode(i) ==
  IF nodes[i].child # 0 \/ i + Extra < freeNode THEN nodes[i]
  ELSE [nodes[i] EXCEPT !.offset = 0,
                        !.lo = [j \in 1..Size |-> 0],
                        !.hi = [j \in 1..Size |-> 0]]

\* (Mutated: the left half is left out when the bound is the median.)
GoesLeftBelow(q, j, median) == q.lo[j] < median
GoesLeft(q, j, median) == q.lo[j] <= median
GoesRight(q, j, median) == q.hi[j] > median

\* searchKdTree, called for a node at a depth; visit is what it calls itself.
searchKdTree(q, visit, at) ==
  LET node == TreeNode(at[1])
      j == (at[2] % Size) + 1
      second == node.child + 1 + (IF nodes[node.child].child = 0 THEN Extra ELSE 0)
  IN  IF node.child = 0
      THEN IF rangeMatched(node, q) THEN <<node>> ELSE <<>>
      ELSE (IF GoesLeft(q, j, node.median)
            THEN visit[<<node.child, at[2] + 1>>] ELSE <<>>)
        \o (IF GoesRight(q, j, node.median)
            THEN visit[<<second, at[2] + 1>>] ELSE <<>>)

\* The leaves whose range meets the query, left to right.
Leaves(q) ==
  LET visit[at \in (DOMAIN nodes) \X Nat] == searchKdTree(q, visit, at)
  IN  visit[<<0, 0>>]

\* The i-th record of a leaf.
InLeaf(leaf, i) == keysFile[leaf.offset + i]

\* CudaDb::requestQuery, RT_CPU: the records of those leaves that match, each
\* time one is met.  OpenMP's threads find them in any order.
requestQuery(q) ==
  LET found == Leaves(q)
      met == {at \in (DOMAIN found) \X (1..MaxRecords) :
                /\ at[2] <= found[at[1]].median
                /\ isMatched(q, InLeaf(found[at[1]], at[2]))}
  IN  {[at |-> at, index |-> InLeaf(found[at[1]], at[2]).index] : at \in met}

\* The indices in ascending order, each as often as it was met: fewer than r of
\* them are below the r-th, and r or more are not above it.
Ascending(met) ==
  [r \in 1..Cardinality(met) |->
    CHOOSE i \in {t.index : t \in met} :
      /\ Cardinality({t \in met : t.index < i}) < r
      /\ Cardinality({t \in met : t.index <= i}) >= r]

\* querySting sorts the answer.
querySting(q) == Ascending(requestQuery(q))

\* What the query asks for.
Matching(q) == {t \in Range(trips) : isMatched(q, t)}

-----------------------------------------------------------------------------
Calls == [first : Nat \ {0}, n : Nat \ {0}, depth : Nat, node : Nat]

\* The types of the variables.
TypeOK ==
  /\ trips \in Seq(Trips)
  /\ calls \in Seq(Calls)
  /\ \A k \in DOMAIN calls : calls[k].first + calls[k].n - 1 <= Len(trips)
  /\ DOMAIN nodes \subseteq Nat
  /\ \A i \in DOMAIN nodes : nodes[i].child \in Nat /\ nodes[i].median \in Nat
  /\ freeNode \in Nat
  /\ keysFile \in Seq(Trips \cup {Pad})

\* The nodes, written or promised to a call, with the positions they take.
Written == {<<i, IF nodes[i].child = 0 THEN nodes[i].median ELSE MaxRecords + 1>> :
              i \in DOMAIN nodes}
Promised == {<<calls[k].node, calls[k].n>> : k \in DOMAIN calls}

\* No node's positions are given to another: buildKdTree counts those of a
\* leaf's range when it sees the leaf coming, twice, in freeNode and in the
\* argument of the second call.
NodesDisjoint ==
  /\ \A a, b \in Written \cup Promised :
       a # b => Area(a[1], a[2]) \cap Area(b[1], b[2]) = {}
  /\ \A k, l \in DOMAIN calls : calls[k].node = calls[l].node => k = l

\* Every position fits the array createStingIndex allocates, for which it
\* knows only the number of records.
NodesFit ==
  \A a \in Written \cup Promised : Area(a[1], a[2]) \subseteq 0..(Allocated(Len(trips)) - 1)

\* The records of leaf k are the k-th MaxRecords of the keys file: only the
\* last leaf is padded (setBinFile counts blocks, and the GPU kernels find
\* them, by dividing).  For that every call but the last must be of a multiple
\* of the leaf size, whatever the depth at which buildKdTree splits it off.
LeavesAligned ==
  /\ \A i \in DOMAIN nodes : nodes[i].child = 0 => nodes[i].offset % MaxRecords = 0
  /\ \A k \in DOMAIN keysFile :
       keysFile[k] = Pad => k > Len(keysFile) - MaxRecords

\* In the end each record of the block is in one place of the keys file.
EachRecordOnce ==
  Built =>
    /\ Range(trips) \subseteq Range(keysFile)
    /\ Cardinality({k \in DOMAIN keysFile : keysFile[k] # Pad}) = Len(trips)

\* A query over a tree of more than one leaf answers with the indices of
\* matching records, each once and in order, and leaves none out that is
\* below the query's upper bounds.
SearchSound ==
  Built /\ ~IsLeaf(Len(trips)) =>
    \A q \in Query :
      LET found == querySting(q)
          below == {t \in Matching(q) : \A j \in 1..Size : t.key[j] < q.hi[j]}
      IN  /\ \A k \in DOMAIN found : \A l \in DOMAIN found : k < l => found[k] < found[l]
          /\ Range(found) \subseteq {t.index : t \in Matching(q)}
          /\ {t.index : t \in below} \subseteq Range(found)

\* "return indexes for the spatio temporal query" (IndexStore.hpp): with an
\* interval closed above, as isMatched has it, that is every record on the
\* upper bound too.
UpperBoundIncluded ==
  Built /\ ~IsLeaf(Len(trips)) =>
    \A q \in Query :
      {t.index : t \in Matching(q)} \subseteq Range(querySting(q))

\* The same of a block that fits one leaf.
OneLeafAnswers ==
  Built /\ IsLeaf(Len(trips)) =>
    \A q \in Query :
      {t.index : t \in Matching(q)} \subseteq Range(querySting(q))

=============================================================================
