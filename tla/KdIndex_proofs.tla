--------------------------- MODULE KdIndex_proofs ---------------------------
(***************************************************************************)
(* What holds of the building of the tree for blocks, leaves and keys of   *)
(* any number: the cut of buildKdTree leaves records on both sides, the    *)
(* nodes get positions of their own, inside the array allocated for them,  *)
(* only the last leaf is padded, the medians part the records below them,  *)
(* and so a query finds what it asks for.                                  *)
(***************************************************************************)
EXTENDS KdIndex, FiniteSetTheorems, SequenceTheorems, WellFoundedInduction, TLAPS

\* A quotient times its divisor falls short of the dividend by less than the
\* divisor.
LEMMA Quotient ==
  ASSUME NEW a \in Nat, NEW m \in Nat, m > 0
  PROVE /\ a \div m \in Nat
        /\ (a \div m) * m <= a
        /\ a < (a \div m) * m + m
  BY SMT

\* A multiple has no remainder.
LEMMA Multiple ==
  ASSUME NEW q \in Nat, NEW m \in Nat, m > 0
  PROVE (q * m) % m = 0
  BY SMT

\* The sum and the difference of two multiples have no remainder.
LEMMA SumOfMultiples ==
  ASSUME NEW a \in Nat, NEW b \in Nat, NEW m \in Nat, m > 0,
         a % m = 0, b % m = 0
  PROVE  (a + b) % m = 0 /\ (b <= a => (a - b) % m = 0)
<1>1. PICK x \in Nat : a = x * m
  <2>1. a = (a \div m) * m /\ a \div m \in Nat
    BY SMT
  <2>. QED BY <2>1
<1>2. PICK y \in Nat : b = y * m
  <2>1. b = (b \div m) * m /\ b \div m \in Nat
    BY SMT
  <2>. QED BY <2>1
<1>3. (a + b) % m = 0
  <2>1. x + y \in Nat /\ a + b = (x + y) * m
    BY <1>1, <1>2
  <2>2. ((x + y) * m) % m = 0
    BY <2>1, Multiple
  <2>. QED BY <2>1, <2>2
<1>4. ASSUME b <= a PROVE (a - b) % m = 0
  <2>1. x - y \in Nat
    <3>1. SUFFICES ASSUME x < y PROVE FALSE
      BY <1>1, <1>2
    <3>2. y = x + 1 + (y - x - 1) /\ y - x - 1 \in Nat
      BY <3>1, <1>1, <1>2
    <3>3. y * m = x * m + m + (y - x - 1) * m /\ (y - x - 1) * m >= 0
      BY <3>2, <1>1, <1>2
    <3>. QED BY <3>3, <1>1, <1>2, <1>4
  <2>2. a - b = (x - y) * m
    BY <1>1, <1>2
  <2>3. ((x - y) * m) % m = 0
    BY <2>1, Multiple
  <2>. QED BY <2>2, <2>3
<1>. QED
  BY <1>3, <1>4

\* A multiple that is not zero is no less than the divisor.
LEMMA MultipleIsNoLess ==
  ASSUME NEW a \in Nat, NEW m \in Nat, m > 0, a > 0, a % m = 0
  PROVE  a >= m
  BY SMT

\* buildKdTree never cuts off everything or nothing, so that exit(0) after
\* "BINGO", and a node without a second child, do not happen; and the cut is
\* at the end of a leaf.
LEMMA SplitProper ==
  ASSUME NEW n \in Nat, ~IsLeaf(n)
  PROVE Split(n) \in 1..(n - 1) /\ Split(n) % MaxRecords = 0
<1>. DEFINE M == MaxRecords
            h == n \div 2
            q == (h + M - 1) \div M
<1>1. M \in Nat /\ M > 0 /\ n > M
  BY KdAssumption DEF IsLeaf
<1>2. h \in Nat /\ 2 * h <= n /\ n <= 2 * h + 1
  BY SMT
<1>3. q \in Nat /\ q * M <= h + M - 1 /\ h + M - 1 < q * M + M
  BY <1>1, <1>2, Quotient
<1>4. q >= 1
  BY <1>1, <1>2, <1>3
<1>5. Split(n) = q * M
  BY DEF Split
<1>6. q * M >= 1
  BY <1>1, <1>3, <1>4
<1>7. q * M < n
  <2>1. CASE h >= M
    BY <2>1, <1>1, <1>2, <1>3
  <2>2. CASE h < M
    <3>1. q < 2
      <4>1. SUFFICES ASSUME q >= 2 PROVE FALSE
        BY <1>3
      <4>2. q * M >= 2 * M
        BY <4>1, <1>1, <1>3
      <4>. QED BY <4>2, <2>2, <1>1, <1>2, <1>3
    <3>2. q = 1
      BY <3>1, <1>3, <1>4
    <3>. QED BY <3>2, <1>1
  <2>. QED BY <2>1, <2>2, <1>1, <1>2
<1>. HIDE DEF q, h
<1>. QED BY <1>1, <1>2, <1>3, <1>5, <1>6, <1>7, Multiple

-----------------------------------------------------------------------------
\* The call in front is a call like any other.
LEMMA HeadCall ==
  ASSUME TypeOK, calls # <<>>
  PROVE  /\ 1 \in DOMAIN calls /\ Head(calls) = calls[1] /\ Head(calls) \in Calls
         /\ Head(calls).first \in Nat \ {0} /\ Head(calls).n \in Nat \ {0}
         /\ Head(calls).depth \in Nat /\ Head(calls).node \in Nat
         /\ Head(calls).first + Head(calls).n - 1 <= Len(trips)
         /\ Tail(calls) \in Seq(Calls) /\ Len(Tail(calls)) = Len(calls) - 1
         /\ \A k \in 1..(Len(calls) - 1) : Tail(calls)[k] = calls[k + 1]
<1>1. calls \in Seq(Calls) /\ Len(calls) >= 1
  BY DEF TypeOK
<1>2. 1 \in DOMAIN calls /\ Head(calls) = calls[1] /\ calls[1] \in Calls
  BY <1>1
<1>3. calls[1].first + calls[1].n - 1 <= Len(trips)
  BY <1>2 DEF TypeOK
<1>4. /\ Tail(calls) \in Seq(Calls) /\ Len(Tail(calls)) = Len(calls) - 1
      /\ \A k \in 1..(Len(calls) - 1) : Tail(calls)[k] = calls[k + 1]
  BY <1>1
<1>. QED
  BY <1>2, <1>3, <1>4 DEF Calls

\* The sorting keeps the block a block of as many records, and leaves those
\* before its own alone.
LEMMA SortedBlock ==
  ASSUME TypeOK, NEW first \in Nat \ {0}, NEW last \in Nat,
         first <= last, last <= Len(trips),
         NEW j, NEW p \in Sortings(first, last, j)
  PROVE  /\ Permuted(p) \in Seq(Trips) /\ Len(Permuted(p)) = Len(trips)
         /\ \A i \in 1..(first - 1) : Permuted(p)[i] = trips[i]
<1>1. p \in [first..last -> first..last]
  BY DEF Sortings, Injection
<1>2. trips \in Seq(Trips) /\ DOMAIN trips = 1..Len(trips) /\ Len(trips) \in Nat
  BY DEF TypeOK
<1>3. \A i \in DOMAIN p : p[i] \in DOMAIN trips
  BY <1>1, <1>2
<1>4. \A i \in 1..Len(trips) :
        (IF i \in DOMAIN p THEN trips[p[i]] ELSE trips[i]) \in Trips
  BY <1>2, <1>3
<1>5. Permuted(p) = [i \in 1..Len(trips) |->
                       IF i \in DOMAIN p THEN trips[p[i]] ELSE trips[i]]
  BY <1>2 DEF Permuted
<1>6. ASSUME NEW i \in 1..(first - 1) PROVE Permuted(p)[i] = trips[i]
  <2>1. i \notin DOMAIN p
    BY <1>1
  <2>2. i \in 1..Len(trips)
    BY <1>2
  <2>. QED BY <2>1, <2>2, <1>5
<1>7. Permuted(p) \in Seq(Trips) /\ Len(Permuted(p)) = Len(trips)
  BY <1>2, <1>4, <1>5
<1>. QED
  BY <1>6, <1>7

\* What a split leaves behind: two calls on records of the block, a node with
\* a child, and calls behind them as before.
LEMMA Splitting ==
  ASSUME TypeOK, SplitNode,
         NEW call, call = Head(calls), NEW m, m = Split(call.n)
  PROVE  /\ m \in 1..(call.n - 1) /\ m % MaxRecords = 0
         /\ trips' \in Seq(Trips) /\ Len(trips') = Len(trips)
         /\ \A i \in 1..(call.first - 1) : trips'[i] = trips[i]
         /\ \E median \in Nat :
              nodes' = WithNode(call.node, [child |-> freeNode, median |-> median])
         /\ LeftCall(call, m) \in Calls /\ RightCall(call, m) \in Calls
         /\ Len(calls') = Len(calls) + 1
         /\ calls' \in Seq(Calls)
         /\ calls'[1] = LeftCall(call, m) /\ calls'[2] = RightCall(call, m)
         /\ \A k \in 3..(Len(calls) + 1) : calls'[k] = calls[k - 1]
<1>. DEFINE j == (call.depth % Size) + 1
<1>1. calls # <<>> /\ ~IsLeaf(call.n)
  BY DEF SplitNode
<1>2. /\ call.first \in Nat \ {0} /\ call.n \in Nat \ {0}
      /\ call.depth \in Nat /\ call.node \in Nat
      /\ call.first + call.n - 1 <= Len(trips)
  BY <1>1, HeadCall
<1>3. m \in 1..(call.n - 1) /\ m % MaxRecords = 0
  BY <1>1, <1>2, SplitProper
<1>4. j \in 1..Size
  BY <1>2, KdAssumption
<1>5. /\ trips' \in Seq(Trips) /\ Len(trips') = Len(trips)
      /\ \A i \in 1..(call.first - 1) : trips'[i] = trips[i]
  <2>1. PICK p \in Sortings(call.first, call.first + call.n - 1, j) :
          trips' = Permuted(p)
    BY DEF SplitNode
  <2>2. call.first + call.n - 1 \in Nat /\ call.first <= call.first + call.n - 1
    BY <1>2
  <2>3. /\ Permuted(p) \in Seq(Trips) /\ Len(Permuted(p)) = Len(trips)
        /\ \A i \in 1..(call.first - 1) : Permuted(p)[i] = trips[i]
    BY <2>2, <1>2, SortedBlock
  <2>. QED BY <2>1, <2>3, Zenon
<1>6. \E median \in Nat :
        nodes' = WithNode(call.node, [child |-> freeNode, median |-> median])
  <2>. DEFINE at == call.first + m - 1
  <2>1. at \in 1..Len(trips)
    <3>1. Len(trips) \in Nat
      BY DEF TypeOK
    <3>. QED BY <3>1, <1>2, <1>3
  <2>2. trips'[at] \in Trips
    BY <2>1, <1>5
  <2>3. trips'[at].key[j] \in Nat
    BY <2>2, <1>4, KdAssumption DEF Trips
  <2>4. nodes' = WithNode(call.node,
                 [child |-> freeNode, median |-> trips'[at].key[j]])
    BY DEF SplitNode
  <2>. QED BY <2>3, <2>4
<1>7. LeftCall(call, m) \in Calls /\ RightCall(call, m) \in Calls
  <2>1. freeNode \in Nat /\ freeNode + 1 + LeafExtra(m) \in Nat
    BY KdAssumption DEF TypeOK, LeafExtra, Extra
  <2>2. m \in Nat \ {0} /\ call.n - m \in Nat \ {0} /\ call.depth + 1 \in Nat
    BY <1>2, <1>3
  <2>3. call.first + m \in Nat \ {0}
    BY <1>2, <1>3
  <2>. QED BY <2>1, <2>2, <2>3, <1>2 DEF LeftCall, RightCall, Calls
<1>8. calls' = <<LeftCall(call, m), RightCall(call, m)>> \o Tail(calls)
  BY DEF SplitNode
<1>9. /\ Tail(calls) \in Seq(Calls) /\ Len(Tail(calls)) = Len(calls) - 1
      /\ \A k \in 1..(Len(calls) - 1) : Tail(calls)[k] = calls[k + 1]
  BY <1>1, HeadCall
<1>10. <<LeftCall(call, m), RightCall(call, m)>> \in Seq(Calls)
  BY <1>7
<1>11. calls' \in Seq(Calls) /\ Len(calls') = Len(calls) + 1
  <2>1. Len(calls) \in Nat
    BY DEF TypeOK
  <2>. QED BY <2>1, <1>8, <1>9, <1>10
<1>12. calls'[1] = LeftCall(call, m) /\ calls'[2] = RightCall(call, m)
  BY <1>8, <1>9, <1>10
<1>13. ASSUME NEW k \in 3..(Len(calls) + 1) PROVE calls'[k] = calls[k - 1]
  <2>1. Len(calls) \in Nat
    BY DEF TypeOK
  <2>2. calls'[k] = Tail(calls)[k - 2]
    BY <2>1, <1>8, <1>9, <1>10
  <2>3. k - 2 \in 1..(Len(calls) - 1)
    BY <2>1
  <2>4. Tail(calls)[k - 2] = calls[k - 2 + 1]
    BY <2>3, <1>9
  <2>. QED BY <2>1, <2>2, <2>4
<1>. QED
  BY <1>3, <1>5, <1>6, <1>7, <1>11, <1>12, <1>13

\* The records of a call, in their order.
LEMMA PartOfBlock ==
  ASSUME TypeOK, NEW a \in Nat \ {0}, NEW n \in Nat \ {0}, a + n - 1 <= Len(trips)
  PROVE  LET own == SubSeq(trips, a, a + n - 1)
         IN  /\ own \in Seq(Trips) /\ Len(own) = n /\ DOMAIN own = 1..n
             /\ \A k \in 1..n : own[k] = trips[a + k - 1]
<1>1. trips \in Seq(Trips) /\ Len(trips) \in Nat
  BY DEF TypeOK
<1>2. a \in 1..(Len(trips) + 1) /\ a + n - 1 \in (a - 1)..Len(trips)
  BY <1>1
<1>3. a + n - 1 - a + 1 = n /\ a <= a + n - 1
  OBVIOUS
<1>. DEFINE own == SubSeq(trips, a, a + n - 1)
<1>4. /\ own \in Seq(Trips) /\ Len(own) = a + n - 1 - a + 1
      /\ \A k \in 1..(a + n - 1 - a + 1) : own[k] = trips[a + k - 1]
  BY <1>1, <1>2, <1>3, SubSeqProperties
<1>. HIDE DEF own
<1>5. DOMAIN own = 1..n
  BY <1>3, <1>4
<1>. QED
  BY <1>3, <1>4, <1>5 DEF own

\* What writing a leaf leaves behind: the records of its call are at the end
\* of the keys file, with what fills them up to a whole leaf.
LEMMA LeafWriting ==
  ASSUME TypeOK, WriteLeaf, NEW call, call = Head(calls)
  PROVE  /\ call.n <= MaxRecords
         /\ \E node : /\ node.child = 0 /\ node.median = call.n
                      /\ node.offset = Len(keysFile)
                      /\ nodes' = WithNode(call.node, node)
         /\ calls' = Tail(calls)
         /\ keysFile' \in Seq(Trips \cup {Pad})
         /\ Len(keysFile') = Len(keysFile) + MaxRecords
         /\ \A k \in DOMAIN keysFile : keysFile'[k] = keysFile[k]
         /\ \A k \in 1..call.n :
              keysFile'[Len(keysFile) + k] = trips[call.first + k - 1]
         /\ \A k \in (call.n + 1)..MaxRecords : keysFile'[Len(keysFile) + k] = Pad
<1>. DEFINE own == SubSeq(trips, call.first, call.first + call.n - 1)
            pads == [i \in 1..(MaxRecords - call.n) |-> Pad]
<1>1. /\ call.first \in Nat \ {0} /\ call.n \in Nat \ {0}
      /\ call.first + call.n - 1 <= Len(trips) /\ call.n <= MaxRecords
  BY HeadCall DEF WriteLeaf, IsLeaf
<1>2. /\ own \in Seq(Trips) /\ Len(own) = call.n
      /\ \A k \in 1..call.n : own[k] = trips[call.first + k - 1]
  BY <1>1, PartOfBlock
<1>3. /\ pads \in Seq({Pad}) /\ Len(pads) = MaxRecords - call.n
      /\ \A k \in 1..(MaxRecords - call.n) : pads[k] = Pad
  BY <1>1, KdAssumption
<1>4. keysFile \in Seq(Trips \cup {Pad}) /\ Len(keysFile) \in Nat
  BY DEF TypeOK
<1>5. keysFile' = keysFile \o own \o pads
  BY DEF WriteLeaf
<1>6. own \in Seq(Trips \cup {Pad}) /\ pads \in Seq(Trips \cup {Pad})
  BY <1>2, <1>3
<1>7. \E node : /\ node.child = 0 /\ node.median = call.n
                /\ node.offset = Len(keysFile)
                /\ nodes' = WithNode(call.node, node)
  BY DEF WriteLeaf
<1>8. calls' = Tail(calls)
  BY DEF WriteLeaf
<1>. HIDE DEF own, pads
<1>9. keysFile' \in Seq(Trips \cup {Pad})
  BY <1>4, <1>5, <1>6
<1>10. Len(keysFile') = Len(keysFile) + MaxRecords
  <2>1. Len(keysFile \o own) = Len(keysFile) + Len(own)
        /\ keysFile \o own \in Seq(Trips \cup {Pad})
    BY <1>4, <1>6, ConcatProperties
  <2>2. Len((keysFile \o own) \o pads) = Len(keysFile \o own) + Len(pads)
    BY <2>1, <1>6, ConcatProperties
  <2>3. MaxRecords \in Nat
    BY KdAssumption
  <2>4. \A x, a, b \in Nat : x + a + (b - a) = x + b
    OBVIOUS
  <2>5. Len(keysFile) + call.n + (MaxRecords - call.n) = Len(keysFile) + MaxRecords
    BY <2>3, <2>4, <1>1, <1>4
  <2>6. Len(keysFile') = Len(keysFile) + Len(own) + Len(pads)
    BY <2>1, <2>2, <1>5
  <2>. QED BY <2>5, <2>6, <1>2, <1>3
<1>11. \A k \in DOMAIN keysFile : keysFile'[k] = keysFile[k]
  BY <1>4, <1>5, <1>6
<1>12. \A k \in 1..call.n : keysFile'[Len(keysFile) + k] = trips[call.first + k - 1]
  BY <1>1, <1>2, <1>4, <1>5, <1>6
<1>13. ASSUME NEW k \in (call.n + 1)..MaxRecords
       PROVE  keysFile'[Len(keysFile) + k] = Pad
  <2>1. /\ keysFile \o own \in Seq(Trips \cup {Pad})
        /\ Len(keysFile \o own) = Len(keysFile) + Len(own)
    BY <1>4, <1>6, ConcatProperties
  <2>2. MaxRecords \in Nat
    BY KdAssumption
  <2>3. Len(keysFile) + k \in
          (Len(keysFile \o own) + 1)..(Len(keysFile \o own) + Len(pads))
    <3>1. \A x, a, b, i \in Nat : i \in (a + 1)..b => x + i \in (x + a + 1)..(x + a + (b - a))
      OBVIOUS
    <3>2. k \in Nat /\ call.n \in Nat
      BY <2>2, <1>1
    <3>3. Len(keysFile) + k \in (Len(keysFile) + call.n + 1)..
                                  (Len(keysFile) + call.n + (MaxRecords - call.n))
      BY <3>1, <3>2, <2>2, <1>4
    <3>. QED BY <3>3, <2>1, <1>2, <1>3
  <2>4. ((keysFile \o own) \o pads)[Len(keysFile) + k]
          = pads[Len(keysFile) + k - Len(keysFile \o own)]
    <3>. DEFINE front == keysFile \o own
    <3>1. front \in Seq(Trips \cup {Pad}) /\ Len(front) \in Nat /\ Len(pads) \in Nat
      BY <2>1, <1>6
    <3>. HIDE DEF front
    <3>2. \A i \in (Len(front) + 1)..(Len(front) + Len(pads)) :
            (front \o pads)[i] = pads[i - Len(front)]
      BY <3>1, <1>6, ConcatProperties
    <3>. QED BY <3>2, <2>3 DEF front
  <2>5. Len(keysFile) + k - Len(keysFile \o own) = k - call.n
        /\ k - call.n \in 1..(MaxRecords - call.n)
    <3>1. \A x, a, b, i \in Nat : i \in (a + 1)..b => /\ x + i - (x + a) = i - a
                                                     /\ i - a \in 1..(b - a)
      OBVIOUS
    <3>2. k \in Nat /\ call.n \in Nat
      BY <2>2, <1>1
    <3>3. /\ Len(keysFile) + k - (Len(keysFile) + call.n) = k - call.n
          /\ k - call.n \in 1..(MaxRecords - call.n)
      BY <3>1, <3>2, <2>2, <1>4
    <3>. QED BY <3>3, <2>1, <1>2
  <2>. QED BY <2>4, <2>5, <1>3, <1>5
<1>. QED
  BY <1>1, <1>7, <1>8, <1>9, <1>10, <1>11, <1>12, <1>13

\* The first call is of the whole block.
LEMMA WholeBlock ==
  ASSUME Init
  PROVE  /\ trips \in Seq(Trips) /\ Len(trips) \in Nat \ {0}
         /\ calls = <<[first |-> 1, n |-> Len(trips), depth |-> 0, node |-> 0]>>
         /\ nodes = <<>> /\ DOMAIN nodes = {} /\ freeNode = 1 /\ keysFile = <<>>
<1>1. trips \in Seq(Trips) \ {<<>>}
  BY KdAssumption DEF Init
<1>2. Len(trips) \in Nat \ {0}
  BY <1>1
<1>. QED
  BY <1>1, <1>2 DEF Init

\* The first call of buildKdTree is typed.
LEMMA InitTyped ==
  ASSUME Init
  PROVE  TypeOK
<1>1. calls \in Seq(Calls)
  <2>1. [first |-> 1, n |-> Len(trips), depth |-> 0, node |-> 0] \in Calls
    BY WholeBlock DEF Calls
  <2>2. \A c \in Calls : <<c>> \in Seq(Calls)
    OBVIOUS
  <2>. QED BY <2>1, <2>2, WholeBlock
<1>2. \A k \in DOMAIN calls : calls[k].first + calls[k].n - 1 <= Len(trips)
  BY WholeBlock
<1>. QED BY <1>1, <1>2, WholeBlock DEF TypeOK

\* Every step of the building keeps the types.
LEMMA TypePreserved ==
  ASSUME TypeOK, [Next]_vars
  PROVE  TypeOK'
<1>1. CASE WriteLeaf
  <2>. DEFINE call == Head(calls)
  <2>1. calls # <<>> /\ trips' = trips /\ freeNode' = freeNode
    BY <1>1 DEF WriteLeaf
  <2>2. PICK node : /\ node.child = 0 /\ node.median = call.n
                    /\ nodes' = WithNode(call.node, node)
    BY <1>1, LeafWriting
  <2>3. \A i \in DOMAIN nodes' : i \in Nat /\ nodes'[i].child \in Nat /\ nodes'[i].median \in Nat
    BY <2>1, <2>2, HeadCall DEF WithNode, TypeOK
  <2>4. calls' \in Seq(Calls)
    BY <1>1, <2>1, LeafWriting, HeadCall
  <2>5. \A k \in DOMAIN calls' : calls'[k].first + calls'[k].n - 1 <= Len(trips')
    <3>. SUFFICES ASSUME NEW k \in DOMAIN calls'
                  PROVE  calls'[k].first + calls'[k].n - 1 <= Len(trips')
      OBVIOUS
    <3>1. k \in 1..(Len(calls) - 1) /\ calls'[k] = calls[k + 1]
      <4>1. calls' = Tail(calls)
        BY <1>1, LeafWriting
      <4>2. DOMAIN Tail(calls) = 1..(Len(calls) - 1)
        BY <2>1, HeadCall
      <4>. QED BY <4>1, <4>2, <2>1, HeadCall
    <3>2. k + 1 \in DOMAIN calls
      BY <3>1 DEF TypeOK
    <3>. QED BY <3>1, <3>2, <2>1 DEF TypeOK
  <2>6. keysFile' \in Seq(Trips \cup {Pad})
    BY <1>1, LeafWriting
  <2>. QED BY <2>1, <2>3, <2>4, <2>5, <2>6 DEF TypeOK
<1>2. CASE SplitNode
  <2>. DEFINE call == Head(calls)
              m == Split(call.n)
  <2>1. calls # <<>> /\ freeNode' = freeNode + 2 + LeafExtra(m) + LeafExtra(call.n - m)
        /\ keysFile' = keysFile
    BY <1>2 DEF SplitNode
  <2>2. PICK median \in Nat :
          nodes' = WithNode(call.node, [child |-> freeNode, median |-> median])
    BY <1>2, Splitting
  <2>3. \A i \in DOMAIN nodes' : i \in Nat /\ nodes'[i].child \in Nat /\ nodes'[i].median \in Nat
    BY <2>1, <2>2, HeadCall DEF WithNode, TypeOK
  <2>4. calls' \in Seq(Calls) /\ Len(calls') = Len(calls) + 1
    BY <1>2, Splitting
  <2>5. Len(trips') = Len(trips) /\ trips' \in Seq(Trips)
    BY <1>2, Splitting
  <2>6. \A k \in DOMAIN calls' : calls'[k].first + calls'[k].n - 1 <= Len(trips')
    <3>. SUFFICES ASSUME NEW k \in DOMAIN calls'
                  PROVE  calls'[k].first + calls'[k].n - 1 <= Len(trips')
      OBVIOUS
    <3>1. /\ call.first \in Nat \ {0} /\ call.n \in Nat \ {0}
          /\ call.first + call.n - 1 <= Len(trips) /\ m \in 1..(call.n - 1)
      BY <1>2, <2>1, HeadCall, Splitting
    <3>2. Len(trips) \in Nat /\ Len(calls) \in Nat
      BY DEF TypeOK
    <3>3. CASE k = 1
      <4>1. calls'[k] = LeftCall(call, m)
        BY <1>2, <3>3, Splitting
      <4>. QED BY <4>1, <3>1, <3>2, <2>5 DEF LeftCall
    <3>4. CASE k = 2
      <4>1. calls'[k] = RightCall(call, m)
        BY <1>2, <3>4, Splitting
      <4>. QED BY <4>1, <3>1, <3>2, <2>5 DEF RightCall
    <3>5. CASE k \in 3..(Len(calls) + 1)
      <4>1. calls'[k] = calls[k - 1]
        BY <1>2, <3>5, Splitting
      <4>2. k - 1 \in DOMAIN calls
        BY <3>5, <3>2 DEF TypeOK
      <4>. QED BY <4>1, <4>2, <2>5 DEF TypeOK
    <3>. QED BY <3>3, <3>4, <3>5, <3>2, <2>4
  <2>7. freeNode' \in Nat
    BY <2>1, KdAssumption DEF TypeOK, LeafExtra, Extra
  <2>. QED BY <2>1, <2>3, <2>4, <2>5, <2>6, <2>7 DEF TypeOK
<1>3. CASE UNCHANGED vars
  BY <1>3 DEF vars, TypeOK
<1>. QED BY <1>1, <1>2, <1>3 DEF Next

\* buildKdTree works on records of its block only, whatever its length, and
\* writes records and filling.
THEOREM TypeCorrect == Spec => []TypeOK
<1>. QED
  BY InitTyped, TypePreserved, PTL DEF Spec

-----------------------------------------------------------------------------
\* Of the positions of the nodes: what a call was promised it has not written
\* yet, and everything written or promised lies below freeNode.  Only the
\* root, when it is a leaf, takes positions behind freeNode, which then stays
\* as it is: such a tree is never split.
Below ==
  ~IsLeaf(Len(trips)) =>
    \A a \in Written \cup Promised : a[1] + LeafExtra(a[2]) < freeNode

PositionInv ==
  /\ TypeOK
  /\ freeNode >= 1
  /\ \A k \in DOMAIN calls : calls[k].node \notin DOMAIN nodes
  /\ Below
  /\ NodesDisjoint

\* The positions and lengths behind Written and Promised are numbers.
LEMMA PositionTypes ==
  ASSUME TypeOK
  PROVE  /\ \A a \in Written \cup Promised : a = <<a[1], a[2]>> /\ a[1] \in Nat /\ a[2] \in Nat
         /\ \A n \in Nat : LeafExtra(n) \in Nat
<1>1. \A a \in Written : a = <<a[1], a[2]>> /\ a[1] \in Nat /\ a[2] \in Nat
  BY KdAssumption DEF TypeOK, Written
<1>2. \A a \in Promised : a = <<a[1], a[2]>> /\ a[1] \in Nat /\ a[2] \in Nat
  <2>1. \A k \in DOMAIN calls : calls[k] \in Calls
    BY DEF TypeOK
  <2>2. \A k \in DOMAIN calls : calls[k].node \in Nat /\ calls[k].n \in Nat
    BY <2>1 DEF Calls
  <2>. QED BY <2>2 DEF Promised
<1>3. \A n \in Nat : LeafExtra(n) \in Nat
  BY KdAssumption DEF LeafExtra, Extra
<1>. QED
  BY <1>1, <1>2, <1>3

\* A leaf takes the positions its call was promised.
LEMMA LeafPositions ==
  ASSUME PositionInv, WriteLeaf
  PROVE  PositionInv'
<1>. DEFINE call == Head(calls)
<1>1. /\ calls # <<>> /\ trips' = trips /\ freeNode' = freeNode /\ calls' = Tail(calls)
      /\ TypeOK
  BY DEF WriteLeaf, PositionInv
<1>2. PICK node : /\ node.child = 0 /\ node.median = call.n
                  /\ nodes' = WithNode(call.node, node)
  BY <1>1, LeafWriting
<1>3. call = calls[1] /\ 1 \in DOMAIN calls /\ call.node \in Nat
  BY <1>1, HeadCall
<1>4. \A k \in DOMAIN calls' :
        /\ k + 1 \in DOMAIN calls /\ k + 1 # 1 /\ k \in Nat
        /\ calls'[k] = calls[k + 1]
  <2>1. DOMAIN Tail(calls) = 1..(Len(calls) - 1)
    BY <1>1, HeadCall
  <2>2. DOMAIN calls = 1..Len(calls) /\ Len(calls) \in Nat
    BY <1>1 DEF TypeOK
  <2>. QED BY <2>1, <2>2, <1>1, HeadCall
<1>5. DOMAIN nodes' = DOMAIN nodes \cup {call.node}
      /\ nodes'[call.node].child = 0 /\ nodes'[call.node].median = call.n
      /\ \A i \in DOMAIN nodes \ {call.node} : nodes'[i] = nodes[i]
  BY <1>2 DEF WithNode
<1>6. Written' \subseteq Written \cup {<<call.node, call.n>>}
  BY <1>5 DEF Written
<1>7. <<call.node, call.n>> \in Promised
  BY <1>3 DEF Promised
<1>8. Promised' \subseteq Promised
  BY <1>4 DEF Promised
<1>9. (Written \cup Promised)' \subseteq Written \cup Promised
  BY <1>6, <1>7, <1>8
<1>10. Below'
  BY <1>1, <1>9 DEF PositionInv, Below, LeafExtra, IsLeaf, Extra
<1>11. \A k, l \in DOMAIN calls' : calls'[k].node = calls'[l].node => k = l
  BY <1>4 DEF PositionInv, NodesDisjoint
<1>12. NodesDisjoint'
  <2>1. \A a, b \in (Written \cup Promised)' :
          a # b => Area(a[1], a[2]) \cap Area(b[1], b[2]) = {}
    BY <1>9 DEF PositionInv, NodesDisjoint
  <2>. QED BY <2>1, <1>11 DEF NodesDisjoint, Area, LeafExtra, IsLeaf, Extra
<1>13. \A k \in DOMAIN calls' : calls'[k].node \notin DOMAIN nodes'
  <2>. SUFFICES ASSUME NEW k \in DOMAIN calls' PROVE calls'[k].node \notin DOMAIN nodes'
    OBVIOUS
  <2>1. calls[k + 1].node # calls[1].node
    BY <1>3, <1>4 DEF PositionInv, NodesDisjoint
  <2>2. calls[k + 1].node \notin DOMAIN nodes
    BY <1>4 DEF PositionInv
  <2>. QED BY <2>1, <2>2, <1>3, <1>4, <1>5
<1>14. TypeOK'
  BY <1>1, TypePreserved DEF Next
<1>. QED
  BY <1>1, <1>10, <1>12, <1>13, <1>14 DEF PositionInv

\* A split takes new positions, for its two calls and their leaves.
LEMMA SplitPositions ==
  ASSUME PositionInv, SplitNode
  PROVE  PositionInv'
<1>. DEFINE call == Head(calls)
            m == Split(call.n)
            x == <<call.node, MaxRecords + 1>>
            l == <<freeNode, m>>
            r == <<freeNode + 1 + LeafExtra(m), call.n - m>>
<1>1. /\ calls # <<>> /\ ~IsLeaf(call.n) /\ TypeOK
      /\ freeNode' = freeNode + 2 + LeafExtra(m) + LeafExtra(call.n - m)
  BY DEF SplitNode, PositionInv
<1>2. /\ call = calls[1] /\ 1 \in DOMAIN calls /\ call.node \in Nat
      /\ call.first \in Nat \ {0} /\ call.n \in Nat
      /\ call.first + call.n - 1 <= Len(trips)
  BY <1>1, HeadCall
<1>3. m \in 1..(call.n - 1) /\ Len(trips') = Len(trips)
  BY <1>1, Splitting
<1>4. PICK median \in Nat :
        nodes' = WithNode(call.node, [child |-> freeNode, median |-> median])
  BY <1>1, Splitting
<1>5. /\ calls'[1].node = l[1] /\ calls'[1].n = l[2]
      /\ calls'[2].node = r[1] /\ calls'[2].n = r[2]
  <2>1. calls'[1] = LeftCall(call, m) /\ calls'[2] = RightCall(call, m)
    BY <1>1, Splitting
  <2>. QED BY <2>1 DEF LeftCall, RightCall
<1>6. \A k \in DOMAIN calls' \ {1, 2} :
        k \in Nat /\ k - 1 \in DOMAIN calls \ {1} /\ calls'[k] = calls[k - 1]
  <2>1. DOMAIN calls = 1..Len(calls) /\ Len(calls) \in Nat
    BY <1>1 DEF TypeOK
  <2>2. DOMAIN calls' = 1..(Len(calls) + 1)
    <3>1. calls' \in Seq(Calls) /\ Len(calls') = Len(calls) + 1
      BY <1>1, Splitting
    <3>. QED BY <3>1
  <2>3. \A k \in 3..(Len(calls) + 1) : calls'[k] = calls[k - 1]
    BY <1>1, Splitting
  <2>. QED BY <2>1, <2>2, <2>3
<1>7. ~IsLeaf(Len(trips))
  BY <1>1, <1>2, KdAssumption DEF IsLeaf, TypeOK
<1>8. freeNode \in Nat /\ freeNode >= 1
  BY <1>1 DEF PositionInv, TypeOK
<1>9. /\ LeafExtra(m) \in Nat /\ LeafExtra(call.n - m) \in Nat
      /\ LeafExtra(MaxRecords + 1) = 0 /\ LeafExtra(call.n) = 0
  <2>1. m \in Nat /\ call.n - m \in Nat
    BY <1>2, <1>3
  <2>2. MaxRecords + 1 \in Nat /\ ~IsLeaf(MaxRecords + 1)
    BY KdAssumption DEF IsLeaf
  <2>. QED BY <2>1, <2>2, <1>1, PositionTypes DEF LeafExtra
<1>10. /\ DOMAIN nodes' = DOMAIN nodes \cup {call.node}
       /\ nodes'[call.node].child = freeNode
       /\ \A i \in DOMAIN nodes \ {call.node} : nodes'[i] = nodes[i]
  BY <1>4 DEF WithNode
<1>11. call.node \notin DOMAIN nodes
  BY <1>2 DEF PositionInv
<1>. DEFINE Old == {a \in Written \cup Promised : a[1] # call.node}
<1>12. Written' \subseteq Old \cup {x}
  <2>. SUFFICES ASSUME NEW i \in DOMAIN nodes'
         PROVE <<i, IF nodes'[i].child = 0 THEN nodes'[i].median ELSE MaxRecords + 1>>
                 \in Old \cup {x}
    BY DEF Written
  <2>1. CASE i = call.node
    BY <2>1, <1>8, <1>10
  <2>2. CASE i # call.node
    BY <2>2, <1>10 DEF Written
  <2>. QED BY <2>1, <2>2
<1>13. Promised' \subseteq Old \cup {l, r}
  <2>. SUFFICES ASSUME NEW k \in DOMAIN calls'
                PROVE  <<calls'[k].node, calls'[k].n>> \in Old \cup {l, r}
    BY DEF Promised
  <2>1. CASE k \in {1, 2}
    BY <2>1, <1>5
  <2>2. CASE k \notin {1, 2}
    <3>1. k - 1 \in DOMAIN calls /\ k - 1 # 1 /\ calls'[k] = calls[k - 1]
      BY <2>2, <1>6
    <3>2. calls[k - 1].node # call.node
      BY <3>1, <1>2 DEF PositionInv, NodesDisjoint
    <3>. QED BY <3>1, <3>2 DEF Promised
  <2>. QED BY <2>1, <2>2
<1>14. <<call.node, call.n>> \in Written \cup Promised
  BY <1>2 DEF Promised
<1>15. \A a \in Old : /\ a[1] \in Nat /\ LeafExtra(a[2]) \in Nat
                      /\ a[1] + LeafExtra(a[2]) < freeNode
                      /\ Area(a[1], a[2]) \cap Area(call.node, call.n) = {}
  <2>. SUFFICES ASSUME NEW a \in Old
         PROVE /\ a[1] \in Nat /\ LeafExtra(a[2]) \in Nat
               /\ a[1] + LeafExtra(a[2]) < freeNode
               /\ Area(a[1], a[2]) \cap Area(call.node, call.n) = {}
    OBVIOUS
  <2>1. a[1] \in Nat /\ LeafExtra(a[2]) \in Nat
    BY <1>1, PositionTypes
  <2>2. a[1] + LeafExtra(a[2]) < freeNode
    BY <1>7 DEF PositionInv, Below
  <2>3. a # <<call.node, call.n>>
    OBVIOUS
  <2>4. \A b, c \in Written \cup Promised :
          b # c => Area(b[1], b[2]) \cap Area(c[1], c[2]) = {}
    BY DEF PositionInv, NodesDisjoint
  <2>5. Area(a[1], a[2]) \cap Area(<<call.node, call.n>>[1], <<call.node, call.n>>[2]) = {}
    BY <2>3, <2>4, <1>14
  <2>. QED BY <2>1, <2>2, <2>5
<1>16. call.node < freeNode
  <2>1. call.node + LeafExtra(call.n) < freeNode
    BY <1>7, <1>14 DEF PositionInv, Below
  <2>. QED BY <2>1, <1>2, <1>9
<1>17. Area(call.node, call.n) = {call.node} /\ Area(x[1], x[2]) = {call.node}
  BY <1>2, <1>9 DEF Area
<1>18. call.n - m \in Nat /\ m \in Nat
  BY <1>2, <1>3
<1>19. /\ Area(l[1], l[2]) = freeNode..(freeNode + LeafExtra(m))
       /\ Area(r[1], r[2]) = (freeNode + 1 + LeafExtra(m))..
                             (freeNode + 1 + LeafExtra(m) + LeafExtra(call.n - m))
  BY DEF Area
<1>. DEFINE All == Old \cup {x, l, r}
<1>20. Below'
  <2>1. \A a \in All : a[1] + LeafExtra(a[2]) < freeNode'
    <3>. SUFFICES ASSUME NEW a \in All PROVE a[1] + LeafExtra(a[2]) < freeNode'
      OBVIOUS
    <3>1. CASE a \in Old
      <4>1. a[1] \in Nat /\ LeafExtra(a[2]) \in Nat /\ a[1] + LeafExtra(a[2]) < freeNode
        BY <3>1, <1>15
      <4>. QED BY <4>1, <1>1, <1>8, <1>9
    <3>2. CASE a = x
      BY <3>2, <1>1, <1>2, <1>8, <1>9, <1>16
    <3>3. CASE a = l
      BY <3>3, <1>1, <1>8, <1>9
    <3>4. CASE a = r
      BY <3>4, <1>1, <1>8, <1>9
    <3>. QED BY <3>1, <3>2, <3>3, <3>4
  <2>2. (Written \cup Promised)' \subseteq All
    BY <1>12, <1>13
  <2>. QED BY <2>1, <2>2 DEF Below, LeafExtra, IsLeaf, Extra
<1>21. \A a, b \in All : a # b => Area(a[1], a[2]) \cap Area(b[1], b[2]) = {}
  <2>1. \A a \in Old, b \in Old : a # b => Area(a[1], a[2]) \cap Area(b[1], b[2]) = {}
    BY DEF PositionInv, NodesDisjoint
  <2>2. \A a \in Old : /\ Area(a[1], a[2]) \cap Area(x[1], x[2]) = {}
                       /\ Area(a[1], a[2]) \cap Area(l[1], l[2]) = {}
                       /\ Area(a[1], a[2]) \cap Area(r[1], r[2]) = {}
    <3>. SUFFICES ASSUME NEW a \in Old
           PROVE  /\ Area(a[1], a[2]) \cap Area(x[1], x[2]) = {}
                  /\ Area(a[1], a[2]) \cap Area(l[1], l[2]) = {}
                  /\ Area(a[1], a[2]) \cap Area(r[1], r[2]) = {}
      OBVIOUS
    <3>1. Area(a[1], a[2]) \cap Area(x[1], x[2]) = {}
      BY <1>15, <1>17
    <3>2. \A i \in Area(a[1], a[2]) : i \in Int /\ i < freeNode
      BY <1>8, <1>15 DEF Area
    <3>. QED BY <3>1, <3>2, <1>8, <1>9, <1>19
  <2>3. /\ Area(x[1], x[2]) \cap Area(l[1], l[2]) = {}
        /\ Area(x[1], x[2]) \cap Area(r[1], r[2]) = {}
    BY <1>2, <1>8, <1>9, <1>16, <1>17, <1>19
  <2>4. Area(l[1], l[2]) \cap Area(r[1], r[2]) = {}
    BY <1>8, <1>9, <1>19
  <2>. HIDE DEF Old, x, l, r
  <2>. QED BY <2>1, <2>2, <2>3, <2>4
<1>22. NodesDisjoint'
  <2>1. \A a, b \in (Written \cup Promised)' :
          a # b => Area(a[1], a[2]) \cap Area(b[1], b[2]) = {}
    BY <1>12, <1>13, <1>21
  <2>2. \A k \in DOMAIN calls' \ {1, 2} : calls'[k].node # freeNode
          /\ calls'[k].node # r[1] /\ calls'[k].node \in Nat /\ calls'[k].node < freeNode
    <3>. SUFFICES ASSUME NEW k \in DOMAIN calls' \ {1, 2}
           PROVE calls'[k].node \in Nat /\ calls'[k].node < freeNode
      BY <1>8, <1>9
    <3>1. <<calls[k - 1].node, calls[k - 1].n>> \in Promised /\ calls'[k] = calls[k - 1]
      BY <1>6 DEF Promised
    <3>2. calls[k - 1].node + LeafExtra(calls[k - 1].n) < freeNode
      BY <3>1, <1>7 DEF PositionInv, Below
    <3>3. calls[k - 1].node \in Nat /\ LeafExtra(calls[k - 1].n) \in Nat
      BY <3>1, <1>1, PositionTypes
    <3>. QED BY <3>1, <3>2, <3>3, <1>8
  <2>3. \A k, i \in DOMAIN calls' \ {1, 2} : calls'[k].node = calls'[i].node => k = i
    <3>. SUFFICES ASSUME NEW k \in DOMAIN calls' \ {1, 2}, NEW i \in DOMAIN calls' \ {1, 2},
                         calls'[k].node = calls'[i].node
                  PROVE  k = i
      OBVIOUS
    <3>1. calls[k - 1].node = calls[i - 1].node /\ k - 1 \in DOMAIN calls /\ i - 1 \in DOMAIN calls
      BY <1>6
    <3>2. k - 1 = i - 1
      BY <3>1 DEF PositionInv, NodesDisjoint
    <3>. QED BY <3>2, <1>6
  <2>4. calls'[1].node # calls'[2].node
    BY <1>5, <1>8, <1>9
  <2>5. \A k, i \in DOMAIN calls' : calls'[k].node = calls'[i].node => k = i
    BY <2>2, <2>3, <2>4, <1>5
  <2>. QED BY <2>1, <2>5 DEF NodesDisjoint, Area, LeafExtra, IsLeaf, Extra
<1>23. \A k \in DOMAIN calls' : calls'[k].node \notin DOMAIN nodes'
  <2>. SUFFICES ASSUME NEW k \in DOMAIN calls' PROVE calls'[k].node \notin DOMAIN nodes'
    OBVIOUS
  <2>1. CASE k \in {1, 2}
    <3>1. \A i \in DOMAIN nodes : i \in Nat /\ i < freeNode
      <4>. SUFFICES ASSUME NEW i \in DOMAIN nodes PROVE i \in Nat /\ i < freeNode
        OBVIOUS
      <4>1. PICK n : <<i, n>> \in Written
        BY DEF Written
      <4>2. i + LeafExtra(n) < freeNode
        BY <4>1, <1>7 DEF PositionInv, Below
      <4>3. i \in Nat /\ LeafExtra(n) \in Nat
        BY <4>1, <1>1, PositionTypes
      <4>. QED BY <4>2, <4>3, <1>8
    <3>2. calls'[k].node \in Nat /\ calls'[k].node >= freeNode
      BY <2>1, <1>5, <1>8, <1>9
    <3>. QED BY <3>1, <3>2, <1>2, <1>8, <1>10, <1>16
  <2>2. CASE k \notin {1, 2}
    <3>1. k - 1 \in DOMAIN calls /\ k - 1 # 1 /\ calls'[k] = calls[k - 1]
      BY <2>2, <1>6
    <3>2. calls[k - 1].node # call.node
      BY <3>1, <1>2 DEF PositionInv, NodesDisjoint
    <3>3. calls[k - 1].node \notin DOMAIN nodes
      BY <3>1 DEF PositionInv
    <3>. QED BY <3>1, <3>2, <3>3, <1>10
  <2>. QED BY <2>1, <2>2
<1>24. freeNode' >= 1
  BY <1>1, <1>8, <1>9
<1>25. TypeOK'
  BY <1>1, TypePreserved DEF Next
<1>. QED
  BY <1>20, <1>22, <1>23, <1>24, <1>25 DEF PositionInv

\* The positions of the first call.
LEMMA PositionsAtFirst ==
  ASSUME Init
  PROVE  PositionInv
<1>1. /\ Len(trips) \in Nat \ {0} /\ nodes = <<>> /\ DOMAIN nodes = {} /\ freeNode = 1
      /\ calls = <<[first |-> 1, n |-> Len(trips), depth |-> 0, node |-> 0]>>
  BY WholeBlock
<1>2. DOMAIN calls = {1} /\ calls[1].node = 0 /\ calls[1].n = Len(trips)
  BY <1>1
<1>3. Promised = {<<0, Len(trips)>>} /\ Written = {}
  BY <1>1, <1>2 DEF Promised, Written
<1>4. Below
  BY <1>1, <1>3 DEF Below, LeafExtra
<1>5. NodesDisjoint
  BY <1>2, <1>3 DEF NodesDisjoint
<1>6. TypeOK
  BY InitTyped
<1>. QED
  BY <1>1, <1>4, <1>5, <1>6 DEF PositionInv

\* Every step of the building keeps the nodes' positions apart.
LEMMA PositionsKept ==
  ASSUME PositionInv, [Next]_vars
  PROVE  PositionInv'
<1>1. PositionInv /\ UNCHANGED vars => PositionInv'
  BY DEF vars, PositionInv, TypeOK, Below, NodesDisjoint, Written, Promised, Area,
         LeafExtra, IsLeaf, Extra
<1>. QED
  BY <1>1, LeafPositions, SplitPositions DEF Next

\* No two nodes of the tree, leaves with their ranges included, share a
\* position, whatever the length of the block: the freeNode that buildKdTree
\* advances and the position it hands to its second call agree.
THEOREM PositionsDisjoint == Spec => []NodesDisjoint
<1>1. Init => PositionInv
  BY PositionsAtFirst
<1>2. PositionInv /\ [Next]_vars => PositionInv'
  BY PositionsKept
<1>3. PositionInv => NodesDisjoint
  BY DEF PositionInv
<1>. QED
  BY <1>1, <1>2, <1>3, PTL DEF Spec

-----------------------------------------------------------------------------
\* How many positions the tree takes: the leaves of n records, and what
\* buildKdTree has still to give out for a call on n of them, when its own node
\* and, if it is a leaf, its range have positions already: a tree of l leaves
\* has 2 l - 2 nodes below its root, and each of the leaves takes Extra more.
LeavesOf(n) == (n + MaxRecords - 1) \div MaxRecords
Need(n) == IF IsLeaf(n) THEN 0 ELSE (Extra + 2) * LeavesOf(n) - 2

\* What the calls from the k-th on still need, with what is given out,
\* is in the array.
Room ==
  \E rest \in [1..(Len(calls) + 1) -> Nat] :
    /\ freeNode + rest[1] <= Allocated(Len(trips))
    /\ \A k \in 1..Len(calls) : rest[k] = rest[k + 1] + Need(calls[k].n)

RoomInv ==
  /\ PositionInv
  /\ IsLeaf(Len(trips)) => Written \cup Promised \subseteq {<<0, Len(trips)>>}
  /\ Room

\* The sizes that the bound is made of.
LEMMA Sizes == Extra \in Nat /\ Extra >= 2 /\ MaxRecords \in Nat /\ MaxRecords > 0
  BY KdAssumption DEF Extra

\* Only one number is a quotient.
LEMMA QuotientIs ==
  ASSUME NEW a \in Nat, NEW m \in Nat, m > 0, NEW q \in Nat,
         q * m <= a, a < q * m + m
  PROVE  a \div m = q
<1>. DEFINE d == a \div m
<1>1. d \in Nat /\ d * m <= a /\ a < d * m + m
  BY Quotient
<1>. HIDE DEF d
<1>2. ASSUME NEW x \in Nat, NEW y \in Nat, x < y, y * m <= a, a < x * m + m
      PROVE  FALSE
  <2>1. y = x + 1 + (y - x - 1) /\ y - x - 1 \in Nat
    BY <1>2
  <2>2. y * m = x * m + m + (y - x - 1) * m /\ (y - x - 1) * m >= 0
    BY <2>1
  <2>. QED BY <2>2, <1>2
<1>3. ~(d < q) /\ ~(q < d)
  BY <1>1, <1>2
<1>. QED
  BY <1>1, <1>3 DEF d

\* A leaf is one leaf, more records make two or more, and no more than
\* createStingIndex counts.
LEMMA LeafCount ==
  ASSUME NEW n \in Nat \ {0}
  PROVE  /\ LeavesOf(n) \in Nat
         /\ IsLeaf(n) => LeavesOf(n) = 1
         /\ ~IsLeaf(n) => LeavesOf(n) >= 2
         /\ n \div MaxRecords \in Nat
         /\ LeavesOf(n) <= n \div MaxRecords + 1
<1>. DEFINE M == MaxRecords
            l == LeavesOf(n)
            d == n \div M
<1>1. M \in Nat /\ M > 0 /\ n + M - 1 \in Nat
  BY Sizes
<1>2. l \in Nat /\ l * M <= n + M - 1 /\ n + M - 1 < l * M + M
  BY <1>1, Quotient DEF LeavesOf
<1>3. d \in Nat /\ d * M <= n /\ n < d * M + M
  BY <1>1, Quotient
<1>4. ASSUME IsLeaf(n) PROVE l = 1
  <2>1. n <= M /\ 1 * M = M
    BY <1>4, <1>1 DEF IsLeaf
  <2>2. 1 * M <= n + M - 1 /\ n + M - 1 < 1 * M + M
    BY <2>1, <1>1
  <2>. QED BY <2>2, <1>1, QuotientIs DEF LeavesOf
<1>. HIDE DEF M, l, d
<1>5. ASSUME ~IsLeaf(n) PROVE l >= 2
  <2>1. n > M
    BY <1>5, <1>1 DEF IsLeaf, M
  <2>2. ~(l = 0) /\ ~(l = 1)
    BY <2>1, <1>1, <1>2
  <2>. QED BY <2>2, <1>2
<1>6. l <= d + 1
  <2>. SUFFICES ASSUME l >= d + 2 PROVE FALSE
    BY <1>2, <1>3
  <2>1. l = d + 2 + (l - d - 2) /\ l - d - 2 \in Nat
    BY <1>2, <1>3
  <2>2. l * M = d * M + 2 * M + (l - d - 2) * M /\ (l - d - 2) * M >= 0
    BY <2>1, <1>1, <1>3
  <2>3. d * M \in Int
    BY <1>1, <1>3
  <2>. QED BY <2>2, <2>3, <1>1, <1>2, <1>3
<1>. QED
  BY <1>2, <1>3, <1>4, <1>5, <1>6 DEF M, l, d

\* What a node's records take behind the node: the same for a leaf and a
\* tree.
LEMMA NeedAndExtra ==
  ASSUME NEW n \in Nat \ {0}
  PROVE  /\ Need(n) \in Nat
         /\ Need(n) + LeafExtra(n) = (Extra + 2) * LeavesOf(n) - 2
<1>1. LeavesOf(n) \in Nat /\ Extra \in Nat /\ Extra >= 2
  BY LeafCount, Sizes
<1>2. CASE IsLeaf(n)
  <2>1. LeavesOf(n) = 1
    BY <1>2, LeafCount
  <2>. QED BY <2>1, <1>1, <1>2 DEF Need, LeafExtra
<1>3. CASE ~IsLeaf(n)
  <2>1. LeavesOf(n) >= 2
    BY <1>3, LeafCount
  <2>2. (Extra + 2) * LeavesOf(n) >= 2
    BY <2>1, <1>1
  <2>. QED BY <2>2, <1>1, <1>3 DEF Need, LeafExtra
<1>. QED
  BY <1>2, <1>3

\* A cut at the end of a leaf makes no leaf more.
LEMMA LeavesOfParts ==
  ASSUME NEW n \in Nat, NEW m \in 1..(n - 1), m % MaxRecords = 0
  PROVE  LeavesOf(n) = LeavesOf(m) + LeavesOf(n - m)
<1>. DEFINE M == MaxRecords
<1>1. M \in Nat /\ M > 0
  BY Sizes
<1>2. PICK q \in Nat : m = q * M
  <2>1. m = (m \div M) * M /\ m \div M \in Nat
    BY <1>1, SMT
  <2>. QED BY <2>1
<1>3. LeavesOf(m) = q
  <2>1. q * M <= m + M - 1 /\ m + M - 1 < q * M + M /\ m + M - 1 \in Nat
    BY <1>1, <1>2
  <2>. QED BY <2>1, <1>1, QuotientIs DEF LeavesOf
<1>. DEFINE r == LeavesOf(n - m)
<1>4. r \in Nat /\ r * M <= n - m + M - 1 /\ n - m + M - 1 < r * M + M
  <2>1. n - m + M - 1 \in Nat
    BY <1>1
  <2>. QED BY <2>1, <1>1, Quotient DEF LeavesOf
<1>. HIDE DEF r
<1>5. (q + r) * M = q * M + r * M /\ q * M \in Int /\ r * M \in Int
  BY <1>1, <1>2, <1>4
<1>6. (q + r) * M <= n + M - 1 /\ n + M - 1 < (q + r) * M + M
  BY <1>1, <1>2, <1>4, <1>5
<1>7. n + M - 1 \in Nat /\ q + r \in Nat
  BY <1>1, <1>2, <1>4
<1>8. (n + M - 1) \div M = q + r
  BY <1>1, <1>6, <1>7, QuotientIs
<1>. QED
  BY <1>3, <1>8 DEF LeavesOf, r

\* What a split takes its call needed.
LEMMA NeedOfSplit ==
  ASSUME NEW n \in Nat, ~IsLeaf(n), NEW m \in 1..(n - 1), m % MaxRecords = 0
  PROVE  Need(n) = Need(m) + Need(n - m) + 2 + LeafExtra(m) + LeafExtra(n - m)
<1>1. m \in Nat \ {0} /\ n - m \in Nat \ {0} /\ n \in Nat \ {0}
  OBVIOUS
<1>. DEFINE a == LeavesOf(m)
            b == LeavesOf(n - m)
            E == Extra + 2
<1>2. /\ Need(m) + LeafExtra(m) = E * a - 2
      /\ Need(n - m) + LeafExtra(n - m) = E * b - 2
      /\ Need(n) = E * LeavesOf(n) - 2
  BY <1>1, NeedAndExtra DEF Need
<1>3. LeavesOf(n) = a + b /\ a \in Nat /\ b \in Nat /\ E \in Nat
  BY <1>1, LeavesOfParts, LeafCount, Sizes
<1>4. /\ Need(m) \in Nat /\ Need(n - m) \in Nat
      /\ LeafExtra(m) \in Nat /\ LeafExtra(n - m) \in Nat
  BY <1>1, NeedAndExtra, Sizes DEF LeafExtra
<1>. HIDE DEF a, b, E
<1>5. E * (a + b) = E * a + E * b /\ E * a \in Int /\ E * b \in Int
  BY <1>3
<1>6. Need(n) = E * a + E * b - 2
  BY <1>2, <1>3, <1>5
<1>7. /\ E * a = Need(m) + LeafExtra(m) + 2
      /\ E * b = Need(n - m) + LeafExtra(n - m) + 2
  BY <1>2, <1>4, <1>5
<1>. QED
  BY <1>4, <1>6, <1>7

\* A leaf takes nothing more: its positions were given out with its node.
LEMMA LeafRoom ==
  ASSUME RoomInv, WriteLeaf
  PROVE  RoomInv'
<1>. DEFINE call == Head(calls)
            L == Len(calls)
<1>1. /\ calls # <<>> /\ trips' = trips /\ freeNode' = freeNode /\ TypeOK
      /\ IsLeaf(call.n)
  BY DEF WriteLeaf, RoomInv, PositionInv
<1>2. /\ L \in Nat /\ L >= 1 /\ DOMAIN calls = 1..L /\ call = calls[1]
      /\ Len(calls') = L - 1 /\ DOMAIN calls' = 1..(L - 1)
      /\ \A k \in 1..(L - 1) : calls'[k] = calls[k + 1]
  <2>1. calls' = Tail(calls)
    BY <1>1, LeafWriting
  <2>2. L \in Nat /\ DOMAIN calls = 1..L
    BY <1>1 DEF TypeOK
  <2>. QED BY <2>1, <2>2, <1>1, HeadCall
<1>3. Room'
  <2>1. PICK rest \in [1..(L + 1) -> Nat] :
          /\ freeNode + rest[1] <= Allocated(Len(trips))
          /\ \A k \in 1..L : rest[k] = rest[k + 1] + Need(calls[k].n)
    BY DEF RoomInv, Room
  <2>. DEFINE rest1 == [k \in 1..L |-> rest[k + 1]]
  <2>2. rest1 \in [1..(Len(calls') + 1) -> Nat]
    <3>1. Len(calls') + 1 = L /\ \A k \in 1..L : k + 1 \in 1..(L + 1)
      BY <1>2
    <3>. QED BY <3>1
  <2>3. rest1[1] = rest[1]
    <3>1. 1 \in 1..L /\ 2 \in 1..(L + 1)
      BY <1>2
    <3>2. rest[1] = rest[1 + 1] + Need(calls[1].n)
      BY <3>1, <2>1
    <3>3. Need(calls[1].n) = 0
      BY <1>1, <1>2 DEF Need
    <3>. QED BY <3>1, <3>2, <3>3
  <2>4. ASSUME NEW k \in 1..(L - 1)
        PROVE  rest1[k] = rest1[k + 1] + Need(calls'[k].n)
    <3>1. k \in 1..L /\ k + 1 \in 1..L
      BY <1>2
    <3>2. rest[k + 1] = rest[k + 1 + 1] + Need(calls[k + 1].n)
      BY <3>1, <2>1
    <3>. QED BY <3>1, <3>2, <1>2
  <2>. HIDE DEF rest1
  <2>5. freeNode' + rest1[1] <= Allocated(Len(trips'))
    BY <2>1, <2>3, <1>1
  <2>. QED BY <2>2, <2>4, <2>5, <1>2 DEF Room
<1>4. (Written \cup Promised)' \subseteq Written \cup Promised
  <2>1. PICK node : /\ node.child = 0 /\ node.median = call.n
                    /\ nodes' = WithNode(call.node, node)
    BY <1>1, LeafWriting
  <2>2. Written' \subseteq Written \cup {<<call.node, call.n>>}
    BY <2>1 DEF WithNode, Written
  <2>3. <<call.node, call.n>> \in Promised
    BY <1>2 DEF Promised
  <2>4. Promised' \subseteq Promised
    <3>1. \A k \in 1..(L - 1) : k + 1 \in 1..L
      BY <1>2
    <3>. QED BY <3>1, <1>2 DEF Promised
  <2>. QED BY <2>2, <2>3, <2>4
<1>5. PositionInv'
  BY LeafPositions DEF RoomInv
<1>. QED
  BY <1>1, <1>3, <1>4, <1>5 DEF RoomInv, IsLeaf

\* A split takes what its call needed above its two calls.
LEMMA SplitRoom ==
  ASSUME RoomInv, SplitNode
  PROVE  RoomInv'
<1>. DEFINE call == Head(calls)
            m == Split(call.n)
            L == Len(calls)
            taken == 2 + LeafExtra(m) + LeafExtra(call.n - m)
<1>1. /\ calls # <<>> /\ ~IsLeaf(call.n) /\ TypeOK
      /\ freeNode \in Nat
      /\ freeNode' = freeNode + 2 + LeafExtra(m) + LeafExtra(call.n - m)
  BY DEF SplitNode, RoomInv, PositionInv, TypeOK
<1>2. /\ L \in Nat /\ L >= 1 /\ DOMAIN calls = 1..L /\ call = calls[1]
      /\ call.n \in Nat /\ call.first + call.n - 1 <= Len(trips)
      /\ call.first \in Nat \ {0}
  <2>1. L \in Nat /\ DOMAIN calls = 1..L
    BY <1>1 DEF TypeOK
  <2>. QED BY <2>1, <1>1, HeadCall
<1>3. m \in 1..(call.n - 1) /\ m % MaxRecords = 0 /\ Len(trips') = Len(trips)
  BY <1>1, Splitting
<1>4. /\ Len(calls') = L + 1
      /\ calls'[1].n = m /\ calls'[2].n = call.n - m
      /\ \A k \in 3..(L + 1) : calls'[k] = calls[k - 1]
  <2>1. calls'[1] = LeftCall(call, m) /\ calls'[2] = RightCall(call, m)
    BY <1>1, Splitting
  <2>2. Len(calls') = L + 1 /\ \A k \in 3..(L + 1) : calls'[k] = calls[k - 1]
    BY <1>1, Splitting
  <2>. QED BY <2>1, <2>2 DEF LeftCall, RightCall
<1>5. /\ Need(call.n) = Need(m) + Need(call.n - m) + 2 + LeafExtra(m) + LeafExtra(call.n - m)
      /\ Need(m) \in Nat /\ Need(call.n - m) \in Nat
      /\ LeafExtra(m) \in Nat /\ LeafExtra(call.n - m) \in Nat
  <2>1. m \in Nat \ {0} /\ call.n - m \in Nat \ {0}
    BY <1>2, <1>3
  <2>. QED BY <2>1, <1>1, <1>2, <1>3, NeedOfSplit, NeedAndExtra, PositionTypes
<1>. HIDE DEF call, m, L
<1>6. Room'
  <2>1. PICK rest \in [1..(L + 1) -> Nat] :
          /\ freeNode + rest[1] <= Allocated(Len(trips))
          /\ \A k \in 1..L : rest[k] = rest[k + 1] + Need(calls[k].n)
    BY DEF RoomInv, Room, L
  <2>2. rest[2] \in Nat /\ rest[1] = rest[2] + Need(call.n)
    <3>1. 1 \in 1..L /\ 2 \in 1..(L + 1) /\ 1 + 1 = 2
      BY <1>2
    <3>. QED BY <3>1, <2>1, <1>2
  <2>. DEFINE mid == rest[2] + Need(call.n - m)
              rest1 == [k \in 1..(L + 2) |->
                          IF k = 1 THEN mid + Need(m)
                          ELSE IF k = 2 THEN mid
                          ELSE rest[k - 1]]
  <2>3. rest1 \in [1..(Len(calls') + 1) -> Nat]
    <3>1. Len(calls') + 1 = L + 2
      BY <1>2, <1>4
    <3>2. \A k \in 1..(L + 2) : k # 1 /\ k # 2 => k - 1 \in 1..(L + 1)
      BY <1>2
    <3>3. mid \in Nat /\ mid + Need(m) \in Nat
      BY <2>2, <1>5
    <3>4. \A k \in 1..(L + 2) : k # 1 /\ k # 2 => rest[k - 1] \in Nat
      BY <3>2
    <3>. HIDE DEF mid
    <3>. QED BY <3>1, <3>3, <3>4
  <2>4. /\ 1 \in 1..(L + 2) /\ 2 \in 1..(L + 2) /\ 3 \in 1..(L + 2)
        /\ rest1[1] = mid + Need(m) /\ rest1[2] = mid /\ rest1[3] = rest[2]
    <3>1. 1 \in 1..(L + 2) /\ 2 \in 1..(L + 2) /\ 3 \in 1..(L + 2) /\ 3 - 1 = 2
      BY <1>2
    <3>. QED BY <3>1
  <2>5. \A k \in 3..(L + 2) : rest1[k] = rest[k - 1]
    BY <1>2
  <2>. HIDE DEF rest1
  <2>6. freeNode' + rest1[1] <= Allocated(Len(trips'))
    <3>1. freeNode' + (mid + Need(m)) = freeNode + rest[1]
      <4>1. freeNode' = freeNode + 2 + LeafExtra(m) + LeafExtra(call.n - m)
        BY <1>1
      <4>2. freeNode \in Nat
        BY DEF RoomInv, PositionInv, TypeOK
      <4>3. PICK a, b, x, y, e, g :
              /\ a = freeNode /\ b = rest[2] /\ x = Need(m) /\ y = Need(call.n - m)
              /\ e = LeafExtra(m) /\ g = LeafExtra(call.n - m)
        OBVIOUS
      <4>5. a \in Nat /\ b \in Nat /\ x \in Nat /\ y \in Nat /\ e \in Nat /\ g \in Nat
        BY <4>2, <4>3, <2>2, <1>5
      <4>6. (a + 2 + e + g) + (b + y + x) = a + (b + (x + y + 2 + e + g))
        BY <4>5
      <4>4. rest[1] = rest[2] + (Need(m) + Need(call.n - m) + 2
                                   + LeafExtra(m) + LeafExtra(call.n - m))
        BY <2>2, <1>5
      <4>. QED BY <4>1, <4>3, <4>4, <4>6
    <3>. QED BY <3>1, <2>1, <2>4, <1>3
  <2>7. ASSUME NEW k \in 1..(L + 1)
        PROVE  rest1[k] = rest1[k + 1] + Need(calls'[k].n)
    <3>1. CASE k = 1
      BY <3>1, <2>4, <1>4
    <3>2. CASE k = 2
      BY <3>2, <2>4, <1>4
    <3>3. CASE k \in 3..(L + 1)
      <4>1. k - 1 \in 1..L /\ k \in 3..(L + 2) /\ k + 1 \in 3..(L + 2)
            /\ k + 1 - 1 = k - 1 + 1
        BY <3>3, <1>2
      <4>2. rest[k - 1] = rest[k - 1 + 1] + Need(calls[k - 1].n)
        BY <4>1, <2>1
      <4>. QED BY <4>1, <4>2, <3>3, <2>5, <1>4
    <3>4. k = 1 \/ k = 2 \/ k \in 3..(L + 1)
      BY <1>2
    <3>. QED BY <3>1, <3>2, <3>3, <3>4
  <2>. QED BY <2>3, <2>6, <2>7, <1>4 DEF Room
<1>7. ~IsLeaf(Len(trips'))
  <2>1. ~IsLeaf(call.n) /\ call.n \in Nat /\ Len(trips) \in Nat /\ call.n <= Len(trips)
    BY <1>1, <1>2 DEF IsLeaf, TypeOK
  <2>2. MaxRecords \in Nat
    BY KdAssumption
  <2>. QED BY <2>1, <2>2, <1>3 DEF IsLeaf
<1>8. PositionInv'
  BY SplitPositions DEF RoomInv
<1>. QED
  BY <1>6, <1>7, <1>8 DEF RoomInv

\* createStingIndex allocates enough for the whole block.
LEMMA RoomAtFirst ==
  ASSUME Init, PositionInv
  PROVE  RoomInv
<1>. DEFINE N == Len(trips)
            q == N \div MaxRecords + 1
<1>1. /\ N \in Nat \ {0} /\ nodes = <<>> /\ DOMAIN nodes = {} /\ freeNode = 1
      /\ calls = <<[first |-> 1, n |-> N, depth |-> 0, node |-> 0]>>
  BY WholeBlock
<1>2. /\ LeavesOf(N) \in Nat /\ LeavesOf(N) <= q /\ q \in Nat /\ q >= 1
      /\ Extra \in Nat /\ Extra >= 2
  <2>. HIDE DEF N
  <2>1. LeavesOf(N) \in Nat /\ N \div MaxRecords \in Nat
        /\ LeavesOf(N) <= N \div MaxRecords + 1
    BY <1>1, LeafCount
  <2>. QED BY <2>1, Sizes
<1>3. Need(N) \in Nat /\ 1 + Need(N) <= 2 * q * Extra
  <2>. DEFINE E == Extra
              l == LeavesOf(N)
  <2>1. Need(N) \in Nat /\ Need(N) = (IF IsLeaf(N) THEN 0 ELSE (E + 2) * l - 2)
    BY <1>1, NeedAndExtra DEF Need
  <2>. HIDE DEF E, l, q
  <2>2. (E + 2) * l <= (E + 2) * q
    BY <1>2 DEF E, l
  <2>3. E * q >= 2 * q /\ E * q \in Int
    BY <1>2 DEF E
  <2>4. (E + 2) * q = E * q + 2 * q /\ 2 * q * E = E * q + E * q
    BY <1>2 DEF E
  <2>5. (E + 2) * l \in Int
    BY <1>2 DEF E, l
  <2>. QED BY <2>1, <2>2, <2>3, <2>4, <2>5, <1>2 DEF E
<1>4. Room
  <2>. DEFINE rest == [k \in 1..2 |-> IF k = 1 THEN Need(N) ELSE 0]
  <2>1. Len(calls) = 1 /\ calls[1].n = N /\ Len(calls) + 1 = 2
    BY <1>1
  <2>2. rest \in [1..(Len(calls) + 1) -> Nat]
    BY <2>1, <1>3
  <2>3. rest[1] = Need(N) /\ rest[2] = 0
    OBVIOUS
  <2>. HIDE DEF rest, N
  <2>4. \A k \in 1..Len(calls) : rest[k] = rest[k + 1] + Need(calls[k].n)
    BY <2>1, <2>3, <1>3
  <2>5. freeNode + rest[1] <= Allocated(Len(trips))
    BY <2>3, <1>1, <1>3 DEF Allocated, N
  <2>. QED BY <2>2, <2>4, <2>5 DEF Room
<1>5. Written \cup Promised \subseteq {<<0, N>>}
  BY <1>1 DEF Written, Promised
<1>. QED
  BY <1>4, <1>5 DEF RoomInv

\* Every node, and every leaf's offset and range, is in the array that
\* createStingIndex allocates from the number of records alone, for every
\* leaf size, number of keys and block.
THEOREM PositionsFit == Spec => []NodesFit
<1>1. RoomInv => NodesFit
  <2>. SUFFICES ASSUME RoomInv, NEW a \in Written \cup Promised
                PROVE  Area(a[1], a[2]) \subseteq 0..(Allocated(Len(trips)) - 1)
    BY DEF NodesFit
  <2>. DEFINE top == Allocated(Len(trips))
  <2>1. TypeOK /\ freeNode \in Nat /\ Len(trips) \in Nat
    BY DEF RoomInv, PositionInv, TypeOK
  <2>2. a[1] \in Nat /\ a[2] \in Nat /\ LeafExtra(a[2]) \in Nat
    BY <2>1, PositionTypes
  <2>3. top \in Nat /\ top >= 2 * Extra
    <3>1. Len(trips) \div MaxRecords \in Nat
      BY <2>1, Sizes, Quotient
    <3>. QED BY <3>1, Sizes DEF Allocated
  <2>. HIDE DEF top
  <2>4. CASE IsLeaf(Len(trips))
    <3>1. a = <<0, Len(trips)>>
      BY <2>4 DEF RoomInv
    <3>2. Area(a[1], a[2]) = 0..Extra
      BY <3>1, <2>4, Sizes DEF Area, LeafExtra
    <3>. QED BY <3>2, <2>3, Sizes DEF top
  <2>5. CASE ~IsLeaf(Len(trips))
    <3>1. a[1] + LeafExtra(a[2]) < freeNode
      BY <2>5 DEF RoomInv, PositionInv, Below
    <3>2. freeNode <= top
      <4>1. PICK rest \in [1..(Len(calls) + 1) -> Nat] : freeNode + rest[1] <= top
        BY DEF RoomInv, Room, top
      <4>2. 1 \in 1..(Len(calls) + 1)
        BY <2>1 DEF TypeOK
      <4>3. rest[1] \in Nat
        BY <4>1, <4>2
      <4>. QED BY <4>1, <4>3, <2>1, <2>3
    <3>. QED BY <3>1, <3>2, <2>1, <2>2, <2>3 DEF Area, top
  <2>. QED BY <2>4, <2>5
<1>2. Init => RoomInv
  BY RoomAtFirst, PositionsAtFirst
<1>3. RoomInv /\ [Next]_vars => RoomInv'
  <2>1. ASSUME RoomInv, UNCHANGED vars PROVE RoomInv'
    <3>1. trips' = trips /\ calls' = calls /\ nodes' = nodes /\ freeNode' = freeNode
      BY <2>1 DEF vars
    <3>2. PositionInv'
      BY <2>1, PositionsKept DEF RoomInv
    <3>3. Room'
      BY <2>1, <3>1 DEF RoomInv, Room
    <3>4. Written' = Written /\ Promised' = Promised
      BY <3>1 DEF Written, Promised
    <3>. QED BY <2>1, <3>1, <3>2, <3>3, <3>4 DEF RoomInv, IsLeaf
  <2>. QED BY <2>1, LeafRoom, SplitRoom DEF Next
<1>. QED
  BY <1>1, <1>2, <1>3, PTL DEF Spec

-----------------------------------------------------------------------------
\* Of the keys file: the calls to be made are of the records from there on
\* where the file ends, one after the other up to the end of the block; what
\* is in the file are the records before them, where they are to stay; and all
\* calls but the last are of whole leaves.
Contiguous ==
  calls # <<>> =>
    /\ calls[1].first = Len(keysFile) + 1
    /\ \A k \in 1..(Len(calls) - 1) :
         /\ calls[k + 1].first = calls[k].first + calls[k].n
         /\ calls[k].n % MaxRecords = 0
    /\ calls[Len(calls)].first + calls[Len(calls)].n = Len(trips) + 1

WrittenRecords ==
  /\ Len(keysFile) % MaxRecords = 0
  /\ \A k \in DOMAIN keysFile : k <= Len(trips) => keysFile[k] = trips[k]
  /\ \A k \in DOMAIN keysFile : k > Len(trips) => keysFile[k] = Pad
  /\ calls # <<>> => Len(keysFile) < Len(trips)
  /\ Len(keysFile) < Len(trips) + MaxRecords
  /\ calls = <<>> => Len(keysFile) >= Len(trips)

FileInv ==
  /\ TypeOK
  /\ freeNode >= 1
  /\ \A i \in DOMAIN nodes : nodes[i].child = 0 => nodes[i].offset % MaxRecords = 0
  /\ Contiguous
  /\ WrittenRecords

\* A record is not what fills up the last leaf.
LEMMA RecordIsNoPad ==
  ASSUME NEW t \in Trips
  PROVE  t # Pad
<1>1. t.index \in Nat /\ Pad.index = -1
  BY DEF Trips, Pad
<1>. QED
  BY <1>1

\* Writing the leaf of the call in front brings the file to the next call.
LEMMA LeafInFile ==
  ASSUME FileInv, WriteLeaf
  PROVE  FileInv'
<1>. DEFINE call == Head(calls)
            n == call.n
            K == Len(keysFile)
            L == Len(calls)
            M == MaxRecords
            N == Len(trips)
<1>1. /\ calls # <<>> /\ trips' = trips /\ freeNode' = freeNode /\ calls' = Tail(calls)
      /\ TypeOK
  BY DEF WriteLeaf, FileInv
<1>2. /\ M \in Nat /\ M > 0 /\ K \in Nat /\ N \in Nat /\ L \in Nat /\ L >= 1
      /\ DOMAIN calls = 1..L /\ DOMAIN keysFile = 1..K
      /\ n \in Nat /\ n > 0 /\ n <= M
  <2>1. calls \in Seq(Calls) /\ keysFile \in Seq(Trips \cup {Pad}) /\ trips \in Seq(Trips)
    BY <1>1 DEF TypeOK
  <2>2. n \in Nat /\ n > 0 /\ n <= M
    BY <1>1, HeadCall, LeafWriting
  <2>. QED BY <2>1, <2>2, <1>1, KdAssumption
<1>3. call = calls[1] /\ call.first = K + 1 /\ K + n <= N
  BY <1>1, <1>2, HeadCall DEF FileInv, Contiguous
<1>4. /\ Len(calls') = L - 1 /\ DOMAIN calls' = 1..(L - 1)
      /\ \A k \in 1..(L - 1) : calls'[k] = calls[k + 1]
  BY <1>1, HeadCall
<1>5. /\ Len(keysFile') = K + M /\ DOMAIN keysFile' = 1..(K + M)
      /\ \A k \in 1..K : keysFile'[k] = keysFile[k]
      /\ \A k \in 1..n : keysFile'[K + k] = trips[call.first + k - 1]
      /\ \A k \in (n + 1)..M : keysFile'[K + k] = Pad
  <2>1. keysFile' \in Seq(Trips \cup {Pad}) /\ Len(keysFile') = K + M
    BY <1>1, LeafWriting
  <2>2. \A k \in DOMAIN keysFile : keysFile'[k] = keysFile[k]
    BY <1>1, LeafWriting
  <2>3. \A k \in 1..n : keysFile'[K + k] = trips[call.first + k - 1]
    BY <1>1, LeafWriting
  <2>4. \A k \in (n + 1)..M : keysFile'[K + k] = Pad
    BY <1>1, LeafWriting
  <2>5. DOMAIN keysFile' = 1..(K + M)
    BY <2>1
  <2>. QED BY <2>1, <2>2, <2>3, <2>4, <2>5, <1>2
<1>6. ASSUME L > 1
      PROVE  n = M /\ calls[2].first = K + M + 1 /\ K + M < N
  <2>1. 1 \in 1..(L - 1)
    BY <1>6, <1>2
  <2>2. calls[1 + 1].first = calls[1].first + calls[1].n /\ calls[1].n % M = 0
    BY <2>1, <1>1 DEF FileInv, Contiguous
  <2>3. n >= M
    BY <2>2, <1>2, <1>3, MultipleIsNoLess
  <2>4. n = M /\ calls[2].first = K + M + 1
    <3>1. n = M
      BY <2>3, <1>2
    <3>2. 1 + 1 = 2
      OBVIOUS
    <3>3. calls[2].first = call.first + n
      BY <2>2, <3>2, <1>3
    <3>. QED BY <3>1, <3>3, <1>2, <1>3
  <2>5. 2 \in DOMAIN calls
    BY <1>2, <1>6
  <2>6. calls[2] \in Calls /\ calls[2].first + calls[2].n - 1 <= N
    BY <2>5, <1>1 DEF TypeOK
  <2>7. calls[2].n \in Nat \ {0}
    BY <2>6 DEF Calls
  <2>. QED BY <2>4, <2>6, <2>7, <1>2
<1>7. ASSUME L = 1 PROVE K + n = N
  <2>1. calls[L].first + calls[L].n = N + 1
    BY <1>1 DEF FileInv, Contiguous
  <2>. QED BY <2>1, <1>7, <1>2, <1>3
<1>. HIDE DEF call, n, K, L, M, N
<1>8. Contiguous'
  <2>. SUFFICES ASSUME calls' # <<>>
         PROVE  /\ calls'[1].first = Len(keysFile') + 1
                /\ \A k \in 1..(Len(calls') - 1) :
                     /\ calls'[k + 1].first = calls'[k].first + calls'[k].n
                     /\ calls'[k].n % MaxRecords = 0
                /\ calls'[Len(calls')].first + calls'[Len(calls')].n = Len(trips') + 1
    BY DEF Contiguous
  <2>1. L > 1
    <3>1. calls' \in Seq(Calls) /\ Len(calls') # 0
      BY <1>1, HeadCall
    <3>. QED BY <3>1, <1>2, <1>4
  <2>2. calls'[1].first = Len(keysFile') + 1
    <3>1. calls'[1] = calls[1 + 1]
      BY <2>1, <1>2, <1>4
    <3>. QED BY <2>1, <3>1, <1>2, <1>5, <1>6
  <2>3. ASSUME NEW k \in 1..(L - 1 - 1)
        PROVE  /\ calls'[k + 1].first = calls'[k].first + calls'[k].n
               /\ calls'[k].n % MaxRecords = 0
    <3>1. k + 1 \in 1..(L - 1) /\ k \in 1..(L - 1)
      BY <1>2
    <3>2. /\ calls[k + 1 + 1].first = calls[k + 1].first + calls[k + 1].n
          /\ calls[k + 1].n % MaxRecords = 0
      BY <3>1, <1>1 DEF FileInv, Contiguous, L
    <3>. QED BY <3>1, <3>2, <1>4
  <2>4. calls'[L - 1].first + calls'[L - 1].n = Len(trips') + 1
    <3>1. L - 1 \in 1..(L - 1) /\ L - 1 + 1 = L
      BY <2>1, <1>2
    <3>2. calls'[L - 1] = calls[L]
      BY <3>1, <1>4
    <3>3. calls[L].first + calls[L].n = Len(trips) + 1
      BY <1>1 DEF FileInv, Contiguous, L
    <3>. QED BY <3>2, <3>3, <1>1
  <2>. QED BY <2>2, <2>3, <2>4, <1>4
<1>9. WrittenRecords'
  <2>1. Len(keysFile') % MaxRecords = 0
    <3>1. K % M = 0
      BY DEF FileInv, WrittenRecords, K, M
    <3>2. M % M = 0
      BY <1>2
    <3>3. (K + M) % M = 0
      BY <3>1, <3>2, <1>2, SumOfMultiples
    <3>. QED BY <3>3, <1>5 DEF M
  <2>2. ASSUME NEW k \in 1..(K + M)
        PROVE  /\ k <= N => keysFile'[k] = trips[k]
               /\ k > N => keysFile'[k] = Pad
    <3>1. CASE k \in 1..K
      <4>1. k <= N /\ keysFile'[k] = keysFile[k] /\ k \in DOMAIN keysFile
        BY <3>1, <1>2, <1>3, <1>5
      <4>2. keysFile[k] = trips[k]
        BY <4>1 DEF FileInv, WrittenRecords, N
      <4>. QED BY <4>1, <4>2, <1>2
    <3>2. CASE k \in (K + 1)..(K + n)
      <4>1. k - K \in 1..n /\ K + (k - K) = k /\ call.first + (k - K) - 1 = k /\ k <= N
        BY <3>2, <1>2, <1>3
      <4>2. keysFile'[K + (k - K)] = trips[call.first + (k - K) - 1]
        BY <4>1, <1>5
      <4>. QED BY <4>1, <4>2, <1>2
    <3>3. CASE k \in (K + n + 1)..(K + M)
      <4>1. k - K \in (n + 1)..M /\ K + (k - K) = k /\ n < M
        BY <3>3, <1>2
      <4>2. keysFile'[K + (k - K)] = Pad
        BY <4>1, <1>5
      <4>3. L = 1
        BY <4>1, <1>2, <1>6
      <4>4. k > N
        BY <4>3, <3>3, <1>2, <1>7
      <4>. QED BY <4>1, <4>2, <4>4, <1>2
    <3>. QED BY <3>1, <3>2, <3>3, <1>2
  <2>3. calls' # <<>> => K + M < N
    <3>1. calls' # <<>> => L > 1
      <4>1. calls' \in Seq(Calls) /\ (calls' # <<>> => Len(calls') # 0)
        BY <1>1, HeadCall
      <4>. QED BY <4>1, <1>2, <1>4
    <3>. QED BY <3>1, <1>6
  <2>4. K + M < N + M
    BY <1>2, <1>3
  <2>5. calls' = <<>> => K + M >= N
    <3>1. calls' = <<>> => L = 1
      BY <1>2, <1>4
    <3>. QED BY <3>1, <1>2, <1>7
  <2>. QED BY <2>1, <2>2, <2>3, <2>4, <2>5, <1>1, <1>5 DEF WrittenRecords, N, M
<1>10. \A i \in DOMAIN nodes' : nodes'[i].child = 0 => nodes'[i].offset % MaxRecords = 0
  <2>1. PICK node : /\ node.child = 0 /\ node.offset = K
                    /\ nodes' = WithNode(call.node, node)
    BY <1>1, LeafWriting DEF call, K
  <2>2. K % MaxRecords = 0
    BY DEF FileInv, WrittenRecords, K
  <2>. QED BY <2>1, <2>2 DEF WithNode, FileInv
<1>11. TypeOK'
  BY <1>1, TypePreserved DEF Next
<1>. QED
  BY <1>1, <1>8, <1>9, <1>10, <1>11 DEF FileInv

\* A split moves records of its own call only, all of them still to be written.
LEMMA SplitInFile ==
  ASSUME FileInv, SplitNode
  PROVE  FileInv'
<1>. DEFINE call == Head(calls)
            m == Split(call.n)
            L == Len(calls)
<1>1. /\ calls # <<>> /\ TypeOK /\ keysFile' = keysFile
      /\ freeNode' = freeNode + 2 + LeafExtra(m) + LeafExtra(call.n - m)
  BY DEF SplitNode, FileInv
<1>2. /\ call = calls[1] /\ call.first \in Nat \ {0} /\ call.n \in Nat \ {0}
      /\ L \in Nat /\ L >= 1 /\ DOMAIN calls = 1..L
  <2>1. calls \in Seq(Calls)
    BY <1>1 DEF TypeOK
  <2>. QED BY <2>1, <1>1, HeadCall
<1>3. /\ m \in 1..(call.n - 1) /\ m % MaxRecords = 0
      /\ trips' \in Seq(Trips) /\ Len(trips') = Len(trips)
      /\ \A i \in 1..(call.first - 1) : trips'[i] = trips[i]
  BY <1>1, Splitting
<1>4. /\ Len(calls') = L + 1
      /\ \A k \in 3..(L + 1) : calls'[k] = calls[k - 1]
      /\ calls'[1].first = call.first /\ calls'[1].n = m
      /\ calls'[2].first = call.first + m /\ calls'[2].n = call.n - m
  <2>1. calls'[1] = LeftCall(call, m) /\ calls'[2] = RightCall(call, m)
    BY <1>1, Splitting
  <2>2. Len(calls') = L + 1 /\ \A k \in 3..(L + 1) : calls'[k] = calls[k - 1]
    BY <1>1, Splitting
  <2>. QED BY <2>1, <2>2 DEF LeftCall, RightCall
<1>5. PICK median \in Nat :
        nodes' = WithNode(call.node, [child |-> freeNode, median |-> median])
  BY <1>1, Splitting
<1>6. /\ call.first = Len(keysFile) + 1
      /\ \A k \in 1..(L - 1) : /\ calls[k + 1].first = calls[k].first + calls[k].n
                               /\ calls[k].n % MaxRecords = 0
      /\ calls[L].first + calls[L].n = Len(trips) + 1
  BY <1>1, <1>2 DEF FileInv, Contiguous
<1>. HIDE DEF call, m, L
<1>7. ASSUME NEW k \in 1..L
      PROVE  /\ calls'[k + 1].first = calls'[k].first + calls'[k].n
             /\ calls'[k].n % MaxRecords = 0
  <2>1. CASE k = 1
    BY <2>1, <1>2, <1>3, <1>4
  <2>2. CASE k = 2
    <3>1. 1 \in 1..(L - 1) /\ 3 \in 3..(L + 1)
      BY <2>2, <1>2
    <3>2. calls[1 + 1].first = calls[1].first + calls[1].n /\ calls[1].n % MaxRecords = 0
      BY <3>1, <1>6
    <3>3. calls'[3] = calls[3 - 1]
      BY <3>1, <1>4
    <3>4. (call.n - m) % MaxRecords = 0
      <4>1. /\ call.n \in Nat /\ m \in Nat /\ m <= call.n
            /\ MaxRecords \in Nat /\ MaxRecords > 0
        BY <1>2, <1>3, KdAssumption
      <4>2. call.n % MaxRecords = 0 /\ m % MaxRecords = 0
        BY <3>2, <1>2, <1>3
      <4>. QED BY <4>1, <4>2, SumOfMultiples
    <3>5. k + 1 = 3 /\ 3 - 1 = 2 /\ 1 + 1 = 2
      BY <2>2
    <3>6. calls'[3].first = call.first + call.n
      BY <3>2, <3>3, <3>5, <1>2
    <3>7. call.first + call.n = (call.first + m) + (call.n - m)
      <4>1. call.first \in Int /\ call.n \in Int /\ m \in Int
        BY <1>2, <1>3
      <4>. QED BY <4>1
    <3>. QED BY <3>4, <3>5, <3>6, <3>7, <2>2, <1>4
  <2>3. CASE k \in 3..L
    <3>1. k - 1 \in 1..(L - 1) /\ k \in 3..(L + 1) /\ k + 1 \in 3..(L + 1)
      BY <2>3, <1>2
    <3>2. calls'[k] = calls[k - 1] /\ calls'[k + 1] = calls[k + 1 - 1]
      BY <3>1, <1>4
    <3>3. /\ calls[k - 1 + 1].first = calls[k - 1].first + calls[k - 1].n
          /\ calls[k - 1].n % MaxRecords = 0
      BY <3>1, <1>6
    <3>4. k + 1 - 1 = k - 1 + 1
      OBVIOUS
    <3>. QED BY <3>2, <3>3, <3>4
  <2>. QED BY <2>1, <2>2, <2>3, <1>2
<1>8. calls'[L + 1].first + calls'[L + 1].n = Len(trips') + 1
  <2>1. CASE L = 1
    <3>1. L + 1 = 2
      BY <2>1
    <3>2. call.first + call.n = Len(trips) + 1
      BY <2>1, <1>2, <1>6
    <3>3. call.first + call.n = (call.first + m) + (call.n - m)
      <4>1. call.first \in Int /\ call.n \in Int /\ m \in Int
        BY <1>2, <1>3
      <4>. QED BY <4>1
    <3>. QED BY <3>1, <3>2, <3>3, <1>3, <1>4
  <2>2. CASE L > 1
    <3>1. L + 1 \in 3..(L + 1) /\ L + 1 - 1 = L
      BY <2>2, <1>2
    <3>2. calls'[L + 1] = calls[L]
      <4>1. ASSUME NEW k \in 3..(L + 1), k = L + 1
            PROVE  calls'[k] = calls[L]
        <5>1. calls'[k] = calls[k - 1]
          BY <1>4
        <5>2. k - 1 = L
          BY <4>1, <1>2
        <5>. QED BY <5>1, <5>2
      <4>. QED BY <3>1, <4>1
    <3>. QED BY <3>2, <1>3, <1>6
  <2>. QED BY <2>1, <2>2, <1>2
<1>9. Contiguous'
  <2>1. L + 1 - 1 = L
    BY <1>2
  <2>2. calls'[1].first = Len(keysFile') + 1
    BY <1>1, <1>4, <1>6
  <2>3. Len(calls') - 1 = L
    <3>1. Len(calls') = L + 1 /\ L \in Int
      BY <1>2, <1>4
    <3>. QED BY <3>1
  <2>4. calls'[Len(calls')].first + calls'[Len(calls')].n = Len(trips') + 1
    BY <1>4, <1>8
  <2>5. \A k \in 1..(Len(calls') - 1) :
          /\ calls'[k + 1].first = calls'[k].first + calls'[k].n
          /\ calls'[k].n % MaxRecords = 0
    BY <2>3, <1>7
  <2>. QED BY <2>2, <2>4, <2>5 DEF Contiguous
<1>10. WrittenRecords'
  <2>1. Len(keysFile) \in Nat /\ DOMAIN keysFile = 1..Len(keysFile)
    BY <1>1 DEF TypeOK
  <2>2. \A k \in DOMAIN keysFile : trips'[k] = trips[k]
    BY <2>1, <1>3, <1>6
  <2>3. calls' # <<>>
    BY <1>2, <1>4
  <2>. QED BY <2>2, <2>3, <1>1, <1>3 DEF FileInv, WrittenRecords
<1>11. \A i \in DOMAIN nodes' : nodes'[i].child = 0 => nodes'[i].offset % MaxRecords = 0
  <2>1. freeNode # 0
    BY DEF FileInv, TypeOK
  <2>. QED BY <2>1, <1>5 DEF WithNode, FileInv
<1>12. TypeOK' /\ freeNode' >= 1
  <2>1. LeafExtra(m) \in Nat /\ LeafExtra(call.n - m) \in Nat
    BY <1>1, <1>2, <1>3, PositionTypes
  <2>. QED BY <2>1, <1>1, TypePreserved DEF Next, FileInv, TypeOK
<1>. QED
  BY <1>9, <1>10, <1>11, <1>12 DEF FileInv

LEMMA FileAtFirst ==
  ASSUME Init
  PROVE  FileInv
<1>1. /\ Len(trips) \in Nat \ {0} /\ nodes = <<>> /\ DOMAIN nodes = {} /\ freeNode = 1
      /\ calls = <<[first |-> 1, n |-> Len(trips), depth |-> 0, node |-> 0]>>
      /\ keysFile = <<>>
  BY WholeBlock
<1>2. Len(calls) = 1 /\ calls[1].first = 1 /\ calls[1].n = Len(trips)
      /\ Len(keysFile) = 0 /\ DOMAIN keysFile = {}
  BY <1>1
<1>3. Contiguous
  BY <1>1, <1>2 DEF Contiguous
<1>4. WrittenRecords
  <2>1. MaxRecords \in Nat /\ MaxRecords > 0 /\ 0 % MaxRecords = 0
    BY KdAssumption
  <2>. QED BY <2>1, <1>1, <1>2 DEF WrittenRecords
<1>. QED
  BY <1>1, <1>3, <1>4, InitTyped DEF FileInv

\* The records are in the keys file as they lie in the block, a leaf behind
\* the other, from the first step of the building to the last.
LEMMA FileInvariant == Spec => []FileInv
<1>1. Init => FileInv
  BY FileAtFirst
<1>2. FileInv /\ [Next]_vars => FileInv'
  <2>1. FileInv /\ UNCHANGED vars => FileInv'
    BY DEF vars, FileInv, TypeOK, Contiguous, WrittenRecords
  <2>. QED BY <2>1, LeafInFile, SplitInFile DEF Next
<1>. QED
  BY <1>1, <1>2, PTL DEF Spec

\* Only the last leaf of the keys file is filled up, so that the k-th leaf
\* begins at k times the leaf size: what setBinFile's block count and the
\* offsets of buildKdTree rely on, for every leaf size and block length.
THEOREM LeavesWhole == Spec => []LeavesAligned
<1>1. FileInv => LeavesAligned
  <2>. SUFFICES ASSUME FileInv PROVE LeavesAligned
    OBVIOUS
  <2>1. ASSUME NEW k \in DOMAIN keysFile, keysFile[k] = Pad
        PROVE  k > Len(keysFile) - MaxRecords
    <3>1. /\ k \in Nat /\ Len(keysFile) \in Nat /\ Len(trips) \in Nat
          /\ trips \in Seq(Trips) /\ k >= 1
      BY DEF FileInv, TypeOK
    <3>2. ~(k <= Len(trips))
      <4>. SUFFICES ASSUME k <= Len(trips) PROVE FALSE
        OBVIOUS
      <4>1. trips[k] = Pad /\ trips[k] \in Trips
        BY <3>1, <2>1 DEF FileInv, WrittenRecords
      <4>. QED BY <4>1, RecordIsNoPad
    <3>3. Len(keysFile) < Len(trips) + MaxRecords /\ MaxRecords \in Nat
      BY KdAssumption DEF FileInv, WrittenRecords
    <3>. QED BY <3>1, <3>2, <3>3
  <2>. QED BY <2>1 DEF LeavesAligned, FileInv
<1>. QED
  BY <1>1, FileInvariant, PTL

\* When buildKdTree is done, each record of the block is in one place of the
\* keys file, and nothing else is there but what fills up the last leaf.
THEOREM RecordsWritten == Spec => []EachRecordOnce
<1>1. FileInv => EachRecordOnce
  <2>. SUFFICES ASSUME FileInv, Built
         PROVE  /\ Range(trips) \subseteq Range(keysFile)
                /\ Cardinality({k \in DOMAIN keysFile : keysFile[k] # Pad}) = Len(trips)
    BY DEF EachRecordOnce
  <2>. DEFINE N == Len(trips)
  <2>1. /\ DOMAIN trips = 1..N /\ N \in Nat
        /\ DOMAIN keysFile = 1..Len(keysFile) /\ Len(keysFile) \in Nat
        /\ \A k \in 1..N : trips[k] \in Trips
    BY DEF FileInv, TypeOK
  <2>2. N <= Len(keysFile)
    BY <2>1 DEF FileInv, WrittenRecords, Built
  <2>3. \A k \in 1..N : k \in DOMAIN keysFile /\ keysFile[k] = trips[k]
    BY <2>1, <2>2 DEF FileInv, WrittenRecords
  <2>4. Range(trips) \subseteq Range(keysFile)
    BY <2>1, <2>3 DEF Range
  <2>5. {k \in DOMAIN keysFile : keysFile[k] # Pad} = 1..N
    <3>1. \A k \in DOMAIN keysFile : k > N => keysFile[k] = Pad
      BY DEF FileInv, WrittenRecords
    <3>2. \A k \in 1..N : keysFile[k] # Pad
      BY <2>1, <2>3, RecordIsNoPad
    <3>. QED BY <3>1, <3>2, <2>1, <2>3
  <2>6. Cardinality(1..N) = N
    <3>1. \A n \in Nat : Cardinality(1..n) = IF 1 > n THEN 0 ELSE n - 1 + 1
      BY FS_Interval
    <3>2. \A n \in Nat : (IF 1 > n THEN 0 ELSE n - 1 + 1) = n
      OBVIOUS
    <3>. QED BY <3>1, <3>2, <2>1
  <2>. QED BY <2>4, <2>5, <2>6
<1>. QED
  BY <1>1, FileInvariant, PTL

-----------------------------------------------------------------------------
\* Of a set of natural numbers, one is the least.
LEMMA LeastOf ==
  ASSUME NEW T \in SUBSET Nat, T # {}
  PROVE  \E x \in T : \A y \in T : x <= y
<1> DEFINE R == OpToRel(<, Nat)
<1>1. IsWellFoundedOn(R, Nat)
  BY NatLessThanWellFounded
<1>2. \A x \in Nat, y \in Nat : y < x => <<y, x>> \in R
  BY DEF OpToRel
<1>. HIDE DEF R
<1>3. PICK x \in T : \A y \in T : ~(<<y, x>> \in R)
  BY <1>1, WFMin
<1>4. \A y \in T : ~(y < x)
  BY <1>2, <1>3
<1>. QED
  BY <1>4

\* Induction, for a set of natural numbers.
LEMMA AllNat ==
  ASSUME NEW T, 0 \in T, \A n \in Nat : n \in T => n + 1 \in T
  PROVE  Nat \subseteq T
<1> DEFINE B == Nat \ T
<1>1. SUFFICES ASSUME B # {} PROVE FALSE
  OBVIOUS
<1>2. PICK x \in B : \A y \in B : x <= y
  BY <1>1, LeastOf
<1>3. x # 0 /\ x - 1 \in Nat /\ x - 1 \notin B
  BY <1>2
<1>4. (x - 1) + 1 \in T
  BY <1>3
<1>. QED
  BY <1>4, <1>2

\* Finitely many numbers have a greatest one.
LEMMA GreatestOf ==
  ASSUME NEW n \in Nat \ {0}, NEW f \in [1..n -> Nat]
  PROVE  \E k \in 1..n : \A l \in 1..n : f[l] <= f[k]
<1>. DEFINE T == {m \in Nat : m + 1 <= n => \E k \in 1..(m + 1) : \A l \in 1..(m + 1) : f[l] <= f[k]}
<1>1. 0 \in T
  <2>1. 1 \in 1..(0 + 1) /\ \A l \in 1..(0 + 1) : l = 1
    OBVIOUS
  <2>. QED BY <2>1
<1>2. ASSUME NEW m \in Nat, m \in T PROVE m + 1 \in T
  <2>. SUFFICES ASSUME (m + 1) + 1 <= n
        PROVE  \E k \in 1..((m + 1) + 1) : \A l \in 1..((m + 1) + 1) : f[l] <= f[k]
    OBVIOUS
  <2>1. PICK k \in 1..(m + 1) : \A l \in 1..(m + 1) : f[l] <= f[k]
    BY <1>2
  <2>. DEFINE z == (m + 1) + 1
  <2>2. /\ z \in 1..n /\ k \in 1..n /\ k \in 1..z /\ z \in 1..z
        /\ \A l \in 1..z : l = z \/ l \in 1..(m + 1)
    OBVIOUS
  <2>3. f[z] \in Nat /\ f[k] \in Nat /\ \A l \in 1..(m + 1) : f[l] \in Nat
    BY <2>2
  <2>. HIDE DEF z
  <2>4. CASE f[z] <= f[k]
    BY <2>1, <2>2, <2>4 DEF z
  <2>5. CASE f[k] < f[z]
    <3>1. \A l \in 1..z : f[l] <= f[z]
      BY <2>1, <2>2, <2>3, <2>5
    <3>. QED BY <2>2, <3>1 DEF z
  <2>. QED BY <2>3, <2>4, <2>5
<1>3. n - 1 \in T
  <2>. HIDE DEF T
  <2>1. Nat \subseteq T
    BY <1>1, <1>2, AllNat
  <2>. QED BY <2>1
<1>. QED
  BY <1>3

-----------------------------------------------------------------------------
\* The sorting of an answer.
Low(met, i) == {t \in met : t.index < i}
UpTo(met, i) == {t \in met : t.index <= i}

LEMMA Counts ==
  ASSUME NEW met, IsFiniteSet(met), NEW i, NEW k,
         \A t \in met : t.index \in Nat
  PROVE  /\ Cardinality(met) \in Nat
         /\ Cardinality(Low(met, i)) \in Nat /\ Cardinality(UpTo(met, i)) \in Nat
         /\ UpTo(met, i) \subseteq Low(met, k) => Cardinality(UpTo(met, i)) <= Cardinality(Low(met, k))
<1>1. IsFiniteSet(Low(met, i)) /\ IsFiniteSet(UpTo(met, i)) /\ IsFiniteSet(Low(met, k))
  BY FS_Subset DEF Low, UpTo
<1>2. \A S, T : IsFiniteSet(T) /\ S \subseteq T => Cardinality(S) <= Cardinality(T)
  BY FS_Subset
<1>. QED
  BY <1>1, <1>2, FS_CardinalityType

\* Of the records met, one has the greatest index.
LEMMA GreatestIndex ==
  ASSUME NEW met, IsFiniteSet(met), met # {}, \A t \in met : t.index \in Nat
  PROVE  \E t \in met : \A u \in met : u.index <= t.index
<1>. DEFINE n == Cardinality(met)
<1>1. n \in Nat \ {0} /\ ExistsBijection(1..n, met)
  <2>1. n \in Nat /\ ExistsBijection(1..n, met) /\ n # 0
    BY FS_CardinalityType, FS_EmptySet
  <2>. QED BY <2>1
<1>2. PICK f : f \in [1..n -> met] /\ \A t \in met : \E k \in 1..n : f[k] = t
  BY <1>1 DEF ExistsBijection, Bijection, Surjection, Injection
<1>. HIDE DEF n
<1>3. [k \in 1..n |-> f[k].index] \in [1..n -> Nat]
  BY <1>2
<1>4. PICK k \in 1..n : \A l \in 1..n : [m \in 1..n |-> f[m].index][l] <= [m \in 1..n |-> f[m].index][k]
  BY <1>1, <1>3, GreatestOf
<1>5. \A l \in 1..n : f[l].index <= f[k].index
  BY <1>4
<1>. QED
  BY <1>2, <1>5

\* Each place of the answer has an index that was met, and there are fewer
\* below it than places up to this one, and no fewer up to it.
LEMMA AscendingAt ==
  ASSUME NEW met, IsFiniteSet(met), \A t \in met : t.index \in Nat,
         NEW r \in 1..Cardinality(met)
  PROVE  LET i == Ascending(met)[r]
         IN  /\ i \in {t.index : t \in met}
             /\ Cardinality(Low(met, i)) < r
             /\ Cardinality(UpTo(met, i)) >= r
<1>. DEFINE n == Cardinality(met)
            Reach == {i \in {t.index : t \in met} : Cardinality(UpTo(met, i)) >= r}
<1>1. n \in Nat /\ r \in Nat /\ 1 <= r /\ r <= n
  <2>1. n \in Nat
    BY FS_CardinalityType
  <2>. QED BY <2>1
<1>2. met # {}
  BY <1>1, FS_EmptySet
<1>3. Reach # {} /\ Reach \subseteq Nat
  <2>1. PICK t \in met : \A u \in met : u.index <= t.index
    BY <1>2, GreatestIndex
  <2>2. UpTo(met, t.index) = met
    BY <2>1 DEF UpTo
  <2>. QED BY <2>2, <1>1
<1>4. PICK i \in Reach : \A k \in Reach : i <= k
  BY <1>3, LeastOf
<1>5. Cardinality(Low(met, i)) < r
  <2>. SUFFICES ASSUME Cardinality(Low(met, i)) >= r PROVE FALSE
    <3>1. Cardinality(Low(met, i)) \in Nat
      BY Counts
    <3>. QED BY <3>1, <1>1
  <2>1. Low(met, i) # {} /\ IsFiniteSet(Low(met, i)) /\ \A t \in Low(met, i) : t.index \in Nat
    BY <1>1, FS_EmptySet, FS_Subset DEF Low
  <2>2. PICK t \in Low(met, i) : \A u \in Low(met, i) : u.index <= t.index
    BY <2>1, GreatestIndex
  <2>3. t \in met /\ t.index < i /\ i \in Nat /\ t.index \in Nat
    BY <1>3 DEF Low
  <2>4. UpTo(met, t.index) = Low(met, i)
    BY <2>2, <2>3 DEF Low, UpTo
  <2>5. t.index \in Reach
    BY <2>3, <2>4
  <2>. QED BY <2>3, <2>5, <1>4
<1>. DEFINE Is(k) == Cardinality(Low(met, k)) < r /\ Cardinality(UpTo(met, k)) >= r
<1>6. \E k \in {t.index : t \in met} : Is(k)
  BY <1>5
<1>7. Ascending(met)[r] = CHOOSE k \in {t.index : t \in met} : Is(k)
  BY DEF Ascending, Low, UpTo
<1>. HIDE DEF Is
<1>8. Ascending(met)[r] \in {t.index : t \in met} /\ Is(Ascending(met)[r])
  BY <1>6, <1>7
<1>. QED
  BY <1>8 DEF Is

\* If no index is met twice, the answer has each once, and in order.
LEMMA AscendingOnce ==
  ASSUME NEW met, IsFiniteSet(met), \A t \in met : t.index \in Nat,
         \A t, u \in met : t.index = u.index => t = u
  PROVE  LET found == Ascending(met)
         IN  /\ \A k, l \in DOMAIN found : k < l => found[k] < found[l]
             /\ Range(found) = {t.index : t \in met}
<1>. DEFINE n == Cardinality(met)
            found == Ascending(met)
<1>1. n \in Nat /\ DOMAIN found = 1..n
  BY FS_CardinalityType DEF Ascending
<1>2. \A r \in 1..n : /\ found[r] \in {t.index : t \in met} /\ found[r] \in Nat
                      /\ Cardinality(Low(met, found[r])) < r
                      /\ Cardinality(UpTo(met, found[r])) >= r
  BY AscendingAt
<1>. HIDE DEF found, n
<1>3. \A i, k \in Nat : i < k => UpTo(met, i) \subseteq Low(met, k)
  BY DEF UpTo, Low
<1>4. \A i, k : /\ Cardinality(Low(met, i)) \in Nat /\ Cardinality(UpTo(met, i)) \in Nat
                /\ UpTo(met, i) \subseteq Low(met, k) =>
                     Cardinality(UpTo(met, i)) <= Cardinality(Low(met, k))
  BY Counts
<1>5. ASSUME NEW t \in met
      PROVE  Cardinality(UpTo(met, t.index)) = Cardinality(Low(met, t.index)) + 1
  <2>1. UpTo(met, t.index) = Low(met, t.index) \cup {t} /\ t \notin Low(met, t.index)
    BY DEF UpTo, Low
  <2>2. IsFiniteSet(Low(met, t.index))
    BY FS_Subset DEF Low
  <2>. QED BY <2>1, <2>2, FS_AddElement
<1>6. ASSUME NEW k \in DOMAIN found, NEW l \in DOMAIN found, k < l
      PROVE  found[k] < found[l]
  <2>1. k \in Nat /\ l \in Nat /\ k \in 1..n /\ l \in 1..n
    BY <1>1
  <2>. DEFINE a == found[k]
              b == found[l]
  <2>2. a \in Nat /\ b \in Nat /\ Cardinality(Low(met, a)) < k /\ Cardinality(UpTo(met, b)) >= l
    BY <2>1, <1>2
  <2>3. CASE b < a
    <3>1. UpTo(met, b) \subseteq Low(met, a)
      BY <2>2, <2>3, <1>3
    <3>2. /\ Cardinality(UpTo(met, b)) <= Cardinality(Low(met, a))
          /\ Cardinality(UpTo(met, b)) \in Nat /\ Cardinality(Low(met, a)) \in Nat
      BY <3>1, <1>4
    <3>. QED BY <2>1, <2>2, <3>2, <1>6
  <2>4. CASE b = a
    <3>1. Cardinality(UpTo(met, a)) = Cardinality(Low(met, a)) + 1
      <4>1. PICK t \in met : a = t.index
        BY <2>1, <1>2
      <4>. QED BY <4>1, <1>5
    <3>. QED BY <2>1, <2>2, <2>4, <3>1, <1>4, <1>6
  <2>. QED BY <2>2, <2>3, <2>4
<1>7. Range(found) \subseteq {t.index : t \in met}
  BY <1>1, <1>2 DEF Range
<1>8. ASSUME NEW t \in met PROVE t.index \in Range(found)
  <2>. DEFINE i == t.index
              r == Cardinality(Low(met, i)) + 1
              b == found[r]
  <2>1. r \in Nat /\ i \in Nat /\ Cardinality(UpTo(met, i)) = r
    BY <1>4, <1>5
  <2>2. r \in 1..n
    <3>1. Cardinality(UpTo(met, i)) <= n
      BY FS_Subset DEF UpTo, n
    <3>. QED BY <2>1, <3>1, <1>1, <1>4
  <2>3. b \in Nat /\ Cardinality(Low(met, b)) < r /\ Cardinality(UpTo(met, b)) >= r
    BY <2>2, <1>2
  <2>. HIDE DEF b
  <2>4. ~(b < i)
    <3>1. b < i => Cardinality(UpTo(met, b)) <= Cardinality(Low(met, i))
      BY <2>1, <2>3, <1>3, <1>4
    <3>2. Cardinality(Low(met, i)) \in Nat /\ Cardinality(UpTo(met, b)) \in Nat
      BY <1>4
    <3>. QED BY <3>1, <3>2, <2>3
  <2>5. ~(i < b)
    <3>1. i < b => Cardinality(UpTo(met, i)) <= Cardinality(Low(met, b))
      BY <2>1, <2>3, <1>3, <1>4
    <3>2. Cardinality(Low(met, b)) \in Nat
      BY <1>4
    <3>. QED BY <3>1, <3>2, <2>1, <2>3
  <2>6. b = i
    BY <2>1, <2>3, <2>4, <2>5
  <2>. QED BY <2>2, <2>6, <1>1 DEF Range, b
<1>. QED
  BY <1>6, <1>7, <1>8 DEF found

-----------------------------------------------------------------------------
(* The tree over the block. *)

\* The records below a node, with its depth.  sp tells them for each node that
\* is written or promised to a call.
Records(s) == s.first..(s.first + s.n - 1)
KeyAt(depth) == (depth % Size) + 1
LeftOf(s) == [first |-> s.first, n |-> Split(s.n), depth |-> s.depth + 1]
RightOf(s) == [first |-> s.first + Split(s.n), n |-> s.n - Split(s.n), depth |-> s.depth + 1]

\* The position of a node's second child.
Second(c, n) == c + 1 + LeafExtra(n)

\* A part of the block, with a depth.
IsPart(s) ==
  /\ s.first \in Nat \ {0} /\ s.n \in Nat \ {0} /\ s.depth \in Nat
  /\ s.first + s.n - 1 <= Len(trips)

LeafNode(node, s) ==
  /\ IsLeaf(s.n)
  /\ node = [child |-> 0, median |-> s.n, offset |-> s.first - 1, lo |-> node.lo, hi |-> node.hi]

SplitNodeAt(i, sp) ==
  LET c == nodes[i].child
      d == Second(c, Split(sp[i].n))
  IN  /\ ~IsLeaf(sp[i].n) /\ i < c
      /\ c \in DOMAIN sp /\ sp[c] = LeftOf(sp[i])
      /\ d \in DOMAIN sp /\ sp[d] = RightOf(sp[i])

\* The nodes cut the block, each its part.
Tree(sp) ==
  /\ DOMAIN sp = (DOMAIN nodes) \cup {calls[k].node : k \in DOMAIN calls}
  /\ \A x \in DOMAIN sp :
       /\ IsPart(sp[x]) /\ x \in Nat /\ x < freeNode
       /\ x # 0 => x + LeafExtra(sp[x].n) < freeNode
  /\ 0 \in DOMAIN sp /\ sp[0] = [first |-> 1, n |-> Len(trips), depth |-> 0]
  /\ \A k \in DOMAIN calls :
       sp[calls[k].node] = [first |-> calls[k].first, n |-> calls[k].n, depth |-> calls[k].depth]
  /\ \A i \in DOMAIN nodes : LeafNode(nodes[i], sp[i]) \/ SplitNodeAt(i, sp)

\* A leaf's range holds its records, and the records on the two sides of a cut
\* are up to the median and from it on.
Parted(sp) ==
  \A i \in DOMAIN nodes :
    /\ nodes[i].child = 0 =>
         \A p \in Records(sp[i]), j \in 1..Size :
           /\ nodes[i].lo[j] \in Nat /\ nodes[i].hi[j] \in Nat
           /\ nodes[i].lo[j] <= trips[p].key[j] /\ trips[p].key[j] <= nodes[i].hi[j]
    /\ nodes[i].child # 0 =>
         LET j == KeyAt(sp[i].depth)
         IN  /\ \A p \in Records(LeftOf(sp[i])) : trips[p].key[j] <= nodes[i].median
             /\ \A p \in Records(RightOf(sp[i])) : nodes[i].median <= trips[p].key[j]

\* a's records are some of s's, or none of them.
Nested(a, s) ==
  \/ s.first <= a.first /\ a.first + a.n <= s.first + s.n
  \/ a.first + a.n <= s.first
  \/ s.first + s.n <= a.first

\* What is still to be sorted is on one side of each cut.
CallsNested(sp) == \A x \in DOMAIN sp, k \in DOMAIN calls : Nested(calls[k], sp[x])

\* The calls are for one part of the block behind the other.
Behind ==
  \A k, l \in DOMAIN calls : k < l => calls[k].first + calls[k].n <= calls[l].first

TreeInv == Behind /\ \E sp : Tree(sp) /\ CallsNested(sp)

\* No two records have the same number.
Numbered == \A i, k \in DOMAIN trips : trips[i].index = trips[k].index => i = k

CutInv ==
  /\ FileInv /\ Numbered /\ Behind
  /\ \E sp : Tree(sp) /\ CallsNested(sp) /\ Parted(sp)

-----------------------------------------------------------------------------
LEMMA PartTypes ==
  ASSUME NEW s, IsPart(s), Len(trips) \in Nat
  PROVE  /\ s.first \in Nat /\ s.first >= 1 /\ s.n \in Nat /\ s.n >= 1 /\ s.depth \in Nat
         /\ KeyAt(s.depth) \in 1..Size
         /\ \A p \in Records(s) : p \in 1..Len(trips)
         /\ ~IsLeaf(s.n) =>
              /\ Split(s.n) \in Nat /\ 1 <= Split(s.n) /\ Split(s.n) < s.n
              /\ IsPart(LeftOf(s)) /\ IsPart(RightOf(s))
              /\ \A p \in Records(s) : p \in Records(LeftOf(s)) \/ p \in Records(RightOf(s))
<1>1. /\ s.first \in Nat /\ s.first >= 1 /\ s.n \in Nat /\ s.n >= 1 /\ s.depth \in Nat
      /\ s.first + s.n - 1 <= Len(trips)
  BY DEF IsPart
<1>2. KeyAt(s.depth) \in 1..Size
  BY <1>1, KdAssumption DEF KeyAt
<1>3. \A p \in Records(s) : p \in 1..Len(trips)
  BY <1>1 DEF Records
<1>4. ASSUME ~IsLeaf(s.n)
      PROVE  /\ Split(s.n) \in Nat /\ 1 <= Split(s.n) /\ Split(s.n) < s.n
             /\ IsPart(LeftOf(s)) /\ IsPart(RightOf(s))
             /\ \A p \in Records(s) : p \in Records(LeftOf(s)) \/ p \in Records(RightOf(s))
  <2>. DEFINE m == Split(s.n)
  <2>1. m \in Nat /\ 1 <= m /\ m < s.n
    <3>1. m \in 1..(s.n - 1)
      BY <1>1, <1>4, SplitProper
    <3>. HIDE DEF m
    <3>. QED BY <3>1, <1>1
  <2>. HIDE DEF m
  <2>2. /\ LeftOf(s).first = s.first /\ LeftOf(s).n = m /\ LeftOf(s).depth = s.depth + 1
        /\ RightOf(s).first = s.first + m /\ RightOf(s).n = s.n - m
        /\ RightOf(s).depth = s.depth + 1
    BY DEF LeftOf, RightOf, m
  <2>3. IsPart(LeftOf(s)) /\ IsPart(RightOf(s))
    <3>1. /\ s.first \in Nat \ {0} /\ m \in Nat \ {0} /\ s.depth + 1 \in Nat
          /\ s.first + m - 1 <= Len(trips)
          /\ s.first + m \in Nat \ {0} /\ s.n - m \in Nat \ {0}
          /\ (s.first + m) + (s.n - m) - 1 <= Len(trips)
      <4>1. \A a, n \in Nat : a >= 1 /\ 1 <= m /\ m < n =>
              /\ a + m \in Nat \ {0} /\ n - m \in Nat \ {0}
              /\ a + m - 1 <= a + n - 1 /\ (a + m) + (n - m) - 1 = a + n - 1
        BY <2>1
      <4>2. /\ s.first + m \in Nat \ {0} /\ s.n - m \in Nat \ {0}
            /\ s.first + m - 1 <= s.first + s.n - 1
            /\ (s.first + m) + (s.n - m) - 1 = s.first + s.n - 1
        BY <4>1, <1>1, <2>1
      <4>3. s.first + m - 1 \in Int /\ s.first + s.n - 1 \in Int /\ Len(trips) \in Int
        <5>1. Len(trips) \in Nat
          BY DEF TypeOK
        <5>. QED BY <5>1, <1>1, <2>1
      <4>4. s.first + m - 1 <= Len(trips)
        BY <4>2, <4>3, <1>1
      <4>5. (s.first + m) + (s.n - m) - 1 <= Len(trips)
        BY <4>2, <1>1
      <4>6. s.first \in Nat \ {0} /\ m \in Nat \ {0} /\ s.depth + 1 \in Nat
        BY <1>1, <2>1
      <4>. QED BY <4>2, <4>4, <4>5, <4>6
    <3>. QED BY <2>2, <3>1 DEF IsPart
  <2>4. \A p \in Records(s) : p \in Records(LeftOf(s)) \/ p \in Records(RightOf(s))
    <3>1. \A a, n \in Nat : \A p \in a..(a + n - 1) :
            m < n => p \in a..(a + m - 1) \/ p \in (a + m)..((a + m) + (n - m) - 1)
      BY <2>1
    <3>2. /\ Records(s) = s.first..(s.first + s.n - 1)
          /\ Records(LeftOf(s)) = s.first..(s.first + m - 1)
          /\ Records(RightOf(s)) = (s.first + m)..((s.first + m) + (s.n - m) - 1)
      BY <2>2 DEF Records
    <3>. QED BY <3>1, <3>2, <1>1, <2>1
  <2>. QED BY <2>1, <2>3, <2>4 DEF m
<1>. QED
  BY <1>1, <1>2, <1>3, <1>4

\* Of two ranges, one inside the other or beside it.
LEMMA InsideOrBeside ==
  ASSUME NEW b \in Nat, NEW n \in Nat, NEW c \in Nat, NEW l \in Nat,
         NEW z \in b..(b + n - 1), z \in c..(c + l - 1), NEW w \in b..(b + n - 1),
         (c <= b /\ b + n <= c + l) \/ b + n <= c \/ c + l <= b
  PROVE  w \in c..(c + l - 1)
<1>1. CASE c <= b /\ b + n <= c + l
  BY <1>1
<1>2. CASE b + n <= c \/ c + l <= b
  BY <1>2
<1>. QED
  BY <1>1, <1>2

\* The sort for a call keeps the records of each part it is inside or beside.
LEMMA SortInPart ==
  ASSUME TypeOK, NEW a, IsPart(a), NEW s, IsPart(s), Nested(a, s), NEW j,
         NEW q \in Sortings(a.first, a.first + a.n - 1, j),
         NEW x \in Records(s)
  PROVE  \E y \in Records(s) : Permuted(q)[x] = trips[y]
<1>1. /\ Len(trips) \in Nat /\ DOMAIN trips = 1..Len(trips)
      /\ a.first \in Nat /\ a.n \in Nat /\ s.first \in Nat /\ s.n \in Nat
      /\ x \in DOMAIN trips
  <2>1. Len(trips) \in Nat /\ DOMAIN trips = 1..Len(trips)
    BY DEF TypeOK
  <2>. QED BY <2>1, PartTypes
<1>2. q \in [Records(a) -> Records(a)]
  BY DEF Sortings, Injection, Records
<1>3. Permuted(q)[x] = IF x \in DOMAIN q THEN trips[q[x]] ELSE trips[x]
  BY <1>1 DEF Permuted
<1>4. CASE x \in Records(a)
  <2>1. q[x] \in Records(a)
    BY <1>2, <1>4
  <2>. DEFINE y == q[x]
  <2>2. y \in a.first..(a.first + a.n - 1) /\ x \in a.first..(a.first + a.n - 1)
        /\ x \in s.first..(s.first + s.n - 1)
    BY <2>1, <1>4 DEF Records
  <2>. HIDE DEF y
  <2>4. y \in s.first..(s.first + s.n - 1)
    <3>1. \/ s.first <= a.first /\ a.first + a.n <= s.first + s.n
          \/ a.first + a.n <= s.first
          \/ s.first + s.n <= a.first
      BY DEF Nested
    <3>. HIDE DEF Nested
    <3>. QED BY <2>2, <3>1, <1>1, InsideOrBeside
  <2>. QED BY <2>4, <1>2, <1>3, <1>4 DEF y, Records
<1>5. CASE x \notin Records(a)
  BY <1>2, <1>3, <1>5
<1>. QED
  BY <1>4, <1>5

\* A leaf's range holds the keys of its records.
LEMMA RangeHolds ==
  ASSUME NEW own \in Seq(Trips), Len(own) > 0, NEW j \in 1..Size,
         NEW k \in DOMAIN own
  PROVE  LET K == {own[i].key[j] : i \in DOMAIN own}
         IN  /\ Min(K) \in Nat /\ Max(K) \in Nat
             /\ Min(K) <= own[k].key[j] /\ own[k].key[j] <= Max(K)
<1>. DEFINE K == {own[i].key[j] : i \in DOMAIN own}
            n == Len(own)
<1>1. n \in Nat \ {0} /\ DOMAIN own = 1..n /\ \A i \in 1..n : own[i] \in Trips
  OBVIOUS
<1>2. \A i \in 1..n : own[i].key[j] \in Nat
  BY <1>1, KdAssumption DEF Trips
<1>3. K # {} /\ K \subseteq Nat /\ own[k].key[j] \in K
  BY <1>1, <1>2
<1>4. \E x \in K : \A y \in K : x <= y
  BY <1>3, LeastOf
<1>5. \E x \in K : \A y \in K : x >= y
  <2>. DEFINE f == [i \in 1..n |-> own[i].key[j]]
  <2>1. f \in [1..n -> Nat] /\ \A i \in 1..n : f[i] = own[i].key[j]
    BY <1>2
  <2>. HIDE DEF n, f
  <2>2. PICK l \in 1..n : \A i \in 1..n : f[i] <= f[l]
    BY <1>1, <2>1, GreatestOf
  <2>3. f[l] \in K /\ \A y \in K : \E i \in 1..n : y = f[i]
    BY <1>1, <2>1
  <2>4. \A y \in K : f[l] >= y
    BY <1>3, <2>2, <2>3
  <2>. QED BY <2>3, <2>4
<1>. HIDE DEF K
<1>6. Min(K) \in K /\ \A y \in K : Min(K) <= y
  BY <1>4 DEF Min
<1>7. Max(K) \in K /\ \A y \in K : Max(K) >= y
  BY <1>5 DEF Max
<1>. QED
  BY <1>3, <1>6, <1>7 DEF K

\* What writing a leaf leaves behind, of the tree.
LEMMA LeafKeepsTree ==
  ASSUME FileInv, Behind, WriteLeaf, NEW sp, Tree(sp), CallsNested(sp)
  PROVE  Behind' /\ Tree(sp)' /\ CallsNested(sp)' /\ (Parted(sp) => Parted(sp)')
<1>. DEFINE call == Head(calls)
            own == SubSeq(trips, call.first, call.first + call.n - 1)
            keys(j) == {own[i].key[j] : i \in DOMAIN own}
            node == [child |-> 0, median |-> call.n, offset |-> Len(keysFile),
                     lo |-> [j \in 1..Size |-> Min(keys(j))],
                     hi |-> [j \in 1..Size |-> Max(keys(j))]]
            x == call.node
            s == sp[x]
<1>1. /\ TypeOK /\ calls # <<>> /\ IsLeaf(call.n)
      /\ nodes' = WithNode(x, node) /\ calls' = Tail(calls)
      /\ trips' = trips /\ freeNode' = freeNode
  BY DEF WriteLeaf, FileInv
<1>2. /\ 1 \in DOMAIN calls /\ call = calls[1] /\ call.node \in Nat
      /\ call.first \in Nat \ {0} /\ call.n \in Nat \ {0}
      /\ call.first + call.n - 1 <= Len(trips)
      /\ calls \in Seq(Calls) /\ Len(calls) \in Nat /\ DOMAIN calls = 1..Len(calls)
      /\ DOMAIN calls' = 1..(Len(calls) - 1)
      /\ \A k \in DOMAIN calls' : k + 1 \in DOMAIN calls /\ calls'[k] = calls[k + 1]
  <2>1. calls \in Seq(Calls)
    BY <1>1 DEF TypeOK
  <2>2. /\ Tail(calls) \in Seq(Calls) /\ Len(Tail(calls)) = Len(calls) - 1
        /\ \A k \in 1..(Len(calls) - 1) : Tail(calls)[k] = calls[k + 1]
    BY <1>1, HeadCall
  <2>. QED BY <2>1, <2>2, <1>1, HeadCall
<1>3. /\ s = [first |-> call.first, n |-> call.n, depth |-> call.depth]
      /\ s.first = call.first /\ s.n = call.n /\ x \in DOMAIN sp
  <2>1. /\ sp[calls[1].node] =
             [first |-> calls[1].first, n |-> calls[1].n, depth |-> calls[1].depth]
        /\ calls[1].node \in DOMAIN sp
    BY <1>2 DEF Tree
  <2>2. x = calls[1].node /\ call = calls[1]
    BY <1>2
  <2>. HIDE DEF call
  <2>. QED BY <2>1, <2>2
<1>. HIDE DEF call, x, s
<1>4. call.first = Len(keysFile) + 1
  BY <1>1, <1>2 DEF FileInv, Contiguous
<1>5. /\ own \in Seq(Trips) /\ Len(own) = call.n /\ DOMAIN own = 1..call.n
      /\ \A k \in 1..call.n : own[k] = trips[call.first + k - 1]
  BY <1>1, <1>2, PartOfBlock
<1>6. Len(keysFile) = call.first - 1
  <2>1. Len(keysFile) \in Nat
    BY <1>1 DEF TypeOK
  <2>. QED BY <2>1, <1>2, <1>4
<1>7. /\ node.child = 0 /\ node.median = call.n /\ node.offset = call.first - 1
      /\ node.lo = [j \in 1..Size |-> Min(keys(j))] /\ node.hi = [j \in 1..Size |-> Max(keys(j))]
      /\ LeafNode(node, s)
  BY <1>1, <1>3, <1>6 DEF LeafNode
<1>8. /\ DOMAIN nodes' = (DOMAIN nodes) \cup {x} /\ nodes'[x] = node
      /\ \A i \in DOMAIN nodes : i # x => nodes'[i] = nodes[i]
  BY <1>1 DEF WithNode
<1>9. ASSUME NEW p \in Records(s), NEW j \in 1..Size
      PROVE  /\ node.lo[j] \in Nat /\ node.hi[j] \in Nat
             /\ node.lo[j] <= trips[p].key[j] /\ trips[p].key[j] <= node.hi[j]
  <2>. DEFINE k == p - call.first + 1
  <2>1. k \in 1..call.n /\ call.first + k - 1 = p
    <3>1. p \in call.first..(call.first + call.n - 1) /\ call.first \in Nat /\ call.n \in Nat
      BY <1>2, <1>3 DEF Records
    <3>. QED BY <3>1
  <2>2. own[k] = trips[p] /\ k \in DOMAIN own /\ Len(own) > 0
    <3>. HIDE DEF k, own
    <3>1. own[k] = trips[call.first + k - 1] /\ k \in DOMAIN own /\ Len(own) > 0
      BY <2>1, <1>2, <1>5
    <3>. QED BY <2>1, <3>1
  <2>3. /\ Min(keys(j)) \in Nat /\ Max(keys(j)) \in Nat
        /\ Min(keys(j)) <= own[k].key[j] /\ own[k].key[j] <= Max(keys(j))
    <3>. HIDE DEF own, k
    <3>. QED BY <2>2, <1>5, RangeHolds
  <2>. QED BY <2>2, <2>3, <1>7
<1>. HIDE DEF call, own, node, x, s
<1>10. Behind'
  <2>. SUFFICES ASSUME NEW k \in DOMAIN calls', NEW l \in DOMAIN calls', k < l
       PROVE  calls'[k].first + calls'[k].n <= calls'[l].first
    BY DEF Behind
  <2>1. /\ k + 1 \in DOMAIN calls /\ l + 1 \in DOMAIN calls
        /\ calls'[k] = calls[k + 1] /\ calls'[l] = calls[l + 1] /\ k \in Int /\ l \in Int
    BY <1>2
  <2>2. k + 1 < l + 1
    BY <2>1
  <2>. QED BY <2>1, <2>2 DEF Behind
<1>11. DOMAIN sp = (DOMAIN nodes') \cup {calls'[k].node : k \in DOMAIN calls'}
  <2>1. \A k \in DOMAIN calls : k = 1 \/ (k - 1 \in DOMAIN calls' /\ calls'[k - 1] = calls[k])
    <3>. SUFFICES ASSUME NEW k \in DOMAIN calls, k # 1
         PROVE  k - 1 \in DOMAIN calls' /\ calls'[k - 1] = calls[k]
      OBVIOUS
    <3>1. k \in 1..Len(calls) /\ Len(calls) \in Nat
      BY <1>2
    <3>2. k - 1 \in 1..(Len(calls) - 1) /\ (k - 1) + 1 = k
      BY <3>1
    <3>. QED BY <3>2, <1>2
  <2>2. {calls[k].node : k \in DOMAIN calls} = {x} \cup {calls'[k].node : k \in DOMAIN calls'}
    <3>1. x = calls[1].node /\ 1 \in DOMAIN calls
      BY <1>2 DEF x
    <3>2. \A k \in DOMAIN calls' : \E l \in DOMAIN calls : calls'[k] = calls[l]
      BY <1>2
    <3>. QED BY <2>1, <3>1, <3>2
  <2>3. DOMAIN sp = (DOMAIN nodes) \cup {calls[k].node : k \in DOMAIN calls}
    BY DEF Tree
  <2>. QED BY <2>2, <2>3, <1>8
<1>12. \A i \in DOMAIN nodes' : LeafNode(nodes'[i], sp[i]) \/ SplitNodeAt(i, sp)'
  <2>1. \A i \in DOMAIN nodes : LeafNode(nodes[i], sp[i]) \/ SplitNodeAt(i, sp)
    BY DEF Tree
  <2>2. ASSUME NEW i \in DOMAIN nodes, i # x, SplitNodeAt(i, sp)
        PROVE  SplitNodeAt(i, sp)'
    BY <2>2, <1>8 DEF SplitNodeAt
  <2>. QED BY <2>1, <2>2, <1>7, <1>8 DEF s
<1>13. Tree(sp)'
  <2>1. \A k \in DOMAIN calls' :
          sp[calls'[k].node] = [first |-> calls'[k].first, n |-> calls'[k].n, depth |-> calls'[k].depth]
    BY <1>2 DEF Tree
  <2>2. \A y \in DOMAIN sp : IsPart(sp[y])' 
    BY <1>1 DEF Tree, IsPart
  <2>. QED BY <2>1, <2>2, <1>1, <1>11, <1>12 DEF Tree
<1>14. CallsNested(sp)'
  BY <1>2 DEF CallsNested
<1>15. ASSUME Parted(sp) PROVE Parted(sp)'
  <2>1. \A i \in DOMAIN nodes' : i = x \/ (i \in DOMAIN nodes /\ nodes'[i] = nodes[i])
    BY <1>8
  <2>2. node.child = 0
    BY <1>7
  <2>. QED BY <2>1, <2>2, <1>1, <1>8, <1>9, <1>15 DEF Parted, s
<1>. QED
  BY <1>10, <1>13, <1>14, <1>15

\* The two halves of what is inside or beside a part are so, too, and they are
\* beside each other.
LEMMA NestedHalves ==
  ASSUME Len(trips) \in Nat, NEW a, IsPart(a), ~IsLeaf(a.n)
  PROVE  /\ \A s : IsPart(s) /\ Nested(a, s) => Nested(LeftOf(a), s) /\ Nested(RightOf(a), s)
         /\ Nested(LeftOf(a), LeftOf(a)) /\ Nested(LeftOf(a), RightOf(a))
         /\ Nested(RightOf(a), LeftOf(a)) /\ Nested(RightOf(a), RightOf(a))
         /\ \A b : b.first \in Nat /\ a.first + a.n <= b.first =>
                     Nested(b, LeftOf(a)) /\ Nested(b, RightOf(a))
<1>. DEFINE m == Split(a.n)
<1>1. /\ a.first \in Nat /\ a.n \in Nat /\ m \in Nat /\ 1 <= m /\ m < a.n
  BY PartTypes
<1>2. /\ LeftOf(a).first = a.first /\ LeftOf(a).n = m
      /\ RightOf(a).first = a.first + m /\ RightOf(a).n = a.n - m
  BY DEF LeftOf, RightOf
<1>. HIDE DEF m
<1>3. ASSUME NEW s, IsPart(s), Nested(a, s)
      PROVE  Nested(LeftOf(a), s) /\ Nested(RightOf(a), s)
  <2>1. s.first \in Nat /\ s.n \in Nat
    BY <1>3, PartTypes
  <2>2. CASE s.first <= a.first /\ a.first + a.n <= s.first + s.n
    <3>1. /\ s.first <= a.first /\ a.first + m <= s.first + s.n
          /\ s.first <= a.first + m /\ (a.first + m) + (a.n - m) <= s.first + s.n
      BY <1>1, <2>1, <2>2
    <3>2. Nested(LeftOf(a), s)
      BY <1>2, <3>1 DEF Nested
    <3>3. Nested(RightOf(a), s)
      BY <1>2, <3>1 DEF Nested
    <3>. QED BY <3>2, <3>3
  <2>3. CASE a.first + a.n <= s.first
    BY <1>1, <1>2, <2>1, <2>3 DEF Nested
  <2>4. CASE s.first + s.n <= a.first
    BY <1>1, <1>2, <2>1, <2>4 DEF Nested
  <2>. QED BY <1>3, <2>2, <2>3, <2>4 DEF Nested
<1>4. /\ Nested(LeftOf(a), LeftOf(a)) /\ Nested(LeftOf(a), RightOf(a))
      /\ Nested(RightOf(a), LeftOf(a)) /\ Nested(RightOf(a), RightOf(a))
  BY <1>1, <1>2 DEF Nested
<1>5. ASSUME NEW b, b.first \in Nat, a.first + a.n <= b.first
      PROVE  Nested(b, LeftOf(a)) /\ Nested(b, RightOf(a))
  BY <1>1, <1>2, <1>5 DEF Nested
<1>. QED
  BY <1>3, <1>4, <1>5

\* What a split leaves behind, of the tree.
LEMMA SplitKeepsTree ==
  ASSUME TypeOK, Behind, SplitNode, NEW sp, Tree(sp), CallsNested(sp)
  PROVE  /\ Behind'
         /\ \E new : Tree(new)' /\ CallsNested(new)' /\ (Parted(sp) => Parted(new)')
<1>. DEFINE call == Head(calls)
            s == sp[call.node]
            m == Split(call.n)
            L == Len(calls)
<1>1. PICK x, c, d : x = call.node /\ c = freeNode /\ d = Second(c, m)
  OBVIOUS
<1>2. PICK j : j = KeyAt(call.depth)
  OBVIOUS
<1>3. PICK q \in Sortings(call.first, call.first + call.n - 1, j) : trips' = Permuted(q)
  BY <1>2 DEF SplitNode, KeyAt
<1>4. PICK node : node = [child |-> c, median |-> trips'[call.first + m - 1].key[j]]
  OBVIOUS
<1>5. /\ calls # <<>> /\ ~IsLeaf(call.n) /\ nodes' = WithNode(x, node)
      /\ freeNode' = freeNode + 2 + LeafExtra(m) + LeafExtra(call.n - m)
  BY <1>1, <1>2, <1>4 DEF SplitNode, KeyAt
<1>6. /\ trips' \in Seq(Trips) /\ Len(trips') = Len(trips) /\ Len(trips) \in Nat
      /\ calls \in Seq(Calls) /\ L \in Nat /\ L >= 1
      /\ Len(calls') = L + 1 /\ calls' \in Seq(Calls)
      /\ calls'[1] = LeftCall(call, m) /\ calls'[2] = RightCall(call, m)
      /\ \A k \in 3..(L + 1) : calls'[k] = calls[k - 1]
      /\ freeNode \in Nat
  <2>1. Len(trips) \in Nat /\ calls \in Seq(Calls) /\ freeNode \in Nat
    BY DEF TypeOK
  <2>. QED BY <2>1, <1>5, Splitting
<1>7. /\ 1 \in DOMAIN calls /\ call = calls[1]
      /\ call.first \in Nat \ {0} /\ call.n \in Nat \ {0} /\ call.depth \in Nat
      /\ call.first + call.n - 1 <= Len(trips)
  BY <1>5, HeadCall
<1>8. /\ x \in DOMAIN sp
      /\ s = [first |-> call.first, n |-> call.n, depth |-> call.depth]
      /\ s.first = call.first /\ s.n = call.n /\ s.depth = call.depth
      /\ IsPart(s) /\ x \in Nat /\ x < freeNode
  BY <1>1, <1>7 DEF Tree
<1>9. m \in Nat /\ 1 <= m /\ m < call.n /\ IsPart(LeftOf(s)) /\ IsPart(RightOf(s))
  BY <1>5, <1>6, <1>8, PartTypes
<1>10. /\ LeftOf(s).n = m /\ RightOf(s).n = call.n - m
       /\ LeftOf(s).first = call.first /\ RightOf(s).first = call.first + m
       /\ LeftOf(s).depth = call.depth + 1 /\ RightOf(s).depth = call.depth + 1
  BY <1>8 DEF LeftOf, RightOf
<1>11. /\ calls'[1] = [first |-> call.first, n |-> m, depth |-> call.depth + 1, node |-> c]
       /\ calls'[2] = [first |-> call.first + m, n |-> call.n - m, depth |-> call.depth + 1,
                       node |-> d]
  BY <1>1, <1>6 DEF LeftCall, RightCall, Second
<1>12. LeafExtra(m) \in Nat /\ LeafExtra(call.n - m) \in Nat
  BY KdAssumption DEF LeafExtra, Extra
<1>13. /\ c \in Nat /\ d \in Nat /\ x < c /\ c < d /\ c \notin DOMAIN sp /\ d \notin DOMAIN sp
       /\ c + LeafExtra(m) < freeNode' /\ d + LeafExtra(call.n - m) < freeNode'
       /\ c < freeNode' /\ d < freeNode' /\ freeNode < freeNode' /\ freeNode' \in Nat
  <2>1. \A y \in DOMAIN sp : y \in Nat /\ y < freeNode
    BY DEF Tree
  <2>2. c = freeNode /\ d = freeNode + 1 + LeafExtra(m)
    BY <1>1 DEF Second
  <2>3. c \notin DOMAIN sp /\ d \notin DOMAIN sp
    <3>1. c \in Nat /\ c >= freeNode /\ d \in Nat /\ d >= freeNode /\ freeNode \in Nat
      BY <2>2, <1>6, <1>12
    <3>. QED BY <2>1, <3>1
  <2>4. \A e, f \in Nat : freeNode' = freeNode + 2 + e + f /\ d = freeNode + 1 + e =>
          /\ c \in Nat /\ d \in Nat /\ x < c /\ c < d
          /\ c + e < freeNode' /\ d + f < freeNode'
          /\ c < freeNode' /\ d < freeNode' /\ freeNode < freeNode' /\ freeNode' \in Nat
    BY <2>2, <1>6, <1>8
  <2>. QED BY <2>2, <2>3, <2>4, <1>5, <1>12
<1>14. PICK new : new = [y \in (DOMAIN sp) \cup {c, d} |->
                          IF y = c THEN LeftOf(s) ELSE IF y = d THEN RightOf(s) ELSE sp[y]]
  OBVIOUS
<1>15. /\ DOMAIN new = (DOMAIN sp) \cup {c, d}
       /\ new[c] = LeftOf(s) /\ new[d] = RightOf(s)
       /\ \A y \in DOMAIN sp : new[y] = sp[y]
  BY <1>13, <1>14
<1>16. /\ DOMAIN nodes' = (DOMAIN nodes) \cup {x} /\ nodes'[x] = node
       /\ \A i \in DOMAIN nodes : i # x => nodes'[i] = nodes[i]
       /\ node.child = c /\ node.median = trips'[call.first + m - 1].key[j]
  BY <1>4, <1>5 DEF WithNode
<1>. HIDE DEF call, s, m, L
<1>17. /\ DOMAIN calls = 1..L /\ DOMAIN calls' = 1..(L + 1)
       /\ \A k \in DOMAIN calls' : k = 1 \/ k = 2 \/ k \in 3..(L + 1)
       /\ \A k \in DOMAIN calls : calls[k].first \in Nat /\ calls[k].n \in Nat
  <2>1. \A k \in DOMAIN calls : calls[k] \in Calls
    BY <1>6
  <2>2. DOMAIN calls = 1..L /\ DOMAIN calls' = 1..(L + 1)
    BY <1>6 DEF L
  <2>3. \A k \in 1..(L + 1) : k = 1 \/ k = 2 \/ k \in 3..(L + 1)
    BY <1>6
  <2>. QED BY <2>1, <2>2, <2>3 DEF Calls
<1>18. \A k \in 3..(L + 1) : k - 1 \in 2..L /\ k - 1 \in DOMAIN calls /\ calls'[k] = calls[k - 1]
  BY <1>6, <1>17
<1>19. \A k \in 2..L : call.first + call.n <= calls[k].first
  <2>1. \A k \in 2..L : k \in DOMAIN calls /\ 1 < k
    BY <1>6, <1>17
  <2>. QED BY <2>1, <1>7 DEF Behind
<1>20. Behind'
  <2>. SUFFICES ASSUME NEW k \in DOMAIN calls', NEW l \in DOMAIN calls', k < l
       PROVE  calls'[k].first + calls'[k].n <= calls'[l].first
    BY DEF Behind
  <2>1. CASE k = 1 /\ l = 2
    BY <2>1, <1>7, <1>9, <1>11
  <2>2. CASE l \in 3..(L + 1) /\ k \in {1, 2}
    <3>1. call.first + call.n <= calls'[l].first /\ calls'[l].first \in Nat
      BY <2>2, <1>17, <1>18, <1>19
    <3>2. calls'[k].first + calls'[k].n <= call.first + call.n
      <4>1. CASE k = 1
        BY <4>1, <1>7, <1>9, <1>11
      <4>2. CASE k = 2
        <5>1. \A a, n \in Nat : (a + m) + (n - m) <= a + n
          BY <1>9
        <5>2. calls'[2].first = call.first + m /\ calls'[2].n = call.n - m
          BY <1>11
        <5>3. call.first \in Nat /\ call.n \in Nat
          BY <1>7
        <5>. QED BY <4>2, <5>1, <5>2, <5>3
      <4>. QED BY <4>1, <4>2, <2>2
    <3>3. calls'[k].first + calls'[k].n \in Int /\ call.first + call.n \in Int
      <4>1. /\ calls'[1].first = call.first /\ calls'[1].n = m
            /\ calls'[2].first = call.first + m /\ calls'[2].n = call.n - m
        BY <1>11
      <4>2. call.first \in Int /\ call.n \in Int /\ m \in Int
        BY <1>7, <1>9
      <4>. QED BY <4>1, <4>2, <2>2
    <3>. QED BY <3>1, <3>2, <3>3
  <2>3. CASE l \in 3..(L + 1) /\ k \in 3..(L + 1)
    <3>1. k - 1 < l - 1
      BY <2>3
    <3>. QED BY <3>1, <2>3, <1>18 DEF Behind
  <2>4. l = 1 \/ l = 2 \/ l \in 3..(L + 1)
    BY <1>17
  <2>5. k = 1 \/ k = 2 \/ k \in 3..(L + 1)
    BY <1>17
  <2>6. k \in Nat /\ l \in Nat
    BY <1>17
  <2>. QED BY <2>1, <2>2, <2>3, <2>4, <2>5, <2>6
<1>21. DOMAIN new = (DOMAIN nodes') \cup {calls'[k].node : k \in DOMAIN calls'}
  <2>1. DOMAIN sp = (DOMAIN nodes) \cup {calls[k].node : k \in DOMAIN calls}
    BY DEF Tree
  <2>2. {calls'[k].node : k \in DOMAIN calls'} = {c, d} \cup {calls[k].node : k \in 2..L}
    <3>1. \A k \in 2..L : k + 1 \in 3..(L + 1) /\ k + 1 \in DOMAIN calls' /\ (k + 1) - 1 = k
      BY <1>6, <1>17
    <3>2. \A k \in 2..L : calls'[k + 1] = calls[k]
      BY <3>1, <1>18
    <3>3. 1 \in DOMAIN calls' /\ 2 \in DOMAIN calls'
      BY <1>6, <1>17
    <3>. QED BY <3>1, <3>2, <3>3, <1>11, <1>17, <1>18
  <2>3. {calls[k].node : k \in DOMAIN calls} = {x} \cup {calls[k].node : k \in 2..L}
    <3>1. \A k \in DOMAIN calls : k = 1 \/ k \in 2..L
      BY <1>6, <1>17
    <3>2. \A k \in 2..L : k \in DOMAIN calls
      BY <1>6, <1>17
    <3>. QED BY <3>1, <3>2, <1>1, <1>7
  <2>. QED BY <2>1, <2>2, <2>3, <1>15, <1>16
<1>22. SplitNodeAt(x, new)'
  <2>1. Second(c, Split(new[x].n)) = d /\ new[x] = s
    BY <1>1, <1>8, <1>15 DEF s, m
  <2>. QED BY <2>1, <1>5, <1>8, <1>13, <1>15, <1>16 DEF SplitNodeAt, LeftOf, RightOf
<1>23. \A i \in DOMAIN nodes' : LeafNode(nodes'[i], new[i]) \/ SplitNodeAt(i, new)'
  <2>1. \A i \in DOMAIN nodes : i \in DOMAIN sp /\ (LeafNode(nodes[i], sp[i]) \/ SplitNodeAt(i, sp))
    BY DEF Tree
  <2>2. ASSUME NEW i \in DOMAIN nodes, i # x, SplitNodeAt(i, sp)
        PROVE  SplitNodeAt(i, new)'
    BY <2>1, <2>2, <1>15, <1>16 DEF SplitNodeAt
  <2>. QED BY <2>1, <2>2, <1>15, <1>16, <1>22
<1>24. Tree(new)'
  <2>1. \A y \in DOMAIN new : IsPart(new[y])'
    <3>1. \A y \in DOMAIN new : IsPart(new[y])
      BY <1>8, <1>9, <1>15 DEF Tree
    <3>. QED BY <3>1, <1>6 DEF IsPart
  <2>2. \A y \in DOMAIN new : /\ y \in Nat /\ y < freeNode'
                              /\ y # 0 => y + LeafExtra(new[y].n) < freeNode'
    <3>1. ASSUME NEW y \in DOMAIN sp
          PROVE  /\ y \in Nat /\ y < freeNode'
                 /\ y # 0 => y + LeafExtra(new[y].n) < freeNode'
      <4>1. y \in Nat /\ y < freeNode /\ (y # 0 => y + LeafExtra(sp[y].n) < freeNode)
        BY DEF Tree
      <4>2. LeafExtra(sp[y].n) \in Nat
        BY KdAssumption DEF LeafExtra, Extra
      <4>. QED BY <4>1, <4>2, <1>6, <1>13, <1>15
    <3>. QED BY <3>1, <1>10, <1>13, <1>15
  <2>3. 0 \in DOMAIN new /\ new[0] = [first |-> 1, n |-> Len(trips'), depth |-> 0]
    BY <1>6, <1>15 DEF Tree
  <2>4. ASSUME NEW k \in DOMAIN calls'
        PROVE  new[calls'[k].node] = [first |-> calls'[k].first, n |-> calls'[k].n, depth |-> calls'[k].depth]
    <3>1. CASE k = 1
      BY <3>1, <1>10, <1>11, <1>15 DEF LeftOf
    <3>2. CASE k = 2
      BY <3>2, <1>10, <1>11, <1>15 DEF RightOf
    <3>3. CASE k \in 3..(L + 1)
      <4>1. calls'[k] = calls[k - 1] /\ k - 1 \in DOMAIN calls
        BY <3>3, <1>18
      <4>. QED BY <4>1, <1>15 DEF Tree
    <3>. QED BY <3>1, <3>2, <3>3, <1>17
  <2>. QED BY <2>1, <2>2, <2>3, <2>4, <1>21, <1>23 DEF Tree
<1>25. CallsNested(new)'
  <2>. SUFFICES ASSUME NEW y \in DOMAIN new, NEW k \in DOMAIN calls'
       PROVE  Nested(calls'[k], new[y])
    BY DEF CallsNested, Nested
  <2>1. /\ Nested(calls'[1], new[y]) <=> Nested(LeftOf(s), new[y])
        /\ Nested(calls'[2], new[y]) <=> Nested(RightOf(s), new[y])
    BY <1>10, <1>11 DEF Nested
  <2>2. CASE y \in DOMAIN sp
    <3>1. new[y] = sp[y] /\ IsPart(sp[y])
      BY <2>2, <1>15 DEF Tree
    <3>2. Nested(s, sp[y])
      <4>1. Nested(call, sp[y])
        BY <2>2, <1>7 DEF CallsNested
      <4>. QED BY <4>1, <1>8 DEF Nested
    <3>3. Nested(LeftOf(s), sp[y]) /\ Nested(RightOf(s), sp[y])
      BY <3>1, <3>2, <1>5, <1>6, <1>8, NestedHalves
    <3>4. \A l \in 3..(L + 1) : Nested(calls'[l], sp[y])
      BY <2>2, <1>18 DEF CallsNested
    <3>. QED BY <2>1, <3>1, <3>3, <3>4, <1>17
  <2>3. CASE y \in {c, d}
    <3>1. new[y] \in {LeftOf(s), RightOf(s)}
      BY <2>3, <1>15
    <3>2. /\ Nested(LeftOf(s), new[y]) /\ Nested(RightOf(s), new[y])
          /\ \A b : b.first \in Nat /\ s.first + s.n <= b.first => Nested(b, new[y])
      BY <3>1, <1>5, <1>6, <1>8, NestedHalves
    <3>3. \A l \in 3..(L + 1) : calls'[l].first \in Nat /\ s.first + s.n <= calls'[l].first
      BY <1>8, <1>17, <1>18, <1>19
    <3>. QED BY <2>1, <3>2, <3>3, <1>17
  <2>. QED BY <2>2, <2>3, <1>15
<1>26. ASSUME Parted(sp) PROVE Parted(new)'
  <2>1. ASSUME NEW t, IsPart(t), Nested(call, t), NEW p \in Records(t)
        PROVE  \E y \in Records(t) : trips'[p] = trips[y]
    <3>1. Nested(s, t) /\ q \in Sortings(s.first, s.first + s.n - 1, j)
      BY <2>1, <1>8 DEF Nested
    <3>. QED BY <2>1, <3>1, <1>3, <1>8, SortInPart
  <2>2. ASSUME NEW i \in DOMAIN nodes, i # x, nodes'[i].child = 0
        PROVE  \A p \in Records(new[i]), k \in 1..Size :
                 /\ nodes'[i].lo[k] \in Nat /\ nodes'[i].hi[k] \in Nat
                 /\ nodes'[i].lo[k] <= trips'[p].key[k] /\ trips'[p].key[k] <= nodes'[i].hi[k]
    <3>1. i \in DOMAIN sp /\ new[i] = sp[i] /\ IsPart(sp[i]) /\ nodes'[i] = nodes[i]
      BY <2>2, <1>15, <1>16 DEF Tree
    <3>2. Nested(call, sp[i])
      BY <3>1, <1>7 DEF CallsNested
    <3>3. \A p \in Records(sp[i]), k \in 1..Size :
            /\ nodes[i].lo[k] \in Nat /\ nodes[i].hi[k] \in Nat
            /\ nodes[i].lo[k] <= trips[p].key[k] /\ trips[p].key[k] <= nodes[i].hi[k]
      BY <2>2, <3>1, <1>26 DEF Parted
    <3>. QED BY <2>1, <3>1, <3>2, <3>3
  <2>3. ASSUME NEW i \in DOMAIN nodes, i # x, nodes'[i].child # 0
        PROVE  LET k == KeyAt(new[i].depth)
               IN  /\ \A p \in Records(LeftOf(new[i])) : trips'[p].key[k] <= nodes'[i].median
                   /\ \A p \in Records(RightOf(new[i])) : nodes'[i].median <= trips'[p].key[k]
    <3>1. i \in DOMAIN sp /\ new[i] = sp[i] /\ nodes'[i] = nodes[i]
      BY <2>3, <1>15, <1>16 DEF Tree
    <3>2. SplitNodeAt(i, sp)
      <4>1. LeafNode(nodes[i], sp[i]) => nodes[i].child = 0
        BY DEF LeafNode
      <4>. QED BY <4>1, <2>3, <3>1 DEF Tree
    <3>3. /\ Nested(call, LeftOf(sp[i])) /\ Nested(call, RightOf(sp[i]))
          /\ IsPart(LeftOf(sp[i])) /\ IsPart(RightOf(sp[i]))
      BY <3>2, <1>7 DEF SplitNodeAt, CallsNested, Tree
    <3>4. LET k == KeyAt(sp[i].depth)
          IN  /\ \A p \in Records(LeftOf(sp[i])) : trips[p].key[k] <= nodes[i].median
              /\ \A p \in Records(RightOf(sp[i])) : nodes[i].median <= trips[p].key[k]
      BY <2>3, <3>1, <1>26 DEF Parted
    <3>. QED BY <2>1, <3>1, <3>3, <3>4
  <2>4. /\ node.child # 0 /\ new[x] = s /\ KeyAt(s.depth) = j
        /\ \A p \in Records(LeftOf(s)) : trips'[p].key[j] <= node.median
        /\ \A p \in Records(RightOf(s)) : node.median <= trips'[p].key[j]
    <3>1. node.child # 0 /\ new[x] = s /\ KeyAt(s.depth) = j
      BY <1>1, <1>2, <1>8, <1>13, <1>15, <1>16 DEF s
    <3>. DEFINE at == call.first + m - 1
    <3>2. /\ at \in Nat /\ call.first <= at /\ at <= call.first + call.n - 1
          /\ \A p \in Records(LeftOf(s)) : p \in call.first..(call.first + call.n - 1) /\ p <= at
          /\ \A p \in Records(RightOf(s)) : p \in call.first..(call.first + call.n - 1) /\ at < p
      <4>1. /\ call.first \in Nat /\ call.n \in Nat /\ call.first >= 1
            /\ Records(LeftOf(s)) = call.first..(call.first + m - 1)
            /\ Records(RightOf(s)) = (call.first + m)..((call.first + m) + (call.n - m) - 1)
        BY <1>7, <1>10 DEF Records
      <4>2. PICK a, n : a = call.first /\ n = call.n
        OBVIOUS
      <4>3. a \in Nat /\ n \in Nat /\ a >= 1 /\ m \in Nat /\ 1 <= m /\ m < n
        BY <4>1, <4>2, <1>9
      <4>4. a + m - 1 \in Nat /\ a <= a + m - 1 /\ a + m - 1 <= a + n - 1
        BY <4>3
      <4>5. \A p \in a..(a + m - 1) : p \in a..(a + n - 1) /\ p <= a + m - 1
        BY <4>3
      <4>6. \A p \in (a + m)..((a + m) + (n - m) - 1) : p \in a..(a + n - 1) /\ a + m - 1 < p
        BY <4>3
      <4>. QED BY <4>1, <4>2, <4>4, <4>5, <4>6
    <3>3. /\ \A p \in call.first..(call.first + call.n - 1) : p \in Int /\ trips'[p] = trips[q[p]]
          /\ \A a, b \in call.first..(call.first + call.n - 1) :
               a < b => trips[q[a]].key[j] <= trips[q[b]].key[j]
      <4>1. q \in [call.first..(call.first + call.n - 1) -> call.first..(call.first + call.n - 1)]
        BY DEF Sortings, Injection
      <4>2. \A p \in call.first..(call.first + call.n - 1) : p \in DOMAIN trips /\ p \in DOMAIN q
        <5>1. DOMAIN trips = 1..Len(trips)
          BY DEF TypeOK
        <5>. QED BY <4>1, <5>1, <1>6, <1>7
      <4>. QED BY <4>1, <4>2, <1>3 DEF Permuted, Sortings
    <3>4. trips'[at].key[j] \in Nat
      <4>1. at \in 1..Len(trips') /\ j \in 1..Size
        <5>1. j \in 1..Size
          BY <1>2, <1>7, KdAssumption DEF KeyAt
        <5>2. call.first \in Nat /\ call.first >= 1 /\ call.n \in Nat
          BY <1>7
        <5>. HIDE DEF at
        <5>. QED BY <3>2, <5>1, <5>2, <1>6, <1>7
      <4>2. trips'[at] \in Trips
        BY <4>1, <1>6
      <4>. QED BY <4>1, <4>2, KdAssumption DEF Trips
    <3>5. at \in call.first..(call.first + call.n - 1)
      BY <3>2, <1>7
    <3>6. node.median = trips'[at].key[j]
      BY <1>16
    <3>. HIDE DEF at
    <3>7. ASSUME NEW p \in Records(LeftOf(s)) PROVE trips'[p].key[j] <= node.median
      <4>1. p \in call.first..(call.first + call.n - 1) /\ p <= at /\ p \in Int
        BY <3>2, <3>3
      <4>2. CASE p < at
        BY <4>1, <4>2, <3>3, <3>5, <3>6
      <4>3. CASE p = at
        BY <4>3, <3>4, <3>6
      <4>. QED BY <4>1, <4>2, <4>3, <3>2
    <3>8. ASSUME NEW p \in Records(RightOf(s)) PROVE node.median <= trips'[p].key[j]
      BY <3>2, <3>3, <3>5, <3>6
    <3>. QED BY <3>1, <3>7, <3>8
  <2>5. \A i \in DOMAIN nodes' : i = x \/ (i \in DOMAIN nodes /\ i # x)
    BY <1>16
  <2>. QED BY <2>2, <2>3, <2>4, <2>5, <1>16 DEF Parted
<1>. QED
  BY <1>20, <1>24, <1>25, <1>26

\* The building begins, with a block in whatever order.
Begun ==
  /\ trips \in Seq(Trips) /\ Len(trips) \in Nat \ {0}
  /\ calls = <<[first |-> 1, n |-> Len(trips), depth |-> 0, node |-> 0]>>
  /\ DOMAIN nodes = {} /\ freeNode = 1

LEMMA TreeAtFirst ==
  ASSUME Begun
  PROVE  Behind /\ \E sp : Tree(sp) /\ CallsNested(sp) /\ Parted(sp)
<1>. DEFINE call == [first |-> 1, n |-> Len(trips), depth |-> 0, node |-> 0]
<1>1. PICK s : s = [first |-> 1, n |-> Len(trips), depth |-> 0]
  OBVIOUS
<1>2. PICK sp : sp = [x \in {0} |-> s]
  OBVIOUS
<1>3. /\ calls = <<call>> /\ DOMAIN calls = {1} /\ calls[1] = call
      /\ call.node = 0 /\ call.first = 1 /\ call.n = Len(trips) /\ call.depth = 0
      /\ DOMAIN sp = {0} /\ sp[0] = s
      /\ s.first = 1 /\ s.n = Len(trips) /\ s.depth = 0
  BY <1>1, <1>2 DEF Begun
<1>. HIDE DEF call
<1>4. Behind
  BY <1>3 DEF Behind
<1>5. CallsNested(sp)
  <2>1. Nested(call, s)
    BY <1>3 DEF Nested, Begun
  <2>. QED BY <2>1, <1>3 DEF CallsNested
<1>6. Parted(sp)
  BY DEF Begun, Parted
<1>7. Tree(sp)
  <2>1. IsPart(s)
    BY <1>3 DEF IsPart, Begun
  <2>2. {calls[k].node : k \in DOMAIN calls} = {0}
    BY <1>3
  <2>. QED BY <2>1, <2>2, <1>1, <1>3 DEF Tree, Begun
<1>. QED
  BY <1>4, <1>5, <1>6, <1>7

\* A sort moves the records with their numbers.
LEMMA NumberedSorted ==
  ASSUME TypeOK, Numbered, SplitNode
  PROVE  Numbered'
<1>. DEFINE call == Head(calls)
<1>1. calls # <<>>
  BY DEF SplitNode
<1>2. /\ call.first \in Nat \ {0} /\ call.n \in Nat \ {0}
      /\ call.first + call.n - 1 <= Len(trips)
      /\ Len(trips) \in Nat /\ DOMAIN trips = 1..Len(trips)
  <2>1. Len(trips) \in Nat /\ DOMAIN trips = 1..Len(trips)
    BY DEF TypeOK
  <2>. QED BY <2>1, <1>1, HeadCall
<1>3. PICK first, last : first = call.first /\ last = call.first + call.n - 1
  OBVIOUS
<1>4. PICK p \in Sortings(first, last, (call.depth % Size) + 1) : trips' = Permuted(p)
  BY <1>3 DEF SplitNode
<1>. DEFINE at(i) == IF i \in first..last THEN p[i] ELSE i
            N == Len(trips)
<1>5. first \in Nat /\ last \in Nat /\ first >= 1 /\ last <= N
  BY <1>2, <1>3
<1>. HIDE DEF call
<1>6. p \in [first..last -> first..last] /\ \A a, b \in first..last : p[a] = p[b] => a = b
  BY DEF Sortings, Injection, IsInjective
<1>7. /\ DOMAIN trips' = 1..N
      /\ \A i \in 1..N : trips'[i] = trips[at(i)] /\ at(i) \in 1..N
  BY <1>2, <1>4, <1>5, <1>6 DEF Permuted
<1>8. \A i, k \in 1..N : at(i) = at(k) => i = k
  BY <1>2, <1>5, <1>6
<1>. HIDE DEF at, N
<1>. QED
  BY <1>2, <1>7, <1>8 DEF Numbered, N

LEMMA CutsKept ==
  ASSUME CutInv, [Next]_vars
  PROVE  CutInv'
<1>1. PICK sp : Tree(sp) /\ CallsNested(sp) /\ Parted(sp)
  BY DEF CutInv
<1>2. CASE WriteLeaf
  <2>1. FileInv' /\ Behind' /\ Tree(sp)' /\ CallsNested(sp)' /\ Parted(sp)'
    BY <1>1, <1>2, LeafInFile, LeafKeepsTree DEF CutInv
  <2>2. Numbered'
    BY <1>2 DEF WriteLeaf, CutInv, Numbered
  <2>. QED BY <2>1, <2>2 DEF CutInv
<1>3. CASE SplitNode
  <2>1. FileInv' /\ Numbered'
    BY <1>3, SplitInFile, NumberedSorted DEF CutInv, FileInv
  <2>2. Behind' /\ \E new : Tree(new)' /\ CallsNested(new)' /\ (Parted(sp) => Parted(new)')
    BY <1>1, <1>3, SplitKeepsTree DEF CutInv, FileInv
  <2>. QED BY <2>1, <2>2, <1>1 DEF CutInv
<1>4. CASE UNCHANGED vars
  <2>1. UNCHANGED <<trips, calls, nodes, freeNode, keysFile>>
    BY <1>4 DEF vars
  <2>2. FileInv' /\ Numbered' /\ Behind'
    BY <2>1 DEF CutInv, FileInv, TypeOK, Contiguous, WrittenRecords, Numbered, Behind
  <2>3. Tree(sp)'
    BY <2>1, <1>1 DEF Tree, IsPart, SplitNodeAt
  <2>4. CallsNested(sp)' /\ Parted(sp)'
    BY <2>1, <1>1 DEF CallsNested, Parted
  <2>. QED BY <2>2, <2>3, <2>4 DEF CutInv
<1>. QED
  BY <1>2, <1>3, <1>4 DEF Next

LEMMA CutInvariance == Spec => []CutInv
<1>1. Init => CutInv
  <2>. SUFFICES ASSUME Init PROVE CutInv
    OBVIOUS
  <2>1. Begun
    BY WholeBlock DEF Begun
  <2>2. Numbered
    <3>1. \A i \in DOMAIN trips : trips[i].index = i - 1
      BY KdAssumption DEF Init
    <3>2. DOMAIN trips \subseteq Nat
      BY WholeBlock
    <3>. QED BY <3>1, <3>2 DEF Numbered
  <2>. QED BY <2>1, <2>2, FileAtFirst, TreeAtFirst DEF CutInv
<1>. QED
  BY <1>1, CutsKept, PTL DEF Spec

-----------------------------------------------------------------------------
(* The search. *)

\* With no call left, every node is written and leads to such ones; what the
\* tree file gives for it differs for a tree of one leaf only, in its range.
LEMMA NodeRead ==
  ASSUME TypeOK, calls = <<>>, NEW sp, Tree(sp), NEW i \in DOMAIN nodes
  PROVE  /\ DOMAIN sp = DOMAIN nodes /\ i \in Nat /\ i < freeNode /\ freeNode \in Nat
         /\ IsPart(sp[i])
         /\ TreeNode(i).child = nodes[i].child /\ TreeNode(i).median = nodes[i].median
         /\ nodes[i].child = 0 =>
              /\ IsLeaf(sp[i].n) /\ TreeNode(i).median = sp[i].n
              /\ TreeNode(i).offset = sp[i].first - 1
              /\ ~IsLeaf(Len(trips)) => TreeNode(i) = nodes[i]
         /\ nodes[i].child # 0 =>
              LET c == nodes[i].child
                  d == c + 1 + (IF nodes[c].child = 0 THEN Extra ELSE 0)
              IN  /\ ~IsLeaf(sp[i].n)
                  /\ c \in DOMAIN nodes /\ d \in DOMAIN nodes /\ i < c /\ i < d
                  /\ sp[c] = LeftOf(sp[i]) /\ sp[d] = RightOf(sp[i])
<1>1. DOMAIN sp = DOMAIN nodes
  <2>1. DOMAIN calls = {}
    OBVIOUS
  <2>. QED BY <2>1 DEF Tree
<1>2. /\ IsPart(sp[i]) /\ i \in Nat /\ i < freeNode
      /\ i # 0 => i + LeafExtra(sp[i].n) < freeNode
      /\ i = 0 => sp[i].first = 1 /\ sp[i].n = Len(trips)
      /\ LeafNode(nodes[i], sp[i]) \/ SplitNodeAt(i, sp)
  BY <1>1 DEF Tree
<1>3. freeNode \in Nat /\ Len(trips) \in Nat
  BY DEF TypeOK
<1>4. TreeNode(i).child = nodes[i].child /\ TreeNode(i).median = nodes[i].median
  BY DEF TreeNode
<1>5. ASSUME nodes[i].child = 0
      PROVE  /\ IsLeaf(sp[i].n) /\ TreeNode(i).median = sp[i].n
             /\ TreeNode(i).offset = sp[i].first - 1
             /\ ~IsLeaf(Len(trips)) => TreeNode(i) = nodes[i]
  <2>1. ~SplitNodeAt(i, sp)
    BY <1>2, <1>5 DEF SplitNodeAt
  <2>2. LeafNode(nodes[i], sp[i])
    BY <2>1, <1>2
  <2>3. /\ IsLeaf(sp[i].n) /\ nodes[i].median = sp[i].n /\ nodes[i].offset = sp[i].first - 1
        /\ "offset" \in DOMAIN nodes[i]
    BY <2>2 DEF LeafNode
  <2>4. i # 0 => TreeNode(i) = nodes[i]
    BY <2>3, <1>2 DEF TreeNode, LeafExtra
  <2>5. i = 0 => TreeNode(i).offset = sp[i].first - 1 /\ IsLeaf(Len(trips))
    <3>1. i = 0 => sp[i].first - 1 = 0
      BY <1>2
    <3>. QED BY <3>1, <2>3, <1>2 DEF TreeNode
  <2>. QED BY <2>3, <2>4, <2>5, <1>4
<1>6. ASSUME nodes[i].child # 0
      PROVE  LET c == nodes[i].child
                 d == c + 1 + (IF nodes[c].child = 0 THEN Extra ELSE 0)
             IN  /\ ~IsLeaf(sp[i].n)
                 /\ c \in DOMAIN nodes /\ d \in DOMAIN nodes /\ i < c /\ i < d
                 /\ sp[c] = LeftOf(sp[i]) /\ sp[d] = RightOf(sp[i])
  <2>. DEFINE c == nodes[i].child
              m == Split(sp[i].n)
  <2>1. SplitNodeAt(i, sp)
    BY <1>2, <1>6 DEF LeafNode
  <2>2. /\ ~IsLeaf(sp[i].n) /\ i < c /\ c \in DOMAIN nodes /\ sp[c] = LeftOf(sp[i])
        /\ Second(c, m) \in DOMAIN nodes /\ sp[Second(c, m)] = RightOf(sp[i])
    BY <2>1, <1>1 DEF SplitNodeAt
  <2>3. sp[c].n = m
    BY <2>2 DEF LeftOf
  <2>4. nodes[c].child = 0 <=> IsLeaf(m)
    <3>1. LeafNode(nodes[c], sp[c]) \/ SplitNodeAt(c, sp)
      BY <2>2 DEF Tree
    <3>2. LeafNode(nodes[c], sp[c]) => nodes[c].child = 0 /\ IsLeaf(m)
      BY <2>3 DEF LeafNode
    <3>3. SplitNodeAt(c, sp) => nodes[c].child # 0 /\ ~IsLeaf(m)
      <4>1. c \in Nat
        BY <2>2, <1>1 DEF Tree
      <4>. QED BY <4>1, <2>3 DEF SplitNodeAt
    <3>. QED BY <3>1, <3>2, <3>3
  <2>5. Second(c, m) = c + 1 + (IF nodes[c].child = 0 THEN Extra ELSE 0)
    BY <2>4 DEF Second, LeafExtra
  <2>6. i < Second(c, m)
    <3>1. LeafExtra(m) \in Nat
      BY KdAssumption DEF LeafExtra, Extra
    <3>2. c \in Nat
      BY <2>2, <1>1 DEF Tree
    <3>. QED BY <3>1, <3>2, <2>2, <1>2 DEF Second
  <2>. QED BY <2>2, <2>5, <2>6
<1>. QED
  BY <1>1, <1>2, <1>3, <1>4, <1>5, <1>6

\* A call of searchKdTree depends only on the calls for nodes further on.
LEMMA CallsFurtherOn ==
  ASSUME TypeOK, calls = <<>>, NEW sp, Tree(sp), NEW q, NEW f, NEW g,
         NEW at \in (DOMAIN nodes) \X Nat,
         \A b \in (DOMAIN nodes) \X Nat : at[1] < b[1] => f[b] = g[b]
  PROVE  searchKdTree(q, f, at) = searchKdTree(q, g, at)
<1>. DEFINE i == at[1]
            c == nodes[i].child
            d == c + 1 + (IF nodes[c].child = 0 THEN Extra ELSE 0)
<1>1. i \in DOMAIN nodes /\ at[2] + 1 \in Nat /\ TreeNode(i).child = c
  BY NodeRead
<1>2. CASE c = 0
  BY <1>1, <1>2 DEF searchKdTree
<1>3. CASE c # 0
  <2>1. c \in DOMAIN nodes /\ d \in DOMAIN nodes /\ i < c /\ i < d
    BY <1>1, <1>3, NodeRead
  <2>. HIDE DEF c, d
  <2>2. f[<<c, at[2] + 1>>] = g[<<c, at[2] + 1>>] /\ f[<<d, at[2] + 1>>] = g[<<d, at[2] + 1>>]
    BY <2>1, <1>1
  <2>. QED BY <2>2, <1>1 DEF searchKdTree, c, d
<1>. QED
  BY <1>2, <1>3

\* So the search ends, and what it finds below each node is told by what it
\* finds below the node's children.
LEMMA Visited ==
  ASSUME TypeOK, calls = <<>>, NEW sp, Tree(sp), NEW q
  PROVE  \E f : /\ f = [at \in (DOMAIN nodes) \X Nat |-> searchKdTree(q, f, at)]
                /\ Leaves(q) = f[<<0, 0>>]
<1>. DEFINE D == (DOMAIN nodes) \X Nat
            Fits(f, n) == /\ f = [at \in D |-> f[at]]
                          /\ \A at \in D : freeNode <= at[1] + n => f[at] = searchKdTree(q, f, at)
            T == {n \in Nat : \E f : Fits(f, n)}
<1>1. \A at \in D : at[1] \in Nat /\ at[1] < freeNode /\ freeNode \in Nat
  BY NodeRead
<1>2. 0 \in T
  <2>. DEFINE f == [at \in D |-> <<>>]
  <2>1. f = [at \in D |-> f[at]]
    OBVIOUS
  <2>2. \A at \in D : ~(freeNode <= at[1] + 0)
    BY <1>1
  <2>. QED BY <2>1, <2>2
<1>3. ASSUME NEW n \in Nat, n \in T PROVE n + 1 \in T
  <2>1. PICK f : Fits(f, n)
    BY <1>3
  <2>2. PICK g : g = [at \in D |-> IF freeNode <= at[1] + n THEN f[at] ELSE searchKdTree(q, f, at)]
    OBVIOUS
  <2>3. g = [at \in D |-> g[at]]
    BY <2>2
  <2>4. \A at \in D : freeNode <= at[1] + n => g[at] = f[at] /\ f[at] = searchKdTree(q, f, at)
    BY <2>1, <2>2
  <2>5. ASSUME NEW at \in D, freeNode <= at[1] + (n + 1)
        PROVE  g[at] = searchKdTree(q, g, at)
    <3>1. \A b \in D : at[1] < b[1] => freeNode <= b[1] + n
      BY <2>5, <1>1
    <3>2. \A b \in D : at[1] < b[1] => f[b] = g[b]
      BY <3>1, <2>4
    <3>3. searchKdTree(q, f, at) = searchKdTree(q, g, at)
      BY <3>2, CallsFurtherOn
    <3>4. g[at] = searchKdTree(q, f, at)
      BY <2>2, <2>4
    <3>. QED BY <3>3, <3>4
  <2>6. Fits(g, n + 1)
    BY <2>3, <2>5
  <2>. HIDE DEF Fits
  <2>. QED BY <2>6
<1>4. freeNode \in T
  <2>1. Nat \subseteq T
    <3>. HIDE DEF T
    <3>. QED BY <1>2, <1>3, AllNat
  <2>. QED BY <2>1 DEF TypeOK
<1>5. PICK f : Fits(f, freeNode)
  BY <1>4
<1>6. \A at \in D : f[at] = searchKdTree(q, f, at)
  <2>1. \A at \in D : freeNode <= at[1] + freeNode
    BY <1>1
  <2>. QED BY <2>1, <1>5
<1>7. f = [at \in D |-> searchKdTree(q, f, at)]
  <2>1. f = [at \in D |-> f[at]]
    BY <1>5
  <2>. HIDE DEF Fits, D
  <2>2. [at \in D |-> f[at]] = [at \in D |-> searchKdTree(q, f, at)]
    BY <1>6
  <2>. QED BY <2>1, <2>2
<1>. DEFINE Is(h) == h = [at \in D |-> searchKdTree(q, h, at)]
            v == CHOOSE h : Is(h)
<1>8. Leaves(q) = v[<<0, 0>>]
  BY DEF Leaves
<1>9. Is(v)
  <2>. HIDE DEF Is
  <2>1. Is(f)
    BY <1>7 DEF Is
  <2>. QED BY <2>1
<1>. QED
  BY <1>8, <1>9

\* Leaves between two places of the keys file, one behind the other.
TreeNodes == {TreeNode(i) : i \in DOMAIN nodes}
Pieces(s, a, b) ==
  /\ s \in Seq(TreeNodes)
  /\ \A k \in DOMAIN s :
       /\ s[k].offset \in Nat /\ s[k].median \in 1..MaxRecords
       /\ a <= s[k].offset /\ s[k].offset + s[k].median <= b
  /\ \A k, l \in DOMAIN s : k < l => s[k].offset + s[k].median <= s[l].offset

\* One of them has the record at p.
Covers(s, p) == \E k \in DOMAIN s : s[k].offset < p /\ p <= s[k].offset + s[k].median

\* A record that matches, and is below the upper bounds.
Wanted(q, t) == isMatched(q, t) /\ \A j \in 1..Size : t.key[j] < q.hi[j]

LEMMA NoPieces ==
  ASSUME NEW a, NEW b
  PROVE  Pieces(<<>>, a, b)
BY DEF Pieces

LEMMA JoinedPieces ==
  ASSUME NEW a \in Nat, NEW b \in Nat, NEW c \in Nat, a <= b, b <= c,
         NEW s, Pieces(s, a, b), NEW t, Pieces(t, b, c)
  PROVE  /\ Pieces(s \o t, a, c)
         /\ \A p : Covers(s, p) \/ Covers(t, p) => Covers(s \o t, p)
<1>. DEFINE u == s \o t
            m == Len(s)
            n == Len(t)
<1>1. /\ s \in Seq(TreeNodes) /\ t \in Seq(TreeNodes)
      /\ DOMAIN s = 1..m /\ DOMAIN t = 1..n /\ m \in Nat /\ n \in Nat
  BY DEF Pieces
<1>2. /\ u \in Seq(TreeNodes) /\ Len(u) = m + n
      /\ \A k \in 1..(m + n) : u[k] = IF k <= m THEN s[k] ELSE t[k - m]
  BY <1>1, ConcatProperties
<1>3. /\ \A k \in 1..m : /\ s[k].offset \in Nat /\ s[k].median \in 1..MaxRecords
                         /\ a <= s[k].offset /\ s[k].offset + s[k].median <= b
      /\ \A k \in 1..n : /\ t[k].offset \in Nat /\ t[k].median \in 1..MaxRecords
                         /\ b <= t[k].offset /\ t[k].offset + t[k].median <= c
      /\ \A k, l \in 1..m : k < l => s[k].offset + s[k].median <= s[l].offset
      /\ \A k, l \in 1..n : k < l => t[k].offset + t[k].median <= t[l].offset
      /\ MaxRecords \in Nat
  BY <1>1, KdAssumption DEF Pieces
<1>. HIDE DEF u, m, n
<1>4. /\ DOMAIN u = 1..(m + n)
      /\ \A k \in 1..(m + n) : \/ k \in 1..m /\ u[k] = s[k]
                               \/ k - m \in 1..n /\ k > m /\ u[k] = t[k - m]
  BY <1>1, <1>2
<1>5. ASSUME NEW k \in 1..(m + n)
      PROVE  /\ u[k].offset \in Nat /\ u[k].median \in 1..MaxRecords
             /\ a <= u[k].offset /\ u[k].offset + u[k].median <= c
  <2>1. CASE k \in 1..m /\ u[k] = s[k]
    BY <2>1, <1>3
  <2>2. CASE k - m \in 1..n /\ u[k] = t[k - m]
    BY <2>2, <1>3
  <2>. QED BY <2>1, <2>2, <1>4
<1>6. ASSUME NEW k \in 1..(m + n), NEW l \in 1..(m + n), k < l
      PROVE  u[k].offset + u[k].median <= u[l].offset
  <2>1. CASE l \in 1..m /\ u[l] = s[l]
    <3>1. k \in 1..m /\ u[k] = s[k]
      BY <2>1, <1>1, <1>2, <1>6
    <3>. QED BY <2>1, <3>1, <1>3, <1>6
  <2>2. CASE l - m \in 1..n /\ l > m /\ u[l] = t[l - m]
    <3>1. CASE k \in 1..m /\ u[k] = s[k]
      <4>1. u[k].offset + u[k].median <= b /\ b <= u[l].offset
        BY <3>1, <2>2, <1>3
      <4>. QED BY <4>1, <1>5
    <3>2. CASE k - m \in 1..n /\ k > m /\ u[k] = t[k - m]
      <4>1. k - m < l - m
        BY <1>1, <1>6
      <4>. QED BY <4>1, <3>2, <2>2, <1>3
    <3>. QED BY <3>1, <3>2, <1>4
  <2>. QED BY <2>1, <2>2, <1>4
<1>7. Pieces(u, a, c)
  BY <1>2, <1>4, <1>5, <1>6 DEF Pieces
<1>8. ASSUME NEW p, Covers(s, p) PROVE Covers(u, p)
  <2>1. PICK k \in 1..m : s[k].offset < p /\ p <= s[k].offset + s[k].median
    BY <1>1, <1>8 DEF Covers
  <2>2. k \in 1..(m + n) /\ u[k] = s[k]
    BY <1>1, <1>2
  <2>. QED BY <2>1, <2>2, <1>4 DEF Covers
<1>9. ASSUME NEW p, Covers(t, p) PROVE Covers(u, p)
  <2>1. PICK k \in 1..n : t[k].offset < p /\ p <= t[k].offset + t[k].median
    BY <1>1, <1>9 DEF Covers
  <2>2. k + m \in 1..(m + n) /\ (k + m) - m = k /\ ~(k + m <= m)
    BY <1>1
  <2>3. u[k + m] = t[k]
    BY <2>2, <1>2
  <2>. QED BY <2>1, <2>2, <2>3, <1>4 DEF Covers
<1>. QED
  BY <1>7, <1>8, <1>9 DEF u

\* What is found below a node are leaves of its records, one behind the other,
\* and each record that is wanted is in one of them.
FoundBelow(q, sp, i, s) ==
  /\ Pieces(s, sp[i].first - 1, sp[i].first + sp[i].n - 1)
  /\ Parted(sp) /\ ~IsLeaf(Len(trips)) =>
       \A p \in Records(sp[i]) : Wanted(q, trips[p]) => Covers(s, p)

LEMMA FoundAtLeaf ==
  ASSUME TypeOK, calls = <<>>, NEW sp, Tree(sp), NEW q \in Query,
         NEW i \in DOMAIN nodes, nodes[i].child = 0, NEW f
  PROVE  FoundBelow(q, sp, i, searchKdTree(q, f, <<i, sp[i].depth>>))
<1>. DEFINE node == TreeNode(i)
            s == searchKdTree(q, f, <<i, sp[i].depth>>)
<1>1. /\ IsPart(sp[i]) /\ IsLeaf(sp[i].n) /\ node.child = 0 /\ node.median = sp[i].n
      /\ node.offset = sp[i].first - 1
      /\ ~IsLeaf(Len(trips)) => node = nodes[i]
      /\ Len(trips) \in Nat
  BY NodeRead DEF TypeOK
<1>2. s = IF rangeMatched(node, q) THEN <<node>> ELSE <<>>
  BY <1>1 DEF searchKdTree
<1>3. sp[i].first \in Nat /\ sp[i].n \in Nat /\ sp[i].first >= 1 /\ sp[i].n >= 1
  BY <1>1, PartTypes
<1>4. Pieces(<<node>>, sp[i].first - 1, sp[i].first + sp[i].n - 1)
  <2>1. <<node>> \in Seq(TreeNodes) /\ DOMAIN <<node>> = {1} /\ <<node>>[1] = node
    BY DEF TreeNodes
  <2>2. node.offset \in Nat /\ node.median \in 1..MaxRecords
    BY <1>1, <1>3, KdAssumption DEF IsLeaf
  <2>3. node.offset + node.median <= sp[i].first + sp[i].n - 1
    BY <1>1, <1>3
  <2>4. sp[i].first - 1 <= node.offset
    BY <1>1, <1>3
  <2>. HIDE DEF node
  <2>. QED BY <2>1, <2>2, <2>3, <2>4 DEF Pieces
<1>5. ASSUME Parted(sp), ~IsLeaf(Len(trips)), NEW p \in Records(sp[i]), Wanted(q, trips[p])
      PROVE  Covers(s, p)
  <2>1. \A j \in 1..Size : /\ node.lo[j] \in Nat /\ node.hi[j] \in Nat
                           /\ node.lo[j] <= trips[p].key[j] /\ trips[p].key[j] <= node.hi[j]
                           /\ q.lo[j] <= trips[p].key[j] /\ trips[p].key[j] <= q.hi[j]
    BY <1>1, <1>5 DEF Parted, Wanted, isMatched
  <2>2. rangeMatched(node, q)
    <3>. SUFFICES ASSUME NEW j \in 1..Size
         PROVE  ~(node.lo[j] > q.hi[j] \/ q.lo[j] > node.hi[j])
      BY DEF rangeMatched
    <3>1. trips[p].key[j] \in Nat /\ q.hi[j] \in Nat /\ q.lo[j] \in Nat
      <4>1. trips[p] \in Trips
        BY <1>1, PartTypes DEF TypeOK
      <4>2. trips[p].key[j] \in Keys
        BY <4>1 DEF Trips
      <4>3. q.hi[j] \in Keys /\ q.lo[j] \in Keys
        BY DEF Query
      <4>. QED BY <4>2, <4>3, KdAssumption
    <3>. QED BY <2>1, <3>1
  <2>3. s = <<node>> /\ p \in Int /\ p >= sp[i].first /\ p <= sp[i].first + sp[i].n - 1
    BY <2>2, <1>2, <1>3 DEF Records
  <2>4. node.offset < p /\ p <= node.offset + node.median
    BY <2>3, <1>1, <1>3
  <2>5. DOMAIN <<node>> = {1} /\ <<node>>[1] = node
    OBVIOUS
  <2>. HIDE DEF s, node
  <2>. QED BY <2>3, <2>4, <2>5 DEF Covers
<1>. QED
  BY <1>2, <1>4, <1>5, NoPieces DEF FoundBelow

LEMMA FoundAtSplit ==
  ASSUME TypeOK, calls = <<>>, NEW sp, Tree(sp), NEW q \in Query,
         NEW i \in DOMAIN nodes, nodes[i].child # 0, NEW f,
         \A k \in DOMAIN nodes : i < k => FoundBelow(q, sp, k, f[<<k, sp[k].depth>>])
  PROVE  FoundBelow(q, sp, i, searchKdTree(q, f, <<i, sp[i].depth>>))
<1>. DEFINE c == nodes[i].child
            d == c + 1 + (IF nodes[c].child = 0 THEN Extra ELSE 0)
            j == KeyAt(sp[i].depth)
            median == nodes[i].median
            l == IF GoesLeft(q, j, median) THEN f[<<c, sp[c].depth>>] ELSE <<>>
            r == IF GoesRight(q, j, median) THEN f[<<d, sp[d].depth>>] ELSE <<>>
            s == searchKdTree(q, f, <<i, sp[i].depth>>)
            m == Split(sp[i].n)
<1>1. /\ ~IsLeaf(sp[i].n) /\ c \in DOMAIN nodes /\ d \in DOMAIN nodes /\ i < c /\ i < d
      /\ sp[c] = LeftOf(sp[i]) /\ sp[d] = RightOf(sp[i])
      /\ IsPart(sp[i]) /\ TreeNode(i).child = c /\ TreeNode(i).median = median
      /\ Len(trips) \in Nat
  BY NodeRead DEF TypeOK
<1>2. /\ sp[c].depth = sp[i].depth + 1 /\ sp[d].depth = sp[i].depth + 1
      /\ sp[c].first = sp[i].first /\ sp[c].n = m
      /\ sp[d].first = sp[i].first + m /\ sp[d].n = sp[i].n - m
  BY <1>1 DEF LeftOf, RightOf
<1>3. s = l \o r
  BY <1>1, <1>2 DEF searchKdTree, KeyAt
<1>4. /\ sp[i].first \in Nat /\ sp[i].n \in Nat /\ sp[i].first >= 1
      /\ m \in Nat /\ 1 <= m /\ m < sp[i].n /\ j \in 1..Size
      /\ \A p \in Records(sp[i]) : p \in Records(LeftOf(sp[i])) \/ p \in Records(RightOf(sp[i]))
      /\ \A p \in Records(sp[i]) : p \in 1..Len(trips)
  BY <1>1, PartTypes
<1>5. FoundBelow(q, sp, c, f[<<c, sp[c].depth>>]) /\ FoundBelow(q, sp, d, f[<<d, sp[d].depth>>])
  BY <1>1
<1>. HIDE DEF m, c, d, j, median
<1>6. PICK first, mid, last :
        first = sp[i].first - 1 /\ mid = sp[i].first + m - 1 /\ last = sp[i].first + sp[i].n - 1
  OBVIOUS
<1>7. first \in Nat /\ mid \in Nat /\ last \in Nat /\ first <= mid /\ mid <= last
  <2>1. PICK x, y, z : x = sp[i].first /\ y = sp[i].n /\ z = m
    OBVIOUS
  <2>2. x \in Nat /\ y \in Nat /\ z \in Nat /\ x >= 1 /\ 1 <= z /\ z < y
    BY <2>1, <1>4
  <2>3. first = x - 1 /\ mid = x + z - 1 /\ last = x + y - 1
    BY <2>1, <1>6
  <2>. QED BY <2>2, <2>3
<1>8. Pieces(l, first, mid)
  <2>1. Pieces(f[<<c, sp[c].depth>>], first, mid)
    BY <1>2, <1>5, <1>6 DEF FoundBelow
  <2>. QED BY <2>1, NoPieces
<1>9. Pieces(r, mid, last)
  <2>1. sp[d].first - 1 = mid /\ sp[d].first + sp[d].n - 1 = last
    <3>1. sp[d].first = sp[i].first + m /\ sp[d].n = sp[i].n - m
      BY <1>2
    <3>2. PICK x, y, z : x = sp[i].first /\ y = sp[i].n /\ z = m
      OBVIOUS
    <3>3. x \in Nat /\ y \in Nat /\ z \in Nat
      BY <3>2, <1>4
    <3>4. (x + z) - 1 = x + z - 1 /\ (x + z) + (y - z) - 1 = x + y - 1
      BY <3>3
    <3>. QED BY <3>1, <3>2, <3>4, <1>6
  <2>2. Pieces(f[<<d, sp[d].depth>>], mid, last)
    BY <2>1, <1>5 DEF FoundBelow
  <2>. QED BY <2>2, NoPieces
<1>10. Pieces(s, first, last) /\ \A p : Covers(l, p) \/ Covers(r, p) => Covers(s, p)
  <2>. HIDE DEF l, r, s
  <2>. QED BY <1>3, <1>7, <1>8, <1>9, JoinedPieces
<1>11. ASSUME Parted(sp), ~IsLeaf(Len(trips)), NEW p \in Records(sp[i]), Wanted(q, trips[p])
       PROVE  Covers(s, p)
  <2>1. /\ \A x \in Records(LeftOf(sp[i])) : trips[x].key[j] <= median
        /\ \A x \in Records(RightOf(sp[i])) : median <= trips[x].key[j]
    BY <1>11 DEF Parted, j, median
  <2>2. q.lo[j] <= trips[p].key[j] /\ trips[p].key[j] < q.hi[j]
    BY <1>4, <1>11 DEF Wanted, isMatched
  <2>3. trips[p].key[j] \in Nat /\ q.hi[j] \in Nat /\ q.lo[j] \in Nat /\ median \in Nat
    <3>1. trips[p] \in Trips
      BY <1>4 DEF TypeOK
    <3>2. median \in Nat
      BY DEF TypeOK, median
    <3>. QED BY <3>1, <3>2, <1>4, KdAssumption DEF Trips, Query
  <2>4. CASE p \in Records(LeftOf(sp[i]))
    <3>1. GoesLeft(q, j, median)
      BY <2>1, <2>2, <2>3, <2>4 DEF GoesLeft
    <3>2. Covers(f[<<c, sp[c].depth>>], p)
      BY <2>4, <1>1, <1>5, <1>11 DEF FoundBelow
    <3>. QED BY <3>1, <3>2, <1>10
  <2>5. CASE p \in Records(RightOf(sp[i]))
    <3>1. GoesRight(q, j, median)
      BY <2>1, <2>2, <2>3, <2>5 DEF GoesRight
    <3>2. Covers(f[<<d, sp[d].depth>>], p)
      BY <2>5, <1>1, <1>5, <1>11 DEF FoundBelow
    <3>. QED BY <3>1, <3>2, <1>10
  <2>. QED BY <2>4, <2>5, <1>4
<1>. QED
  BY <1>6, <1>10, <1>11 DEF FoundBelow

\* What a query finds, in a tree over the block.
LEMMA FoundLeaves ==
  ASSUME TypeOK, calls = <<>>, NEW sp, Tree(sp), NEW q \in Query
  PROVE  FoundBelow(q, sp, 0, Leaves(q))
<1>1. PICK f : /\ f = [at \in (DOMAIN nodes) \X Nat |-> searchKdTree(q, f, at)]
               /\ Leaves(q) = f[<<0, 0>>]
  BY Visited
<1>. DEFINE At(i) == <<i, sp[i].depth>>
            T == {n \in Nat : \A i \in DOMAIN nodes :
                                freeNode <= i + n => FoundBelow(q, sp, i, f[At(i)])}
<1>2. \A i \in DOMAIN nodes : /\ i \in Nat /\ i < freeNode /\ freeNode \in Nat
                              /\ At(i) \in (DOMAIN nodes) \X Nat
  BY NodeRead DEF IsPart
<1>3. \A i \in DOMAIN nodes : f[At(i)] = searchKdTree(q, f, At(i))
  <2>. HIDE DEF At
  <2>. QED BY <1>1, <1>2
<1>4. 0 \in T
  BY <1>2
<1>5. ASSUME NEW n \in Nat, n \in T PROVE n + 1 \in T
  <2>. SUFFICES ASSUME NEW i \in DOMAIN nodes, freeNode <= i + (n + 1)
       PROVE  FoundBelow(q, sp, i, f[At(i)])
    OBVIOUS
  <2>1. ASSUME NEW k \in DOMAIN nodes, i < k PROVE freeNode <= k + n
    <3>1. i \in Nat /\ k \in Nat /\ freeNode \in Nat
      BY <1>2
    <3>2. freeNode <= i + (n + 1)
      OBVIOUS
    <3>. QED BY <3>1, <3>2, <2>1
  <2>2. \A k \in DOMAIN nodes : i < k => FoundBelow(q, sp, k, f[<<k, sp[k].depth>>])
    BY <2>1, <1>5
  <2>3. FoundBelow(q, sp, i, searchKdTree(q, f, At(i)))
    <3>1. CASE nodes[i].child = 0
      BY <3>1, FoundAtLeaf
    <3>2. CASE nodes[i].child # 0
      BY <3>2, <2>2, FoundAtSplit
    <3>. QED BY <3>1, <3>2
  <2>. QED BY <2>3, <1>3
<1>6. freeNode \in T
  <2>1. Nat \subseteq T
    <3>. HIDE DEF T
    <3>. QED BY <1>4, <1>5, AllNat
  <2>. QED BY <2>1 DEF TypeOK
<1>7. 0 \in DOMAIN nodes /\ sp[0].depth = 0
  <2>1. DOMAIN calls = {}
    OBVIOUS
  <2>. QED BY <2>1 DEF Tree
<1>8. freeNode <= 0 + freeNode
  <2>1. freeNode \in Nat
    BY DEF TypeOK
  <2>. QED BY <2>1
<1>. QED
  BY <1>1, <1>6, <1>7, <1>8

\* Where the keys file has the record of a hit.
Place(q, h) == Leaves(q)[h.at[1]].offset + h.at[2]

\* The hits of a query are places of the block's records, each found once.
LEMMA Hits ==
  ASSUME TypeOK, calls = <<>>, NEW sp, Tree(sp), NEW q \in Query
  PROVE  /\ IsFiniteSet(requestQuery(q))
         /\ \A h \in requestQuery(q) :
              /\ Place(q, h) \in 1..Len(trips)
              /\ h.index = keysFile[Place(q, h)].index
              /\ isMatched(q, keysFile[Place(q, h)])
         /\ \A h, g \in requestQuery(q) : Place(q, h) = Place(q, g) => h = g
         /\ \A p \in Nat :
              Covers(Leaves(q), p) /\ isMatched(q, keysFile[p]) =>
                \E h \in requestQuery(q) : Place(q, h) = p
<1>. DEFINE found == Leaves(q)
            n == Len(found)
            L == Len(trips)
            Met(at) == /\ at[2] <= found[at[1]].median
                       /\ isMatched(q, InLeaf(found[at[1]], at[2]))
            met == {at \in (DOMAIN found) \X (1..MaxRecords) : Met(at)}
            Hit(at) == [at |-> at, index |-> InLeaf(found[at[1]], at[2]).index]
<1>1. L \in Nat /\ MaxRecords \in Nat
  BY KdAssumption DEF TypeOK
<1>2. Pieces(found, 0, L)
  <2>1. sp[0] = [first |-> 1, n |-> L, depth |-> 0]
    BY DEF Tree
  <2>2. sp[0].first - 1 = 0 /\ sp[0].first + sp[0].n - 1 = L
    BY <2>1, <1>1
  <2>. QED BY <2>2, FoundLeaves DEF FoundBelow
<1>3. /\ n \in Nat /\ DOMAIN found = 1..n
      /\ \A k \in 1..n : /\ found[k].offset \in Nat /\ found[k].median \in 1..MaxRecords
                         /\ found[k].offset + found[k].median <= L
      /\ \A k, l \in 1..n : k < l => found[k].offset + found[k].median <= found[l].offset
  BY <1>2 DEF Pieces
<1>4. requestQuery(q) = {Hit(at) : at \in met}
  BY DEF requestQuery
<1>. HIDE DEF found, n, L
<1>5. IsFiniteSet(requestQuery(q))
  <2>1. IsFiniteSet(met)
    <3>1. \A m \in Nat : IsFiniteSet(1..m)
      BY FS_Interval
    <3>2. IsFiniteSet((DOMAIN found) \X (1..MaxRecords))
      BY <3>1, <1>1, <1>3, FS_Product
    <3>. QED BY <3>2, FS_Subset
  <2>. DEFINE f == [at \in met |-> Hit(at)]
  <2>2. f \in Surjection(met, requestQuery(q))
    <3>. HIDE DEF met, Hit
    <3>. QED BY <1>4 DEF Surjection
  <2>. HIDE DEF f, met
  <2>. QED BY <2>1, <2>2, FS_Surjection
<1>6. ASSUME NEW h \in requestQuery(q)
      PROVE  /\ h.at[1] \in 1..n /\ h.at[2] \in 1..MaxRecords
             /\ h.at[2] <= found[h.at[1]].median
             /\ h.at = <<h.at[1], h.at[2]>> /\ h = Hit(h.at)
             /\ Place(q, h) = found[h.at[1]].offset + h.at[2]
             /\ isMatched(q, keysFile[Place(q, h)])
             /\ h.index = keysFile[Place(q, h)].index
  <2>1. PICK at \in met : h = Hit(at)
    BY <1>4
  <2>2. h.at = at
    BY <2>1
  <2>3. Place(q, h) = found[at[1]].offset + at[2]
    BY <2>2 DEF Place, found
  <2>. QED BY <2>1, <2>2, <2>3, <1>3 DEF InLeaf
<1>7. \A h \in requestQuery(q) : Place(q, h) \in 1..L
  <2>. SUFFICES ASSUME NEW h \in requestQuery(q) PROVE Place(q, h) \in 1..L
    OBVIOUS
  <2>. DEFINE leaf == found[h.at[1]]
              i == h.at[2]
  <2>1. /\ Place(q, h) = leaf.offset + i /\ i \in 1..MaxRecords /\ i <= leaf.median
        /\ leaf.offset \in Nat /\ leaf.median \in 1..MaxRecords
        /\ leaf.offset + leaf.median <= L
    BY <1>3, <1>6
  <2>. HIDE DEF leaf, i
  <2>. QED BY <2>1, <1>1
<1>8. ASSUME NEW h \in requestQuery(q), NEW g \in requestQuery(q), h.at[1] < g.at[1]
      PROVE  Place(q, h) < Place(q, g)
  <2>. DEFINE a == found[h.at[1]].offset
              x == found[h.at[1]].median
              b == found[g.at[1]].offset
  <2>1. h.at[1] \in 1..n /\ g.at[1] \in 1..n
    BY <1>6
  <2>2. a + x <= b /\ a \in Nat /\ b \in Nat /\ x \in Nat
    <3>1. PICK k, l : k = h.at[1] /\ l = g.at[1]
      OBVIOUS
    <3>2. k \in 1..n /\ l \in 1..n /\ k < l
      BY <3>1, <2>1, <1>8
    <3>3. found[k].offset + found[k].median <= found[l].offset
      BY <3>2, <1>3
    <3>4. /\ found[k].offset \in Nat /\ found[l].offset \in Nat
          /\ found[k].median \in 1..MaxRecords
      BY <3>2, <1>3
    <3>5. found[k].median \in Nat
      BY <3>4, <1>1
    <3>. QED BY <3>1, <3>3, <3>4, <3>5
  <2>3. /\ Place(q, h) = a + h.at[2] /\ h.at[2] \in 1..MaxRecords /\ h.at[2] <= x
        /\ Place(q, g) = b + g.at[2] /\ g.at[2] \in 1..MaxRecords
    BY <1>6
  <2>4. \A i, k \in 1..MaxRecords : \A y, w, z \in Nat : y + z <= w /\ i <= z => y + i < w + k
    BY <1>1
  <2>. HIDE DEF a, x, b
  <2>. QED BY <2>2, <2>3, <2>4
<1>9. ASSUME NEW h \in requestQuery(q), NEW g \in requestQuery(q), Place(q, h) = Place(q, g)
      PROVE  h = g
  <2>1. h.at[1] \in 1..n /\ g.at[1] \in 1..n /\ Place(q, h) \in 1..L
    BY <1>6, <1>7
  <2>2. h.at[1] = g.at[1]
    <3>1. ~(h.at[1] < g.at[1])
      BY <2>1, <1>1, <1>8, <1>9
    <3>2. ~(g.at[1] < h.at[1])
      BY <2>1, <1>1, <1>8, <1>9
    <3>. QED BY <2>1, <3>1, <3>2, <1>3
  <2>3. h.at[2] = g.at[2]
    <3>. DEFINE a == found[h.at[1]].offset
    <3>1. /\ a + h.at[2] = a + g.at[2] /\ a \in Nat
          /\ h.at[2] \in 1..MaxRecords /\ g.at[2] \in 1..MaxRecords
      BY <2>1, <2>2, <1>3, <1>6, <1>9
    <3>. HIDE DEF a
    <3>. QED BY <3>1, <1>1
  <2>4. h.at = g.at
    <3>1. h.at = <<h.at[1], h.at[2]>> /\ g.at = <<g.at[1], g.at[2]>>
      BY <1>6
    <3>. QED BY <3>1, <2>2, <2>3
  <2>. HIDE DEF Hit
  <2>. QED BY <2>4, <1>6
<1>10. ASSUME NEW p \in Nat, Covers(found, p), isMatched(q, keysFile[p])
       PROVE  \E h \in requestQuery(q) : Place(q, h) = p
  <2>1. PICK k \in 1..n : found[k].offset < p /\ p <= found[k].offset + found[k].median
    BY <1>3, <1>10 DEF Covers
  <2>. DEFINE i == p - found[k].offset
              at == <<k, i>>
  <2>2. i \in 1..MaxRecords /\ i <= found[k].median /\ found[k].offset + i = p
    <3>1. PICK a, x : a = found[k].offset /\ x = found[k].median
      OBVIOUS
    <3>2. a \in Nat /\ x \in 1..MaxRecords
      BY <3>1, <1>3
    <3>3. a < p /\ p <= a + x
      BY <3>1, <2>1
    <3>4. p - a \in 1..MaxRecords /\ p - a <= x /\ a + (p - a) = p
      BY <3>2, <3>3, <1>1
    <3>. QED BY <3>1, <3>4
  <2>. HIDE DEF i
  <2>3. at \in met
    BY <2>2, <1>3, <1>10 DEF InLeaf
  <2>4. Hit(at) \in requestQuery(q)
    BY <2>3, <1>4
  <2>5. Hit(at).at = <<k, i>>
    OBVIOUS
  <2>6. Place(q, Hit(at)) = p
    BY <2>2, <2>5 DEF Place, found
  <2>. QED BY <2>4, <2>6
<1>. QED
  BY <1>5, <1>6, <1>7, <1>9, <1>10 DEF found, L

\* Over a finished index of more than one leaf, whatever the outcome of the
\* sorts that built it, a query answers with indices of matching records, each
\* once and in order, and leaves out none that is below its upper bounds.
THEOREM SearchIsSound == Spec => []SearchSound
<1>1. CutInv => SearchSound
  <2>. SUFFICES ASSUME CutInv, calls = <<>>, ~IsLeaf(Len(trips)), NEW q \in Query
       PROVE  LET found == querySting(q)
                  below == {t \in Matching(q) : \A j \in 1..Size : t.key[j] < q.hi[j]}
              IN  /\ \A k \in DOMAIN found : \A l \in DOMAIN found : k < l => found[k] < found[l]
                  /\ Range(found) \subseteq {t.index : t \in Matching(q)}
                  /\ {t.index : t \in below} \subseteq Range(found)
    BY DEF SearchSound, Built
  <2>. DEFINE met == requestQuery(q)
              L == Len(trips)
  <2>1. PICK sp : Tree(sp) /\ Parted(sp)
    BY DEF CutInv
  <2>2. /\ TypeOK /\ L \in Nat /\ DOMAIN trips = 1..L
        /\ \A p \in 1..L : trips[p] \in Trips /\ keysFile[p] = trips[p] /\ trips[p] \in Range(trips)
        /\ \A i, k \in 1..L : trips[i].index = trips[k].index => i = k
    <3>1. TypeOK /\ WrittenRecords /\ Numbered
      BY DEF CutInv, FileInv
    <3>2. L \in Nat /\ DOMAIN trips = 1..L /\ \A p \in 1..L : trips[p] \in Trips
      BY <3>1 DEF TypeOK
    <3>3. Len(keysFile) >= L /\ DOMAIN keysFile = 1..Len(keysFile) /\ Len(keysFile) \in Nat
      BY <3>1 DEF WrittenRecords, TypeOK
    <3>4. \A p \in 1..L : p \in DOMAIN keysFile /\ p <= L
      <4>. HIDE DEF L
      <4>. QED BY <3>2, <3>3
    <3>. QED BY <3>1, <3>2, <3>4 DEF WrittenRecords, Numbered, Range
  <2>3. /\ IsFiniteSet(met)
        /\ \A h \in met : /\ Place(q, h) \in 1..L
                          /\ h.index = trips[Place(q, h)].index
                          /\ isMatched(q, trips[Place(q, h)])
        /\ \A h, g \in met : Place(q, h) = Place(q, g) => h = g
    BY <2>1, <2>2, Hits
  <2>4. \A h \in met : h.index \in Nat
    BY <2>2, <2>3 DEF Trips
  <2>5. \A h, g \in met : h.index = g.index => h = g
    BY <2>2, <2>3
  <2>6. /\ querySting(q) = Ascending(met)
        /\ \A k, l \in DOMAIN Ascending(met) : k < l => Ascending(met)[k] < Ascending(met)[l]
        /\ Range(Ascending(met)) = {h.index : h \in met}
    <3>. HIDE DEF met
    <3>1. querySting(q) = Ascending(met)
      BY DEF querySting, met
    <3>. QED BY <3>1, <2>3, <2>4, <2>5, AscendingOnce
  <2>7. {h.index : h \in met} \subseteq {t.index : t \in Matching(q)}
    BY <2>2, <2>3 DEF Matching
  <2>8. ASSUME NEW t \in Matching(q), \A j \in 1..Size : t.key[j] < q.hi[j]
        PROVE  t.index \in {h.index : h \in met}
    <3>1. PICK p \in 1..L : trips[p] = t
      BY <2>2 DEF Matching, Range
    <3>2. Wanted(q, trips[p])
      BY <3>1, <2>8 DEF Wanted, Matching
    <3>3. Covers(Leaves(q), p)
      <4>1. FoundBelow(q, sp, 0, Leaves(q))
        BY <2>1, <2>2, FoundLeaves
      <4>2. p \in Records(sp[0])
        <5>1. sp[0] = [first |-> 1, n |-> L, depth |-> 0]
          BY <2>1 DEF Tree
        <5>2. Records(sp[0]) = 1..(1 + L - 1)
          BY <5>1 DEF Records
        <5>3. 1 + L - 1 = L
          BY <2>2
        <5>. QED BY <5>2, <5>3
      <4>. QED BY <4>1, <4>2, <3>2, <2>1 DEF FoundBelow
    <3>4. isMatched(q, keysFile[p]) /\ p \in Nat
      BY <3>1, <2>2 DEF Matching
    <3>5. PICK h \in met : Place(q, h) = p
      BY <3>3, <3>4, <2>1, <2>2, Hits
    <3>. QED BY <3>1, <3>5, <2>3
  <2>. HIDE DEF met
  <2>. QED BY <2>6, <2>7, <2>8
<1>. QED
  BY <1>1, CutInvariance, PTL

=============================================================================
