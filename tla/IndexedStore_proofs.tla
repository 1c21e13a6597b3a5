------------------------- MODULE IndexedStore_proofs -------------------------
(***************************************************************************)
(* Of a dataset and its index over builds, saves and restarts, for any     *)
(* block, leaf size and keys: whatever order the block is in when it is    *)
(* indexed, the index holds the rows as they were loaded and queries       *)
(* answer with ids of rows that match, and a process that restores an      *)
(* unsorted block reads at each id the row of that id.                     *)
(***************************************************************************)
EXTENDS IndexedStore, KdIndex_proofs

\* A record is the row of its index.
IsRow(t) == t.index + 1 \in DOMAIN rows /\ t = rows[t.index + 1]

\* A block holds the rows in some order.
Kept(s) ==
  /\ s \in Seq(Trips) /\ Len(s) = Len(rows)
  /\ \A i \in DOMAIN s : IsRow(s[i])
  /\ \A i, k \in DOMAIN s : s[i].index = s[k].index => i = k

\* Each row is once in the keys file, before what fills up the last leaf.
RowsOnce ==
  /\ \A k \in 1..Len(rows) : k \in DOMAIN keysFile /\ keysFile[k] # Pad
  /\ \A i \in DOMAIN rows : \E k \in DOMAIN keysFile : keysFile[k] = rows[i]
  /\ \A k, l \in DOMAIN keysFile :
       keysFile[k] # Pad /\ keysFile[k] = keysFile[l] => k = l

FileRows ==
  /\ \A k \in DOMAIN keysFile : keysFile[k] = Pad \/ IsRow(keysFile[k])
  /\ calls = <<>> => RowsOnce

\* Only a process that has sorted its block builds, and only such a one leaks
\* another order to the disk.
OrderInv ==
  /\ calls # <<>> => sorted
  /\ ~leaked => saved = rows
  /\ ~sorted /\ ~leaked => trips = rows

StoreInv ==
  /\ StoreTypeOK
  /\ Kept(trips) /\ Kept(saved)
  /\ calls # <<>> => FileInv
  /\ TreeInv
  /\ FileRows
  /\ OrderInv

-----------------------------------------------------------------------------
\* The rows are numbered.
LEMMA RowTypes ==
  ASSUME rows \in Blocks
  PROVE  /\ rows \in Seq(Trips) /\ Len(rows) \in Nat /\ Len(rows) > 0
         /\ DOMAIN rows = 1..Len(rows)
         /\ \A i \in DOMAIN rows : rows[i] \in Trips /\ rows[i].index = i - 1
<1>1. rows \in Seq(Trips) \ {<<>>}
  BY KdAssumption
<1>2. \A i \in DOMAIN rows : rows[i].index = i - 1
  BY KdAssumption
<1>3. Len(rows) \in Nat /\ Len(rows) # 0 /\ DOMAIN rows = 1..Len(rows)
      /\ \A i \in DOMAIN rows : rows[i] \in Trips
  BY <1>1
<1>. QED
  BY <1>1, <1>2, <1>3

LEMMA KeptTypes ==
  ASSUME NEW s, Kept(s)
  PROVE  /\ Len(s) \in Nat /\ DOMAIN s = 1..Len(rows) /\ Len(s) = Len(rows)
         /\ \A i \in DOMAIN s : s[i] \in Trips /\ s[i].index \in Nat
<1>1. s \in Seq(Trips) /\ Len(s) = Len(rows)
  BY DEF Kept
<1>2. \A t \in Trips : t.index \in Nat
  BY DEF Trips
<1>. QED
  BY <1>1, <1>2

\* The rows are in an order of theirs.
LEMMA RowsKept ==
  ASSUME rows \in Blocks
  PROVE  Kept(rows)
<1>1. \A i \in DOMAIN rows : rows[i].index + 1 = i
  BY RowTypes
<1>2. \A i \in DOMAIN rows : IsRow(rows[i])
  BY <1>1 DEF IsRow
<1>3. \A i, k \in DOMAIN rows : rows[i].index = rows[k].index => i = k
  BY <1>1
<1>. QED
  BY <1>2, <1>3, RowTypes DEF Kept

\* A block in any order has every row.
LEMMA AllRows ==
  ASSUME rows \in Blocks, NEW s, Kept(s), NEW i \in DOMAIN rows
  PROVE  \E k \in DOMAIN s : s[k] = rows[i]
<1>. DEFINE N == Len(rows)
            f == [k \in 1..N |-> s[k].index + 1]
<1>1. N \in Nat /\ DOMAIN s = 1..N /\ DOMAIN rows = 1..N /\ i \in 1..N
      /\ \A k \in 1..N : s[k].index \in Nat
  BY RowTypes, KeptTypes
<1>2. \A k \in 1..N : s[k].index + 1 \in 1..N /\ s[k] = rows[s[k].index + 1]
  BY <1>1 DEF Kept, IsRow
<1>3. \A k, l \in 1..N : f[k] = f[l] => k = l
  <2>1. \A k, l \in 1..N : s[k].index = s[l].index => k = l
    BY <1>1 DEF Kept
  <2>. QED BY <2>1, <1>1
<1>4. f \in Injection(1..N, 1..N)
  <2>1. f \in [1..N -> 1..N]
    BY <1>2
  <2>. HIDE DEF f, N
  <2>. QED BY <2>1, <1>3 DEF Injection, IsInjective
<1>5. IsFiniteSet(1..N)
  <2>1. \A n \in Nat : IsFiniteSet(1..n)
    BY FS_Interval
  <2>. QED BY <2>1, <1>1
<1>6. f \in Surjection(1..N, 1..N)
  <2>. HIDE DEF f, N
  <2>. QED BY <1>4, <1>5, FS_Injection
<1>7. PICK k \in 1..N : f[k] = i
  <2>. HIDE DEF f, N
  <2>. QED BY <1>1, <1>6 DEF Surjection
<1>8. s[k] = rows[i]
  BY <1>2, <1>7
<1>. QED
  BY <1>1, <1>8

\* The sorting of a part of the block keeps every row in it.
LEMMA SortedKept ==
  ASSUME TypeOK, Kept(trips), NEW first \in Nat \ {0}, NEW last \in Nat,
         first <= last, last <= Len(trips),
         NEW j, NEW p \in Sortings(first, last, j)
  PROVE  Kept(Permuted(p))
<1>. DEFINE N == Len(rows)
            at(i) == IF i \in first..last THEN p[i] ELSE i
            s == Permuted(p)
<1>1. N \in Nat /\ DOMAIN trips = 1..N /\ N = Len(trips)
  BY KeptTypes
<1>2. p \in [first..last -> first..last] /\ \A a, b \in first..last : p[a] = p[b] => a = b
  BY DEF Sortings, Injection, IsInjective
<1>3. s \in Seq(Trips) /\ Len(s) = N
  BY <1>1, SortedBlock
<1>4. DOMAIN s = 1..N /\ \A i \in 1..N : s[i] = trips[at(i)]
  BY <1>1, <1>2 DEF Permuted
<1>5. /\ \A i \in first..last : at(i) = p[i] /\ p[i] \in first..last
      /\ \A i : i \notin first..last => at(i) = i
      /\ first..last \subseteq 1..N
  BY <1>1, <1>2
<1>. HIDE DEF at
<1>10. \A i \in 1..N : at(i) \in 1..N
  BY <1>5
<1>6. ASSUME NEW i \in 1..N, NEW k \in 1..N, at(i) = at(k)
      PROVE  i = k
  <2>1. CASE i \in first..last
    <3>1. at(i) \in first..last
      BY <2>1, <1>5
    <3>2. k \in first..last
      BY <3>1, <1>5, <1>6
    <3>. QED BY <2>1, <3>2, <1>2, <1>5, <1>6
  <2>2. CASE i \notin first..last
    BY <2>2, <1>5, <1>6
  <2>. QED BY <2>1, <2>2
<1>. HIDE DEF s
<1>7. \A i \in 1..N : IsRow(s[i])
  BY <1>1, <1>4, <1>10 DEF Kept
<1>8. \A i, k \in 1..N : s[i].index = s[k].index => i = k
  <2>1. \A i, k \in 1..N : trips[i].index = trips[k].index => i = k
    BY <1>1 DEF Kept
  <2>. QED BY <2>1, <1>4, <1>10, <1>6
<1>9. Kept(s)
  BY <1>3, <1>4, <1>7, <1>8 DEF Kept
<1>. QED
  BY <1>9 DEF s

\* The keys file has the block's records, so far, and in the end all of them.
LEMMA FileHasRows ==
  ASSUME rows \in Blocks, FileInv, Kept(trips)
  PROVE  FileRows
<1>. DEFINE N == Len(rows)
<1>1. /\ N \in Nat /\ N = Len(trips) /\ DOMAIN trips = 1..N
      /\ \A i \in 1..N : trips[i] \in Trips
  BY KeptTypes
<1>2. /\ DOMAIN keysFile = 1..Len(keysFile) /\ Len(keysFile) \in Nat
      /\ \A k \in DOMAIN keysFile : k <= N => k \in 1..N /\ keysFile[k] = trips[k]
      /\ \A k \in DOMAIN keysFile : k > N => keysFile[k] = Pad
      /\ calls = <<>> => Len(keysFile) >= N
  BY <1>1 DEF FileInv, TypeOK, WrittenRecords
<1>3. \A k \in DOMAIN keysFile : k <= N \/ k > N
  BY <1>1, <1>2
<1>4. \A k \in DOMAIN keysFile : keysFile[k] = Pad \/ IsRow(keysFile[k])
  BY <1>1, <1>2, <1>3 DEF Kept
<1>5. ASSUME calls = <<>> PROVE RowsOnce
  <2>1. ASSUME NEW i \in DOMAIN rows PROVE \E k \in DOMAIN keysFile : keysFile[k] = rows[i]
    <3>1. PICK k \in DOMAIN trips : trips[k] = rows[i]
      BY AllRows
    <3>2. k \in DOMAIN keysFile /\ k <= N
      BY <3>1, <1>1, <1>2, <1>5
    <3>. QED BY <3>1, <3>2, <1>2
  <2>2. ASSUME NEW k \in DOMAIN keysFile, NEW l \in DOMAIN keysFile,
               keysFile[k] # Pad, keysFile[k] = keysFile[l]
        PROVE  k = l
    <3>1. k \in 1..N /\ l \in 1..N /\ trips[k] = trips[l]
      BY <2>2, <1>2, <1>3
    <3>. QED BY <3>1, <1>1 DEF Kept
  <2>3. ASSUME NEW k \in 1..Len(rows) PROVE k \in DOMAIN keysFile /\ keysFile[k] # Pad
    <3>1. k \in DOMAIN keysFile /\ k <= N
      BY <1>1, <1>2, <1>5
    <3>. QED BY <3>1, <1>1, <1>2, RecordIsNoPad
  <2>. QED BY <2>1, <2>2, <2>3 DEF RowsOnce
<1>. QED
  BY <1>4, <1>5 DEF FileRows

-----------------------------------------------------------------------------
LEMMA StoreAtFirst ==
  ASSUME StoreInit
  PROVE  StoreInv
<1>1. /\ Init /\ trips \in Blocks /\ rows = trips /\ saved = trips /\ builds = 1
      /\ sorted = TRUE /\ leaked = FALSE
  BY DEF StoreInit, Init
<1>2. TypeOK /\ FileInv
  BY <1>1, InitTyped, FileAtFirst
<1>3. Kept(trips) /\ Kept(saved)
  BY <1>1, RowsKept
<1>4. StoreTypeOK
  <2>1. 1 \in 1..MaxBuilds
    BY StoreAssumption
  <2>. QED BY <2>1, <1>1, <1>2 DEF StoreTypeOK, TypeOK
<1>5. FileRows
  BY <1>1, <1>2, <1>3, FileHasRows
<1>6. TreeInv
  <2>1. Begun
    BY <1>1, WholeBlock DEF Begun
  <2>. QED BY <2>1, TreeAtFirst DEF TreeInv
<1>. QED
  BY <1>1, <1>2, <1>3, <1>4, <1>5, <1>6 DEF StoreInv, OrderInv

LEMMA BuildKeeps ==
  ASSUME StoreInv, Build
  PROVE  StoreInv'
<1>1. /\ WriteLeaf \/ SplitNode
      /\ calls # <<>> /\ FileInv /\ TypeOK /\ Kept(trips) /\ Kept(saved) /\ OrderInv
      /\ UNCHANGED <<rows, saved, builds, sorted, leaked>>
  BY DEF Build, WriteLeaf, SplitNode, StoreInv, StoreTypeOK
<1>2. FileInv' /\ TypeOK'
  BY <1>1, LeafInFile, SplitInFile DEF FileInv
<1>3. Kept(trips)'
  <2>1. CASE WriteLeaf
    BY <2>1, <1>1 DEF WriteLeaf, Kept, IsRow
  <2>2. CASE SplitNode
    <3>. DEFINE call == Head(calls)
                j == (call.depth % Size) + 1
    <3>1. /\ call.first \in Nat \ {0} /\ call.n \in Nat \ {0}
          /\ call.first + call.n - 1 <= Len(trips)
      BY <1>1, HeadCall
    <3>2. PICK p \in Sortings(call.first, call.first + call.n - 1, j) : trips' = Permuted(p)
      BY <2>2 DEF SplitNode
    <3>3. call.first + call.n - 1 \in Nat /\ call.first <= call.first + call.n - 1
      BY <3>1
    <3>. HIDE DEF call, j
    <3>4. Kept(Permuted(p))
      BY <1>1, <3>1, <3>3, SortedKept
    <3>. QED BY <3>2, <3>4, <1>1 DEF Kept, IsRow
  <2>. QED BY <2>1, <2>2, <1>1
<1>4. Kept(saved)'
  BY <1>1 DEF Kept, IsRow
<1>5. StoreTypeOK'
  BY <1>1, <1>2 DEF StoreInv, StoreTypeOK
<1>6. FileRows'
  <2>1. (rows \in Blocks /\ FileInv /\ Kept(trips) => FileRows)'
    BY FileHasRows, PTL
  <2>. QED BY <2>1, <1>2, <1>3, <1>5 DEF StoreTypeOK
<1>7. OrderInv'
  BY <1>1 DEF OrderInv
<1>8. TreeInv'
  <2>1. PICK sp : Behind /\ Tree(sp) /\ CallsNested(sp)
    BY DEF StoreInv, TreeInv
  <2>2. CASE WriteLeaf
    BY <2>1, <2>2, <1>1, LeafKeepsTree DEF TreeInv
  <2>3. CASE SplitNode
    BY <2>1, <2>3, <1>1, SplitKeepsTree DEF TreeInv
  <2>. QED BY <2>2, <2>3, <1>1
<1>. QED
  BY <1>2, <1>3, <1>4, <1>5, <1>6, <1>7, <1>8 DEF StoreInv

\* Saving the blocks, or a restart, leaves the index files alone.
LEMMA FilesLeft ==
  ASSUME FileRows, UNCHANGED <<rows, keysFile, calls>>
  PROVE  FileRows'
BY DEF FileRows, RowsOnce, IsRow

\* The tree is one over a block of so many records, in whatever order.
LEMMA TreeLeft ==
  ASSUME TreeInv, UNCHANGED <<calls, nodes, freeNode>>, Len(trips') = Len(trips)
  PROVE  TreeInv'
<1>1. PICK sp : Behind /\ Tree(sp) /\ CallsNested(sp)
  BY DEF TreeInv
<1>2. Behind' /\ CallsNested(sp)'
  BY <1>1 DEF Behind, CallsNested
<1>3. Tree(sp)'
  BY <1>1 DEF Tree, IsPart, SplitNodeAt
<1>. QED
  BY <1>2, <1>3 DEF TreeInv

LEMMA SaveKeeps ==
  ASSUME StoreInv, LoadAnother
  PROVE  StoreInv'
<1>1. /\ calls = <<>> /\ saved' = trips /\ leaked' = (leaked \/ sorted)
      /\ UNCHANGED <<trips, calls, nodes, freeNode, keysFile, rows, builds, sorted>>
      /\ StoreTypeOK /\ TypeOK /\ Kept(trips) /\ TreeInv /\ FileRows /\ OrderInv
  BY DEF LoadAnother, Built, vars, StoreInv, StoreTypeOK
<1>2. TypeOK'
  BY <1>1 DEF TypeOK
<1>3. trips \in Seq(Trips) /\ leaked' \in BOOLEAN
  BY <1>1 DEF TypeOK, StoreTypeOK
<1>4. StoreTypeOK'
  BY <1>1, <1>2, <1>3 DEF StoreTypeOK
<1>5. Kept(trips)' /\ Kept(saved)'
  BY <1>1 DEF Kept, IsRow
<1>6. OrderInv'
  BY <1>1 DEF OrderInv
<1>7. TreeInv'
  BY <1>1, TreeLeft
<1>. QED
  BY <1>1, <1>4, <1>5, <1>6, <1>7, FilesLeft DEF StoreInv

LEMMA RestartKeeps ==
  ASSUME StoreInv, Restart
  PROVE  StoreInv'
<1>1. /\ calls = <<>> /\ trips' = saved /\ sorted' = FALSE
      /\ UNCHANGED <<calls, nodes, freeNode, keysFile, rows, saved, builds, leaked>>
      /\ StoreTypeOK /\ TypeOK /\ Kept(trips) /\ Kept(saved) /\ TreeInv /\ FileRows /\ OrderInv
  BY DEF Restart, Built, StoreInv, StoreTypeOK
<1>2. TypeOK'
  <2>1. saved \in Seq(Trips) /\ DOMAIN calls = {}
    BY <1>1 DEF StoreTypeOK
  <2>. QED BY <2>1, <1>1 DEF TypeOK
<1>3. StoreTypeOK'
  BY <1>1, <1>2 DEF StoreTypeOK
<1>4. Kept(trips)' /\ Kept(saved)'
  BY <1>1 DEF Kept, IsRow
<1>5. OrderInv'
  BY <1>1 DEF OrderInv
<1>6. TreeInv'
  <2>1. Len(trips') = Len(trips)
    BY <1>1 DEF Kept
  <2>. QED BY <2>1, <1>1, TreeLeft
<1>. QED
  BY <1>1, <1>3, <1>4, <1>5, <1>6, FilesLeft DEF StoreInv

\* The building begins anew, with the block in whatever order it is.
LEMMA BuildAgainKeeps ==
  ASSUME StoreInv, BuildAgain
  PROVE  StoreInv'
<1>. DEFINE call == [first |-> 1, n |-> Len(trips), depth |-> 0, node |-> 0]
<1>1. /\ builds < MaxBuilds /\ builds' = builds + 1 /\ sorted' = TRUE
      /\ calls' = <<call>> /\ nodes' = <<>> /\ freeNode' = 1 /\ keysFile' = <<>>
      /\ UNCHANGED <<trips, rows, saved, leaked>>
      /\ StoreTypeOK /\ TypeOK /\ Kept(trips) /\ Kept(saved) /\ OrderInv
  BY DEF BuildAgain, StoreInv, StoreTypeOK
<1>2. Len(trips) \in Nat \ {0} /\ trips \in Seq(Trips)
  BY <1>1, RowTypes DEF Kept, StoreTypeOK
<1>3. call \in Calls /\ call.first = 1 /\ call.n = Len(trips)
  BY <1>2 DEF Calls
<1>. HIDE DEF call
<1>4. /\ calls' \in Seq(Calls) /\ Len(calls') = 1 /\ DOMAIN calls' = {1} /\ calls'[1] = call
      /\ DOMAIN nodes' = {} /\ Len(keysFile') = 0 /\ DOMAIN keysFile' = {}
      /\ keysFile' \in Seq(Trips \cup {Pad})
  BY <1>1, <1>3
<1>5. TypeOK'
  BY <1>1, <1>2, <1>3, <1>4 DEF TypeOK
<1>6. FileInv'
  <2>1. Contiguous'
    BY <1>1, <1>2, <1>3, <1>4 DEF Contiguous
  <2>2. WrittenRecords'
    <3>1. MaxRecords \in Nat /\ MaxRecords > 0 /\ 0 % MaxRecords = 0
      BY KdAssumption
    <3>2. calls' # <<>>
      BY <1>4
    <3>. QED BY <3>1, <3>2, <1>1, <1>2, <1>4 DEF WrittenRecords
  <2>. QED BY <2>1, <2>2, <1>1, <1>4, <1>5 DEF FileInv
<1>7. StoreTypeOK'
  <2>1. builds' \in 1..MaxBuilds
    BY <1>1, StoreAssumption DEF StoreTypeOK
  <2>. QED BY <2>1, <1>1, <1>5 DEF StoreTypeOK
<1>8. Kept(trips)' /\ Kept(saved)'
  BY <1>1 DEF Kept, IsRow
<1>9. FileRows'
  <2>1. calls' # <<>>
    BY <1>4
  <2>. QED BY <2>1, <1>4 DEF FileRows
<1>10. OrderInv'
  BY <1>1 DEF OrderInv
<1>11. TreeInv'
  <2>1. (Begun => Behind /\ \E sp : Tree(sp) /\ CallsNested(sp) /\ Parted(sp))'
    BY TreeAtFirst, PTL
  <2>2. Begun'
    BY <1>1, <1>2, <1>4 DEF Begun, call
  <2>. QED BY <2>1, <2>2 DEF TreeInv
<1>. QED
  BY <1>6, <1>7, <1>8, <1>9, <1>10, <1>11 DEF StoreInv

LEMMA StoreInvariance == StoreSpec => []StoreInv
<1>1. StoreInit => StoreInv
  BY StoreAtFirst
<1>2. StoreInv /\ UNCHANGED storeVars => StoreInv'
  <2>. SUFFICES ASSUME StoreInv, UNCHANGED storeVars PROVE StoreInv'
    OBVIOUS
  <2>1. /\ UNCHANGED <<trips, calls, nodes, freeNode, keysFile, rows, saved, builds, sorted, leaked>>
    BY DEF storeVars, vars
  <2>4. TreeInv'
    BY <2>1, TreeLeft DEF StoreInv
  <2>2. StoreTypeOK' /\ Kept(trips)' /\ Kept(saved)' /\ OrderInv'
    BY <2>1 DEF StoreInv, StoreTypeOK, TypeOK, Kept, IsRow, OrderInv
  <2>3. (calls # <<>> => FileInv)' /\ FileRows'
    BY <2>1, FilesLeft DEF StoreInv, FileInv, TypeOK, Contiguous, WrittenRecords
  <2>. QED BY <2>2, <2>3, <2>4 DEF StoreInv
<1>3. StoreInv /\ [StoreNext]_storeVars => StoreInv'
  BY <1>2, BuildKeeps, SaveKeeps, RestartKeeps, BuildAgainKeeps DEF StoreNext
<1>. QED
  BY <1>1, <1>3, PTL DEF StoreSpec

-----------------------------------------------------------------------------
\* The types hold through builds, saves and restarts: a block that comes back
\* from the disk in another order than it was loaded in is one buildKdTree can
\* work on.
THEOREM StoreTypeCorrect == StoreSpec => []StoreTypeOK
<1>1. StoreInv => StoreTypeOK
  BY DEF StoreInv
<1>. QED
  BY <1>1, StoreInvariance, PTL

\* A process that finds the index built, by one that saved nothing after it,
\* reads for every answer of every query the row that was loaded with its id.
THEOREM RestartReadsRows == StoreSpec => []RestartedProcessReadsItsRows
<1>1. StoreInv => RestartedProcessReadsItsRows
  BY DEF StoreInv, OrderInv, RestartedProcessReadsItsRows, TuplesMatch, Tuple
<1>. QED
  BY <1>1, StoreInvariance, PTL

\* An id that a query answers is that of a row that matched when it was loaded,
\* whatever order its block was in, in memory or on the disk, when it was
\* indexed, and over further builds, saves and restarts.
THEOREM AnswersOfTheInput == StoreSpec => []AnswersAreOfTheInput
<1>1. StoreInv => AnswersAreOfTheInput
  <2>. SUFFICES ASSUME StoreInv, calls = <<>>, NEW q \in Query
       PROVE  Range(querySting(q)) \subseteq
                {id \in 0..(Len(rows) - 1) : isMatched(q, rows[id + 1])}
    BY DEF AnswersAreOfTheInput, Built
  <2>. DEFINE met == requestQuery(q)
              N == Len(rows)
  <2>1. /\ TypeOK /\ rows \in Blocks /\ FileRows /\ RowsOnce /\ Len(trips) = N
        /\ N \in Nat /\ DOMAIN rows = 1..N
    BY RowTypes DEF StoreInv, StoreTypeOK, Kept, FileRows
  <2>2. PICK sp : Tree(sp)
    BY DEF StoreInv, TreeInv
  <2>3. /\ IsFiniteSet(met)
        /\ \A h \in met : /\ Place(q, h) \in 1..N
                          /\ h.index = keysFile[Place(q, h)].index
                          /\ isMatched(q, keysFile[Place(q, h)])
    BY <2>1, <2>2, Hits
  <2>4. ASSUME NEW h \in met
        PROVE  h.index \in 0..(N - 1) /\ isMatched(q, rows[h.index + 1])
    <3>1. PICK t : t = keysFile[Place(q, h)]
      OBVIOUS
    <3>2. IsRow(t) /\ h.index = t.index /\ isMatched(q, t)
      BY <3>1, <2>1, <2>3 DEF FileRows, RowsOnce
    <3>3. h.index + 1 \in 1..N /\ t = rows[h.index + 1]
      BY <3>2, <2>1 DEF IsRow
    <3>4. h.index \in Nat
      BY <3>2, <3>3, <2>1, RowTypes DEF Trips
    <3>. QED BY <3>2, <3>3, <3>4, <2>1
  <2>5. \A h \in met : h.index \in Nat
    BY <2>4, <2>1
  <2>. HIDE DEF met
  <2>6. \A r \in 1..Cardinality(met) : Ascending(met)[r] \in {h.index : h \in met}
    BY <2>3, <2>5, AscendingAt
  <2>7. querySting(q) = Ascending(met) /\ DOMAIN Ascending(met) = 1..Cardinality(met)
    BY DEF querySting, Ascending, met
  <2>8. Range(querySting(q)) \subseteq {h.index : h \in met}
    BY <2>6, <2>7 DEF Range
  <2>. QED BY <2>4, <2>8
<1>. QED
  BY <1>1, StoreInvariance, PTL

\* The finished index has the dataset as it was loaded: each row, with its
\* number, in one place of the keys file, and nothing else but filling.
IndexHasRows ==
  Built =>
    /\ RowsOnce
    /\ \A k \in DOMAIN keysFile : keysFile[k] = Pad \/ IsRow(keysFile[k])

\* Whatever order the block is in when it is indexed, in memory or as an
\* earlier index left it on the disk, and over restarts.
THEOREM IndexOfTheInput == StoreSpec => []IndexHasRows
<1>1. StoreInv => IndexHasRows
  BY DEF StoreInv, FileRows, IndexHasRows, Built
<1>. QED
  BY <1>1, StoreInvariance, PTL

=============================================================================
