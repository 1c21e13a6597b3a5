------------------------- MODULE PolygonStore_proofs -------------------------
(***************************************************************************)
(* A dataset of polygons and its grid, for any polygons, sizes of blocks   *)
(* and of the grid, buffers and deaths of the process: what it does to the *)
(* arena are steps of DataStoreArena, no number in a grid that is loaded   *)
(* is beyond the polygons that are joined with it, the polygons read back  *)
(* are those of the fullest file that was loaded, some of their corners    *)
(* missing until a load mends what a death left, and a grid answers for    *)
(* each point what the polygons it was built of do without it.             *)
(***************************************************************************)
EXTENDS PolygonStore, DataStoreArena_proofs

-----------------------------------------------------------------------------
(* The arena beneath. *)

LEMMA ArenaBeneath == PolygonNext => [Next]_vars
BY DEF PolygonNext, ArenaStep, PersistPolygons, Die, CreateGrid, OutputGrid, DieInOutput,
       LoadGrid, EndQuery, LoadGridFails, Next

\* createGridIndex, loadGridIndex and queries only read the arena: whatever
\* DataStoreArena promises, its theorems included, holds beneath a grid, and
\* a death while the grid is written is for the arena one of an idle process.
THEOREM StepsOfTheArena == PolygonSpec => Spec
<1>1. PolygonInit => Init
  BY DEF PolygonInit
<1>2. [PolygonNext]_polygonVars => [Next]_vars
  BY ArenaBeneath DEF polygonVars
<1>. QED
  BY <1>1, <1>2, PTL DEF PolygonSpec, Spec

-----------------------------------------------------------------------------
\* The ids of polygons that a restart would find.
Stored == {n \in Nat : Seen(entries, DOMAIN entries, NumColumn, n)}

Cells == (0..(GridXs - 1)) \X (0..(GridYs - 1))

\* What is in the files of a grid, or is to be, is on the disk in the arena.
GridInv ==
  /\ known \in BOOLEAN /\ begun \subseteq Files
  /\ gridFile # NoFile =>
       /\ known /\ gridFile.whole \in BOOLEAN /\ 0 \in Stored
       /\ \/ gridFile.header = <<>>
          \/ gridFile.header[1].xs = GridXs /\ gridFile.header[1].ys = GridYs
       /\ gridFile.index \in Seq(Stored)
  /\ building # NoGrid =>
       /\ pc = "idle" /\ known /\ 0 \in Stored
       /\ building.xs = GridXs /\ building.ys = GridYs
       /\ \A c \in Cells : building.grid[c[1]][c[2]] \in Seq(Stored)
  /\ grid # NoGrid =>
       /\ pc = "idle" /\ grid.xs \in {0, GridXs} /\ grid.ys \in {0, GridYs}
       /\ \A x \in DOMAIN grid.grid : \A y \in DOMAIN grid.grid[x] :
            Range(grid.grid[x][y]) \subseteq 0..(Len(grid.polygons) - 1)

PolygonInv == RowsInv /\ GridInv

-----------------------------------------------------------------------------
(* The polygons of an idle process are those whose ids are stored. *)

LEMMA IdleSeen ==
  ASSUME RowsInv, pc = "idle", NEW c \in Columns, NEW n
  PROVE  Seen(blocks, DOMAIN blocks, c, n) <=> Seen(entries, DOMAIN entries, c, n)
<1>1. blocks = RestoredOf(size, entries, files) /\ DOMAIN entries \subseteq 1..size
  BY DEF RowsInv, Inv, Mirrored, TypeOK
<1>2. DOMAIN blocks = 1..size
  BY <1>1 DEF RestoredOf
<1>3. \A i \in DOMAIN entries : /\ i \in DOMAIN blocks
                                /\ blocks[i].col = entries[i].col
                                /\ blocks[i].start = entries[i].start
                                /\ blocks[i].end = entries[i].end
  BY <1>1 DEF RestoredOf, Restored
<1>4. \A i \in DOMAIN blocks : i \notin DOMAIN entries => blocks[i].col \notin Columns
  BY <1>1, ArenaAssumption DEF RestoredOf, JunkBlock
<1>. QED
  BY <1>2, <1>3, <1>4 DEF Seen, Holds

LEMMA IdleStored ==
  ASSUME RowsInv, pc = "idle"
  PROVE  /\ RowsOf(blocks, NumColumn) \in Nat
         /\ Stored = 0..(RowsOf(blocks, NumColumn) - 1)
<1>1. /\ blocks \in Seq(Blocks) /\ NumColumn \in Columns
      /\ \A i \in DOMAIN blocks : Follows(blocks, i)
  BY PolygonAssumption DEF RowsInv, Inv, TypeOK, Chained
<1>2. /\ RowsOf(blocks, NumColumn) \in Nat
      /\ \A n \in 0..(RowsOf(blocks, NumColumn) - 1) : Seen(blocks, DOMAIN blocks, NumColumn, n)
      /\ \A n : Seen(blocks, DOMAIN blocks, NumColumn, n)
                  => n \in 0..(RowsOf(blocks, NumColumn) - 1)
  BY <1>1, ColumnIds
<1>3. \A n : Seen(blocks, DOMAIN blocks, NumColumn, n)
               <=> Seen(entries, DOMAIN entries, NumColumn, n)
  BY <1>1, IdleSeen
<1>. QED
  BY <1>2, <1>3 DEF Stored

LEMMA PolygonsThere ==
  ASSUME RowsInv, pc = "idle"
  PROVE  /\ Len(getPolygons(blocks)) \in Nat
         /\ Stored = 0..(Len(getPolygons(blocks)) - 1)
         /\ DOMAIN getPolygons(blocks) = 1..Len(getPolygons(blocks))
<1>. DEFINE n == RowsOf(blocks, NumColumn)
            num == getTuples(blocks, NumColumn, <<>>)
<1>1. n \in Nat /\ Stored = 0..(n - 1)
  BY IdleStored
<1>2. /\ blocks \in Seq(Blocks) /\ NumColumn \in Columns
      /\ \A i \in DOMAIN blocks : Follows(blocks, i)
  BY PolygonAssumption DEF RowsInv, Inv, TypeOK, Chained
<1>3. \A k \in 0..(n - 1) : Seen(blocks, DOMAIN blocks, NumColumn, k)
  BY <1>2, ColumnIds
<1>4. \A i \in 1..n : Asked(<<>>, i) = i - 1
  BY DEF Asked
<1>. HIDE DEF n
<1>5. Served(blocks, NumColumn, <<>>, n)
  BY <1>1, <1>3, <1>4 DEF Served, n
<1>6. Answered(blocks, NumColumn, <<>>, n, num)
  BY <1>1, <1>2, <1>5, WalkFinds
<1>7. DOMAIN num = 1..n
  BY <1>6 DEF Answered
<1>8. DOMAIN getPolygons(blocks) = DOMAIN num
  BY DEF getPolygons
<1>9. Len(getPolygons(blocks)) = n
  <2>1. getPolygons(blocks) = [i \in 1..n |-> getPolygons(blocks)[i]]
    BY <1>7 DEF getPolygons
  <2>. QED BY <2>1, <1>1
<1>. QED
  BY <1>1, <1>7, <1>8, <1>9

-----------------------------------------------------------------------------
(* The files of a grid. *)

\* The sequences joined so far, one more each time.
Joins(g, seqs) ==
  /\ g[1] = seqs[1]
  /\ \A i \in 2..Len(seqs) : g[i] = g[i - 1] \o seqs[i]

LEMMA FlattenSteps ==
  ASSUME NEW S, NEW seqs \in Seq(Seq(S)), seqs # <<>>
  PROVE  \E g : /\ Joins(g, seqs) /\ FlattenSeq(seqs) = g[Len(seqs)]
                /\ \A i \in 1..Len(seqs) : g[i] \in Seq(S)
<1>. DEFINE n == Len(seqs)
            G(g, k) == [i \in 1..k |-> IF i = 1 THEN seqs[i] ELSE g[i - 1] \o seqs[i]]
            flatten == CHOOSE g : g = G(g, n)
<1>1. n \in Nat /\ n > 0 /\ \A i \in 1..n : seqs[i] \in Seq(S)
  OBVIOUS
<1>2. FlattenSeq(seqs) = flatten[n]
  BY <1>1 DEF FlattenSeq
<1>. HIDE DEF n
<1>. DEFINE T == {k \in Nat : \E g : g = G(g, k)}
<1>3. 0 \in T
  <2>1. <<>> = G(<<>>, 0)
    OBVIOUS
  <2>. HIDE DEF G
  <2>. QED BY <2>1
<1>4. \A k \in Nat : k \in T => k + 1 \in T
  <2>. SUFFICES ASSUME NEW k \in Nat, k \in T PROVE k + 1 \in T
    OBVIOUS
  <2>1. PICK g : g = G(g, k)
    BY DEF T
  <2>. DEFINE h == [i \in 1..(k + 1) |-> IF i = 1 THEN seqs[i] ELSE g[i - 1] \o seqs[i]]
  <2>2. \A i \in 1..(k + 1) : i # 1 => i - 1 \in 1..k
    OBVIOUS
  <2>3. \A i \in 1..k : h[i] = g[i]
    <3>1. \A i \in 1..k : g[i] = IF i = 1 THEN seqs[i] ELSE g[i - 1] \o seqs[i]
      BY <2>1
    <3>. QED BY <3>1
  <2>4. h = G(h, k + 1)
    BY <2>2, <2>3
  <2>. HIDE DEF G, h
  <2>. QED BY <2>4 DEF T
<1>5. flatten = G(flatten, n)
  <2>1. n \in T
    <3>. HIDE DEF T
    <3>. QED BY <1>1, <1>3, <1>4, AllNat
  <2>2. \E g : g = G(g, n)
    BY <2>1
  <2>. HIDE DEF G
  <2>. QED BY <2>2
<1>. HIDE DEF flatten
<1>6. \A i \in 1..n : flatten[i] = IF i = 1 THEN seqs[i] ELSE flatten[i - 1] \o seqs[i]
  BY <1>5
<1>. HIDE DEF G
<1>7. Joins(flatten, seqs)
  <2>1. 1 \in 1..n /\ \A i \in 2..n : i \in 1..n /\ i # 1
    BY <1>1
  <2>2. flatten[1] = seqs[1] /\ \A i \in 2..n : flatten[i] = flatten[i - 1] \o seqs[i]
    BY <1>6, <2>1
  <2>. QED BY <2>2 DEF Joins, n
<1>. DEFINE U == {k \in Nat : k + 1 <= n => flatten[k + 1] \in Seq(S)}
<1>8. 0 \in U
  BY <1>1, <1>6
<1>9. \A k \in Nat : k \in U => k + 1 \in U
  <2>. SUFFICES ASSUME NEW k \in Nat, k \in U, (k + 1) + 1 <= n
                PROVE  flatten[(k + 1) + 1] \in Seq(S)
    OBVIOUS
  <2>1. flatten[(k + 1) + 1] = flatten[k + 1] \o seqs[(k + 1) + 1]
    <3>1. (k + 1) + 1 \in 1..n /\ (k + 1) + 1 # 1 /\ ((k + 1) + 1) - 1 = k + 1
      BY <1>1
    <3>. QED BY <3>1, <1>6
  <2>2. flatten[k + 1] \in Seq(S) /\ seqs[(k + 1) + 1] \in Seq(S)
    BY <1>1
  <2>. QED BY <2>1, <2>2
<1>10. \A i \in 1..n : flatten[i] \in Seq(S)
  <2>1. Nat \subseteq U
    <3>. HIDE DEF U
    <3>. QED BY <1>8, <1>9, AllNat
  <2>2. \A i \in 1..n : i - 1 \in Nat /\ (i - 1) + 1 = i /\ i <= n
    BY <1>1
  <2>. QED BY <2>1, <2>2
<1>. QED
  BY <1>2, <1>7, <1>10 DEF n

LEMMA FlattenType ==
  ASSUME NEW S, NEW seqs \in Seq(Seq(S))
  PROVE  FlattenSeq(seqs) \in Seq(S)
<1>1. CASE seqs = <<>>
  BY <1>1 DEF FlattenSeq
<1>2. CASE seqs # <<>>
  <2>1. Len(seqs) \in 1..Len(seqs)
    BY <1>2
  <2>. QED BY <1>2, <2>1, FlattenSteps
<1>. QED
  BY <1>1, <1>2

-----------------------------------------------------------------------------
(* Sums of lengths, and the places of elements in a joined sequence. *)

\* s[k] is the sum of the first k of the numbers len(1), len(2), ...
Sums(s, len, n) ==
  s[0] = 0 /\ \A i \in 1..n : s[i] = s[i - 1] + len[i]

LEMMA SumsExist ==
  ASSUME NEW n \in Nat, NEW len, \A i \in 1..n : len[i] \in Nat
  PROVE  \E s \in [0..n -> Nat] : Sums(s, len, n)
<1>. DEFINE P(k) == \E s \in [0..k -> Nat] : Sums(s, len, k)
            T == {k \in Nat : k <= n => P(k)}
<1>1. 0 \in T
  <2>1. [i \in 0..0 |-> 0] \in [0..0 -> Nat] /\ Sums([i \in 0..0 |-> 0], len, 0)
    BY DEF Sums
  <2>. QED BY <2>1
<1>2. \A k \in Nat : k \in T => k + 1 \in T
  <2>. SUFFICES ASSUME NEW k \in Nat, k \in T, k + 1 <= n PROVE P(k + 1)
    <3>. HIDE DEF P
    <3>. QED OBVIOUS
  <2>0. P(k)
    <3>. HIDE DEF P
    <3>. QED OBVIOUS
  <2>1. PICK s \in [0..k -> Nat] : Sums(s, len, k)
    BY <2>0
  <2>. DEFINE t == [i \in 0..(k + 1) |-> IF i = k + 1 THEN s[k] + len[k + 1] ELSE s[i]]
  <2>2. s[k] \in Nat /\ len[k + 1] \in Nat /\ s[k] + len[k + 1] \in Nat
    OBVIOUS
  <2>3. t \in [0..(k + 1) -> Nat]
    BY <2>2
  <2>4. t[0] = 0 /\ \A i \in 1..k : t[i] = t[i - 1] + len[i]
    BY <2>1 DEF Sums
  <2>5. t[k + 1] = t[(k + 1) - 1] + len[k + 1]
    OBVIOUS
  <2>. HIDE DEF t
  <2>6. Sums(t, len, k + 1)
    <3>1. \A i \in 1..(k + 1) : i \in 1..k \/ i = k + 1
      OBVIOUS
    <3>2. \A i \in 1..(k + 1) : t[i] = t[i - 1] + len[i]
      BY <2>4, <2>5, <3>1
    <3>. QED BY <2>4, <3>2 DEF Sums
  <2>. QED BY <2>3, <2>6
<1>. HIDE DEF T
<1>3. n \in T
  BY <1>1, <1>2, AllNat
<1>. QED
  BY <1>3 DEF T

\* Numbers that are sums of the same are the same.
LEMMA SumsUnique ==
  ASSUME NEW n \in Nat, NEW len, NEW s, NEW t, Sums(s, len, n), Sums(t, len, n)
  PROVE  \A k \in 0..n : s[k] = t[k]
<1>. DEFINE T == {k \in Nat : k <= n => s[k] = t[k]}
<1>1. 0 \in T
  BY DEF Sums
<1>2. \A k \in Nat : k \in T => k + 1 \in T
  <2>. SUFFICES ASSUME NEW k \in Nat, k \in T, k + 1 <= n PROVE s[k + 1] = t[k + 1]
    OBVIOUS
  <2>1. k + 1 \in 1..n /\ (k + 1) - 1 = k /\ s[k] = t[k]
    OBVIOUS
  <2>. QED BY <2>1 DEF Sums
<1>. HIDE DEF T
<1>3. Nat \subseteq T
  BY <1>1, <1>2, AllNat
<1>. QED
  BY <1>3 DEF T

\* Total is the last of the sums.
LEMMA TotalIs ==
  ASSUME NEW len \in Seq(Nat), NEW s, Sums(s, len, Len(len))
  PROVE  Total(len) = s[Len(len)]
<1>. DEFINE n == Len(len)
            G(g) == [i \in 0..n |-> IF i = 0 THEN 0 ELSE g[i - 1] + len[i]]
            sum == CHOOSE g : g = G(g)
<1>1. n \in Nat /\ \A i \in 1..n : len[i] \in Nat
  OBVIOUS
<1>2. Total(len) = sum[n]
  BY DEF Total
<1>. HIDE DEF n
<1>3. PICK t \in [0..n -> Nat] : Sums(t, len, n)
  BY <1>1, SumsExist
<1>4. t = G(t)
  <2>1. \A i \in 0..n : t[i] = G(t)[i]
    <3>1. \A i \in 0..n : i # 0 => i \in 1..n
      BY <1>1
    <3>. QED BY <3>1, <1>3 DEF Sums
  <2>. QED BY <2>1
<1>5. sum = G(sum)
  <2>. HIDE DEF G
  <2>. QED BY <1>4
<1>. HIDE DEF sum
<1>6. Sums(sum, len, n)
  <2>1. \A i \in 0..n : sum[i] = IF i = 0 THEN 0 ELSE sum[i - 1] + len[i]
    BY <1>5
  <2>2. 0 \in 0..n /\ \A i \in 1..n : i \in 0..n /\ i # 0
    BY <1>1
  <2>. HIDE DEF G
  <2>. QED BY <2>1, <2>2 DEF Sums
<1>7. sum[n] = s[n]
  BY <1>1, <1>6, SumsUnique DEF n
<1>. QED
  BY <1>2, <1>7 DEF n

\* The lengths of the sequences in a sequence.
Lengths(seqs) == [i \in 1..Len(seqs) |-> Len(seqs[i])]

\* Place s[k - 1] + j of all has element j of sequence k, for each place up to
\* the end of sequence n.
Placed(all, seqs, s, n) ==
  /\ Len(all) = s[n]
  /\ \A k \in 1..n : \A j \in 1..Len(seqs[k]) :
       s[k - 1] + j \in 1..s[n] /\ all[s[k - 1] + j] = seqs[k][j]
  /\ \A m \in 1..s[n] : \E k \in 1..n : \E j \in 1..Len(seqs[k]) : m = s[k - 1] + j

LEMMA PlacedNext ==
  ASSUME NEW S, NEW a \in Seq(S), NEW seqs, NEW s, NEW i \in Nat, NEW l \in Nat, l - 1 = i,
         Placed(a, seqs, s, i), NEW c \in Seq(S), c = seqs[l], s[i] \in Nat,
         s[l] = s[i] + Len(c)
  PROVE  Placed(a \o c, seqs, s, l)
<1>1. Len(c) \in Nat /\ Len(a) = s[i] /\ s[i] \in Nat /\ s[l] = s[i] + Len(c)
  BY DEF Placed
<1>. DEFINE b == a \o c
<1>2. /\ Len(b) = Len(a) + Len(c)
      /\ \A m \in 1..Len(a) : b[m] = a[m]
      /\ \A j \in 1..Len(c) : b[Len(a) + j] = c[j]
  OBVIOUS
<1>. HIDE DEF b
<1>3. Len(b) = s[l] /\ s[l] \in Nat
  BY <1>1, <1>2
<1>4. \A m \in 1..s[i] : m \in 1..s[l] /\ b[m] = a[m]
  BY <1>1, <1>2
<1>5. \A j \in 1..Len(c) : s[i] + j \in 1..s[l] /\ b[s[i] + j] = c[j]
  BY <1>1, <1>2
<1>6. \A h \in 1..l : h # l => h \in 1..i
  OBVIOUS
<1>7. \A h \in 1..l : \A j \in 1..Len(seqs[h]) :
        s[h - 1] + j \in 1..s[l] /\ b[s[h - 1] + j] = seqs[h][j]
  <2>. TAKE h \in 1..l
  <2>. TAKE j \in 1..Len(seqs[h])
  <2>1. CASE h = l
    BY <2>1, <1>5
  <2>2. CASE h # l
    <3>1. h \in 1..i
      BY <2>2, <1>6
    <3>2. s[h - 1] + j \in 1..s[i] /\ a[s[h - 1] + j] = seqs[h][j]
      BY <3>1 DEF Placed
    <3>. QED BY <3>2, <1>4
  <2>. QED BY <2>1, <2>2
<1>8. \A m \in 1..s[l] : \E h \in 1..l : \E j \in 1..Len(seqs[h]) : m = s[h - 1] + j
  <2>. TAKE m \in 1..s[l]
  <2>1. CASE m \in 1..s[i]
    <3>1. \A h \in 1..i : h \in 1..l
      OBVIOUS
    <3>. QED BY <2>1, <3>1 DEF Placed
  <2>2. CASE m \notin 1..s[i]
    <3>1. m - s[i] \in 1..Len(c) /\ m = s[i] + (m - s[i])
      BY <2>2, <1>1
    <3>2. s[l - 1] = s[i] /\ l \in 1..l
      BY <3>1, <1>1
    <3>. QED BY <3>1, <3>2
  <2>. QED BY <2>1, <2>2
<1>. QED
  BY <1>3, <1>7, <1>8 DEF Placed, b

LEMMA FlattenPlaces ==
  ASSUME NEW S, NEW seqs \in Seq(Seq(S)), NEW s \in [0..Len(seqs) -> Nat],
         Sums(s, Lengths(seqs), Len(seqs))
  PROVE  Placed(FlattenSeq(seqs), seqs, s, Len(seqs))
<1>. DEFINE n == Len(seqs)
<1>1. /\ n \in Nat /\ \A i \in 1..n : seqs[i] \in Seq(S) /\ Len(seqs[i]) \in Nat
      /\ s[0] = 0 /\ \A i \in 1..n : s[i] = s[i - 1] + Len(seqs[i])
      /\ \A i \in 0..n : s[i] \in Nat
  <2>1. n \in Nat /\ \A i \in 1..n : seqs[i] \in Seq(S) /\ Len(seqs[i]) \in Nat
    OBVIOUS
  <2>2. \A i \in 1..n : Lengths(seqs)[i] = Len(seqs[i])
    BY DEF Lengths
  <2>3. \A i \in 0..n : s[i] \in Nat
    OBVIOUS
  <2>. QED BY <2>1, <2>2, <2>3 DEF Sums
<1>2. CASE seqs = <<>>
  <2>1. FlattenSeq(seqs) = <<>> /\ n = 0
    BY <1>2 DEF FlattenSeq
  <2>. QED BY <2>1, <1>1 DEF Placed
<1>3. CASE seqs # <<>>
  <2>1. PICK g : /\ Joins(g, seqs) /\ FlattenSeq(seqs) = g[Len(seqs)]
                 /\ \A i \in 1..Len(seqs) : g[i] \in Seq(S)
    BY <1>3, FlattenSteps
  <2>2. n > 0 /\ g[1] = seqs[1] /\ \A i \in 2..n : g[i] = g[i - 1] \o seqs[i]
    <3>1. n > 0
      BY <1>3
    <3>. QED BY <3>1, <2>1 DEF Joins
  <2>. DEFINE T == {k \in Nat : k + 1 <= n => Placed(g[k + 1], seqs, s, k + 1)}
  <2>3. 0 \in T
    <3>1. 1 \in 1..n /\ 0 \in 0..n /\ s[1] = s[1 - 1] + Len(seqs[1]) /\ s[1] = Len(seqs[1])
      BY <1>1, <2>2
    <3>2. \A k \in 1..1 : k = 1 /\ s[k - 1] = 0
      BY <1>1
    <3>3. Len(g[1]) = s[1]
      BY <2>2, <3>1
    <3>4. \A j \in 1..Len(seqs[1]) : s[1 - 1] + j = j
      BY <1>1
    <3>5. \A k \in 1..1 : \A j \in 1..Len(seqs[k]) :
            s[k - 1] + j \in 1..s[1] /\ g[1][s[k - 1] + j] = seqs[k][j]
      BY <2>2, <3>1, <3>2, <3>4
    <3>6. \A m \in 1..s[1] : \E k \in 1..1 : \E j \in 1..Len(seqs[k]) : m = s[k - 1] + j
      BY <3>1, <3>2, <3>4
    <3>. QED BY <3>3, <3>5, <3>6 DEF Placed
  <2>4. \A k \in Nat : k \in T => k + 1 \in T
    <3>. SUFFICES ASSUME NEW k \in Nat, k \in T, (k + 1) + 1 <= n
                  PROVE  Placed(g[(k + 1) + 1], seqs, s, (k + 1) + 1)
      OBVIOUS
    <3>. DEFINE i == k + 1
                l == i + 1
    <3>1. /\ i \in 1..n /\ l \in 2..n /\ l \in 1..n /\ l - 1 = i /\ i \in Nat /\ l \in Nat
          /\ i \in 0..n /\ l \in 0..n
      BY <1>1
    <3>2. Placed(g[i], seqs, s, i)
      OBVIOUS
    <3>. HIDE DEF i, l
    <3>3. /\ g[l] = g[i] \o seqs[l] /\ g[i] \in Seq(S) /\ seqs[l] \in Seq(S)
          /\ s[l] = s[i] + Len(seqs[l]) /\ s[i] \in Nat
      BY <1>1, <2>1, <2>2, <3>1
    <3>. HIDE DEF T
    <3>10. Placed(g[i] \o seqs[l], seqs, s, l)
      BY <3>1, <3>2, <3>3, PlacedNext
    <3>. QED BY <3>3, <3>10 DEF l, i
  <2>5. n - 1 \in T
    <3>1. n - 1 \in Nat
      BY <1>1, <2>2
    <3>. HIDE DEF T
    <3>. QED BY <2>3, <2>4, <3>1, AllNat
  <2>6. (n - 1) + 1 = n /\ n <= n
    BY <1>1
  <2>. QED BY <2>1, <2>5, <2>6
<1>. QED
  BY <1>2, <1>3

LEMMA PrefixAt ==
  ASSUME NEW S, NEW a \in Seq(S), NEW b \in Seq(S), IsPrefix(a, b)
  PROVE  /\ Len(a) \in Nat /\ Len(b) \in Nat /\ Len(a) <= Len(b)
         /\ \A k \in 1..Len(a) : k \in 1..Len(b) /\ a[k] = b[k]
<1>1. Len(a) <= Len(b) /\ SubSeq(a, 1, Len(a)) = SubSeq(b, 1, Len(a))
  BY DEF IsPrefix
<1>2. \A k \in 1..Len(a) : SubSeq(a, 1, Len(a))[k] = a[k] /\ SubSeq(b, 1, Len(a))[k] = b[k]
  BY <1>1
<1>. QED
  BY <1>1, <1>2

\* What is joined from fewer sequences is where what is joined from more begins.
LEMMA FlattenPrefix ==
  ASSUME NEW S, NEW a \in Seq(Seq(S)), NEW b \in Seq(Seq(S)), IsPrefix(a, b)
  PROVE  /\ Len(FlattenSeq(a)) <= Len(FlattenSeq(b))
         /\ \A m \in 1..Len(FlattenSeq(a)) : FlattenSeq(a)[m] = FlattenSeq(b)[m]
<1>1. /\ Len(a) \in Nat /\ Len(b) \in Nat /\ Len(a) <= Len(b)
      /\ \A k \in 1..Len(a) : k \in 1..Len(b) /\ a[k] = b[k]
  BY PrefixAt
<1>2. \A k \in 1..Len(b) : Lengths(b)[k] = Len(b[k]) /\ Len(b[k]) \in Nat
  BY DEF Lengths
<1>3. PICK s \in [0..Len(b) -> Nat] : Sums(s, Lengths(b), Len(b))
  BY <1>1, <1>2, SumsExist
<1>. DEFINE t == [k \in 0..Len(a) |-> s[k]]
<1>4. t \in [0..Len(a) -> Nat] /\ \A k \in 0..Len(a) : t[k] = s[k]
  BY <1>1
<1>5. Sums(t, Lengths(a), Len(a))
  <2>1. \A k \in 1..Len(a) : k \in 1..Len(b) /\ k \in 0..Len(a) /\ k - 1 \in 0..Len(a)
    BY <1>1
  <2>2. \A k \in 1..Len(a) : Lengths(a)[k] = Lengths(b)[k]
    BY <1>1 DEF Lengths
  <2>3. \A k \in 1..Len(a) : s[k] = s[k - 1] + Lengths(b)[k]
    BY <1>3, <2>1 DEF Sums
  <2>4. t[0] = 0
    BY <1>1, <1>3, <1>4 DEF Sums
  <2>. HIDE DEF t
  <2>5. \A k \in 1..Len(a) : t[k] = t[k - 1] + Lengths(a)[k]
    BY <1>4, <2>1, <2>2, <2>3
  <2>. QED BY <2>4, <2>5 DEF Sums
<1>. HIDE DEF t
<1>6. Placed(FlattenSeq(a), a, t, Len(a)) /\ Placed(FlattenSeq(b), b, s, Len(b))
  BY <1>3, <1>4, <1>5, FlattenPlaces
<1>7. ASSUME NEW m \in 1..Len(FlattenSeq(a))
      PROVE  m \in 1..Len(FlattenSeq(b)) /\ FlattenSeq(a)[m] = FlattenSeq(b)[m]
  <2>1. PICK k \in 1..Len(a) : \E j \in 1..Len(a[k]) : m = t[k - 1] + j
    BY <1>6 DEF Placed
  <2>5. PICK j \in 1..Len(a[k]) : m = t[k - 1] + j
    BY <2>1
  <2>2. /\ k \in 1..Len(b) /\ a[k] = b[k] /\ k - 1 \in 0..Len(a) /\ t[k - 1] = s[k - 1]
    <3>1. k \in 1..Len(b) /\ a[k] = b[k] /\ k - 1 \in 0..Len(a)
      BY <1>1
    <3>. QED BY <3>1, <1>4
  <2>3. FlattenSeq(a)[m] = a[k][j]
    BY <1>6, <2>5 DEF Placed
  <2>4. FlattenSeq(b)[m] = b[k][j] /\ m \in 1..Len(FlattenSeq(b))
    BY <1>6, <2>5, <2>2 DEF Placed
  <2>. QED BY <2>2, <2>3, <2>4
<1>8. Len(FlattenSeq(a)) \in Nat /\ Len(FlattenSeq(b)) \in Nat
  <2>1. FlattenSeq(a) \in Seq(S) /\ FlattenSeq(b) \in Seq(S)
    BY FlattenType
  <2>. QED BY <2>1
<1>9. Len(FlattenSeq(a)) <= Len(FlattenSeq(b))
  <2>1. CASE Len(FlattenSeq(a)) = 0
    BY <2>1, <1>8
  <2>2. CASE Len(FlattenSeq(a)) # 0
    <3>1. Len(FlattenSeq(a)) \in 1..Len(FlattenSeq(a))
      BY <2>2, <1>8
    <3>2. Len(FlattenSeq(a)) \in 1..Len(FlattenSeq(b))
      BY <3>1, <1>7
    <3>. QED BY <3>2, <1>8
  <2>. QED BY <2>1, <2>2
<1>. QED
  BY <1>7, <1>9

LEMMA PrefixOfPrefix ==
  ASSUME NEW S, NEW a \in Seq(S), NEW b \in Seq(S), NEW c \in Seq(S),
         IsPrefix(a, b), IsPrefix(b, c)
  PROVE  IsPrefix(a, c)
<1>1. /\ Len(a) <= Len(b) /\ SubSeq(a, 1, Len(a)) = SubSeq(b, 1, Len(a))
      /\ Len(b) <= Len(c) /\ SubSeq(b, 1, Len(b)) = SubSeq(c, 1, Len(b))
  BY DEF IsPrefix
<1>2. SubSeq(b, 1, Len(a)) = SubSeq(c, 1, Len(a))
  <2>1. \A k \in 1..Len(b) : SubSeq(b, 1, Len(b))[k] = b[k] /\ SubSeq(c, 1, Len(b))[k] = c[k]
    BY <1>1
  <2>2. \A k \in 1..Len(a) : b[k] = c[k]
    BY <1>1, <2>1
  <2>3. SubSeq(b, 1, Len(a)) = [k \in 1..Len(a) |-> b[k]]
    BY <1>1
  <2>4. SubSeq(c, 1, Len(a)) = [k \in 1..Len(a) |-> c[k]]
    BY <1>1
  <2>. QED BY <2>2, <2>3, <2>4
<1>. QED
  BY <1>1, <1>2 DEF IsPrefix

\* Cell number k is one of the grid's, whichever of them are there.
LEMMA CellOfGrid ==
  ASSUME NEW xs \in Nat, NEW ys \in Nat, xs > 0, ys > 0, NEW k \in 1..(xs * ys)
  PROVE  (k - 1) % xs \in 0..(xs - 1) /\ (k - 1) \div xs \in 0..(ys - 1)
<1>. DEFINE d == (k - 1) \div xs
            r == (k - 1) % xs
<1>1. xs * ys \in Nat /\ k - 1 \in Nat /\ k - 1 < xs * ys
  OBVIOUS
<1>2. d \in Nat /\ r \in 0..(xs - 1) /\ k - 1 = xs * d + r
  BY <1>1
<1>3. ~(d >= ys)
  <2>. SUFFICES ASSUME d >= ys PROVE FALSE
    OBVIOUS
  <2>. HIDE DEF d, r
  <2>1. PICK e \in Nat : d = ys + e
    BY <1>2
  <2>2. xs * d = xs * ys + xs * e /\ xs * e \in Nat
    BY <2>1
  <2>. QED BY <1>1, <1>2, <2>2
<1>. QED
  BY <1>2, <1>3

LEMMA OutputStored ==
  ASSUME NEW S, NEW g, g.xs = GridXs, g.ys = GridYs,
         \A c \in Cells : g.grid[c[1]][c[2]] \in Seq(S)
  PROVE  /\ outputGrid(g).header = <<[xs |-> GridXs, ys |-> GridYs, bound |-> g.bound]>>
         /\ outputGrid(g).index \in Seq(S)
<1>1. GridXs \in Nat /\ GridYs \in Nat /\ GridXs > 0 /\ GridYs > 0 /\ GridXs * GridYs \in Nat
  BY PolygonAssumption
<1>. DEFINE cells == [k \in 1..(GridXs * GridYs) |-> CellAt(g, k)]
<1>2. \A k \in 1..(GridXs * GridYs) : CellAt(g, k) \in Seq(S)
  <2>. TAKE k \in 1..(GridXs * GridYs)
  <2>1. <<(k - 1) % GridXs, (k - 1) \div GridXs>> \in Cells
    BY <1>1, CellOfGrid DEF Cells
  <2>. QED BY <2>1 DEF CellAt
<1>3. cells \in Seq(Seq(S))
  BY <1>1, <1>2
<1>4. FlattenSeq(cells) \in Seq(S)
  <2>. HIDE DEF cells
  <2>. QED BY <1>3, FlattenType
<1>. QED
  BY <1>4 DEF outputGrid

\* A number beyond the file is read as 0.
LEMMA ReadStored ==
  ASSUME NEW S, NEW index \in Seq(S), 0 \in S, NEW k
  PROVE  Read(index, k) \in S
BY DEF Read

LEMMA ReadGrid ==
  ASSUME NEW S, NEW file, 0 \in S, file.index \in Seq(S),
         \/ file.header = <<>>
         \/ file.header[1].xs = GridXs /\ file.header[1].ys = GridYs
  PROVE  /\ readGrid(file).xs \in {0, GridXs} /\ readGrid(file).ys \in {0, GridYs}
         /\ \A x \in DOMAIN readGrid(file).grid : \A y \in DOMAIN readGrid(file).grid[x] :
              Range(readGrid(file).grid[x][y]) \subseteq S
<1>1. CASE file.header = <<>>
  <2>1. readGrid(file) = EmptyGrid
    BY <1>1 DEF readGrid
  <2>. QED BY <2>1 DEF EmptyGrid
<1>2. CASE file.header # <<>>
  <2>. DEFINE h == file.header[1]
              sizes == [k \in 1..(h.xs * h.ys) |-> Read(file.sizes, k)]
              Cell(k) ==
                LET before == Total(SubSeq(sizes, 1, k - 1))
                IN  [j \in 1..sizes[k] |-> Read(file.index, before + j)]
              g == [x \in 0..(h.xs - 1) |-> [y \in 0..(h.ys - 1) |-> Cell(y * h.xs + x + 1)]]
  <2>1. h.xs = GridXs /\ h.ys = GridYs
    BY <1>2
  <2>. HIDE DEF sizes
  <2>2. \A k : Range(Cell(k)) \subseteq S
    <3>. TAKE k
    <3>. DEFINE before == Total(SubSeq(sizes, 1, k - 1))
                n == sizes[k]
    <3>1. Cell(k) = [j \in 1..n |-> Read(file.index, before + j)]
      OBVIOUS
    <3>. HIDE DEF before, n, Cell
    <3>2. \A j \in 1..n : Read(file.index, before + j) \in S
      BY ReadStored
    <3>. QED BY <3>1, <3>2 DEF Range
  <2>3. readGrid(file) = [EmptyGrid EXCEPT !.xs = h.xs, !.ys = h.ys, !.bound = h.bound,
                                           !.grid = g]
    BY <1>2 DEF readGrid, sizes
  <2>. HIDE DEF Cell, h
  <2>4. readGrid(file).xs = h.xs /\ readGrid(file).ys = h.ys /\ readGrid(file).grid = g
    <3>. HIDE DEF g
    <3>. QED BY <2>3 DEF EmptyGrid
  <2>. QED BY <2>1, <2>2, <2>4
<1>. QED
  BY <1>1, <1>2

\* The numbers in a new grid are those of its polygons.
LEMMA BuiltGrid ==
  ASSUME NEW polys, Len(polys) \in Nat
  PROVE  LET g == buildGrid(polys, GridXs, GridYs)
         IN  /\ g.xs = GridXs /\ g.ys = GridYs
             /\ \A c \in Cells : g.grid[c[1]][c[2]] \in Seq(0..(Len(polys) - 1))
<1>. DEFINE listed == [k \in DOMAIN polys |->
                        ListedIn([EmptyGrid EXCEPT !.xs = GridXs, !.ys = GridYs,
                                                   !.bound = boundingRect(polys),
                                                   !.polygons = polys], k - 1)]
            In(x, y) == {i \in 0..(Len(polys) - 1) : <<x, y>> \in listed[i + 1]}
            cells == [x \in 0..(GridXs - 1) |-> [y \in 0..(GridYs - 1) |-> InOrder(In(x, y))]]
            g == buildGrid(polys, GridXs, GridYs)
<1>1. g = [[EmptyGrid EXCEPT !.xs = GridXs, !.ys = GridYs, !.bound = boundingRect(polys),
                             !.polygons = polys] EXCEPT !.grid = cells]
  BY DEF buildGrid
<1>2. ASSUME NEW x, NEW y PROVE InOrder(In(x, y)) \in Seq(0..(Len(polys) - 1))
  <2>1. In(x, y) \subseteq 0..(Len(polys) - 1)
    OBVIOUS
  <2>. HIDE DEF In
  <2>2. IsFiniteSet(In(x, y)) /\ In(x, y) \in SUBSET Nat
    <3>1. IsFiniteSet(0..(Len(polys) - 1))
      BY FS_Interval
    <3>. QED BY <2>1, <3>1, FS_Subset
  <2>3. /\ Cardinality(In(x, y)) \in Nat
        /\ \A k \in 1..Cardinality(In(x, y)) : InOrder(In(x, y))[k] \in In(x, y)
    BY <2>2, InOrderAt
  <2>. DEFINE n == Cardinality(In(x, y))
              Nth(k) == CHOOSE i \in In(x, y) : Cardinality({j \in In(x, y) : j < i}) = k - 1
  <2>4. InOrder(In(x, y)) = [k \in 1..n |-> Nth(k)]
    BY DEF InOrder
  <2>. HIDE DEF Nth, n
  <2>5. \A k \in 1..n : Nth(k) = InOrder(In(x, y))[k]
    BY <2>4
  <2>6. \A k \in 1..n : Nth(k) \in 0..(Len(polys) - 1)
    BY <2>1, <2>3, <2>5 DEF n
  <2>7. n \in Nat
    BY <2>3 DEF n
  <2>8. [k \in 1..n |-> Nth(k)] \in Seq(0..(Len(polys) - 1))
    BY <2>6, <2>7
  <2>. QED BY <2>4, <2>8
<1>. HIDE DEF In, g
<1>3. \A c \in Cells : cells[c[1]][c[2]] \in Seq(0..(Len(polys) - 1))
  BY <1>2 DEF Cells
<1>. HIDE DEF cells
<1>4. g.xs = GridXs /\ g.ys = GridYs /\ g.grid = cells
  BY <1>1 DEF EmptyGrid
<1>. QED
  BY <1>3, <1>4 DEF g

-----------------------------------------------------------------------------
(* Steps. *)

LEMMA SeqWider ==
  ASSUME NEW S, NEW T, S \subseteq T, NEW s \in Seq(S)
  PROVE  s \in Seq(T)
OBVIOUS

\* A polygon that a restart would find is not lost again.
LEMMA StoredStays ==
  ASSUME RowsInv, RowsInv', [Next]_vars
  PROVE  Stored \subseteq Stored'
<1>1. CASE SaveEntry
  <2>1. /\ Bounded(entries) /\ Bounded(entries') /\ Wider(entries', entries)
        /\ DOMAIN entries \subseteq DOMAIN entries'
    BY <1>1, EntriesWiden DEF RowsInv
  <2>2. \A n \in Nat : Seen(entries, DOMAIN entries, NumColumn, n)
                         => Seen(entries', DOMAIN entries', NumColumn, n)
    BY <2>1, SeenWider
  <2>. QED BY <2>2 DEF Stored
<1>2. CASE ~SaveEntry
  <2>1. entries' = entries
    BY <1>2 DEF Next, Start, LoadFile, InsertCell, BeginPersist, SaveSize, OpenFile, WriteFile,
                EndPersist, Crash, disk, vars
  <2>. QED BY <2>1 DEF Stored
<1>. QED
  BY <1>1, <1>2

\* What the files say is not disturbed by the arena.
LEMMA FilesStay ==
  ASSUME GridInv, Stored \subseteq Stored', UNCHANGED <<known, gridFile>>
  PROVE  gridFile' # NoFile =>
           /\ known' /\ gridFile'.whole \in BOOLEAN /\ 0 \in Stored'
           /\ \/ gridFile'.header = <<>>
              \/ gridFile'.header[1].xs = GridXs /\ gridFile'.header[1].ys = GridYs
           /\ gridFile'.index \in Seq(Stored')
BY SeqWider DEF GridInv

LEMMA ArenaKeeps ==
  ASSUME PolygonInv, RowsInv', ArenaStep \/ PersistPolygons
  PROVE  GridInv'
<1>1. /\ building = NoGrid /\ grid = NoGrid
      /\ begun' \subseteq Files
      /\ UNCHANGED gridVars
  BY DEF PolygonInv, GridInv, ArenaStep, PersistPolygons, BeginPersist, RowsInv, Inv, TypeOK
<1>2. Stored \subseteq Stored'
  BY ArenaBeneath, StoredStays DEF PolygonInv, PolygonNext
<1>. QED
  BY <1>1, <1>2, FilesStay DEF GridInv, PolygonInv, gridVars

LEMMA DieKeeps ==
  ASSUME PolygonInv, RowsInv', Die
  PROVE  GridInv'
<1>1. /\ building' = NoGrid /\ grid' = NoGrid /\ UNCHANGED <<known, gridFile, begun>>
  BY DEF Die
<1>2. Stored \subseteq Stored'
  BY ArenaBeneath, StoredStays DEF PolygonInv, PolygonNext
<1>. QED
  BY <1>1, <1>2, FilesStay DEF GridInv, PolygonInv

LEMMA CreateGridKeeps ==
  ASSUME PolygonInv, RowsInv', CreateGrid
  PROVE  GridInv'
<1>. DEFINE polys == getPolygons(blocks)
<1>1. /\ pc = "idle" /\ pc' = "idle" /\ grid = NoGrid /\ polys # <<>>
      /\ building' = buildGrid(polys, GridXs, GridYs) /\ known' = TRUE
      /\ UNCHANGED <<gridFile, grid, begun, entries>>
  BY DEF CreateGrid, vars, disk
<1>2. Stored' = Stored
  BY <1>1 DEF Stored
<1>3. Len(polys) \in Nat /\ Stored = 0..(Len(polys) - 1) /\ DOMAIN polys = 1..Len(polys)
  BY <1>1, PolygonsThere DEF PolygonInv
<1>. HIDE DEF polys
<1>4. 0 \in Stored
  BY <1>1, <1>3 DEF polys, getPolygons
<1>5. /\ building'.xs = GridXs /\ building'.ys = GridYs
      /\ \A c \in Cells : building'.grid[c[1]][c[2]] \in Seq(Stored)
  BY <1>1, <1>3, BuiltGrid
<1>6. gridFile # NoFile =>
        /\ gridFile.whole \in BOOLEAN /\ 0 \in Stored
        /\ \/ gridFile.header = <<>>
           \/ gridFile.header[1].xs = GridXs /\ gridFile.header[1].ys = GridYs
        /\ gridFile.index \in Seq(Stored)
  BY DEF PolygonInv, GridInv
<1>7. begun \subseteq Files
  BY DEF PolygonInv, GridInv
<1>. QED
  BY <1>1, <1>2, <1>4, <1>5, <1>6, <1>7 DEF GridInv

\* What the grid's files are when they are closed, or at a death.
LEMMA OutputKeeps ==
  ASSUME PolygonInv, RowsInv', OutputGrid
  PROVE  GridInv'
<1>1. /\ building # NoGrid /\ building' = NoGrid
      /\ gridFile' = Saved(building, outputGrid(building).header, outputGrid(building).sizes,
                           outputGrid(building).index, TRUE)
      /\ UNCHANGED <<known, grid, begun, pc, entries>>
  BY DEF OutputGrid, vars, disk
<1>2. Stored' = Stored
  BY <1>1 DEF Stored
<1>3. /\ known /\ 0 \in Stored /\ known \in BOOLEAN /\ begun \subseteq Files
      /\ building.xs = GridXs /\ building.ys = GridYs
      /\ \A c \in Cells : building.grid[c[1]][c[2]] \in Seq(Stored)
  BY <1>1 DEF PolygonInv, GridInv
<1>4. /\ outputGrid(building).header
           = <<[xs |-> GridXs, ys |-> GridYs, bound |-> building.bound]>>
      /\ outputGrid(building).index \in Seq(Stored)
  BY <1>3, OutputStored
<1>5. /\ gridFile'.whole = TRUE
      /\ gridFile'.header[1].xs = GridXs /\ gridFile'.header[1].ys = GridYs
      /\ gridFile'.index \in Seq(Stored)
  BY <1>1, <1>4 DEF Saved
<1>6. grid # NoGrid =>
        /\ pc = "idle" /\ grid.xs \in {0, GridXs} /\ grid.ys \in {0, GridYs}
        /\ \A x \in DOMAIN grid.grid : \A y \in DOMAIN grid.grid[x] :
             Range(grid.grid[x][y]) \subseteq 0..(Len(grid.polygons) - 1)
  BY DEF PolygonInv, GridInv
<1>. QED
  BY <1>1, <1>2, <1>3, <1>5, <1>6 DEF GridInv

LEMMA DieInOutputKeeps ==
  ASSUME PolygonInv, RowsInv', DieInOutput
  PROVE  GridInv'
<1>. DEFINE out == outputGrid(building)
<1>1. PICK s \in Flushed(Len(out.sizes)), i \in Flushed(Len(out.index)), h \in 0..1 :
        gridFile' = Saved(building, SubSeq(out.header, 1, h), SubSeq(out.sizes, 1, s),
                          SubSeq(out.index, 1, i), FALSE)
  BY DEF DieInOutput
<1>2. /\ building # NoGrid /\ building' = NoGrid /\ grid' = NoGrid
      /\ UNCHANGED <<known, begun, entries>>
  BY DEF DieInOutput, Crash, disk
<1>3. Stored' = Stored
  BY <1>2 DEF Stored
<1>4. /\ known /\ 0 \in Stored /\ known \in BOOLEAN /\ begun \subseteq Files
      /\ building.xs = GridXs /\ building.ys = GridYs
      /\ \A c \in Cells : building.grid[c[1]][c[2]] \in Seq(Stored)
  BY <1>2 DEF PolygonInv, GridInv
<1>5. /\ out.header = <<[xs |-> GridXs, ys |-> GridYs, bound |-> building.bound]>>
      /\ out.index \in Seq(Stored)
  BY <1>4, OutputStored
<1>. HIDE DEF out
<1>6. SubSeq(out.index, 1, i) \in Seq(Stored)
  BY <1>5 DEF Flushed
<1>7. \/ SubSeq(out.header, 1, h) = <<>>
      \/ /\ SubSeq(out.header, 1, h)[1].xs = GridXs
         /\ SubSeq(out.header, 1, h)[1].ys = GridYs
  BY <1>5
<1>8. /\ gridFile'.whole = FALSE /\ gridFile'.index = SubSeq(out.index, 1, i)
      /\ gridFile'.header = SubSeq(out.header, 1, h)
  BY <1>1 DEF Saved
<1>. QED
  BY <1>2, <1>3, <1>4, <1>6, <1>7, <1>8 DEF GridInv

LEMMA LoadGridKeeps ==
  ASSUME PolygonInv, RowsInv', LoadGrid
  PROVE  GridInv'
<1>. DEFINE polys == getPolygons(blocks)
<1>1. /\ pc = "idle" /\ building = NoGrid /\ (known => gridFile # NoFile)
      /\ grid' = IF known THEN Joined(readGrid(gridFile), polys, gridFile.of, gridFile.whole)
                 ELSE Joined(EmptyGrid, <<>>, <<>>, TRUE)
      /\ UNCHANGED <<known, gridFile, building, begun, pc, entries>>
  BY DEF LoadGrid, vars, disk
<1>2. Stored' = Stored
  BY <1>1 DEF Stored
<1>3. Stored = 0..(Len(polys) - 1)
  BY <1>1, PolygonsThere DEF PolygonInv
<1>. HIDE DEF polys
<1>4. gridFile # NoFile =>
        /\ known /\ gridFile.whole \in BOOLEAN /\ 0 \in Stored
        /\ \/ gridFile.header = <<>>
           \/ gridFile.header[1].xs = GridXs /\ gridFile.header[1].ys = GridYs
        /\ gridFile.index \in Seq(Stored)
  BY DEF PolygonInv, GridInv
<1>5. /\ grid'.xs \in {0, GridXs} /\ grid'.ys \in {0, GridYs}
      /\ \A x \in DOMAIN grid'.grid : \A y \in DOMAIN grid'.grid[x] :
           Range(grid'.grid[x][y]) \subseteq 0..(Len(grid'.polygons) - 1)
  <2>1. CASE known
    <3>1. /\ readGrid(gridFile).xs \in {0, GridXs} /\ readGrid(gridFile).ys \in {0, GridYs}
          /\ \A x \in DOMAIN readGrid(gridFile).grid : \A y \in DOMAIN readGrid(gridFile).grid[x] :
               Range(readGrid(gridFile).grid[x][y]) \subseteq Stored
      BY <2>1, <1>1, <1>4, ReadGrid
    <3>2. /\ grid'.xs = readGrid(gridFile).xs /\ grid'.ys = readGrid(gridFile).ys
          /\ grid'.grid = readGrid(gridFile).grid /\ grid'.polygons = polys
      BY <2>1, <1>1 DEF Joined
    <3>. QED BY <3>1, <3>2, <1>3
  <2>2. CASE ~known
    BY <2>2, <1>1 DEF Joined, EmptyGrid
  <2>. QED BY <2>1, <2>2
<1>6. known \in BOOLEAN /\ begun \subseteq Files
  BY DEF PolygonInv, GridInv
<1>. QED
  BY <1>1, <1>2, <1>4, <1>5, <1>6 DEF GridInv

LEMMA StutterKeepsGrid ==
  ASSUME PolygonInv, EndQuery \/ UNCHANGED polygonVars
  PROVE  GridInv'
<1>1. Stored' = Stored
  BY DEF EndQuery, polygonVars, vars, disk, Stored
<1>2. /\ UNCHANGED <<known, gridFile, building, begun, pc>>
      /\ grid' = grid \/ grid' = NoGrid
  BY DEF EndQuery, polygonVars, gridVars, vars
<1>. QED
  BY <1>1, <1>2 DEF PolygonInv, GridInv

LEMMA PolygonInvariance == PolygonSpec => []PolygonInv
<1>1. PolygonInit => GridInv
  BY DEF PolygonInit, GridInv
<1>2. PolygonInv /\ [PolygonNext]_polygonVars /\ RowsInv' => GridInv'
  <2>1. LoadGridFails => Die
    BY DEF LoadGridFails
  <2>. QED
    BY <2>1, ArenaKeeps, DieKeeps, CreateGridKeeps, OutputKeeps, DieInOutputKeeps,
       LoadGridKeeps, StutterKeepsGrid DEF PolygonNext
<1>3. RowsInv /\ GridInv <=> PolygonInv
  BY DEF PolygonInv
<1>. QED
  BY <1>1, <1>2, <1>3, StepsOfTheArena, RowsInvariance, PTL DEF PolygonSpec

\* The types, for any polygons, grid and deaths: a grid has the sizes it was
\* made with, or none.
THEOREM PolygonTypeCorrect == PolygonSpec => []PolygonTypeOK
<1>1. PolygonInv => PolygonTypeOK
  BY DEF PolygonInv, GridInv, RowsInv, Inv, PolygonTypeOK
<1>. QED
  BY <1>1, PolygonInvariance, PTL

\* However much of a grid's files was written before a death, whatever was
\* loaded, and died, between building the grid and reading it: getRegion
\* takes no polygon from beyond the vector it was joined with, because no id
\* that was on the disk when the grid was built is ever lost.
THEOREM IdsStayNamed == PolygonSpec => []IdsNameAPolygon
<1>1. PolygonInv => IdsNameAPolygon
  BY DEF PolygonInv, GridInv, IdsNameAPolygon
<1>. QED
  BY <1>1, PolygonInvariance, PTL

-----------------------------------------------------------------------------
(* Where the cells come from. *)

\* File f has a row with id n for column c.
IsRow(f, c, n) == \E k \in DOMAIN Rows[f] : Rows[f][k].col = c /\ Rows[f][k].id = n

\* A cell of column c was read from one of the files S, or was lost.
From(c, v, S) == v = Zero \/ (v.from \in S /\ IsRow(v.from, c, v.id))

\* A block, or its settings, ends with a row of one of the files.
Ends(e, S) == e.col \in Columns => \E f \in S : IsRow(f, e.col, e.end)

Sourced(b, S) == Ends(b, S) /\ \A k \in DOMAIN b.cells : From(b.col, b.cells[k], S)

\* The files the cells in memory are of: one that is being read has no column
\* written yet.
Sources == IF pc = "loading" THEN begun \cup {load.file} ELSE begun

\* What is on the disk is of files whose columns persist() began to write, and
\* one of these has the polygons of all the others.
SourceInv ==
  /\ pc = "saving" => load.file \in begun
  /\ \A i \in DOMAIN blocks : Sourced(blocks[i], Sources)
  /\ \A i \in DOMAIN entries : Ends(entries[i], begun)
  /\ \A name \in DOMAIN files : \A k \in DOMAIN files[name] :
       From(name[1], files[name][k], begun)
  /\ begun = {} \/ \E f \in begun : \A g \in begun : IsPrefix(Polygons[g], Polygons[f])

LEMMA SourcedMore ==
  ASSUME NEW b, NEW S, NEW T, S \subseteq T, Sourced(b, S)
  PROVE  Sourced(b, T)
BY DEF Sourced, Ends, From

LEMMA InsertSourced ==
  ASSUME NEW bs \in Seq(Blocks), NEW S, \A i \in DOMAIN bs : Sourced(bs[i], S),
         NEW cell \in [col : Columns, id : Nat],
         NEW value \in [from : Files, id : Nat], From(cell.col, value, S),
         \E f \in S : IsRow(f, cell.col, cell.id)
  PROVE  \A i \in DOMAIN Insert(bs, cell, value) : Sourced(Insert(bs, cell, value)[i], S)
<1>. DEFINE new == Insert(bs, cell, value)
            fresh == FreshBlock(cell.col, cell.id, value)
<1>1. /\ Len(bs) \in Nat /\ DOMAIN bs = 1..Len(bs)
      /\ \A i \in DOMAIN bs : bs[i] \in Blocks
  OBVIOUS
<1>2. CASE new = bs
  BY <1>2
<1>3. CASE new = Append(bs, fresh)
  <2>1. Sourced(fresh, S)
    BY DEF FreshBlock, Sourced, Ends
  <2>2. \A i \in DOMAIN new : (i \in DOMAIN bs /\ new[i] = bs[i]) \/ new[i] = fresh
    <3>. HIDE DEF fresh, new
    <3>. QED BY <1>1, <1>3
  <2>. HIDE DEF fresh, new
  <2>. QED BY <2>1, <2>2 DEF new
<1>4. CASE \E l \in DOMAIN bs :
             /\ bs[l].col = cell.col /\ HasRoom(bs[l])
             /\ new = [bs EXCEPT ![l] = Written(bs[l], cell.id, value)]
  <2>. HIDE DEF new
  <2>1. PICK l \in DOMAIN bs : /\ bs[l].col = cell.col
                               /\ new = [bs EXCEPT ![l] = Written(bs[l], cell.id, value)]
    BY <1>4
  <2>. DEFINE b == bs[l]
              w == Written(b, cell.id, value)
  <2>2. b \in Blocks /\ b.col = cell.col /\ Sourced(b, S)
    BY <2>1, <1>1
  <2>. HIDE DEF b
  <2>3. /\ w.col = cell.col /\ w.end \in {b.end, cell.id}
        /\ w.cells = Append(b.cells, value) /\ b.cells \in Seq(Values)
    BY <2>2 DEF Written, Blocks
  <2>. HIDE DEF w
  <2>4. Ends(w, S)
    BY <2>2, <2>3 DEF Ends, Sourced
  <2>5. \A k \in DOMAIN w.cells : (k \in DOMAIN b.cells /\ w.cells[k] = b.cells[k])
                                  \/ w.cells[k] = value
    BY <2>3
  <2>6. Sourced(w, S)
    BY <2>2, <2>3, <2>4, <2>5 DEF Sourced
  <2>7. \A i \in DOMAIN new : i \in DOMAIN bs /\ (new[i] = bs[i] \/ new[i] = w)
    <3>1. new = [bs EXCEPT ![l] = w]
      BY <2>1 DEF w, b
    <3>. QED BY <3>1
  <2>. QED BY <2>6, <2>7 DEF new
<1>. HIDE DEF fresh
<1>. QED
  BY <1>2, <1>3, <1>4, InsertCases DEF fresh

LEMMA StartKeepsSources ==
  ASSUME RowsInv, SourceInv, Start, UNCHANGED begun
  PROVE  SourceInv'
<1>1. /\ blocks' = RestoredOf(size, entries, files) /\ pc = "down" /\ pc' = "idle"
      /\ UNCHANGED <<files, size, entries, load, begun>>
      /\ TypeOK /\ Named
  BY RestoredIs DEF Start, disk, RowsInv, Inv
<1>2. Sources' = begun
  BY <1>1 DEF Sources
<1>3. ASSUME NEW i \in DOMAIN entries PROVE Sourced(Restored(entries[i], files), begun)
  <2>. DEFINE e == entries[i]
              r == Restored(e, files)
  <2>1. e.name = FileName(entries, i) /\ Ends(e, begun)
    BY <1>1 DEF Named, SourceInv
  <2>2. e.name[1] = e.col
    BY <2>1 DEF FileName
  <2>. HIDE DEF e
  <2>3. Ends(r, begun)
    BY <2>1 DEF Ends, Restored
  <2>4. \A k \in DOMAIN r.cells :
          \/ r.cells[k] = Zero
          \/ /\ e.name \in DOMAIN files /\ k \in DOMAIN files[e.name]
             /\ r.cells[k] = files[e.name][k]
    BY DEF Restored, Held
  <2>5. \A k \in DOMAIN r.cells : From(e.col, r.cells[k], begun)
    <3>. HIDE DEF r
    <3>. QED BY <2>2, <2>4 DEF SourceInv, From
  <2>6. r.col = e.col
    BY DEF Restored
  <2>. HIDE DEF r
  <2>7. Sourced(r, begun)
    BY <2>3, <2>5, <2>6 DEF Sourced
  <2>. QED BY <2>7 DEF r, e
<1>4. Sourced(JunkBlock, begun)
  BY ArenaAssumption DEF JunkBlock, Sourced, Ends
<1>5. \A i \in DOMAIN blocks' : Sourced(blocks'[i], begun)
  <2>1. \A i \in DOMAIN blocks' :
          blocks'[i] = IF i \in DOMAIN entries THEN Restored(entries[i], files) ELSE JunkBlock
    BY <1>1 DEF RestoredOf
  <2>. QED BY <2>1, <1>3, <1>4
<1>. QED
  BY <1>1, <1>2, <1>5 DEF SourceInv

\* Steps that leave blocks and what is on the disk alone.
LEMMA SameSources ==
  ASSUME SourceInv, UNCHANGED <<blocks, entries, files>>, Sources \subseteq Sources',
         begun' = begun, pc' = "saving" => load'.file \in begun
  PROVE  SourceInv'
<1>1. \A i \in DOMAIN blocks : Sourced(blocks[i], Sources')
  BY SourcedMore DEF SourceInv
<1>. QED
  BY <1>1 DEF SourceInv

LEMMA InsertCellKeepsSources ==
  ASSUME RowsInv, SourceInv, InsertCell, UNCHANGED begun
  PROVE  SourceInv'
<1>. DEFINE f == load.file
            cell == Rows[load.file][load.next]
            value == [from |-> load.file, id |-> cell.id]
<1>1. /\ pc = "loading" /\ pc' = "loading" /\ load.next \in DOMAIN Rows[f]
      /\ blocks' = Insert(blocks, cell, value) /\ load'.file = f
      /\ UNCHANGED <<files, entries, begun>>
      /\ blocks \in Seq(Blocks) /\ f \in Files
  BY DEF InsertCell, disk, RowsInv, Inv, TypeOK
<1>2. cell \in [col : Columns, id : Nat] /\ IsRow(f, cell.col, cell.id)
  BY <1>1, CellType DEF IsRow
<1>. HIDE DEF cell
<1>3. value \in [from : Files, id : Nat] /\ value.from = f /\ value.id = cell.id
  BY <1>1, <1>2
<1>. HIDE DEF value
<1>4. f \in Sources /\ Sources' = Sources
  BY <1>1 DEF Sources
<1>. HIDE DEF f
<1>5. From(cell.col, value, Sources) /\ \E g \in Sources : IsRow(g, cell.col, cell.id)
  BY <1>2, <1>3, <1>4 DEF From
<1>6. \A i \in DOMAIN blocks : Sourced(blocks[i], Sources)
  BY DEF SourceInv
<1>7. \A i \in DOMAIN blocks' : Sourced(blocks'[i], Sources)
  BY <1>1, <1>2, <1>3, <1>5, <1>6, InsertSourced
<1>. QED
  BY <1>1, <1>4, <1>7 DEF SourceInv

\* The file's polygons are more than those of the others, or fewer.
LEMMA PersistKeepsSources ==
  ASSUME RowsInv, GridInv, SourceInv, PersistPolygons
  PROVE  SourceInv'
<1>1. /\ pc = "loading" /\ pc' = "saving" /\ begun' = begun \cup {load.file}
      /\ UNCHANGED <<blocks, files, entries, load>>
      /\ load.file \in Files /\ begun \subseteq Files
  BY DEF PersistPolygons, BeginPersist, disk, RowsInv, Inv, TypeOK, GridInv
<1>2. Sources' = Sources /\ begun \subseteq begun'
  BY <1>1 DEF Sources
<1>3. /\ \A i \in DOMAIN entries : Ends(entries[i], begun')
      /\ \A name \in DOMAIN files : \A k \in DOMAIN files[name] :
           From(name[1], files[name][k], begun')
  BY <1>2 DEF SourceInv, Ends, From
<1>4. \E f \in begun' : \A g \in begun' : IsPrefix(Polygons[g], Polygons[f])
  <2>. DEFINE l == load.file
  <2>1. \A f, g \in Files : /\ Polygons[f] \in Seq(Seq(Int \X Int))
                            /\ IsPrefix(Polygons[f], Polygons[g])
                                 \/ IsPrefix(Polygons[g], Polygons[f])
    BY PolygonAssumption
  <2>. HIDE DEF l
  <2>2. l \in Files /\ begun' = begun \cup {l} /\ IsPrefix(Polygons[l], Polygons[l])
    BY <1>1, <2>1 DEF l
  <2>3. CASE begun = {}
    BY <2>2, <2>3
  <2>4. CASE begun # {}
    <3>1. PICK f \in begun : \A g \in begun : IsPrefix(Polygons[g], Polygons[f])
      BY <2>4 DEF SourceInv
    <3>2. CASE IsPrefix(Polygons[l], Polygons[f])
      BY <3>1, <3>2, <2>2
    <3>3. CASE IsPrefix(Polygons[f], Polygons[l])
      <4>1. \A g \in begun : IsPrefix(Polygons[g], Polygons[l])
        BY <1>1, <2>1, <2>2, <3>1, <3>3, PrefixOfPrefix
      <4>. QED BY <4>1, <2>2
    <3>. QED BY <1>1, <2>1, <2>2, <3>1, <3>2, <3>3
  <2>. QED BY <2>3, <2>4
<1>. QED
  BY <1>1, <1>2, <1>3, <1>4 DEF SourceInv

LEMMA OpenFileKeepsSources ==
  ASSUME SourceInv, OpenFile, UNCHANGED begun
  PROVE  SourceInv'
<1>. DEFINE name == FileName(blocks, save.at)
<1>1. /\ files' = Put(files, name, <<>>) /\ pc = "saving" /\ pc' = "saving"
      /\ UNCHANGED <<blocks, entries, load, begun>>
  BY DEF OpenFile, SavingBlock
<1>2. Sources' = begun /\ Sources = begun
  BY <1>1 DEF Sources
<1>. HIDE DEF name
<1>3. \A x \in DOMAIN files' : (x \in DOMAIN files /\ files'[x] = files[x]) \/ files'[x] = <<>>
  BY <1>1 DEF Put
<1>. QED
  BY <1>1, <1>2, <1>3 DEF SourceInv

LEMMA WriteFileKeepsSources ==
  ASSUME RowsInv, SourceInv, WriteFile, UNCHANGED begun
  PROVE  SourceInv'
<1>. DEFINE name == FileName(blocks, save.at)
            b == blocks[save.at]
            f == files[name]
<1>1. /\ pc = "saving" /\ pc' = "saving" /\ UNCHANGED <<blocks, entries, load, begun>>
      /\ save.at \in DOMAIN blocks /\ save.open /\ Len(f) < Len(b.cells)
      /\ files' = [files EXCEPT ![name] = Append(f, b.cells[Len(f) + 1])]
  BY DEF WriteFile, SavingBlock
<1>2. Sources' = begun /\ Sources = begun
  BY <1>1 DEF Sources
<1>3. /\ name[1] = b.col
      /\ blocks \in Seq(Blocks) /\ name \in DOMAIN files /\ f \in Seq(Values)
  BY <1>1 DEF FileName, RowsInv, Inv, TypeOK, SaveInv
<1>4. b \in Blocks /\ Sourced(b, begun) /\ \A k \in DOMAIN f : From(b.col, f[k], begun)
  BY <1>1, <1>2, <1>3 DEF SourceInv
<1>. HIDE DEF b, f, name
<1>5. b.cells \in Seq(Values)
  BY <1>4 DEF Blocks
<1>6. From(b.col, b.cells[Len(f) + 1], begun)
  <2>1. Len(f) + 1 \in DOMAIN b.cells
    BY <1>1, <1>3, <1>5
  <2>. QED BY <2>1, <1>4 DEF Sourced
<1>. DEFINE new == Append(f, b.cells[Len(f) + 1])
<1>7. \A k \in DOMAIN new : (k \in DOMAIN f /\ new[k] = f[k]) \/ new[k] = b.cells[Len(f) + 1]
  BY <1>3
<1>8. \A k \in DOMAIN new : From(b.col, new[k], begun)
  <2>. HIDE DEF new
  <2>. QED BY <1>4, <1>6, <1>7
<1>. HIDE DEF new
<1>9. \A x \in DOMAIN files' : /\ x \in DOMAIN files
                               /\ files'[x] = IF x = name THEN new ELSE files[x]
  <2>1. files' = [files EXCEPT ![name] = new]
    BY <1>1 DEF new
  <2>. QED BY <2>1
<1>10. \A x \in DOMAIN files' : \A k \in DOMAIN files'[x] : From(x[1], files'[x][k], begun)
  BY <1>3, <1>8, <1>9 DEF SourceInv
<1>. QED
  BY <1>1, <1>2, <1>10 DEF SourceInv

LEMMA SaveEntryKeepsSources ==
  ASSUME SourceInv, SaveEntry, UNCHANGED begun
  PROVE  SourceInv'
<1>. DEFINE b == blocks[save.at]
            e == [col |-> b.col, start |-> b.start, end |-> b.end,
                  len |-> Len(b.cells), name |-> FileName(blocks, save.at)]
<1>1. /\ entries' = Put(entries, save.at, e) /\ pc = "saving" /\ pc' = "saving"
      /\ save.at \in DOMAIN blocks /\ UNCHANGED <<blocks, files, load, begun>>
  BY DEF SaveEntry, SavingBlock
<1>2. Sources' = begun /\ Sources = begun
  BY <1>1 DEF Sources
<1>3. Ends(e, begun)
  BY <1>1, <1>2 DEF SourceInv, Sourced, Ends
<1>. HIDE DEF e
<1>4. \A i \in DOMAIN entries' :
        (i \in DOMAIN entries /\ entries'[i] = entries[i]) \/ entries'[i] = e
  BY <1>1 DEF Put
<1>. QED
  BY <1>1, <1>2, <1>3, <1>4 DEF SourceInv

LEMMA CrashKeepsSources ==
  ASSUME SourceInv, Crash, UNCHANGED begun
  PROVE  SourceInv'
<1>1. blocks' = <<>> /\ pc' = "down" /\ UNCHANGED <<files, entries, begun>>
  BY DEF Crash, disk
<1>2. DOMAIN blocks' = {}
  BY <1>1
<1>. QED
  BY <1>1, <1>2 DEF SourceInv

LEMMA StepKeepsSources ==
  ASSUME RowsInv, GridInv, SourceInv, [PolygonNext]_polygonVars
  PROVE  SourceInv'
<1>1. CASE PersistPolygons
  BY <1>1, PersistKeepsSources
<1>2. CASE ~PersistPolygons
  <2>1. begun' = begun
    BY <1>2 DEF PolygonNext, ArenaStep, Die, CreateGrid, OutputGrid, DieInOutput, LoadGrid,
                EndQuery, LoadGridFails, polygonVars
  <2>2. \/ Start \/ InsertCell \/ OpenFile \/ WriteFile \/ SaveEntry \/ Crash
        \/ (\E f \in Files : LoadFile(f)) \/ SaveSize \/ EndPersist \/ UNCHANGED vars
    BY <1>2 DEF PolygonNext, ArenaStep, Die, CreateGrid, OutputGrid, DieInOutput, LoadGrid,
                EndQuery, LoadGridFails, polygonVars
  <2>3. CASE (\E f \in Files : LoadFile(f)) \/ SaveSize \/ EndPersist \/ UNCHANGED vars
    <3>1. /\ UNCHANGED <<blocks, entries, files>>
          /\ \/ pc' = "loading" /\ pc = "idle"
             \/ pc' = pc /\ load' = load
             \/ pc' = "idle" /\ pc = "saving"
      BY <2>3 DEF LoadFile, SaveSize, EndPersist, vars, disk
    <3>2. Sources \subseteq Sources' /\ (pc' = "saving" => load'.file \in begun)
      BY <2>1, <3>1 DEF Sources, SourceInv
    <3>. QED BY <2>1, <3>1, <3>2, SameSources
  <2>. QED
    BY <2>1, <2>2, <2>3, StartKeepsSources, InsertCellKeepsSources, OpenFileKeepsSources,
       WriteFileKeepsSources, SaveEntryKeepsSources, CrashKeepsSources
<1>. QED
  BY <1>1, <1>2

LEMMA SourceInvariance == PolygonSpec => []SourceInv
<1>1. PolygonInit => SourceInv
  BY DEF PolygonInit, Init, SourceInv
<1>2. SourceInv /\ PolygonInv /\ [PolygonNext]_polygonVars => SourceInv'
  BY StepKeepsSources DEF PolygonInv
<1>. QED
  BY <1>1, <1>2, PolygonInvariance, PTL DEF PolygonSpec

-----------------------------------------------------------------------------
(* The three columns of a file. *)

PolyColumns == <<NumColumn, XColumn, YColumn>>

\* The rows of a file in a column of its own.
Count(f, c) == IF c = NumColumn THEN Len(Polygons[f]) ELSE Len(PointsIn(f))

LEMMA PolyRowsAre ==
  ASSUME NEW n1 \in Nat, NEW n2 \in Nat, NEW n3 \in Nat
  PROVE  LET lens == <<n1, n2, n3>>
             rows == PolyRows(PolyColumns, lens)
         IN  \A c, id : (\E m \in DOMAIN rows : rows[m].col = c /\ rows[m].id = id)
                          <=> \E i \in 1..3 : PolyColumns[i] = c /\ id \in 0..(lens[i] - 1)
<1>. DEFINE lens == <<n1, n2, n3>>
            cols == PolyColumns
            rows == PolyRows(cols, lens)
            Part(i) == [k \in 1..lens[i] |-> [col |-> cols[i], id |-> k - 1]]
            parts == [i \in 1..3 |-> Part(i)]
            Row == [col : Columns, id : Nat]
<1>1. /\ DOMAIN cols = 1..3 /\ \A i \in 1..3 : cols[i] \in Columns
      /\ lens[1] = n1 /\ lens[2] = n2 /\ lens[3] = n3
  BY PolygonAssumption DEF PolyColumns
<1>2. rows = FlattenSeq(parts)
  BY <1>1 DEF PolyRows
<1>3. \A i \in 1..3 : lens[i] \in Nat
  BY <1>1
<1>. HIDE DEF lens, cols
<1>4. \A i \in 1..3 : /\ Part(i) \in Seq(Row) /\ Len(Part(i)) = lens[i]
                      /\ \A k \in 1..lens[i] : Part(i)[k] = [col |-> cols[i], id |-> k - 1]
  <2>. TAKE i \in 1..3
  <2>1. lens[i] \in Nat /\ cols[i] \in Columns
    BY <1>1, <1>3
  <2>2. \A k \in 1..lens[i] : [col |-> cols[i], id |-> k - 1] \in Row
    BY <2>1
  <2>. HIDE DEF Row
  <2>3. Part(i) \in Seq(Row)
    BY <2>1, <2>2
  <2>4. Len(Part(i)) = lens[i]
    BY <2>1
  <2>. QED BY <2>3, <2>4
<1>. HIDE DEF Part, Row
<1>5. parts \in Seq(Seq(Row)) /\ Len(parts) = 3 /\ \A i \in 1..3 : parts[i] = Part(i)
  BY <1>4
<1>. HIDE DEF parts, rows
<1>6. \A i \in 1..3 : Lengths(parts)[i] = lens[i]
  BY <1>4, <1>5 DEF Lengths
<1>7. PICK s \in [0..3 -> Nat] : Sums(s, Lengths(parts), 3)
  <2>1. \A i \in 1..3 : Lengths(parts)[i] \in Nat
    BY <1>3, <1>6
  <2>. QED BY <2>1, SumsExist
<1>8. Placed(rows, parts, s, 3)
  BY <1>2, <1>5, <1>7, FlattenPlaces
<1>9. /\ Len(rows) = s[3]
      /\ \A i \in 1..3 : \A k \in 1..lens[i] :
           /\ s[i - 1] + k \in 1..s[3]
           /\ rows[s[i - 1] + k] = [col |-> cols[i], id |-> k - 1]
      /\ \A m \in 1..s[3] : \E i \in 1..3 : \E k \in 1..lens[i] : m = s[i - 1] + k
  <2>1. Len(rows) = s[3]
    BY <1>8 DEF Placed
  <2>2. \A m \in 1..s[3] : \E i \in 1..3 : \E k \in 1..lens[i] : m = s[i - 1] + k
    <3>1. \A i \in 1..3 : Len(parts[i]) = lens[i]
      BY <1>4, <1>5
    <3>2. \A m \in 1..s[3] : \E i \in 1..3 : \E k \in 1..Len(parts[i]) : m = s[i - 1] + k
      BY <1>8 DEF Placed
    <3>. HIDE DEF parts
    <3>. QED BY <3>1, <3>2
  <2>3. ASSUME NEW i \in 1..3, NEW k \in 1..lens[i]
        PROVE  /\ s[i - 1] + k \in 1..s[3]
               /\ rows[s[i - 1] + k] = [col |-> cols[i], id |-> k - 1]
    <3>1. k \in 1..Len(parts[i]) /\ parts[i][k] = [col |-> cols[i], id |-> k - 1]
      BY <1>4, <1>5
    <3>. QED BY <3>1, <1>8 DEF Placed
  <2>. QED BY <2>1, <2>2, <2>3
<1>10. DOMAIN rows = 1..s[3]
  <2>1. rows \in Seq(Row)
    BY <1>2, <1>5, FlattenType
  <2>. QED BY <2>1, <1>9
<1>11. ASSUME NEW c, NEW id
       PROVE  (\E m \in DOMAIN rows : rows[m].col = c /\ rows[m].id = id)
                <=> \E i \in 1..3 : cols[i] = c /\ id \in 0..(lens[i] - 1)
  <2>1. ASSUME NEW m \in DOMAIN rows, rows[m].col = c, rows[m].id = id
        PROVE  \E i \in 1..3 : cols[i] = c /\ id \in 0..(lens[i] - 1)
    <3>1. PICK i \in 1..3 : \E k \in 1..lens[i] : m = s[i - 1] + k
      BY <2>1, <1>9, <1>10
    <3>2. PICK k \in 1..lens[i] : m = s[i - 1] + k
      BY <3>1
    <3>3. rows[m] = [col |-> cols[i], id |-> k - 1]
      BY <3>2, <1>9
    <3>4. cols[i] = c /\ id = k - 1
      BY <3>3, <2>1
    <3>5. k - 1 \in 0..(lens[i] - 1)
      BY <1>3
    <3>. QED BY <3>4, <3>5
  <2>2. ASSUME NEW i \in 1..3, cols[i] = c, id \in 0..(lens[i] - 1)
        PROVE  \E m \in DOMAIN rows : rows[m].col = c /\ rows[m].id = id
    <3>1. id + 1 \in 1..lens[i] /\ (id + 1) - 1 = id
      BY <2>2, <1>3
    <3>2. /\ s[i - 1] + (id + 1) \in DOMAIN rows
          /\ rows[s[i - 1] + (id + 1)] = [col |-> cols[i], id |-> (id + 1) - 1]
      BY <3>1, <1>9, <1>10
    <3>. QED BY <2>2, <3>1, <3>2
  <2>. QED BY <2>1, <2>2
<1>. QED
  BY <1>11 DEF rows, cols, lens

LEMMA Counts ==
  ASSUME NEW f \in Files
  PROVE  /\ Polygons[f] \in Seq(Seq(Int \X Int)) /\ PointsIn(f) \in Seq(Int \X Int)
         /\ \A c \in Range(PolyColumns) :
              /\ c \in Columns /\ Count(f, c) \in Nat
              /\ \A id : IsRow(f, c, id) <=> id \in 0..(Count(f, c) - 1)
<1>1. /\ Polygons[f] \in Seq(Seq(Int \X Int))
      /\ Rows[f] = PolyRows(PolyColumns, <<Len(Polygons[f]), Len(PointsIn(f)), Len(PointsIn(f))>>)
  BY PolygonAssumption DEF PolyColumns
<1>2. PointsIn(f) \in Seq(Int \X Int)
  BY <1>1, FlattenType DEF PointsIn
<1>. DEFINE np == Len(Polygons[f])
            nc == Len(PointsIn(f))
<1>3. np \in Nat /\ nc \in Nat
  BY <1>1, <1>2
<1>4. Rows[f] = PolyRows(PolyColumns, <<np, nc, nc>>)
  BY <1>1
<1>5. \A c : Count(f, c) = IF c = NumColumn THEN np ELSE nc
  BY DEF Count
<1>. HIDE DEF np, nc
<1>6. \A c, id : IsRow(f, c, id)
                   <=> \E i \in 1..3 : PolyColumns[i] = c /\ id \in 0..(<<np, nc, nc>>[i] - 1)
  <2>. DEFINE lens == <<np, nc, nc>>
              rows == PolyRows(PolyColumns, lens)
  <2>1. \A c, id : (\E m \in DOMAIN rows : rows[m].col = c /\ rows[m].id = id)
                     <=> \E i \in 1..3 : PolyColumns[i] = c /\ id \in 0..(lens[i] - 1)
    BY <1>3, PolyRowsAre
  <2>2. Rows[f] = rows
    BY <1>4
  <2>. HIDE DEF lens, rows
  <2>3. \A c, id : IsRow(f, c, id)
                     <=> \E i \in 1..3 : PolyColumns[i] = c /\ id \in 0..(lens[i] - 1)
    <3>. TAKE c, id
    <3>1. IsRow(f, c, id) <=> \E m \in DOMAIN rows : rows[m].col = c /\ rows[m].id = id
      BY <2>2 DEF IsRow
    <3>2. (\E m \in DOMAIN rows : rows[m].col = c /\ rows[m].id = id)
            <=> \E i \in 1..3 : PolyColumns[i] = c /\ id \in 0..(lens[i] - 1)
      BY <2>1
    <3>. QED BY <3>1, <3>2
  <2>. QED BY <2>3 DEF lens
<1>7. ASSUME NEW i \in 1..3
      PROVE  PolyColumns[i] \in Columns /\ <<np, nc, nc>>[i] = Count(f, PolyColumns[i])
  BY <1>5, PolygonAssumption DEF PolyColumns
<1>8. \A c, id : IsRow(f, c, id)
                   <=> \E i \in 1..3 : PolyColumns[i] = c /\ id \in 0..(Count(f, c) - 1)
  BY <1>6, <1>7
<1>9. \A c \in Range(PolyColumns) : \E i \in 1..3 : PolyColumns[i] = c
  BY DEF Range, PolyColumns
<1>. QED
  BY <1>1, <1>2, <1>3, <1>5, <1>7, <1>8, <1>9

\* A file with the polygons of another has its points, too.
LEMMA MoreRows ==
  ASSUME NEW f \in Files, NEW g \in Files, IsPrefix(Polygons[g], Polygons[f])
  PROVE  /\ \A c \in Range(PolyColumns) : Count(g, c) <= Count(f, c)
         /\ \A i \in 1..Len(Polygons[g]) : Polygons[g][i] = Polygons[f][i]
         /\ \A m \in 1..Len(PointsIn(g)) : PointsIn(g)[m] = PointsIn(f)[m]
<1>1. Polygons[f] \in Seq(Seq(Int \X Int)) /\ Polygons[g] \in Seq(Seq(Int \X Int))
  BY Counts
<1>2. /\ Len(PointsIn(g)) <= Len(PointsIn(f))
      /\ \A m \in 1..Len(PointsIn(g)) : PointsIn(g)[m] = PointsIn(f)[m]
  BY <1>1, FlattenPrefix DEF PointsIn
<1>3. /\ Len(Polygons[g]) <= Len(Polygons[f])
      /\ \A i \in 1..Len(Polygons[g]) : Polygons[g][i] = Polygons[f][i]
  BY <1>1, PrefixAt
<1>. QED
  BY <1>2, <1>3 DEF Count

-----------------------------------------------------------------------------
(* What an idle process reads. *)

Fullest(f) ==
  f \in begun /\ f \in loaded /\ \A g \in begun : IsPrefix(Polygons[g], Polygons[f])

LEMMA IdleRows ==
  ASSUME PolygonInv, SourceInv, pc = "idle", NEW f, Fullest(f), NEW c \in Range(PolyColumns)
  PROVE  RowsOf(blocks, c) = Count(f, c)
<1>. DEFINE N == RowsOf(blocks, c)
<1>1. /\ TypeOK /\ begun \subseteq Files /\ f \in Files /\ Durable
      /\ blocks \in Seq(Blocks) /\ \A i \in DOMAIN blocks : Follows(blocks, i)
  BY DEF PolygonInv, GridInv, RowsInv, Inv, TypeOK, Chained, Fullest
<1>2. /\ c \in Columns /\ Count(f, c) \in Nat
      /\ \A id : IsRow(f, c, id) <=> id \in 0..(Count(f, c) - 1)
  BY <1>1, Counts
<1>3. /\ N \in Nat
      /\ \A n \in 0..(N - 1) : Seen(blocks, DOMAIN blocks, c, n)
      /\ \A n : Seen(blocks, DOMAIN blocks, c, n) => n \in 0..(N - 1)
  BY <1>1, <1>2, ColumnIds
<1>. HIDE DEF N
<1>4. Count(f, c) <= N
  <2>1. CASE Count(f, c) = 0
    BY <2>1, <1>3
  <2>2. CASE Count(f, c) # 0
    <3>1. Count(f, c) - 1 \in 0..(Count(f, c) - 1)
      BY <2>2, <1>2
    <3>2. PICK k \in DOMAIN Rows[f] : Rows[f][k].col = c /\ Rows[f][k].id = Count(f, c) - 1
      BY <3>1, <1>2 DEF IsRow
    <3>3. Count(f, c) - 1 \in 0..Rows[f][k].id
      BY <3>1, <3>2
    <3>4. Seen(entries, DOMAIN entries, c, Count(f, c) - 1)
      BY <1>1, <3>2, <3>3 DEF Durable, Fullest
    <3>5. Seen(blocks, DOMAIN blocks, c, Count(f, c) - 1)
      BY <3>4, <1>2, IdleSeen DEF PolygonInv
    <3>6. Count(f, c) - 1 \in 0..(N - 1)
      BY <3>5, <1>3
    <3>. QED BY <3>6, <1>2, <1>3
  <2>. QED BY <2>1, <2>2
<1>5. N <= Count(f, c)
  <2>1. CASE N = 0
    BY <2>1, <1>2
  <2>2. CASE N # 0
    <3>1. N - 1 \in 0..(N - 1)
      BY <2>2, <1>3
    <3>2. PICK i \in DOMAIN blocks : Holds(blocks[i], c, N - 1)
      BY <3>1, <1>3 DEF Seen
    <3>3. /\ blocks[i].col = c /\ blocks[i].start <= blocks[i].end /\ N - 1 <= blocks[i].end
          /\ blocks[i].start \in Nat /\ blocks[i].end \in Nat
      <4>1. blocks[i].start \in Nat /\ blocks[i].end \in Nat
        BY <1>1, BlocksBounded DEF Bounded
      <4>. QED BY <4>1, <3>2, <1>1, <1>2, <1>3 DEF Holds, Follows
    <3>4. Seen(blocks, DOMAIN blocks, c, blocks[i].end)
      BY <3>3 DEF Seen, Holds
    <3>5. blocks[i].end = N - 1
      BY <3>3, <3>4, <1>3
    <3>6. PICK g \in begun : IsRow(g, c, N - 1)
      <4>1. Sources = begun
        BY DEF Sources
      <4>. QED BY <4>1, <3>3, <3>5, <1>2 DEF SourceInv, Sourced, Ends
    <3>7. N - 1 \in 0..(Count(g, c) - 1) /\ Count(g, c) \in Nat
      BY <3>6, <1>1, Counts
    <3>8. Count(g, c) <= Count(f, c)
      BY <1>1, MoreRows DEF Fullest
    <3>. QED BY <3>7, <3>8, <1>2, <1>3
  <2>. QED BY <2>1, <2>2
<1>. QED
  BY <1>2, <1>3, <1>4, <1>5 DEF N

\* Each cell of a column is lost or of the row it should be; none is lost
\* unless a block's file was open at a death.
LEMMA IdleCells ==
  ASSUME PolygonInv, SourceInv, pc = "idle", NEW c \in Range(PolyColumns)
  PROVE  LET col == getTuples(blocks, c, <<>>)
         IN  /\ RowsOf(blocks, c) \in Nat /\ DOMAIN col = 1..RowsOf(blocks, c)
             /\ \A i \in DOMAIN col :
                  /\ torn = {} => col[i] # Zero
                  /\ col[i] # Zero =>
                       /\ col[i].id = i - 1
                       /\ col[i].from \in begun /\ i \in 1..Count(col[i].from, c)
<1>. DEFINE n == RowsOf(blocks, c)
            col == getTuples(blocks, c, <<>>)
<1>1. /\ begun \subseteq Files /\ blocks \in Seq(Blocks)
      /\ \A i \in DOMAIN blocks : /\ Follows(blocks, i) /\ InPlace(blocks[i])
                                  /\ torn = {} => Whole(blocks[i])
  BY DEF PolygonInv, GridInv, RowsInv, Inv, TypeOK, Chained, TornInv
<1>2. c \in Columns
  BY PolygonAssumption DEF PolyColumns, Range
<1>3. n \in Nat /\ \A k \in 0..(n - 1) : Seen(blocks, DOMAIN blocks, c, k)
  BY <1>1, <1>2, ColumnIds
<1>4. \A i \in 1..n : Asked(<<>>, i) = i - 1
  BY DEF Asked
<1>. HIDE DEF n
<1>5. Served(blocks, c, <<>>, n)
  <2>1. \A i \in 1..n : i - 1 \in Nat /\ i - 1 \in 0..(n - 1)
    BY <1>3
  <2>2. \A i, j \in 1..n : i < j => i - 1 < j - 1
    BY <1>3
  <2>. QED BY <1>3, <1>4, <2>1, <2>2 DEF Served, n
<1>6. Answered(blocks, c, <<>>, n, col)
  <2>1. \A i \in DOMAIN blocks : Follows(blocks, i)
    BY <1>1
  <2>. HIDE DEF col
  <2>. QED BY <1>1, <1>2, <1>3, <1>5, <2>1, WalkFinds DEF col
<1>. HIDE DEF col
<1>7. ASSUME NEW i \in 1..n
      PROVE  /\ torn = {} => col[i] # Zero
             /\ col[i] # Zero => /\ col[i].id = i - 1
                                 /\ col[i].from \in begun /\ i \in 1..Count(col[i].from, c)
  <2>1. PICK j \in DOMAIN blocks :
          /\ Holds(blocks[j], c, i - 1)
          /\ col[i] = blocks[j].cells[(i - 1) - blocks[j].start + 1]
    BY <1>4, <1>6 DEF Answered
  <2>. DEFINE b == blocks[j]
              k == (i - 1) - b.start + 1
  <2>2. /\ b \in Blocks /\ Follows(blocks, j) /\ InPlace(b) /\ Sourced(b, begun)
        /\ torn = {} => Whole(b)
    BY <1>1 DEF SourceInv, Sources
  <2>. HIDE DEF b
  <2>3. b.start \in Nat /\ b.end \in Nat /\ b.cells \in Seq(Values)
    BY <2>2 DEF Blocks
  <2>4. b.col = c /\ b.start <= i - 1 /\ i - 1 <= b.end /\ col[i] = b.cells[k]
    BY <2>1, <2>3, <1>3 DEF Holds, b
  <2>5. /\ Len(b.cells) = b.end - b.start + 1
        /\ \A m \in DOMAIN b.cells : b.cells[m] = Zero \/ b.cells[m].id = b.start + m - 1
    BY <2>2, <2>4, <1>2 DEF InPlace
  <2>6. k \in DOMAIN b.cells /\ b.start + k - 1 = i - 1
    BY <2>3, <2>4, <2>5, <1>3
  <2>. HIDE DEF k
  <2>7. torn = {} => col[i] # Zero
    BY <2>2, <2>4, <2>6 DEF Whole
  <2>8. ASSUME col[i] # Zero
        PROVE  col[i].id = i - 1 /\ col[i].from \in begun /\ IsRow(col[i].from, c, i - 1)
    <3>1. col[i].id = i - 1
      BY <2>4, <2>5, <2>6, <2>8
    <3>. QED BY <2>2, <2>4, <2>6, <2>8, <3>1 DEF Sourced, From
  <2>9. ASSUME col[i] # Zero
        PROVE  i \in 1..Count(col[i].from, c)
    <3>1. i - 1 \in 0..(Count(col[i].from, c) - 1) /\ Count(col[i].from, c) \in Nat
      BY <2>8, <2>9, <1>1, Counts
    <3>. QED BY <3>1, <1>3
  <2>. QED BY <2>7, <2>8, <2>9
<1>. QED
  BY <1>3, <1>6, <1>7 DEF Answered, n, col

\* A coordinate as getPolygons takes it from the column.
Axis(col, j, axis) == IF j \in DOMAIN col THEN Coordinate(col[j], axis) ELSE Unread

\* A begun file that has the polygons of all others.
Widest(f) == f \in begun /\ \A g \in begun : IsPrefix(Polygons[g], Polygons[f])

LEMMA WidestFile ==
  ASSUME PolygonInv, NEW f, Widest(f)
  PROVE  LET P == Polygons[f]
             Q == PointsIn(f)
         IN  /\ begun \subseteq Files /\ f \in Files
             /\ P \in Seq(Seq(Int \X Int)) /\ Q \in Seq(Int \X Int)
             /\ Len(P) \in Nat /\ Len(Q) \in Nat
             /\ \A i \in 1..Len(P) : P[i] \in Seq(Int \X Int) /\ Len(P[i]) \in Nat
             /\ \A g \in begun : /\ Len(Polygons[g]) \in Nat /\ Len(Polygons[g]) <= Len(P)
                                 /\ \A i \in 1..Len(Polygons[g]) : Polygons[g][i] = P[i]
                                 /\ \A m \in 1..Len(PointsIn(g)) : PointsIn(g)[m] = Q[m]
<1>1. begun \subseteq Files /\ f \in Files
  BY DEF PolygonInv, GridInv, Widest
<1>2. /\ Polygons[f] \in Seq(Seq(Int \X Int)) /\ PointsIn(f) \in Seq(Int \X Int)
      /\ \A g \in Files : Polygons[g] \in Seq(Seq(Int \X Int))
  BY <1>1, Counts
<1>3. ASSUME NEW g \in begun
      PROVE  /\ Len(Polygons[g]) \in Nat /\ Len(Polygons[g]) <= Len(Polygons[f])
             /\ \A i \in 1..Len(Polygons[g]) : Polygons[g][i] = Polygons[f][i]
             /\ \A m \in 1..Len(PointsIn(g)) : PointsIn(g)[m] = PointsIn(f)[m]
  <2>1. g \in Files /\ IsPrefix(Polygons[g], Polygons[f])
    BY <1>1 DEF Widest
  <2>2. Len(Polygons[g]) \in Nat /\ Len(Polygons[g]) <= Len(Polygons[f])
    <3>. DEFINE S == Seq(Int \X Int)
                a == Polygons[g]
                b == Polygons[f]
    <3>1. a \in Seq(S) /\ b \in Seq(S) /\ IsPrefix(a, b)
      BY <1>2, <2>1
    <3>. HIDE DEF S, a, b
    <3>2. Len(a) \in Nat /\ Len(a) <= Len(b)
      BY <3>1, PrefixAt
    <3>. QED BY <3>2 DEF a, b
  <2>. QED BY <1>1, <2>1, <2>2, MoreRows
<1>4. /\ Len(Polygons[f]) \in Nat /\ Len(PointsIn(f)) \in Nat
      /\ \A i \in 1..Len(Polygons[f]) :
           Polygons[f][i] \in Seq(Int \X Int) /\ Len(Polygons[f][i]) \in Nat
  <2>. DEFINE P == Polygons[f]
              Q == PointsIn(f)
  <2>1. P \in Seq(Seq(Int \X Int)) /\ Q \in Seq(Int \X Int)
    BY <1>2
  <2>. HIDE DEF P, Q
  <2>2. \A i \in 1..Len(P) : P[i] \in Seq(Int \X Int) /\ Len(P[i]) \in Nat
    BY <2>1
  <2>. QED BY <2>1, <2>2 DEF P, Q
<1>. DEFINE P == Polygons[f]
            Q == PointsIn(f)
<1>5. /\ P \in Seq(Seq(Int \X Int)) /\ Q \in Seq(Int \X Int)
      /\ \A g \in begun : /\ Len(Polygons[g]) \in Nat /\ Len(Polygons[g]) <= Len(P)
                          /\ \A i \in 1..Len(Polygons[g]) : Polygons[g][i] = P[i]
                          /\ \A m \in 1..Len(PointsIn(g)) : PointsIn(g)[m] = Q[m]
  BY <1>2, <1>3
<1>. QED
  BY <1>1, <1>4, <1>5

\* Each polygon has as many corners as the one in the file, and takes them from
\* the places where the file's points have them.
Corners(polys, x, y, f) ==
  LET P == Polygons[f]
      Q == PointsIn(f)
  IN  \A i \in DOMAIN polys :
        /\ i \in 1..Len(P)
        /\ polys[i] = [j \in 1..Len(P[i]) |-> polys[i][j]]
        /\ \A j \in 1..Len(P[i]) : \E m \in 1..Len(Q) :
             Q[m] = P[i][j] /\ polys[i][j] = <<Axis(x, m, 1), Axis(y, m, 2)>>

LEMMA IdleCorners ==
  ASSUME PolygonInv, SourceInv, pc = "idle", NEW f, Widest(f),
         \A i \in DOMAIN getTuples(blocks, NumColumn, <<>>) :
           getTuples(blocks, NumColumn, <<>>)[i] # Zero
  PROVE  Corners(getPolygons(blocks), getTuples(blocks, XColumn, <<>>),
                 getTuples(blocks, YColumn, <<>>), f)
<1>. DEFINE num == getTuples(blocks, NumColumn, <<>>)
            x == getTuples(blocks, XColumn, <<>>)
            y == getTuples(blocks, YColumn, <<>>)
            counts == [i \in DOMAIN num |-> NumPoints(num[i])]
            P == Polygons[f]
            Q == PointsIn(f)
            n == RowsOf(blocks, NumColumn)
            Sum(i) == Total(SubSeq(counts, 1, i - 1))
            Poly(i) == [j \in 1..counts[i] |-> <<Axis(x, Sum(i) + j, 1), Axis(y, Sum(i) + j, 2)>>]
            polys == getPolygons(blocks)
<1>1. polys = [i \in DOMAIN num |-> Poly(i)]
  BY DEF getPolygons, Axis
<1>2. /\ begun \subseteq Files /\ f \in Files
      /\ P \in Seq(Seq(Int \X Int)) /\ Q \in Seq(Int \X Int)
      /\ \A i \in 1..Len(P) : P[i] \in Seq(Int \X Int) /\ Len(P[i]) \in Nat
      /\ Len(P) \in Nat /\ Len(Q) \in Nat
      /\ \A g \in begun : /\ Len(Polygons[g]) \in Nat /\ Len(Polygons[g]) <= Len(P)
                          /\ \A i \in 1..Len(Polygons[g]) : Polygons[g][i] = P[i]
  BY WidestFile
<1>3. NumColumn \in Range(PolyColumns)
  <2>1. DOMAIN PolyColumns = 1..3 /\ PolyColumns[1] = NumColumn
    BY DEF PolyColumns
  <2>. QED BY <2>1 DEF Range
<1>. HIDE DEF num, x, y, P, Q, n
<1>4. /\ n \in Nat /\ DOMAIN num = 1..n
      /\ \A i \in 1..n : /\ num[i] # Zero /\ num[i].id = i - 1 /\ num[i].from \in begun
                         /\ i \in 1..Len(Polygons[num[i].from])
  <2>1. /\ n \in Nat /\ DOMAIN num = 1..n
        /\ \A i \in DOMAIN num : num[i] # Zero =>
             /\ num[i].id = i - 1
             /\ num[i].from \in begun /\ i \in 1..Count(num[i].from, NumColumn)
    BY <1>3, IdleCells DEF num, n
  <2>2. \A i \in DOMAIN num : num[i] # Zero
    BY DEF num
  <2>3. \A g : Count(g, NumColumn) = Len(Polygons[g])
    BY DEF Count
  <2>. QED BY <2>1, <2>2, <2>3
<1>5. \A i \in 1..n : i \in 1..Len(P) /\ NumPoints(num[i]) = Len(P[i])
  <2>. TAKE i \in 1..n
  <2>. DEFINE g == num[i].from
  <2>1. g \in begun /\ i \in 1..Len(Polygons[g]) /\ num[i] # Zero /\ num[i].id = i - 1
    BY <1>4
  <2>2. i \in 1..Len(P) /\ Polygons[g][i] = P[i]
    BY <1>2, <2>1
  <2>3. (i - 1) + 1 = i
    BY <1>4
  <2>. QED BY <2>1, <2>2, <2>3 DEF NumPoints
<1>6. n <= Len(P)
  <2>1. n = 0 \/ n \in 1..n
    BY <1>4
  <2>. QED BY <1>2, <1>4, <1>5, <2>1
<1>7. /\ Lengths(P) \in Seq(Nat) /\ Len(Lengths(P)) = Len(P)
      /\ \A i \in 1..Len(P) : Lengths(P)[i] = Len(P[i]) /\ Lengths(P)[i] \in Nat
  BY <1>2 DEF Lengths
<1>8. counts = [i \in 1..n |-> Lengths(P)[i]]
  BY <1>4, <1>5, <1>7
<1>9. counts \in Seq(Nat) /\ Len(counts) = n /\ \A i \in 1..n : counts[i] = Lengths(P)[i]
  <2>1. \A i \in 1..n : Lengths(P)[i] \in Nat
    BY <1>5, <1>7
  <2>. HIDE DEF counts
  <2>. QED BY <1>4, <1>8, <2>1
<1>. HIDE DEF counts
<1>10. PICK s \in [0..Len(P) -> Nat] : Sums(s, Lengths(P), Len(P))
  BY <1>2, <1>7, SumsExist
<1>11. Placed(Q, P, s, Len(P))
  BY <1>2, <1>10, FlattenPlaces DEF Q, PointsIn, P
<1>12. \A i \in 1..n : Sum(i) = s[i - 1]
  <2>. TAKE i \in 1..n
  <2>. DEFINE first == SubSeq(counts, 1, i - 1)
  <2>1. /\ i - 1 \in Nat /\ i - 1 <= Len(P) /\ first \in Seq(Nat) /\ Len(first) = i - 1
        /\ \A k \in 1..(i - 1) : first[k] = counts[k] /\ k \in 1..n
    BY <1>4, <1>6, <1>9
  <2>. HIDE DEF first
  <2>2. \A k \in 1..(i - 1) : k \in 1..Len(P) /\ first[k] = Lengths(P)[k]
    BY <1>5, <1>9, <2>1
  <2>3. Sums(s, first, i - 1)
    BY <2>2, <1>10 DEF Sums
  <2>4. Total(first) = s[i - 1]
    BY <2>1, <2>3, TotalIs
  <2>. QED BY <2>4 DEF first
<1>. HIDE DEF Sum
<1>13. ASSUME NEW i \in 1..n
       PROVE  /\ i \in 1..Len(P)
              /\ Poly(i) = [j \in 1..Len(P[i]) |-> Poly(i)[j]]
              /\ \A j \in 1..Len(P[i]) : \E m \in 1..Len(Q) :
                   Q[m] = P[i][j] /\ Poly(i)[j] = <<Axis(x, m, 1), Axis(y, m, 2)>>
  <2>1. i \in 1..Len(P) /\ counts[i] = Len(P[i]) /\ Sum(i) = s[i - 1]
    BY <1>5, <1>7, <1>9, <1>12
  <2>2. Poly(i) = [j \in 1..Len(P[i]) |->
                     <<Axis(x, s[i - 1] + j, 1), Axis(y, s[i - 1] + j, 2)>>]
    BY <2>1
  <2>3. \A j \in 1..Len(P[i]) : s[i - 1] + j \in 1..Len(Q) /\ Q[s[i - 1] + j] = P[i][j]
    BY <1>11, <2>1 DEF Placed
  <2>. HIDE DEF Poly
  <2>4. \A j \in 1..Len(P[i]) :
          Poly(i)[j] = <<Axis(x, s[i - 1] + j, 1), Axis(y, s[i - 1] + j, 2)>>
    BY <2>2
  <2>5. Poly(i) = [j \in 1..Len(P[i]) |-> Poly(i)[j]]
    BY <2>2
  <2>. QED BY <2>1, <2>3, <2>4, <2>5
<1>. HIDE DEF Poly, polys
<1>14. DOMAIN polys = 1..n /\ \A i \in 1..n : polys[i] = Poly(i)
  BY <1>1, <1>4
<1>15. \A i \in DOMAIN polys :
         /\ i \in 1..Len(P)
         /\ polys[i] = [j \in 1..Len(P[i]) |-> polys[i][j]]
         /\ \A j \in 1..Len(P[i]) : \E m \in 1..Len(Q) :
              Q[m] = P[i][j] /\ polys[i][j] = <<Axis(x, m, 1), Axis(y, m, 2)>>
  BY <1>13, <1>14
<1>16. Corners(polys, x, y, f)
  BY <1>15 DEF Corners, P, Q
<1>. QED
  BY <1>16 DEF polys, x, y

\* A coordinate that is there is the widest file's.
LEMMA AxisIs ==
  ASSUME PolygonInv, SourceInv, pc = "idle", NEW f, Widest(f), NEW c \in {XColumn, YColumn},
         NEW m \in 1..Len(PointsIn(f)), NEW axis,
         LET col == getTuples(blocks, c, <<>>) IN m \in DOMAIN col /\ col[m] # Zero
  PROVE  Axis(getTuples(blocks, c, <<>>), m, axis) = PointsIn(f)[m][axis]
<1>. DEFINE col == getTuples(blocks, c, <<>>)
            g == col[m].from
<1>1. c \in Range(PolyColumns) /\ c # NumColumn
  <2>1. /\ DOMAIN PolyColumns = 1..3
        /\ PolyColumns[2] = XColumn /\ PolyColumns[3] = YColumn
    BY DEF PolyColumns
  <2>. QED BY <2>1, PolygonAssumption DEF Range
<1>2. m \in DOMAIN col /\ col[m] # Zero
  OBVIOUS
<1>3. col[m].id = m - 1 /\ g \in begun /\ m \in 1..Count(g, c)
  BY <1>1, <1>2, IdleCells
<1>4. Count(g, c) = Len(PointsIn(g))
  BY <1>1 DEF Count
<1>5. PointsIn(g)[m] = PointsIn(f)[m]
  BY <1>3, <1>4, WidestFile
<1>6. (m - 1) + 1 = m
  <2>1. Len(PointsIn(f)) \in Nat
    BY WidestFile
  <2>. QED BY <2>1
<1>. QED
  BY <1>2, <1>3, <1>5, <1>6 DEF Axis, Coordinate

\* Polygon by polygon, the points of the file are at the sums of the counts.
LEMMA IdlePolygons ==
  ASSUME PolygonInv, SourceInv, pc = "idle", torn = {}, NEW f, Fullest(f)
  PROVE  getPolygons(blocks) = Polygons[f]
<1>. DEFINE num == getTuples(blocks, NumColumn, <<>>)
            x == getTuples(blocks, XColumn, <<>>)
            y == getTuples(blocks, YColumn, <<>>)
            P == Polygons[f]
            Q == PointsIn(f)
            polys == getPolygons(blocks)
<1>1. Widest(f)
  BY DEF Fullest, Widest
<1>2. /\ P \in Seq(Seq(Int \X Int)) /\ Q \in Seq(Int \X Int) /\ Len(P) \in Nat
      /\ \A i \in 1..Len(P) : P[i] \in Seq(Int \X Int)
  BY <1>1, WidestFile
<1>3. /\ NumColumn \in Range(PolyColumns) /\ XColumn \in Range(PolyColumns)
      /\ YColumn \in Range(PolyColumns)
      /\ XColumn # NumColumn /\ YColumn # NumColumn
  <2>1. /\ DOMAIN PolyColumns = 1..3
        /\ PolyColumns[1] = NumColumn /\ PolyColumns[2] = XColumn /\ PolyColumns[3] = YColumn
    BY DEF PolyColumns
  <2>. QED BY <2>1, PolygonAssumption DEF Range
<1>4. /\ Count(f, NumColumn) = Len(P)
      /\ Count(f, XColumn) = Len(Q) /\ Count(f, YColumn) = Len(Q)
  BY <1>3 DEF Count
<1>5. DOMAIN num = 1..Len(P) /\ \A i \in DOMAIN num : num[i] # Zero
  <2>1. RowsOf(blocks, NumColumn) = Count(f, NumColumn)
    BY <1>3, IdleRows
  <2>. QED BY <1>3, <1>4, <2>1, IdleCells
<1>6. DOMAIN x = 1..Len(Q) /\ \A i \in DOMAIN x : x[i] # Zero
  <2>1. RowsOf(blocks, XColumn) = Count(f, XColumn)
    BY <1>3, IdleRows
  <2>. QED BY <1>3, <1>4, <2>1, IdleCells
<1>7. DOMAIN y = 1..Len(Q) /\ \A i \in DOMAIN y : y[i] # Zero
  <2>1. RowsOf(blocks, YColumn) = Count(f, YColumn)
    BY <1>3, IdleRows
  <2>. QED BY <1>3, <1>4, <2>1, IdleCells
<1>8. \A m \in 1..Len(Q) : Axis(x, m, 1) = Q[m][1] /\ Axis(y, m, 2) = Q[m][2]
  BY <1>1, <1>6, <1>7, AxisIs
<1>9. polys = [i \in 1..Len(P) |-> polys[i]]
  BY <1>5 DEF getPolygons
<1>10. \A i \in DOMAIN polys :
         /\ polys[i] = [j \in 1..Len(P[i]) |-> polys[i][j]]
         /\ \A j \in 1..Len(P[i]) : \E m \in 1..Len(Q) :
              Q[m] = P[i][j] /\ polys[i][j] = <<Axis(x, m, 1), Axis(y, m, 2)>>
  <2>1. Corners(polys, x, y, f)
    BY <1>1, <1>5, IdleCorners
  <2>. HIDE DEF polys, x, y
  <2>. QED BY <2>1 DEF Corners
<1>. HIDE DEF polys, P, Q, x, y
<1>11. DOMAIN polys = 1..Len(P)
  BY <1>9
<1>12. ASSUME NEW i \in 1..Len(P) PROVE polys[i] = P[i]
  <2>1. polys[i] = [j \in 1..Len(P[i]) |-> polys[i][j]]
    BY <1>10, <1>11
  <2>2. \A j \in 1..Len(P[i]) : polys[i][j] = P[i][j]
    <3>. TAKE j \in 1..Len(P[i])
    <3>1. PICK m \in 1..Len(Q) : Q[m] = P[i][j] /\ polys[i][j] = <<Axis(x, m, 1), Axis(y, m, 2)>>
      BY <1>10, <1>11
    <3>2. Axis(x, m, 1) = Q[m][1] /\ Axis(y, m, 2) = Q[m][2]
      BY <1>8
    <3>3. polys[i][j] = <<Q[m][1], Q[m][2]>>
      BY <3>1, <3>2
    <3>4. \A p \in Int \X Int : <<p[1], p[2]>> = p
      OBVIOUS
    <3>5. Q[m] \in Int \X Int
      BY <1>2
    <3>. QED BY <3>1, <3>3, <3>4, <3>5
  <2>3. P[i] = [j \in 1..Len(P[i]) |-> P[i][j]]
    BY <1>2
  <2>. QED BY <2>1, <2>2, <2>3
<1>13. P = [i \in 1..Len(P) |-> P[i]]
  BY <1>2
<1>14. [i \in 1..Len(P) |-> polys[i]] = [i \in 1..Len(P) |-> P[i]]
  BY <1>12
<1>15. polys = P
  BY <1>9, <1>13, <1>14
<1>. QED
  BY <1>15 DEF polys, P

\* The polygons read back are those of the fullest file loaded, corner by
\* corner, whichever of the three columns a death left without their last
\* blocks, or with blocks of another load: what every cell holds is of a file
\* whose polygons the fullest one has at the same places.
THEOREM PolygonsComeBack == PolygonSpec => []PolygonsAsLoaded
<1>1. PolygonInv /\ SourceInv => PolygonsAsLoaded
  <2>. SUFFICES ASSUME PolygonInv, SourceInv, pc = "idle", torn = {}, begun # {},
                       Longest(begun) \in loaded
                PROVE  getPolygons(blocks) = Polygons[Longest(begun)]
    BY DEF PolygonsAsLoaded
  <2>1. Fullest(Longest(begun))
    <3>1. \E f \in begun : \A g \in begun : IsPrefix(Polygons[g], Polygons[f])
      BY DEF SourceInv
    <3>2. /\ Longest(begun) \in begun
          /\ \A g \in begun : IsPrefix(Polygons[g], Polygons[Longest(begun)])
      BY <3>1 DEF Longest
    <3>. QED BY <3>2 DEF Fullest
  <2>. QED BY <2>1, IdlePolygons
<1>. QED
  BY <1>1, PolygonInvariance, SourceInvariance, PTL

\* A coordinate is the widest file's at that place, or not there.
LEMMA AxisIsOrUnread ==
  ASSUME PolygonInv, SourceInv, pc = "idle", NEW f, Widest(f), NEW c \in {XColumn, YColumn},
         NEW m \in 1..Len(PointsIn(f)), NEW axis
  PROVE  Axis(getTuples(blocks, c, <<>>), m, axis) \in {Unread, PointsIn(f)[m][axis]}
<1>. DEFINE col == getTuples(blocks, c, <<>>)
<1>1. CASE m \in DOMAIN col /\ col[m] # Zero
  BY <1>1, AxisIs
<1>2. CASE ~(m \in DOMAIN col /\ col[m] # Zero)
  BY <1>2 DEF Axis, Coordinate
<1>. QED
  BY <1>1, <1>2

\* Whatever a death left of a load, no polygon that is read has another one's
\* corners, or its own at other places: the counts that are there are those of
\* the fullest file's first polygons, whose corners begin at their sums in the
\* other two columns, too, however far these go.
THEOREM PolygonsUnmixed == PolygonSpec => []PolygonsNeverMixed
<1>1. PolygonInv /\ SourceInv => PolygonsNeverMixed
  <2>. DEFINE num == getTuples(blocks, NumColumn, <<>>)
              x == getTuples(blocks, XColumn, <<>>)
              y == getTuples(blocks, YColumn, <<>>)
              polys == getPolygons(blocks)
              f == Longest(begun)
              P == Polygons[f]
              Q == PointsIn(f)
  <2>. SUFFICES ASSUME PolygonInv, SourceInv, pc = "idle", torn = {}, begun # {},
                       NEW i \in DOMAIN polys
                PROVE  /\ i \in DOMAIN P /\ Len(polys[i]) = Len(P[i])
                       /\ \A j \in DOMAIN polys[i] : \A axis \in 1..2 :
                            polys[i][j][axis] \in {Unread, P[i][j][axis]}
    BY DEF PolygonsNeverMixed
  <2>1. Widest(f)
    <3>1. \E g \in begun : \A h \in begun : IsPrefix(Polygons[h], Polygons[g])
      BY DEF SourceInv
    <3>. QED BY <3>1 DEF Longest, Widest
  <2>. HIDE DEF f
  <2>2. /\ Len(P) \in Nat /\ DOMAIN P = 1..Len(P)
        /\ \A k \in 1..Len(P) : Len(P[k]) \in Nat
    BY <2>1, WidestFile
  <2>3. \A k \in DOMAIN num : num[k] # Zero
    <3>1. NumColumn \in Range(PolyColumns)
      <4>1. DOMAIN PolyColumns = 1..3 /\ PolyColumns[1] = NumColumn
        BY DEF PolyColumns
      <4>. QED BY <4>1 DEF Range
    <3>. QED BY <3>1, IdleCells
  <2>4. Corners(polys, x, y, f)
    BY <2>1, <2>3, IdleCorners
  <2>5. \A m \in 1..Len(Q) : \A axis \in 1..2 :
          /\ Axis(x, m, axis) \in {Unread, Q[m][axis]}
          /\ Axis(y, m, axis) \in {Unread, Q[m][axis]}
    BY <2>1, AxisIsOrUnread
  <2>. HIDE DEF P, Q, polys, x, y, num
  <2>6. /\ i \in 1..Len(P)
        /\ polys[i] = [j \in 1..Len(P[i]) |-> polys[i][j]]
        /\ \A j \in 1..Len(P[i]) : \E m \in 1..Len(Q) :
             Q[m] = P[i][j] /\ polys[i][j] = <<Axis(x, m, 1), Axis(y, m, 2)>>
    BY <2>4 DEF Corners, P, Q
  <2>7. DOMAIN polys[i] = 1..Len(P[i]) /\ Len(polys[i]) = Len(P[i])
    <3>. DEFINE p == polys[i]
                n == Len(P[i])
    <3>1. p = [j \in 1..n |-> p[j]] /\ n \in Nat
      BY <2>2, <2>6
    <3>. HIDE DEF p, n
    <3>. QED BY <3>1 DEF p, n
  <2>8. ASSUME NEW j \in DOMAIN polys[i], NEW axis \in 1..2
        PROVE  polys[i][j][axis] \in {Unread, P[i][j][axis]}
    <3>1. PICK m \in 1..Len(Q) :
            Q[m] = P[i][j] /\ polys[i][j] = <<Axis(x, m, 1), Axis(y, m, 2)>>
      BY <2>6, <2>7
    <3>2. CASE axis = 1
      BY <2>5, <3>1, <3>2
    <3>3. CASE axis = 2
      BY <2>5, <3>1, <3>3
    <3>. QED BY <3>2, <3>3
  <2>. QED BY <2>2, <2>6, <2>7, <2>8
<1>. QED
  BY <1>1, PolygonInvariance, SourceInvariance, PTL

-----------------------------------------------------------------------------
(* Which points a polygon goes around. *)

\* An edge from lo up to hi crosses the level of p at p or left of it.
LeftEdge(lo, hi, p) ==
  /\ lo[2] <= p[2] /\ p[2] < hi[2]
  /\ lo[1] * (hi[2] - lo[2]) + (hi[1] - lo[1]) * (p[2] - lo[2]) <= p[1] * (hi[2] - lo[2])

\* How far right of x the line through v and w is at height y, times the
\* difference of their heights.
Side(v, w, x, y) == (v[1] - x) * (w[2] - v[2]) + (w[1] - v[1]) * (y - v[2])

LEMMA SideMoves ==
  ASSUME NEW v \in Int \X Int, NEW w \in Int \X Int, NEW x \in Int, NEW y \in Int,
         NEW c \in Int, NEW z \in Int
  PROVE  /\ Side(v, w, x, y) \in Int
         /\ Side(v, w, x, z) = Side(v, w, x, y) + (w[1] - v[1]) * (z - y)
         /\ Side(v, w, c, y) = Side(v, w, x, y) + (x - c) * (w[2] - v[2])
         /\ Side(v, w, x, v[2]) = (v[1] - x) * (w[2] - v[2])
         /\ Side(v, w, x, w[2]) = (w[1] - x) * (w[2] - v[2])
<1>. DEFINE v1 == v[1]
            v2 == v[2]
            w1 == w[1]
            w2 == w[2]
<1>1. v1 \in Int /\ v2 \in Int /\ w1 \in Int /\ w2 \in Int
  OBVIOUS
<1>2. ASSUME NEW a \in Int, NEW b \in Int
      PROVE  Side(v, w, a, b) = (v1 - a) * (w2 - v2) + (w1 - v1) * (b - v2)
  BY DEF Side
<1>. HIDE DEF v1, v2, w1, w2
<1>3. /\ (v1 - x) * (w2 - v2) + (w1 - v1) * (y - v2) \in Int
      /\ (v1 - x) * (w2 - v2) + (w1 - v1) * (z - v2)
           = (v1 - x) * (w2 - v2) + (w1 - v1) * (y - v2) + (w1 - v1) * (z - y)
      /\ (v1 - c) * (w2 - v2) + (w1 - v1) * (y - v2)
           = (v1 - x) * (w2 - v2) + (w1 - v1) * (y - v2) + (x - c) * (w2 - v2)
      /\ (v1 - x) * (w2 - v2) + (w1 - v1) * (v2 - v2) = (v1 - x) * (w2 - v2)
      /\ (v1 - x) * (w2 - v2) + (w1 - v1) * (w2 - v2) = (w1 - x) * (w2 - v2)
  BY <1>1
<1>4. /\ Side(v, w, x, v2) = (v1 - x) * (w2 - v2) + (w1 - v1) * (v2 - v2)
      /\ Side(v, w, x, w2) = (v1 - x) * (w2 - v2) + (w1 - v1) * (w2 - v2)
  BY <1>1, <1>2
<1>. QED
  BY <1>2, <1>3, <1>4 DEF v1, v2, w1, w2

LEMMA LeftIs ==
  ASSUME NEW v \in Int \X Int, NEW w \in Int \X Int, NEW p \in Int \X Int
  PROVE  LeftEdge(v, w, p) <=> v[2] <= p[2] /\ p[2] < w[2] /\ Side(v, w, p[1], p[2]) <= 0
<1>. DEFINE v1 == v[1]
            v2 == v[2]
            w1 == w[1]
            w2 == w[2]
            p1 == p[1]
            p2 == p[2]
<1>1. v1 \in Int /\ v2 \in Int /\ w1 \in Int /\ w2 \in Int /\ p1 \in Int /\ p2 \in Int
  OBVIOUS
<1>2. /\ Side(v, w, p1, p2) = (v1 - p1) * (w2 - v2) + (w1 - v1) * (p2 - v2)
      /\ LeftEdge(v, w, p) <=> /\ v2 <= p2 /\ p2 < w2
                               /\ v1 * (w2 - v2) + (w1 - v1) * (p2 - v2) <= p1 * (w2 - v2)
  BY DEF Side, LeftEdge
<1>. HIDE DEF v1, v2, w1, w2, p1, p2
<1>3. (v1 - p1) * (w2 - v2) + (w1 - v1) * (p2 - v2) <= 0
        <=> v1 * (w2 - v2) + (w1 - v1) * (p2 - v2) <= p1 * (w2 - v2)
  BY <1>1
<1>4. Side(v, w, p1, p2) <= 0
        <=> v1 * (w2 - v2) + (w1 - v1) * (p2 - v2) <= p1 * (w2 - v2)
  BY <1>2, <1>3
<1>. QED
  BY <1>2, <1>4 DEF v1, v2, w1, w2, p1, p2

LEMMA Signs ==
  ASSUME NEW a \in Int, NEW b \in Int
  PROVE  /\ a * b \in Int /\ a * b = b * a
         /\ a > 0 /\ b > 0 => a * b > 0
         /\ a >= 0 /\ b >= 0 => a * b >= 0
         /\ a <= 0 /\ b >= 0 => a * b <= 0
         /\ a < 0 /\ b > 0 => a * b < 0
         /\ a <= 0 /\ b <= 0 => a * b >= 0
OBVIOUS

\* The ray that goes up from o, the one that goes down from it, and the one
\* that goes left, hit an edge when the line is on both sides of them.
LEMMA UpDownHits ==
  ASSUME NEW a \in Int \X Int, NEW b \in Int \X Int, NEW l \in Int \X Int, NEW r \in Int \X Int,
         l[2] <= r[2],
         NEW o \in {l, r},
         \/ /\ a[1] <= o[1] /\ o[1] <= b[1] /\ a[1] < b[1]
            /\ Side(a, b, o[1], l[2]) <= 0 /\ Side(a, b, o[1], r[2]) >= 0
         \/ /\ b[1] <= o[1] /\ o[1] <= a[1] /\ b[1] < a[1]
            /\ Side(a, b, o[1], l[2]) >= 0 /\ Side(a, b, o[1], r[2]) <= 0
  PROVE  lineRectIntersection(a, b, l, r)
<1>. DEFINE a1 == a[1]
            a2 == a[2]
            b1 == b[1]
            b2 == b[2]
            l1 == l[1]
            l2 == l[2]
            r1 == r[1]
            r2 == r[2]
<1>1. /\ a1 \in Int /\ a2 \in Int /\ b1 \in Int /\ b2 \in Int
      /\ l1 \in Int /\ l2 \in Int /\ r1 \in Int /\ r2 \in Int
  OBVIOUS
<1>2. ASSUME o = l PROVE lineRectIntersection(a, b, l, r)
  <2>. DEFINE up == rayToLineSegmentIntersection(l, <<0, 1>>, a, b)
              d == a1 - b1
              sign == IF d < 0 THEN -1 ELSE 1
              q == sign * Side(a, b, l1, l2)
              s == sign * (a1 - l1)
  <2>1. Side(a, b, l1, l2) = (a1 - l1) * (b2 - a2) + (b1 - a1) * (l2 - a2)
    BY DEF Side
  <2>. HIDE DEF a1, a2, b1, b2, l1, l2
  <2>2. /\ 0 * (b2 - a2) - 1 * (b1 - a1) = d
        /\ (l2 - a2) * (b1 - a1) - (l1 - a1) * (b2 - a2) = Side(a, b, l1, l2)
        /\ (l2 - a2) * 0 - (l1 - a1) * 1 = a1 - l1
    BY <1>1, <2>1
  <2>3. /\ (up.hit <=> d # 0 /\ q >= 0 /\ s >= 0 /\ s <= sign * d)
        /\ up.y = l2 * (sign * d) + q * 1 /\ up.den = sign * d
    BY <2>2 DEF rayToLineSegmentIntersection, a1, a2, b1, b2, l1, l2
  <2>4. /\ Side(a, b, l1, l2) \in Int /\ Side(a, b, l1, r2) \in Int
        /\ Side(a, b, l1, r2) = Side(a, b, l1, l2) + (b1 - a1) * (r2 - l2)
    BY SideMoves DEF a1, b1, l1, l2, r2
  <2>. DEFINE w == (b1 - a1) * (r2 - l2)
  <2>5. /\ w \in Int
        /\ l2 * (b1 - a1) + w = r2 * (b1 - a1) /\ l2 * (a1 - b1) - w = r2 * (a1 - b1)
    BY <1>1 DEF l2
  <2>. DEFINE u == Side(a, b, l1, l2)
              v == Side(a, b, l1, r2)
  <2>6. u \in Int /\ v \in Int /\ v = u + w
    BY <2>4
  <2>. HIDE DEF r2, w, u, v
  <2>7. \/ a1 <= l1 /\ l1 <= b1 /\ a1 < b1 /\ u <= 0 /\ v >= 0
        \/ b1 <= l1 /\ l1 <= a1 /\ b1 < a1 /\ u >= 0 /\ v <= 0
    BY <1>2 DEF a1, b1, l1, l2, r2, u, v
  <2>8. CASE a1 <= l1 /\ l1 <= b1 /\ a1 < b1 /\ u <= 0 /\ v >= 0
    <3>1. d # 0 /\ sign = -1 /\ sign * d = b1 - a1 /\ q = -u /\ s = l1 - a1
      BY <1>1, <2>6, <2>8 DEF u
    <3>2. up.hit
      <4>. HIDE DEF up, d, sign, q, s
      <4>. QED BY <1>1, <2>3, <2>6, <2>8, <3>1
    <3>3. up.y <= r2 * up.den
      <4>1. up.den = b1 - a1 /\ up.y = l2 * (b1 - a1) + (-u)
        <5>. HIDE DEF up, d, sign, q
        <5>. QED BY <1>1, <2>3, <2>6, <3>1
      <4>2. r2 * (b1 - a1) \in Int /\ l2 * (b1 - a1) \in Int
        BY <1>1
      <4>. HIDE DEF up
      <4>. QED BY <2>5, <2>6, <2>8, <4>1, <4>2
    <3>. QED BY <3>2, <3>3 DEF lineRectIntersection, r2
  <2>9. CASE b1 <= l1 /\ l1 <= a1 /\ b1 < a1 /\ u >= 0 /\ v <= 0
    <3>1. d # 0 /\ sign = 1 /\ sign * d = a1 - b1 /\ q = u /\ s = a1 - l1
      BY <1>1, <2>6, <2>9 DEF u
    <3>2. up.hit
      <4>. HIDE DEF up, d, sign, q, s
      <4>. QED BY <1>1, <2>3, <2>6, <2>9, <3>1
    <3>3. up.y <= r2 * up.den
      <4>1. up.den = a1 - b1 /\ up.y = l2 * (a1 - b1) + u
        <5>. HIDE DEF up, d, sign, q
        <5>. QED BY <1>1, <2>3, <2>6, <3>1
      <4>2. r2 * (a1 - b1) \in Int /\ l2 * (a1 - b1) \in Int
        BY <1>1
      <4>. HIDE DEF up
      <4>. QED BY <2>5, <2>6, <2>9, <4>1, <4>2
    <3>. QED BY <3>2, <3>3 DEF lineRectIntersection, r2
  <2>. QED BY <2>7, <2>8, <2>9
<1>3. ASSUME o = r PROVE lineRectIntersection(a, b, l, r)
  <2>. DEFINE down == rayToLineSegmentIntersection(r, <<0, -1>>, a, b)
              d == b1 - a1
              sign == IF d < 0 THEN -1 ELSE 1
              q == sign * Side(a, b, r1, r2)
              s == sign * (r1 - a1)
  <2>1. Side(a, b, r1, r2) = (a1 - r1) * (b2 - a2) + (b1 - a1) * (r2 - a2)
    BY DEF Side
  <2>. HIDE DEF a1, a2, b1, b2, r1, r2
  <2>2. /\ 0 * (b2 - a2) - (-1) * (b1 - a1) = d
        /\ (r2 - a2) * (b1 - a1) - (r1 - a1) * (b2 - a2) = Side(a, b, r1, r2)
        /\ (r2 - a2) * 0 - (r1 - a1) * (-1) = r1 - a1
    BY <1>1, <2>1
  <2>3. /\ (down.hit <=> d # 0 /\ q >= 0 /\ s >= 0 /\ s <= sign * d)
        /\ down.y = r2 * (sign * d) + q * (-1) /\ down.den = sign * d
    BY <2>2 DEF rayToLineSegmentIntersection, a1, a2, b1, b2, r1, r2
  <2>4. /\ Side(a, b, r1, l2) \in Int /\ Side(a, b, r1, r2) \in Int
        /\ Side(a, b, r1, r2) = Side(a, b, r1, l2) + (b1 - a1) * (r2 - l2)
    BY SideMoves DEF a1, b1, r1, l2, r2
  <2>. DEFINE w == (b1 - a1) * (r2 - l2)
  <2>5. /\ w \in Int
        /\ l2 * (b1 - a1) + w = r2 * (b1 - a1) /\ l2 * (a1 - b1) - w = r2 * (a1 - b1)
    BY <1>1 DEF l2
  <2>. DEFINE u == Side(a, b, r1, l2)
              v == Side(a, b, r1, r2)
  <2>6. u \in Int /\ v \in Int /\ v = u + w
    BY <2>4
  <2>. HIDE DEF l2, w, u, v
  <2>7. \/ a1 <= r1 /\ r1 <= b1 /\ a1 < b1 /\ u <= 0 /\ v >= 0
        \/ b1 <= r1 /\ r1 <= a1 /\ b1 < a1 /\ u >= 0 /\ v <= 0
    BY <1>3 DEF a1, b1, r1, l2, r2, u, v
  <2>8. CASE a1 <= r1 /\ r1 <= b1 /\ a1 < b1 /\ u <= 0 /\ v >= 0
    <3>1. d # 0 /\ sign = 1 /\ sign * d = b1 - a1 /\ q = v /\ s = r1 - a1
      BY <1>1, <2>6, <2>8 DEF v
    <3>2. down.hit
      <4>. HIDE DEF down, d, sign, q, s
      <4>. QED BY <1>1, <2>3, <2>6, <2>8, <3>1
    <3>3. down.y >= l2 * down.den
      <4>1. down.den = b1 - a1 /\ down.y = r2 * (b1 - a1) - v
        <5>. HIDE DEF down, d, sign, q
        <5>. QED BY <1>1, <2>3, <2>6, <3>1
      <4>2. r2 * (b1 - a1) \in Int /\ l2 * (b1 - a1) \in Int
        BY <1>1
      <4>. HIDE DEF down
      <4>. QED BY <2>5, <2>6, <2>8, <4>1, <4>2
    <3>. QED BY <3>2, <3>3 DEF lineRectIntersection, l2
  <2>9. CASE b1 <= r1 /\ r1 <= a1 /\ b1 < a1 /\ u >= 0 /\ v <= 0
    <3>1. d # 0 /\ sign = -1 /\ sign * d = a1 - b1 /\ q = -v /\ s = a1 - r1
      BY <1>1, <2>6, <2>9 DEF v
    <3>2. down.hit
      <4>. HIDE DEF down, d, sign, q, s
      <4>. QED BY <1>1, <2>3, <2>6, <2>9, <3>1
    <3>3. down.y >= l2 * down.den
      <4>1. down.den = a1 - b1 /\ down.y = r2 * (a1 - b1) + v
        <5>. HIDE DEF down, d, sign, q
        <5>. QED BY <1>1, <2>3, <2>6, <3>1
      <4>2. r2 * (a1 - b1) \in Int /\ l2 * (a1 - b1) \in Int
        BY <1>1
      <4>. HIDE DEF down
      <4>. QED BY <2>5, <2>6, <2>9, <4>1, <4>2
    <3>. QED BY <3>2, <3>3 DEF lineRectIntersection, l2
  <2>. QED BY <2>7, <2>8, <2>9
<1>. QED
  BY <1>2, <1>3

\* The ray that goes left from r meets an edge that is high and low of it and
\* between the sides there.
LEMMA LeftHits ==
  ASSUME NEW a \in Int \X Int, NEW b \in Int \X Int, NEW l \in Int \X Int, NEW r \in Int \X Int,
         \/ /\ a[2] <= r[2] /\ r[2] <= b[2] /\ a[2] < b[2]
            /\ Side(a, b, r[1], r[2]) <= 0 /\ Side(a, b, l[1], r[2]) >= 0
         \/ /\ b[2] <= r[2] /\ r[2] <= a[2] /\ b[2] < a[2]
            /\ Side(a, b, r[1], r[2]) >= 0 /\ Side(a, b, l[1], r[2]) <= 0
  PROVE  lineRectIntersection(a, b, l, r)
<1>. DEFINE a1 == a[1]
            a2 == a[2]
            b1 == b[1]
            b2 == b[2]
            l1 == l[1]
            r1 == r[1]
            r2 == r[2]
<1>1. /\ a1 \in Int /\ a2 \in Int /\ b1 \in Int /\ b2 \in Int
      /\ l1 \in Int /\ r1 \in Int /\ r2 \in Int
  OBVIOUS
<1>. DEFINE left == rayToLineSegmentIntersection(r, <<-1, 0>>, a, b)
            d == a2 - b2
            sign == IF d < 0 THEN -1 ELSE 1
            q == sign * Side(a, b, r1, r2)
            s == sign * (a2 - r2)
<1>2. Side(a, b, r1, r2) = (a1 - r1) * (b2 - a2) + (b1 - a1) * (r2 - a2)
  BY DEF Side
<1>. HIDE DEF a1, a2, b1, b2, r1, r2
<1>3. /\ (-1) * (b2 - a2) - 0 * (b1 - a1) = d
      /\ (r2 - a2) * (b1 - a1) - (r1 - a1) * (b2 - a2) = Side(a, b, r1, r2)
      /\ (r2 - a2) * (-1) - (r1 - a1) * 0 = a2 - r2
  BY <1>1, <1>2
<1>4. /\ (left.hit <=> d # 0 /\ q >= 0 /\ s >= 0 /\ s <= sign * d)
      /\ left.x = r1 * (sign * d) + q * (-1) /\ left.den = sign * d
  BY <1>3 DEF rayToLineSegmentIntersection, a1, a2, b1, b2, r1, r2
<1>5. /\ Side(a, b, r1, r2) \in Int /\ Side(a, b, l1, r2) \in Int
      /\ Side(a, b, l1, r2) = Side(a, b, r1, r2) + (r1 - l1) * (b2 - a2)
  BY SideMoves DEF a2, b2, l1, r1, r2
<1>. DEFINE w == (r1 - l1) * (b2 - a2)
<1>6. /\ w \in Int
      /\ l1 * (b2 - a2) + w = r1 * (b2 - a2) /\ l1 * (a2 - b2) - w = r1 * (a2 - b2)
  BY <1>1 DEF l1
<1>. DEFINE u == Side(a, b, r1, r2)
            v == Side(a, b, l1, r2)
<1>7. u \in Int /\ v \in Int /\ v = u + w
  BY <1>5
<1>. HIDE DEF l1, w, u, v
<1>8. \/ a2 <= r2 /\ r2 <= b2 /\ a2 < b2 /\ u <= 0 /\ v >= 0
      \/ b2 <= r2 /\ r2 <= a2 /\ b2 < a2 /\ u >= 0 /\ v <= 0
  BY DEF a2, b2, l1, r1, r2, u, v
<1>9. CASE a2 <= r2 /\ r2 <= b2 /\ a2 < b2 /\ u <= 0 /\ v >= 0
  <2>1. d # 0 /\ sign = -1 /\ sign * d = b2 - a2 /\ q = -u /\ s = r2 - a2
    BY <1>1, <1>7, <1>9 DEF u
  <2>2. left.hit
    <3>. HIDE DEF left, d, sign, q, s
    <3>. QED BY <1>1, <1>4, <1>7, <1>9, <2>1
  <2>3. left.x >= l1 * left.den
    <3>1. left.den = b2 - a2 /\ left.x = r1 * (b2 - a2) + u
      <4>. HIDE DEF left, d, sign, q
      <4>. QED BY <1>1, <1>4, <1>7, <2>1
    <3>2. r1 * (b2 - a2) \in Int /\ l1 * (b2 - a2) \in Int
      BY <1>1
    <3>. HIDE DEF left
    <3>. QED BY <1>6, <1>7, <1>9, <3>1, <3>2
  <2>. QED BY <2>2, <2>3 DEF lineRectIntersection, l1
<1>10. CASE b2 <= r2 /\ r2 <= a2 /\ b2 < a2 /\ u >= 0 /\ v <= 0
  <2>1. d # 0 /\ sign = 1 /\ sign * d = a2 - b2 /\ q = u /\ s = a2 - r2
    BY <1>1, <1>7, <1>10 DEF u
  <2>2. left.hit
    <3>. HIDE DEF left, d, sign, q, s
    <3>. QED BY <1>1, <1>4, <1>7, <1>10, <2>1
  <2>3. left.x >= l1 * left.den
    <3>1. left.den = a2 - b2 /\ left.x = r1 * (a2 - b2) - u
      <4>. HIDE DEF left, d, sign, q
      <4>. QED BY <1>1, <1>4, <1>7, <2>1
    <3>2. r1 * (a2 - b2) \in Int /\ l1 * (a2 - b2) \in Int
      BY <1>1
    <3>. HIDE DEF left
    <3>. QED BY <1>6, <1>7, <1>10, <3>1, <3>2
  <2>. QED BY <2>2, <2>3 DEF lineRectIntersection, l1
<1>. QED
  BY <1>8, <1>9, <1>10

\* Backwards, right is left.
LEMMA SideTurned ==
  ASSUME NEW a \in Int \X Int, NEW b \in Int \X Int, NEW x \in Int, NEW y \in Int
  PROVE  Side(b, a, x, y) = -Side(a, b, x, y)
<1>. DEFINE a1 == a[1]
            a2 == a[2]
            b1 == b[1]
            b2 == b[2]
<1>1. a1 \in Int /\ a2 \in Int /\ b1 \in Int /\ b2 \in Int
  OBVIOUS
<1>2. /\ Side(a, b, x, y) = (a1 - x) * (b2 - a2) + (b1 - a1) * (y - a2)
      /\ Side(b, a, x, y) = (b1 - x) * (a2 - b2) + (a1 - b1) * (y - b2)
  BY DEF Side
<1>. HIDE DEF a1, a2, b1, b2
<1>3. (b1 - x) * (a2 - b2) + (a1 - b1) * (y - b2)
        = -((a1 - x) * (b2 - a2) + (b1 - a1) * (y - a2))
  BY <1>1
<1>. QED
  BY <1>2, <1>3

\* What lists a polygon in a cell for the sake of an edge.
Met(a, b, l, r) ==
  ComputeOutCode(a, l, r) \cap ComputeOutCode(b, l, r) = {} /\ lineRectIntersection(a, b, l, r)

LEMMA OutCodes ==
  ASSUME NEW a \in Int \X Int, NEW b \in Int \X Int, NEW l \in Int \X Int, NEW r \in Int \X Int
  PROVE  /\ ComputeOutCode(a, l, r) = {}
              <=> l[1] <= a[1] /\ a[1] <= r[1] /\ l[2] <= a[2] /\ a[2] <= r[2]
         /\ /\ l[1] <= a[1] \/ l[1] <= b[1]
            /\ a[1] <= r[1] \/ b[1] <= r[1]
            /\ l[2] <= a[2] \/ l[2] <= b[2]
            /\ a[2] <= r[2] \/ b[2] <= r[2]
            => ComputeOutCode(a, l, r) \cap ComputeOutCode(b, l, r) = {}
<1>1. ASSUME NEW p \in Int \X Int
      PROVE  /\ "LEFT" \in ComputeOutCode(p, l, r) <=> p[1] < l[1]
             /\ "RIGHT" \in ComputeOutCode(p, l, r) <=> p[1] > r[1]
             /\ "BOTTOM" \in ComputeOutCode(p, l, r) <=> p[2] < l[2]
             /\ "TOP" \in ComputeOutCode(p, l, r) <=> p[2] > r[2]
             /\ ComputeOutCode(p, l, r) \subseteq {"LEFT", "RIGHT", "BOTTOM", "TOP"}
  BY DEF ComputeOutCode
<1>2. /\ "LEFT" \in ComputeOutCode(a, l, r) <=> a[1] < l[1]
      /\ "RIGHT" \in ComputeOutCode(a, l, r) <=> a[1] > r[1]
      /\ "BOTTOM" \in ComputeOutCode(a, l, r) <=> a[2] < l[2]
      /\ "TOP" \in ComputeOutCode(a, l, r) <=> a[2] > r[2]
      /\ ComputeOutCode(a, l, r) \subseteq {"LEFT", "RIGHT", "BOTTOM", "TOP"}
  BY <1>1
<1>3. /\ "LEFT" \in ComputeOutCode(b, l, r) <=> b[1] < l[1]
      /\ "RIGHT" \in ComputeOutCode(b, l, r) <=> b[1] > r[1]
      /\ "BOTTOM" \in ComputeOutCode(b, l, r) <=> b[2] < l[2]
      /\ "TOP" \in ComputeOutCode(b, l, r) <=> b[2] > r[2]
  BY <1>1
<1>. QED
  BY <1>2, <1>3

\* An edge that is not met does not change from the left side's left to its
\* right at heights of the rectangle.
LEMMA KeepsSide ==
  ASSUME NEW lo \in Int \X Int, NEW hi \in Int \X Int, NEW l \in Int \X Int, NEW r \in Int \X Int,
         l[1] <= r[1], l[2] <= r[2], lo[2] < hi[2], ~Met(lo, hi, l, r) \/ ~Met(hi, lo, l, r),
         NEW y \in Int, NEW z \in Int,
         lo[2] <= y, y <= z, z <= hi[2], l[2] <= y, z <= r[2]
  PROVE  Side(lo, hi, l[1], y) <= 0 <=> Side(lo, hi, l[1], z) <= 0
<1>. DEFINE e == hi[1] - lo[1]
            d == hi[2] - lo[2]
            S(t) == Side(lo, hi, l[1], t)
<1>1. /\ l[1] \in Int /\ l[2] \in Int /\ r[1] \in Int /\ r[2] \in Int /\ lo[1] \in Int
      /\ lo[2] \in Int /\ hi[1] \in Int /\ hi[2] \in Int /\ e \in Int /\ d \in Int /\ d > 0
  OBVIOUS
<1>2. S(lo[2]) = (lo[1] - l[1]) * d /\ S(hi[2]) = (hi[1] - l[1]) * d /\ S(y) \in Int
  <2>1. /\ Side(lo, hi, l[1], lo[2]) = (lo[1] - l[1]) * (hi[2] - lo[2])
        /\ Side(lo, hi, l[1], hi[2]) = (hi[1] - l[1]) * (hi[2] - lo[2])
        /\ Side(lo, hi, l[1], y) \in Int
    BY <1>1, SideMoves
  <2>. QED BY <2>1
<1>3. \A t \in Int : S(t) = S(y) + e * (t - y)
  BY <1>1, SideMoves
<1>. HIDE DEF S
<1>4. ASSUME NEW s \in Int, NEW t \in Int, s <= t
      PROVE  /\ S(s) \in Int /\ S(t) \in Int
             /\ e >= 0 => S(s) <= S(t)
             /\ e <= 0 => S(s) >= S(t)
  <2>1. S(t) = S(s) + e * (t - s) /\ S(s) \in Int /\ S(t) \in Int
    <3>1. S(s) = S(y) + e * (s - y) /\ S(t) = S(y) + e * (t - y)
      BY <1>3
    <3>2. e * (t - y) = e * (s - y) + e * (t - s) /\ e * (s - y) \in Int /\ e * (t - s) \in Int
      BY <1>1
    <3>. QED BY <1>2, <3>1, <3>2
  <2>2. e * (t - s) \in Int /\ (e >= 0 => e * (t - s) >= 0) /\ (e <= 0 => e * (t - s) <= 0)
    BY <1>1, <1>4, Signs
  <2>. HIDE DEF e
  <2>. QED BY <1>1, <2>1, <2>2
<1>5. \/ S(y) <= 0 /\ S(z) <= 0
      \/ S(y) > 0 /\ S(z) > 0
      \/ S(y) <= 0 /\ S(z) > 0
      \/ S(y) > 0 /\ S(z) <= 0
  BY <1>4
<1>6. ~(S(y) <= 0 /\ S(z) > 0)
  <2>. SUFFICES ASSUME S(y) <= 0, S(z) > 0 PROVE FALSE
    OBVIOUS
  <2>1. e > 0
    BY <1>1, <1>4
  <2>2. S(l[2]) <= 0 /\ S(r[2]) >= 0 /\ S(lo[2]) <= 0 /\ S(hi[2]) > 0
    BY <1>1, <1>4, <2>1
  <2>3. lo[1] <= l[1] /\ hi[1] > l[1]
    <3>. DEFINE f == lo[1] - l[1]
                g == hi[1] - l[1]
    <3>1. f \in Int /\ g \in Int /\ f * d <= 0 /\ g * d > 0
      BY <1>1, <1>2, <2>2
    <3>2. f <= 0 /\ g > 0
      <4>. HIDE DEF f, g, d
      <4>. QED BY <1>1, <3>1, Signs
    <3>. QED BY <1>1, <3>2
  <2>4. /\ Side(lo, hi, l[1], l[2]) <= 0 /\ Side(lo, hi, l[1], r[2]) >= 0
        /\ Side(hi, lo, l[1], l[2]) >= 0 /\ Side(hi, lo, l[1], r[2]) <= 0
    BY <1>1, <2>2, <1>4, SideTurned DEF S
  <2>5. lineRectIntersection(lo, hi, l, r) /\ lineRectIntersection(hi, lo, l, r)
    BY <1>1, <2>3, <2>4, UpDownHits
  <2>6. /\ ComputeOutCode(lo, l, r) \cap ComputeOutCode(hi, l, r) = {}
        /\ ComputeOutCode(hi, l, r) \cap ComputeOutCode(lo, l, r) = {}
    <3>1. /\ l[1] <= hi[1] /\ lo[1] <= r[1] /\ l[2] <= hi[2] /\ lo[2] <= r[2]
      BY <1>1, <2>3
    <3>. QED BY <3>1, OutCodes
  <2>. QED BY <2>5, <2>6 DEF Met
<1>7. ~(S(y) > 0 /\ S(z) <= 0)
  <2>. SUFFICES ASSUME S(y) > 0, S(z) <= 0 PROVE FALSE
    OBVIOUS
  <2>1. e < 0
    BY <1>1, <1>4
  <2>2. S(l[2]) >= 0 /\ S(r[2]) <= 0 /\ S(lo[2]) > 0 /\ S(hi[2]) <= 0
    BY <1>1, <1>4, <2>1
  <2>3. lo[1] > l[1] /\ hi[1] <= l[1]
    <3>. DEFINE f == lo[1] - l[1]
                g == hi[1] - l[1]
    <3>1. f \in Int /\ g \in Int /\ f * d > 0 /\ g * d <= 0
      BY <1>1, <1>2, <2>2
    <3>2. f > 0 /\ g <= 0
      <4>. HIDE DEF f, g, d
      <4>. QED BY <1>1, <3>1, Signs
    <3>. QED BY <1>1, <3>2
  <2>4. /\ Side(lo, hi, l[1], l[2]) >= 0 /\ Side(lo, hi, l[1], r[2]) <= 0
        /\ Side(hi, lo, l[1], l[2]) <= 0 /\ Side(hi, lo, l[1], r[2]) >= 0
    BY <1>1, <2>2, <1>4, SideTurned DEF S
  <2>5. lineRectIntersection(lo, hi, l, r) /\ lineRectIntersection(hi, lo, l, r)
    BY <1>1, <2>3, <2>4, UpDownHits
  <2>6. /\ ComputeOutCode(lo, l, r) \cap ComputeOutCode(hi, l, r) = {}
        /\ ComputeOutCode(hi, l, r) \cap ComputeOutCode(lo, l, r) = {}
    <3>1. /\ l[1] <= lo[1] /\ hi[1] <= r[1] /\ l[2] <= hi[2] /\ lo[2] <= r[2]
      BY <1>1, <2>3
    <3>. QED BY <3>1, OutCodes
  <2>. QED BY <2>5, <2>6 DEF Met
<1>. QED
  BY <1>5, <1>6, <1>7 DEF S

\* An edge along the rows is not met only if it is on one side of the left
\* side.
LEMMA LevelKeepsSide ==
  ASSUME NEW a \in Int \X Int, NEW b \in Int \X Int, NEW l \in Int \X Int, NEW r \in Int \X Int,
         l[1] <= r[1], a[2] = b[2], l[2] <= a[2], a[2] <= r[2], ~Met(a, b, l, r)
  PROVE  a[1] <= l[1] <=> b[1] <= l[1]
<1>. DEFINE e == b[1] - a[1]
<1>1. /\ l[1] \in Int /\ l[2] \in Int /\ r[1] \in Int /\ r[2] \in Int /\ a[1] \in Int
      /\ a[2] \in Int /\ b[1] \in Int /\ b[2] \in Int /\ e \in Int
  OBVIOUS
<1>2. \A t \in Int : Side(a, b, l[1], t) = e * (t - a[2]) /\ Side(a, b, l[1], t) \in Int
  <2>. TAKE t \in Int
  <2>1. Side(a, b, l[1], t) = (a[1] - l[1]) * (b[2] - a[2]) + e * (t - a[2])
    BY DEF Side
  <2>2. (a[1] - l[1]) * (b[2] - a[2]) = 0 /\ e * (t - a[2]) \in Int
    BY <1>1
  <2>. QED BY <2>1, <2>2
<1>3. /\ Side(a, b, l[1], l[2]) = e * (l[2] - a[2])
      /\ Side(a, b, l[1], r[2]) = e * (r[2] - a[2])
  BY <1>1, <1>2
<1>4. ASSUME a[1] <= l[1], b[1] > l[1] PROVE FALSE
  <2>1. e > 0
    BY <1>1, <1>4
  <2>2. Side(a, b, l[1], l[2]) <= 0 /\ Side(a, b, l[1], r[2]) >= 0
    <3>. HIDE DEF e
    <3>. QED BY <1>1, <1>3, <2>1, Signs
  <2>3. lineRectIntersection(a, b, l, r)
    BY <1>1, <1>4, <2>2, UpDownHits
  <2>. QED BY <1>1, <1>4, <2>3, OutCodes DEF Met
<1>5. ASSUME a[1] > l[1], b[1] <= l[1] PROVE FALSE
  <2>1. e < 0
    BY <1>1, <1>5
  <2>2. Side(a, b, l[1], l[2]) >= 0 /\ Side(a, b, l[1], r[2]) <= 0
    <3>. HIDE DEF e
    <3>. QED BY <1>1, <1>3, <2>1, Signs
  <2>3. lineRectIntersection(a, b, l, r)
    BY <1>1, <1>5, <2>2, UpDownHits
  <2>. QED BY <1>1, <1>5, <2>3, OutCodes DEF Met
<1>. QED
  BY <1>1, <1>4, <1>5

\* Nor does an edge that is not met, and does not end in the rectangle, pass
\* between a point of it and its left side.
LEMMA PassesNowhere ==
  ASSUME NEW lo \in Int \X Int, NEW hi \in Int \X Int, NEW l \in Int \X Int, NEW r \in Int \X Int,
         l[2] <= r[2], lo[2] < hi[2], ~Met(lo, hi, l, r) \/ ~Met(hi, lo, l, r),
         ComputeOutCode(hi, l, r) # {},
         NEW x \in Int, NEW y \in Int,
         l[1] <= x, x <= r[1], l[2] <= y, y <= r[2], lo[2] <= y, y < hi[2]
  PROVE  Side(lo, hi, x, y) <= 0 <=> Side(lo, hi, l[1], y) <= 0
<1>. DEFINE e == hi[1] - lo[1]
            d == hi[2] - lo[2]
            S(t) == Side(lo, hi, l[1], t)
            R(t) == Side(lo, hi, r[1], t)
            X == Side(lo, hi, x, y)
<1>1. /\ l[1] \in Int /\ l[2] \in Int /\ r[1] \in Int /\ r[2] \in Int /\ lo[1] \in Int
      /\ lo[2] \in Int /\ hi[1] \in Int /\ hi[2] \in Int /\ e \in Int /\ d \in Int /\ d > 0
  OBVIOUS
<1>2. ASSUME NEW c \in Int, NEW t \in Int
      PROVE  /\ Side(lo, hi, c, t) \in Int
             /\ Side(lo, hi, c, t) = Side(lo, hi, c, y) + e * (t - y)
             /\ Side(lo, hi, c, t) = Side(lo, hi, l[1], t) + (l[1] - c) * d
             /\ Side(lo, hi, c, lo[2]) = (lo[1] - c) * d
             /\ Side(lo, hi, c, hi[2]) = (hi[1] - c) * d
  BY <1>1, SideMoves
<1>3. /\ S(lo[2]) = (lo[1] - l[1]) * d /\ S(hi[2]) = (hi[1] - l[1]) * d
      /\ R(lo[2]) = (lo[1] - r[1]) * d /\ R(hi[2]) = (hi[1] - r[1]) * d
  BY <1>1, <1>2
<1>4. \A t \in Int : S(t) \in Int /\ R(t) \in Int /\ S(t) = S(y) + e * (t - y)
                     /\ R(t) = R(y) + e * (t - y)
  <2>. TAKE t \in Int
  <2>1. S(t) \in Int /\ S(t) = S(y) + e * (t - y)
    BY <1>1, <1>2
  <2>2. R(t) \in Int /\ R(t) = R(y) + e * (t - y)
    BY <1>1, <1>2
  <2>. QED BY <2>1, <2>2
<1>5. X \in Int /\ S(y) >= X /\ X >= R(y)
  <2>1. X = S(y) + (l[1] - x) * d /\ R(y) = S(y) + (l[1] - r[1]) * d /\ X \in Int /\ S(y) \in Int
    BY <1>1, <1>2
  <2>2. (l[1] - x) * d <= 0 /\ (l[1] - x) * d \in Int
    BY <1>1, Signs
  <2>3. (l[1] - r[1]) * d = (l[1] - x) * d + (x - r[1]) * d /\ (x - r[1]) * d \in Int
    BY <1>1
  <2>4. (x - r[1]) * d <= 0
    BY <1>1, Signs
  <2>. HIDE DEF X, S, R, d
  <2>. QED BY <2>1, <2>2, <2>3, <2>4
<1>. HIDE DEF S, R, X
<1>6. ASSUME NEW s \in Int, NEW t \in Int, s <= t
      PROVE  /\ e >= 0 => S(s) <= S(t) /\ R(s) <= R(t)
             /\ e <= 0 => S(s) >= S(t) /\ R(s) >= R(t)
  <2>1. S(t) = S(s) + e * (t - s) /\ R(t) = R(s) + e * (t - s)
    <3>1. /\ S(s) = S(y) + e * (s - y) /\ S(t) = S(y) + e * (t - y)
          /\ R(s) = R(y) + e * (s - y) /\ R(t) = R(y) + e * (t - y)
          /\ S(y) \in Int /\ R(y) \in Int
      BY <1>4
    <3>2. e * (t - y) = e * (s - y) + e * (t - s) /\ e * (s - y) \in Int /\ e * (t - s) \in Int
      BY <1>1
    <3>. QED BY <3>1, <3>2
  <2>2. e * (t - s) \in Int /\ (e >= 0 => e * (t - s) >= 0) /\ (e <= 0 => e * (t - s) <= 0)
    BY <1>1, <1>6, Signs
  <2>3. S(s) \in Int /\ R(s) \in Int
    BY <1>4
  <2>. HIDE DEF e
  <2>. QED BY <1>1, <2>1, <2>2, <2>3
<1>7. /\ e >= 0 => /\ S(lo[2]) <= S(y) /\ S(y) <= S(hi[2]) /\ S(l[2]) <= S(y) /\ S(y) <= S(r[2])
                   /\ R(lo[2]) <= R(y) /\ R(y) <= R(hi[2])
                   /\ R(l[2]) <= R(y) /\ R(y) <= R(r[2])
      /\ e <= 0 => /\ S(lo[2]) >= S(y) /\ S(y) >= S(hi[2]) /\ S(l[2]) >= S(y) /\ S(y) >= S(r[2])
                   /\ R(lo[2]) >= R(y) /\ R(y) >= R(hi[2])
                   /\ R(l[2]) >= R(y) /\ R(y) >= R(r[2])
      /\ S(y) \in Int /\ R(y) \in Int /\ X \in Int
  <2>1. lo[2] <= y /\ y <= hi[2] /\ l[2] <= y /\ y <= r[2]
    BY <1>1
  <2>. HIDE DEF e, d
  <2>. QED BY <1>1, <1>4, <1>5, <1>6, <2>1
<1>8. ~(X <= 0 /\ S(y) > 0)
  <2>. SUFFICES ASSUME X <= 0, S(y) > 0 PROVE FALSE
    OBVIOUS
  <2>1. R(y) <= 0 /\ R(y) \in Int
    BY <1>5, <1>7
  <2>2. /\ S(lo[2]) \in Int /\ S(hi[2]) \in Int /\ S(l[2]) \in Int /\ S(r[2]) \in Int
        /\ R(lo[2]) \in Int /\ R(hi[2]) \in Int /\ R(l[2]) \in Int /\ R(r[2]) \in Int
    BY <1>1, <1>4
  <2>3. /\ lo[1] > l[1] <=> S(lo[2]) > 0
        /\ hi[1] < l[1] <=> S(hi[2]) < 0
        /\ lo[1] < r[1] <=> R(lo[2]) < 0
        /\ hi[1] > r[1] <=> R(hi[2]) > 0
        /\ lo[1] <= r[1] <=> R(lo[2]) <= 0
    <3>1. ASSUME NEW f \in Int PROVE (f * d > 0 <=> f > 0) /\ (f * d < 0 <=> f < 0)
      <4>. HIDE DEF d
      <4>. QED BY <1>1, Signs
    <3>. DEFINE f1 == lo[1] - l[1]
                f2 == hi[1] - l[1]
                f3 == lo[1] - r[1]
                f4 == hi[1] - r[1]
    <3>2. f1 \in Int /\ f2 \in Int /\ f3 \in Int /\ f4 \in Int
      BY <1>1
    <3>3. /\ f1 > 0 <=> S(lo[2]) > 0
          /\ f2 < 0 <=> S(hi[2]) < 0
          /\ f3 < 0 <=> R(lo[2]) < 0
          /\ f4 > 0 <=> R(hi[2]) > 0
          /\ f3 > 0 <=> R(lo[2]) > 0
      BY <1>3, <3>1, <3>2
    <3>. QED BY <1>1, <2>2, <3>3
  <2>. HIDE DEF e
  <2>4. ASSUME hi[1] < l[1], S(r[2]) < 0 PROVE FALSE
    <3>1. e < 0
      BY <1>1, <1>7, <2>2, <2>4
    <3>2. S(l[2]) >= 0 /\ S(lo[2]) > 0
      BY <1>1, <1>7, <2>2, <3>1
    <3>3. lo[1] > l[1]
      BY <2>3, <3>2
    <3>4. /\ Side(lo, hi, l[1], l[2]) >= 0 /\ Side(lo, hi, l[1], r[2]) <= 0
          /\ Side(hi, lo, l[1], l[2]) <= 0 /\ Side(hi, lo, l[1], r[2]) >= 0
      BY <1>1, <2>2, <2>4, <3>2, SideTurned DEF S
    <3>5. lineRectIntersection(lo, hi, l, r) /\ lineRectIntersection(hi, lo, l, r)
      BY <1>1, <2>4, <3>3, <3>4, UpDownHits
    <3>6. l[1] <= lo[1] /\ hi[1] <= r[1] /\ l[2] <= hi[2] /\ lo[2] <= r[2]
      BY <1>1, <2>4, <3>3
    <3>. QED BY <3>5, <3>6, OutCodes DEF Met
  <2>5. ASSUME hi[1] > r[1], R(r[2]) > 0 PROVE FALSE
    <3>1. e > 0
      BY <1>1, <1>7, <2>1, <2>2, <2>5
    <3>2. R(l[2]) <= 0 /\ R(lo[2]) <= 0
      BY <1>1, <1>7, <2>1, <2>2, <3>1
    <3>3. lo[1] <= r[1]
      BY <2>3, <3>2
    <3>4. /\ Side(lo, hi, r[1], l[2]) <= 0 /\ Side(lo, hi, r[1], r[2]) >= 0
          /\ Side(hi, lo, r[1], l[2]) >= 0 /\ Side(hi, lo, r[1], r[2]) <= 0
      BY <1>1, <2>2, <2>5, <3>2, SideTurned DEF R
    <3>5. lineRectIntersection(lo, hi, l, r) /\ lineRectIntersection(hi, lo, l, r)
      BY <1>1, <2>5, <3>3, <3>4, UpDownHits
    <3>6. l[1] <= hi[1] /\ lo[1] <= r[1] /\ l[2] <= hi[2] /\ lo[2] <= r[2]
      BY <1>1, <2>5, <3>3
    <3>. QED BY <3>5, <3>6, OutCodes DEF Met
  <2>6. CASE hi[2] <= r[2]
    <3>1. hi[1] < l[1] \/ hi[1] > r[1]
      BY <1>1, <2>6, OutCodes
    <3>2. CASE hi[1] < l[1]
      <4>1. S(hi[2]) < 0
        BY <2>3, <3>2
      <4>2. e < 0
        BY <1>1, <1>7, <2>2, <4>1
      <4>3. S(r[2]) < 0
        BY <1>1, <1>6, <2>2, <2>6, <4>1, <4>2
      <4>. QED BY <2>4, <3>2, <4>3
    <3>3. CASE hi[1] > r[1]
      <4>1. R(hi[2]) > 0
        BY <2>3, <3>3
      <4>2. e > 0
        BY <1>1, <1>7, <2>1, <2>2, <4>1
      <4>3. R(r[2]) > 0
        BY <1>1, <1>6, <2>2, <2>6, <4>1, <4>2
      <4>. QED BY <2>5, <3>3, <4>3
    <3>. QED BY <3>1, <3>2, <3>3
  <2>7. CASE hi[2] > r[2]
    <3>1. CASE S(r[2]) < 0
      <4>1. e < 0
        BY <1>1, <1>7, <2>2, <3>1
      <4>2. S(hi[2]) < 0
        BY <1>1, <1>6, <2>2, <2>7, <3>1, <4>1
      <4>. QED BY <2>3, <2>4, <3>1, <4>2
    <3>2. CASE R(r[2]) > 0
      <4>1. e > 0
        BY <1>1, <1>7, <2>1, <2>2, <3>2
      <4>2. R(hi[2]) > 0
        BY <1>1, <1>6, <2>2, <2>7, <3>2, <4>1
      <4>. QED BY <2>3, <2>5, <3>2, <4>2
    <3>3. CASE S(r[2]) >= 0 /\ R(r[2]) <= 0
      <4>1. /\ Side(lo, hi, r[1], r[2]) <= 0 /\ Side(lo, hi, l[1], r[2]) >= 0
            /\ Side(hi, lo, r[1], r[2]) >= 0 /\ Side(hi, lo, l[1], r[2]) <= 0
        BY <1>1, <2>2, <3>3, SideTurned DEF S, R
      <4>2. lo[2] <= r[2] /\ r[2] <= hi[2] /\ l[2] <= hi[2]
        BY <1>1, <2>7
      <4>3. lineRectIntersection(lo, hi, l, r) /\ lineRectIntersection(hi, lo, l, r)
        BY <1>1, <4>1, <4>2, LeftHits
      <4>4. l[1] <= lo[1] \/ l[1] <= hi[1]
        <5>. SUFFICES ASSUME lo[1] < l[1], hi[1] < l[1] PROVE FALSE
          BY <1>1
        <5>1. S(lo[2]) <= 0 /\ S(hi[2]) < 0
          BY <1>1, <2>2, <2>3
        <5>. QED BY <1>1, <1>7, <2>2, <5>1
      <4>5. lo[1] <= r[1] \/ hi[1] <= r[1]
        <5>. SUFFICES ASSUME lo[1] > r[1], hi[1] > r[1] PROVE FALSE
          BY <1>1
        <5>1. R(lo[2]) > 0 /\ R(hi[2]) > 0
          BY <1>1, <2>2, <2>3
        <5>. QED BY <1>1, <1>7, <2>1, <2>2, <5>1
      <4>. QED BY <4>2, <4>3, <4>4, <4>5, OutCodes DEF Met
    <3>. QED BY <2>2, <3>1, <3>2, <3>3
  <2>. QED BY <1>1, <2>6, <2>7
<1>9. X <= 0 <=> S(y) <= 0
  BY <1>5, <1>7, <1>8
<1>. QED
  BY <1>9 DEF S, X

-----------------------------------------------------------------------------
(* Turns around a point, counted at one height or another. *)

Bit(P) == IF P THEN 1 ELSE 0

\* Left of x and between two heights.
Between(v, x, y, z) == v[1] <= x /\ y < v[2] /\ v[2] <= z

\* From height y up to z the edge stays on one side of x.
Kept(lo, hi, x, y, z) ==
  \A s, t \in Int : lo[2] <= s /\ s <= t /\ t <= hi[2] /\ y <= s /\ t <= z
                      => (Side(lo, hi, x, s) <= 0 <=> Side(lo, hi, x, t) <= 0)

\* An edge that goes up is crossed once more above than below as often as it
\* begins in between and does not end there.
LEMMA UpBalance ==
  ASSUME NEW lo \in Int \X Int, NEW hi \in Int \X Int, NEW x \in Int, NEW y \in Int, NEW z \in Int,
         y <= z, lo[2] < hi[2], Kept(lo, hi, x, y, z)
  PROVE  /\ Bit(LeftEdge(lo, hi, <<x, z>>)) - Bit(LeftEdge(lo, hi, <<x, y>>))
              = Bit(Between(lo, x, y, z)) - Bit(Between(hi, x, y, z))
         /\ ~LeftEdge(hi, lo, <<x, z>>) /\ ~LeftEdge(hi, lo, <<x, y>>)
<1>. DEFINE S(t) == Side(lo, hi, x, t)
            d == hi[2] - lo[2]
<1>1. lo[1] \in Int /\ lo[2] \in Int /\ hi[1] \in Int /\ hi[2] \in Int /\ d \in Int /\ d > 0
  OBVIOUS
<1>2. /\ LeftEdge(lo, hi, <<x, z>>) <=> lo[2] <= z /\ z < hi[2] /\ S(z) <= 0
      /\ LeftEdge(lo, hi, <<x, y>>) <=> lo[2] <= y /\ y < hi[2] /\ S(y) <= 0
      /\ ~LeftEdge(hi, lo, <<x, z>>) /\ ~LeftEdge(hi, lo, <<x, y>>)
  <2>1. <<x, z>> \in Int \X Int /\ <<x, y>> \in Int \X Int
    OBVIOUS
  <2>2. /\ <<x, z>>[1] = x /\ <<x, z>>[2] = z /\ <<x, y>>[1] = x /\ <<x, y>>[2] = y
    OBVIOUS
  <2>3. /\ LeftEdge(lo, hi, <<x, z>>) <=> lo[2] <= z /\ z < hi[2] /\ S(z) <= 0
        /\ LeftEdge(lo, hi, <<x, y>>) <=> lo[2] <= y /\ y < hi[2] /\ S(y) <= 0
    BY <2>1, <2>2, LeftIs
  <2>4. ~LeftEdge(hi, lo, <<x, z>>) /\ ~LeftEdge(hi, lo, <<x, y>>)
    BY <1>1, <2>2 DEF LeftEdge
  <2>. QED BY <2>3, <2>4
<1>3. (S(lo[2]) <= 0 <=> lo[1] <= x) /\ (S(hi[2]) <= 0 <=> hi[1] <= x)
  <2>. DEFINE f == lo[1] - x
              g == hi[1] - x
  <2>1. S(lo[2]) = f * d /\ S(hi[2]) = g * d /\ f \in Int /\ g \in Int
    BY <1>1, SideMoves
  <2>2. (f * d <= 0 <=> f <= 0) /\ (g * d <= 0 <=> g <= 0)
    <3>1. f \in Int /\ g \in Int
      BY <2>1
    <3>. HIDE DEF f, g, d
    <3>. QED BY <1>1, <3>1, Signs
  <2>. HIDE DEF S
  <2>. QED BY <1>1, <2>1, <2>2
<1>4. \A s, t \in Int : lo[2] <= s /\ s <= t /\ t <= hi[2] /\ y <= s /\ t <= z
                          => (S(s) <= 0 <=> S(t) <= 0)
  BY DEF Kept
<1>. HIDE DEF S, d
<1>5. CASE lo[2] <= y /\ z < hi[2]
  <2>1. S(y) <= 0 <=> S(z) <= 0
    BY <1>1, <1>4, <1>5
  <2>. QED BY <1>1, <1>2, <1>5, <2>1 DEF Bit, Between
<1>6. CASE lo[2] <= y /\ y < hi[2] /\ hi[2] <= z
  <2>1. S(y) <= 0 <=> hi[1] <= x
    BY <1>1, <1>3, <1>4, <1>6
  <2>. QED BY <1>1, <1>2, <1>6, <2>1 DEF Bit, Between
<1>7. CASE lo[2] > y /\ lo[2] <= z /\ z < hi[2]
  <2>1. S(z) <= 0 <=> lo[1] <= x
    BY <1>1, <1>3, <1>4, <1>7
  <2>. QED BY <1>1, <1>2, <1>7, <2>1 DEF Bit, Between
<1>8. CASE lo[2] > y /\ hi[2] <= z
  <2>1. lo[1] <= x <=> hi[1] <= x
    BY <1>1, <1>3, <1>4, <1>8
  <2>. QED BY <1>1, <1>2, <1>8, <2>1 DEF Bit, Between
<1>9. CASE hi[2] <= y \/ lo[2] > z
  BY <1>1, <1>2, <1>9 DEF Bit, Between
<1>. QED
  BY <1>1, <1>5, <1>6, <1>7, <1>8, <1>9

\* The same for an edge in either direction.
LEMMA EdgeBalance ==
  ASSUME NEW a \in Int \X Int, NEW b \in Int \X Int, NEW x \in Int, NEW y \in Int, NEW z \in Int,
         y <= z, a[2] < b[2] => Kept(a, b, x, y, z), b[2] < a[2] => Kept(b, a, x, y, z),
         a[2] = b[2] /\ y <= a[2] /\ a[2] <= z => (a[1] <= x <=> b[1] <= x)
  PROVE  Bit(LeftEdge(a, b, <<x, z>>)) - Bit(LeftEdge(b, a, <<x, z>>))
           - (Bit(LeftEdge(a, b, <<x, y>>)) - Bit(LeftEdge(b, a, <<x, y>>)))
         = Bit(Between(a, x, y, z)) - Bit(Between(b, x, y, z))
<1>1. a[1] \in Int /\ a[2] \in Int /\ b[1] \in Int /\ b[2] \in Int
  OBVIOUS
<1>2. CASE a[2] < b[2]
  <2>1. /\ Bit(LeftEdge(a, b, <<x, z>>)) - Bit(LeftEdge(a, b, <<x, y>>))
             = Bit(Between(a, x, y, z)) - Bit(Between(b, x, y, z))
        /\ ~LeftEdge(b, a, <<x, z>>) /\ ~LeftEdge(b, a, <<x, y>>)
    BY <1>2, UpBalance
  <2>. QED BY <2>1 DEF Bit
<1>3. CASE b[2] < a[2]
  <2>1. /\ Bit(LeftEdge(b, a, <<x, z>>)) - Bit(LeftEdge(b, a, <<x, y>>))
             = Bit(Between(b, x, y, z)) - Bit(Between(a, x, y, z))
        /\ ~LeftEdge(a, b, <<x, z>>) /\ ~LeftEdge(a, b, <<x, y>>)
    BY <1>3, UpBalance
  <2>. QED BY <2>1 DEF Bit
<1>4. CASE a[2] = b[2]
  <2>1. \A t \in Int : ~LeftEdge(a, b, <<x, t>>) /\ ~LeftEdge(b, a, <<x, t>>)
    BY <1>1, <1>4 DEF LeftEdge
  <2>2. Between(a, x, y, z) <=> Between(b, x, y, z)
    BY <1>1, <1>4 DEF Between
  <2>. QED BY <2>1, <2>2 DEF Bit
<1>. QED
  BY <1>1, <1>2, <1>3, <1>4

LEMMA SmallRest ==
  ASSUME NEW n \in Nat, n > 0
  PROVE  n % n = 0 /\ \A k \in 0..(n - 1) : k % n = k
<1>1. ASSUME NEW k \in Nat
      PROVE  /\ k = n * (k \div n) + (k % n) /\ k % n \in 0..(n - 1) /\ k \div n \in Nat
  OBVIOUS
<1>2. ASSUME NEW q \in Nat, NEW r \in 0..(n - 1), n * q + r < n PROVE q = 0
  <2>1. q >= 1 => n * q >= n
    <3>. SUFFICES ASSUME q >= 1 PROVE n * q >= n
      OBVIOUS
    <3>1. n * q = n * (q - 1) + n /\ n * (q - 1) >= 0 /\ n * (q - 1) \in Nat
      OBVIOUS
    <3>. QED BY <3>1
  <2>2. n * q \in Nat
    OBVIOUS
  <2>. QED BY <1>2, <2>1, <2>2
<1>3. \A k \in 0..(n - 1) : k % n = k
  <2>. TAKE k \in 0..(n - 1)
  <2>1. k \div n = 0
    BY <1>1, <1>2
  <2>. QED BY <1>1, <2>1
<1>4. n % n = 0
  OBVIOUS
<1>. QED
  BY <1>3, <1>4

LEMMA CountNext ==
  ASSUME NEW S, NEW n \in Nat
  PROVE  /\ Cardinality({i \in S : i \in 1..n}) \in Nat
         /\ Cardinality({i \in S : i \in 1..(n + 1)})
              = Cardinality({i \in S : i \in 1..n}) + Bit(n + 1 \in S)
<1>. DEFINE A == {i \in S : i \in 1..n}
            B == {i \in S : i \in 1..(n + 1)}
<1>1. IsFiniteSet(A)
  <2>1. A \subseteq 1..n /\ IsFiniteSet(1..n)
    BY FS_Interval
  <2>. QED BY <2>1, FS_Subset
<1>2. CASE n + 1 \in S
  <2>1. B = A \cup {n + 1} /\ n + 1 \notin A
    BY <1>2
  <2>. HIDE DEF A, B
  <2>2. Cardinality(B) = Cardinality(A) + 1 /\ Cardinality(A) \in Nat
    BY <1>1, <2>1, FS_AddElement, FS_CardinalityType
  <2>. QED BY <1>2, <2>2 DEF A, B, Bit
<1>3. CASE n + 1 \notin S
  <2>1. B = A
    BY <1>3
  <2>. HIDE DEF A, B
  <2>2. Cardinality(A) \in Nat
    BY <1>1, FS_CardinalityType
  <2>. QED BY <1>3, <2>1, <2>2 DEF A, B, Bit
<1>. QED
  BY <1>2, <1>3

\* Where the edge from corner i goes.
After(poly, i) == poly[(i % Len(poly)) + 1]

UpEdges(poly, p) == {i \in DOMAIN poly : LeftEdge(poly[i], After(poly, i), p)}
DownEdges(poly, p) == {i \in DOMAIN poly : LeftEdge(After(poly, i), poly[i], p)}
Winding(poly, p) == Cardinality(UpEdges(poly, p)) - Cardinality(DownEdges(poly, p))

LEMMA AfterCorner ==
  ASSUME NEW poly \in Seq(Int \X Int), NEW i \in DOMAIN poly
  PROVE  /\ poly[i] \in Int \X Int /\ After(poly, i) \in Int \X Int
         /\ \E j \in DOMAIN poly : After(poly, i) = poly[j]
<1>. DEFINE n == Len(poly)
<1>1. n \in Nat /\ n > 0 /\ i \in Nat /\ poly[i] \in Int \X Int
  OBVIOUS
<1>. HIDE DEF n
<1>2. (i % n) + 1 \in 1..n
  BY <1>1
<1>. QED
  BY <1>1, <1>2 DEF After, n

LEMMA EdgesFinite ==
  ASSUME NEW poly \in Seq(Int \X Int), NEW p
  PROVE  /\ IsFiniteSet(UpEdges(poly, p)) /\ Cardinality(UpEdges(poly, p)) \in Nat
         /\ IsFiniteSet(DownEdges(poly, p)) /\ Cardinality(DownEdges(poly, p)) \in Nat
<1>0. DOMAIN poly = 1..Len(poly) /\ Len(poly) \in Int
  OBVIOUS
<1>1. /\ UpEdges(poly, p) \subseteq 1..Len(poly) /\ DownEdges(poly, p) \subseteq 1..Len(poly)
      /\ IsFiniteSet(1..Len(poly))
  BY <1>0, FS_Interval DEF UpEdges, DownEdges
<1>. QED
  BY <1>1, FS_Subset, FS_CardinalityType

\* Round the whole polygon, as many edges begin in between as end there.
\* What an edge adds to the turns around (x, z) and not to those around (x, y)
\* is what its beginning has and its end has not.
Balanced(poly, i, x, y, z) ==
  Bit(LeftEdge(poly[i], After(poly, i), <<x, z>>))
    - Bit(LeftEdge(After(poly, i), poly[i], <<x, z>>))
    - (Bit(LeftEdge(poly[i], After(poly, i), <<x, y>>))
        - Bit(LeftEdge(After(poly, i), poly[i], <<x, y>>)))
  = Bit(Between(poly[i], x, y, z)) - Bit(Between(After(poly, i), x, y, z))

LEMMA WindingKept ==
  ASSUME NEW poly \in Seq(Int \X Int), NEW x \in Int, NEW y \in Int, NEW z \in Int,
         \A i \in DOMAIN poly : Balanced(poly, i, x, y, z)
  PROVE  Winding(poly, <<x, z>>) = Winding(poly, <<x, y>>)
<1>. DEFINE n == Len(poly)
            U(t) == UpEdges(poly, <<x, t>>)
            D(t) == DownEdges(poly, <<x, t>>)
            First(S, k) == Cardinality({i \in S : i \in 1..k})
            In(k) == Bit(Between(poly[k], x, y, z))
            T == {k \in Nat : 1 <= n /\ k <= n => First(U(z), k) - First(D(z), k)
                                        - (First(U(y), k) - First(D(y), k))
                                        = In(1) - In((k % n) + 1)}
<1>1. n \in Nat /\ DOMAIN poly = 1..n
  OBVIOUS
<1>2. \A S : \A k \in Nat : First(S, k) \in Nat /\ First(S, k + 1) = First(S, k) + Bit(k + 1 \in S)
  BY CountNext
<1>3. \A k : In(k) \in Nat
  BY DEF Bit
<1>4. \A S : First(S, 0) = 0
  <2>. TAKE S
  <2>1. {i \in S : i \in 1..0} = {}
    OBVIOUS
  <2>. QED BY <2>1, FS_EmptySet
<1>5. \A k \in Nat : k + 1 <= n =>
        Bit(k + 1 \in U(z)) - Bit(k + 1 \in D(z)) - (Bit(k + 1 \in U(y)) - Bit(k + 1 \in D(y)))
          = In(k + 1) - In(((k + 1) % n) + 1)
  <2>. SUFFICES ASSUME NEW k \in Nat, k + 1 <= n
                PROVE  Bit(k + 1 \in U(z)) - Bit(k + 1 \in D(z))
                         - (Bit(k + 1 \in U(y)) - Bit(k + 1 \in D(y)))
                       = In(k + 1) - In(((k + 1) % n) + 1)
    OBVIOUS
  <2>1. k + 1 \in DOMAIN poly
    OBVIOUS
  <2>2. \A t : /\ k + 1 \in U(t) <=> LeftEdge(poly[k + 1], After(poly, k + 1), <<x, t>>)
               /\ k + 1 \in D(t) <=> LeftEdge(After(poly, k + 1), poly[k + 1], <<x, t>>)
    BY <2>1 DEF UpEdges, DownEdges
  <2>3. In(((k + 1) % n) + 1) = Bit(Between(After(poly, k + 1), x, y, z))
    BY DEF After
  <2>. HIDE DEF U, D
  <2>4. /\ Bit(k + 1 \in U(z)) = Bit(LeftEdge(poly[k + 1], After(poly, k + 1), <<x, z>>))
        /\ Bit(k + 1 \in D(z)) = Bit(LeftEdge(After(poly, k + 1), poly[k + 1], <<x, z>>))
        /\ Bit(k + 1 \in U(y)) = Bit(LeftEdge(poly[k + 1], After(poly, k + 1), <<x, y>>))
        /\ Bit(k + 1 \in D(y)) = Bit(LeftEdge(After(poly, k + 1), poly[k + 1], <<x, y>>))
    BY <2>2 DEF Bit
  <2>5. Balanced(poly, k + 1, x, y, z)
    BY <2>1
  <2>. QED BY <2>3, <2>4, <2>5 DEF Balanced
<1>. HIDE DEF First, U, D, In, n
<1>6. 0 \in T
  <2>1. n > 0 => (0 % n) + 1 = 1
    BY <1>1
  <2>. QED BY <1>1, <1>3, <1>4, <2>1
<1>7. \A k \in Nat : k \in T => k + 1 \in T
  <2>. SUFFICES ASSUME NEW k \in Nat, k \in T, k + 1 <= n
                PROVE  First(U(z), k + 1) - First(D(z), k + 1)
                         - (First(U(y), k + 1) - First(D(y), k + 1))
                       = In(1) - In(((k + 1) % n) + 1)
    OBVIOUS
  <2>1. (k % n) + 1 = k + 1
    <3>1. n > 0 /\ k \in 0..(n - 1)
      BY <1>1
    <3>. QED BY <1>1, <3>1, SmallRest
  <2>2. First(U(z), k) - First(D(z), k) - (First(U(y), k) - First(D(y), k)) = In(1) - In(k + 1)
    BY <1>1, <2>1
  <2>3. \A P : Bit(P) \in Int
    BY DEF Bit
  <2>4. ASSUME NEW S
        PROVE  First(S, k) \in Nat /\ First(S, k + 1) = First(S, k) + Bit(k + 1 \in S)
    BY <1>2
  <2>5. Bit(k + 1 \in U(z)) - Bit(k + 1 \in D(z))
          - (Bit(k + 1 \in U(y)) - Bit(k + 1 \in D(y)))
        = In(k + 1) - In(((k + 1) % n) + 1)
    BY <1>5
  <2>6. In(1) \in Int /\ In(k + 1) \in Int /\ In(((k + 1) % n) + 1) \in Int
    BY <1>3
  <2>7. /\ Bit(k + 1 \in U(z)) \in Int /\ Bit(k + 1 \in D(z)) \in Int
        /\ Bit(k + 1 \in U(y)) \in Int /\ Bit(k + 1 \in D(y)) \in Int
    BY <2>3
  <2>8. /\ First(U(z), k) \in Nat /\ First(U(z), k + 1) = First(U(z), k) + Bit(k + 1 \in U(z))
        /\ First(D(z), k) \in Nat /\ First(D(z), k + 1) = First(D(z), k) + Bit(k + 1 \in D(z))
        /\ First(U(y), k) \in Nat /\ First(U(y), k + 1) = First(U(y), k) + Bit(k + 1 \in U(y))
        /\ First(D(y), k) \in Nat /\ First(D(y), k + 1) = First(D(y), k) + Bit(k + 1 \in D(y))
    BY <2>4
  <2>. DEFINE a == First(U(z), k)
              b == First(D(z), k)
              c == First(U(y), k)
              d == First(D(y), k)
              e == Bit(k + 1 \in U(z))
              f == Bit(k + 1 \in D(z))
              g == Bit(k + 1 \in U(y))
              h == Bit(k + 1 \in D(y))
              u == In(1)
              v == In(k + 1)
              w == In(((k + 1) % n) + 1)
  <2>9. /\ a \in Int /\ b \in Int /\ c \in Int /\ d \in Int /\ e \in Int /\ f \in Int
        /\ g \in Int /\ h \in Int /\ u \in Int /\ v \in Int /\ w \in Int
    BY <2>6, <2>7, <2>8
  <2>10. a - b - (c - d) = u - v /\ e - f - (g - h) = v - w
    BY <2>2, <2>5
  <2>11. /\ First(U(z), k + 1) = a + e /\ First(D(z), k + 1) = b + f
         /\ First(U(y), k + 1) = c + g /\ First(D(y), k + 1) = d + h
    BY <2>8
  <2>. HIDE DEF T, a, b, c, d, e, f, g, h, u, v, w
  <2>12. (a + e) - (b + f) - ((c + g) - (d + h)) = u - w
    BY <2>9, <2>10
  <2>. QED BY <2>11, <2>12 DEF u, w
<1>8. Nat \subseteq T
  BY <1>6, <1>7, AllNat
<1>9. First(U(z), n) - First(D(z), n) - (First(U(y), n) - First(D(y), n)) = 0
  <2>1. CASE n > 0
    <3>1. (n % n) + 1 = 1
      BY <1>1, <2>1, SmallRest
    <3>2. First(U(z), n) - First(D(z), n) - (First(U(y), n) - First(D(y), n))
            = In(1) - In((n % n) + 1)
      BY <1>1, <1>8, <2>1
    <3>. QED BY <1>3, <3>1, <3>2
  <2>2. CASE n = 0
    BY <1>4, <2>2
  <2>. QED BY <1>1, <2>1, <2>2
<1>10. \A t : First(U(t), n) = Cardinality(U(t)) /\ First(D(t), n) = Cardinality(D(t))
  <2>. TAKE t
  <2>1. {i \in U(t) : i \in 1..n} = U(t) /\ {i \in D(t) : i \in 1..n} = D(t)
    BY <1>1 DEF U, D, UpEdges, DownEdges
  <2>. QED BY <2>1 DEF First
<1>11. \A S : First(S, n) \in Nat
  BY <1>1, <1>2
<1>12. /\ Winding(poly, <<x, z>>) = First(U(z), n) - First(D(z), n)
       /\ Winding(poly, <<x, y>>) = First(U(y), n) - First(D(y), n)
  BY <1>10 DEF Winding, U, D
<1>. QED
  BY <1>9, <1>11, <1>12

LEMMA WindingFalls ==
  ASSUME NEW poly \in Seq(Int \X Int), NEW x \in Int, NEW y \in Int, NEW z \in Int, y <= z,
         \A i \in DOMAIN poly :
           LET a == poly[i]
               b == After(poly, i)
           IN  /\ a[2] < b[2] => Kept(a, b, x, y, z)
               /\ b[2] < a[2] => Kept(b, a, x, y, z)
               /\ a[2] = b[2] /\ y <= a[2] /\ a[2] <= z => (a[1] <= x <=> b[1] <= x)
  PROVE  Winding(poly, <<x, z>>) = Winding(poly, <<x, y>>)
<1>1. ASSUME NEW i \in DOMAIN poly PROVE Balanced(poly, i, x, y, z)
  <2>1. poly[i] \in Int \X Int /\ After(poly, i) \in Int \X Int
    BY AfterCorner
  <2>. QED BY <2>1, EdgeBalance DEF Balanced
<1>. QED
  BY <1>1, WindingKept

LEMMA ContainsIs ==
  ASSUME NEW poly \in Seq(Int \X Int), NEW p \in Int \X Int
  PROVE  /\ containsPoint(poly, p) <=> Winding(poly, p) # 0
         /\ Winding(poly, p) \in Int
<1>1. containsPoint(poly, p) <=> Cardinality(UpEdges(poly, p)) # Cardinality(DownEdges(poly, p))
  BY DEF containsPoint, UpEdges, DownEdges, LeftEdge, After
<1>. QED
  BY <1>1, EdgesFinite DEF Winding

\* A polygon that a point of a cell lies in is listed there: if neither a
\* corner nor an edge of it meets the cell, all points of the cell are in it or
\* none, the cell's lower left corner too.
LEMMA ListedWhereItIs ==
  ASSUME NEW poly \in Seq(Int \X Int), NEW l \in Int \X Int, NEW r \in Int \X Int,
         NEW p \in Int \X Int, l[1] <= p[1], p[1] <= r[1], l[2] <= p[2], p[2] <= r[2],
         containsPoint(poly, p)
  PROVE  polygonRectIntersection(poly, l, r)
<1>. SUFFICES ASSUME ~polygonRectIntersection(poly, l, r) PROVE FALSE
  OBVIOUS
<1>1. /\ l[1] \in Int /\ l[2] \in Int /\ r[1] \in Int /\ r[2] \in Int
      /\ p[1] \in Int /\ p[2] \in Int /\ l[1] <= r[1] /\ l[2] <= r[2]
      /\ l = <<l[1], l[2]>> /\ p = <<p[1], p[2]>>
  OBVIOUS
<1>2. /\ \A i \in DOMAIN poly : ComputeOutCode(poly[i], l, r) # {}
      /\ \A i \in DOMAIN poly : ~Met(poly[i], After(poly, i), l, r)
      /\ ~containsPoint(poly, l)
  BY DEF polygonRectIntersection, RectCorners, Met, After
<1>3. \A i \in DOMAIN poly : ComputeOutCode(After(poly, i), l, r) # {}
  BY <1>2, AfterCorner
<1>4. ASSUME NEW lo \in Int \X Int, NEW hi \in Int \X Int, ComputeOutCode(hi, l, r) # {},
             ~Met(lo, hi, l, r) \/ ~Met(hi, lo, l, r)
      PROVE  LeftEdge(lo, hi, p) <=> LeftEdge(lo, hi, <<l[1], p[2]>>)
  <2>1. <<l[1], p[2]>> \in Int \X Int /\ <<l[1], p[2]>>[1] = l[1] /\ <<l[1], p[2]>>[2] = p[2]
    BY <1>1
  <2>2. /\ LeftEdge(lo, hi, p) <=> lo[2] <= p[2] /\ p[2] < hi[2] /\ Side(lo, hi, p[1], p[2]) <= 0
        /\ LeftEdge(lo, hi, <<l[1], p[2]>>)
             <=> lo[2] <= p[2] /\ p[2] < hi[2] /\ Side(lo, hi, l[1], p[2]) <= 0
    BY <2>1, LeftIs
  <2>3. lo[2] <= p[2] /\ p[2] < hi[2]
          => (Side(lo, hi, p[1], p[2]) <= 0 <=> Side(lo, hi, l[1], p[2]) <= 0)
    <3>. SUFFICES ASSUME lo[2] <= p[2], p[2] < hi[2]
                  PROVE  Side(lo, hi, p[1], p[2]) <= 0 <=> Side(lo, hi, l[1], p[2]) <= 0
      OBVIOUS
    <3>1. lo[2] < hi[2]
      BY <1>1
    <3>. QED BY <1>1, <1>4, <3>1, PassesNowhere
  <2>. QED BY <2>2, <2>3
<1>5. Winding(poly, p) = Winding(poly, <<l[1], p[2]>>)
  <2>1. \A i \in DOMAIN poly :
          /\ LeftEdge(poly[i], After(poly, i), p)
               <=> LeftEdge(poly[i], After(poly, i), <<l[1], p[2]>>)
          /\ LeftEdge(After(poly, i), poly[i], p)
               <=> LeftEdge(After(poly, i), poly[i], <<l[1], p[2]>>)
    BY <1>2, <1>3, <1>4, AfterCorner
  <2>2. /\ UpEdges(poly, p) = UpEdges(poly, <<l[1], p[2]>>)
        /\ DownEdges(poly, p) = DownEdges(poly, <<l[1], p[2]>>)
    BY <2>1 DEF UpEdges, DownEdges
  <2>. QED BY <2>2 DEF Winding
<1>6. ASSUME NEW lo \in Int \X Int, NEW hi \in Int \X Int, lo[2] < hi[2],
             ~Met(lo, hi, l, r) \/ ~Met(hi, lo, l, r)
      PROVE  Kept(lo, hi, l[1], l[2], p[2])
  <2>. SUFFICES ASSUME NEW s \in Int, NEW t \in Int,
                       lo[2] <= s, s <= t, t <= hi[2], l[2] <= s, t <= p[2]
                PROVE  Side(lo, hi, l[1], s) <= 0 <=> Side(lo, hi, l[1], t) <= 0
    BY DEF Kept
  <2>1. t <= r[2]
    BY <1>1
  <2>. QED BY <1>1, <1>6, <2>1, KeepsSide
<1>7. ASSUME NEW i \in DOMAIN poly
      PROVE  LET a == poly[i]
                 b == After(poly, i)
             IN  /\ a[2] < b[2] => Kept(a, b, l[1], l[2], p[2])
                 /\ b[2] < a[2] => Kept(b, a, l[1], l[2], p[2])
                 /\ a[2] = b[2] /\ l[2] <= a[2] /\ a[2] <= p[2] => (a[1] <= l[1] <=> b[1] <= l[1])
  <2>. DEFINE a == poly[i]
              b == After(poly, i)
  <2>1. a \in Int \X Int /\ b \in Int \X Int /\ ~Met(a, b, l, r)
    BY <1>2, AfterCorner
  <2>. HIDE DEF a, b
  <2>2. /\ a[2] < b[2] => Kept(a, b, l[1], l[2], p[2])
        /\ b[2] < a[2] => Kept(b, a, l[1], l[2], p[2])
    BY <1>6, <2>1
  <2>3. a[2] = b[2] /\ l[2] <= a[2] /\ a[2] <= p[2] => (a[1] <= l[1] <=> b[1] <= l[1])
    <3>. SUFFICES ASSUME a[2] = b[2], l[2] <= a[2], a[2] <= p[2]
                  PROVE  a[1] <= l[1] <=> b[1] <= l[1]
      OBVIOUS
    <3>1. a[2] <= r[2]
      BY <1>1, <2>1
    <3>. QED BY <1>1, <2>1, <3>1, LevelKeepsSide
  <2>. QED BY <2>2, <2>3 DEF a, b
<1>8. Winding(poly, <<l[1], p[2]>>) = Winding(poly, <<l[1], l[2]>>)
  <2>. DEFINE x == l[1]
              y == l[2]
              z == p[2]
  <2>1. x \in Int /\ y \in Int /\ z \in Int /\ y <= z
    BY <1>1
  <2>2. \A i \in DOMAIN poly :
           LET a == poly[i]
               b == After(poly, i)
           IN  /\ a[2] < b[2] => Kept(a, b, x, y, z)
               /\ b[2] < a[2] => Kept(b, a, x, y, z)
               /\ a[2] = b[2] /\ y <= a[2] /\ a[2] <= z => (a[1] <= x <=> b[1] <= x)
    BY <1>7
  <2>. HIDE DEF x, y, z
  <2>3. Winding(poly, <<x, z>>) = Winding(poly, <<x, y>>)
    BY <2>1, <2>2, WindingFalls
  <2>. QED BY <2>3 DEF x, y, z
<1>. QED
  BY <1>1, <1>2, <1>5, <1>8, ContainsIs

\* An edge is between its ends.
LEMMA SideBetween ==
  ASSUME NEW lo \in Int \X Int, NEW hi \in Int \X Int, lo[2] < hi[2], NEW x \in Int, NEW y \in Int,
         lo[2] <= y, y <= hi[2]
  PROVE  /\ x < lo[1] /\ x < hi[1] => Side(lo, hi, x, y) > 0
         /\ lo[1] <= x /\ hi[1] <= x => Side(lo, hi, x, y) <= 0
<1>. DEFINE e == hi[1] - lo[1]
            d == hi[2] - lo[2]
            f == lo[1] - x
            g == hi[1] - x
            S(t) == Side(lo, hi, x, t)
<1>1. /\ lo[1] \in Int /\ lo[2] \in Int /\ hi[1] \in Int /\ hi[2] \in Int
      /\ e \in Int /\ d \in Int /\ d > 0 /\ f \in Int /\ g \in Int
  OBVIOUS
<1>2. S(lo[2]) = f * d /\ S(hi[2]) = g * d /\ S(y) \in Int
  <2>1. /\ Side(lo, hi, x, lo[2]) = (lo[1] - x) * (hi[2] - lo[2])
        /\ Side(lo, hi, x, hi[2]) = (hi[1] - x) * (hi[2] - lo[2])
        /\ Side(lo, hi, x, y) \in Int
    BY <1>1, SideMoves
  <2>. QED BY <2>1
<1>3. /\ S(lo[2]) = S(y) + e * (lo[2] - y) /\ S(hi[2]) = S(y) + e * (hi[2] - y)
  BY <1>1, SideMoves
<1>4. /\ e * (lo[2] - y) \in Int /\ e * (hi[2] - y) \in Int
      /\ e >= 0 => e * (lo[2] - y) <= 0 /\ e * (hi[2] - y) >= 0
      /\ e <= 0 => e * (lo[2] - y) >= 0 /\ e * (hi[2] - y) <= 0
  <2>. HIDE DEF e
  <2>. QED BY <1>1, Signs
<1>5. /\ f > 0 => f * d > 0
      /\ f <= 0 => f * d <= 0
      /\ g > 0 => g * d > 0
      /\ g <= 0 => g * d <= 0
      /\ f * d \in Int /\ g * d \in Int
  <2>. HIDE DEF f, g, d
  <2>. QED BY <1>1, Signs
<1>6. /\ f > 0 /\ g > 0 => S(y) > 0
      /\ f <= 0 /\ g <= 0 => S(y) <= 0
  <2>. HIDE DEF S, e, f, g, d
  <2>. QED BY <1>1, <1>2, <1>3, <1>4, <1>5
<1>. QED
  BY <1>1, <1>6

\* A point in a polygon is within its bounds, and not on the right or the
\* lower one.
LEMMA WithinBounds ==
  ASSUME NEW poly \in Seq(Int \X Int), NEW p \in Int \X Int, containsPoint(poly, p),
         NEW left \in Int, NEW right \in Int, NEW top \in Int, NEW bottom \in Int,
         \A i \in DOMAIN poly : /\ left <= poly[i][1] /\ poly[i][1] <= right
                                /\ top <= poly[i][2] /\ poly[i][2] <= bottom
  PROVE  left <= p[1] /\ p[1] < right /\ top <= p[2] /\ p[2] < bottom
<1>1. p[1] \in Int /\ p[2] \in Int /\ p = <<p[1], p[2]>>
  OBVIOUS
<1>2. \A i \in DOMAIN poly :
        /\ poly[i] \in Int \X Int /\ After(poly, i) \in Int \X Int
        /\ left <= poly[i][1] /\ poly[i][1] <= right
        /\ top <= poly[i][2] /\ poly[i][2] <= bottom
        /\ left <= After(poly, i)[1] /\ After(poly, i)[1] <= right
        /\ top <= After(poly, i)[2] /\ After(poly, i)[2] <= bottom
  BY AfterCorner
<1>3. UpEdges(poly, p) # {} \/ DownEdges(poly, p) # {}
  <2>1. Cardinality(UpEdges(poly, p)) # Cardinality(DownEdges(poly, p))
    BY ContainsIs, EdgesFinite DEF Winding
  <2>. QED BY <2>1
<1>4. PICK lo \in Int \X Int, hi \in Int \X Int :
        /\ LeftEdge(lo, hi, p)
        /\ left <= lo[1] /\ lo[1] <= right /\ top <= lo[2] /\ lo[2] <= bottom
        /\ left <= hi[1] /\ hi[1] <= right /\ top <= hi[2] /\ hi[2] <= bottom
  BY <1>2, <1>3 DEF UpEdges, DownEdges
<1>5. top <= p[2] /\ p[2] < bottom
  <2>. DEFINE v == lo[2]
              w == hi[2]
              y == p[2]
  <2>1. v \in Int /\ w \in Int /\ y \in Int
    OBVIOUS
  <2>2. top <= v /\ w <= bottom
    BY <1>4
  <2>3. v <= y /\ y < w
    BY <1>4 DEF LeftEdge
  <2>. HIDE DEF v, w, y
  <2>4. top <= y /\ y < bottom
    BY <2>1, <2>2, <2>3
  <2>. QED BY <2>4 DEF y
<1>6. left <= p[1]
  <2>1. lo[2] <= p[2] /\ p[2] < hi[2] /\ Side(lo, hi, p[1], p[2]) <= 0
    BY <1>4, LeftIs
  <2>2. lo[2] \in Int /\ hi[2] \in Int /\ lo[1] \in Int /\ hi[1] \in Int
        /\ Side(lo, hi, p[1], p[2]) \in Int
    BY <1>1, SideMoves
  <2>3. lo[2] < hi[2] /\ p[2] <= hi[2]
    BY <1>1, <2>1, <2>2
  <2>4. p[1] < lo[1] /\ p[1] < hi[1] => Side(lo, hi, p[1], p[2]) > 0
    BY <1>1, <2>1, <2>3, SideBetween
  <2>. QED BY <1>1, <1>4, <2>1, <2>2, <2>4
<1>7. ~(right <= p[1])
  <2>. SUFFICES ASSUME right <= p[1] PROVE FALSE
    OBVIOUS
  <2>. DEFINE y == top - 1
  <2>1. y \in Int /\ y <= p[2]
    BY <1>1, <1>5
  <2>2. ASSUME NEW a \in Int \X Int, NEW b \in Int \X Int, a[2] < b[2], a[1] <= p[1], b[1] <= p[1]
        PROVE  Kept(a, b, p[1], y, p[2])
    <3>1. \A t \in Int : a[2] <= t /\ t <= b[2] => Side(a, b, p[1], t) <= 0
      BY <1>1, <2>2, SideBetween
    <3>2. a[2] \in Int /\ b[2] \in Int
      OBVIOUS
    <3>. QED BY <3>1, <3>2 DEF Kept
  <2>3. ASSUME NEW i \in DOMAIN poly
        PROVE  LET a == poly[i]
                   b == After(poly, i)
               IN  /\ a[2] < b[2] => Kept(a, b, p[1], y, p[2])
                   /\ b[2] < a[2] => Kept(b, a, p[1], y, p[2])
                   /\ a[2] = b[2] /\ y <= a[2] /\ a[2] <= p[2]
                        => (a[1] <= p[1] <=> b[1] <= p[1])
    <3>. DEFINE a == poly[i]
                b == After(poly, i)
    <3>1. a \in Int \X Int /\ b \in Int \X Int /\ a[1] <= p[1] /\ b[1] <= p[1]
      <4>1. a \in Int \X Int /\ b \in Int \X Int /\ a[1] <= right /\ b[1] <= right
        BY <1>2
      <4>. HIDE DEF a, b
      <4>2. a[1] \in Int /\ b[1] \in Int /\ p[1] \in Int /\ right \in Int /\ right <= p[1]
        BY <4>1
      <4>3. \A s, t, u \in Int : s <= t /\ t <= u => s <= u
        OBVIOUS
      <4>. QED BY <4>1, <4>2, <4>3, Zenon
    <3>. HIDE DEF a, b, y
    <3>2. /\ a[2] < b[2] => Kept(a, b, p[1], y, p[2])
          /\ b[2] < a[2] => Kept(b, a, p[1], y, p[2])
      BY <2>2, <3>1
    <3>. QED BY <3>1, <3>2 DEF a, b
  <2>4. Winding(poly, p) = Winding(poly, <<p[1], y>>)
    <3>. DEFINE x == p[1]
                z == p[2]
    <3>1. x \in Int /\ y \in Int /\ z \in Int /\ y <= z
      BY <1>1, <2>1
    <3>2. \A i \in DOMAIN poly :
             LET a == poly[i]
                 b == After(poly, i)
             IN  /\ a[2] < b[2] => Kept(a, b, x, y, z)
                 /\ b[2] < a[2] => Kept(b, a, x, y, z)
                 /\ a[2] = b[2] /\ y <= a[2] /\ a[2] <= z => (a[1] <= x <=> b[1] <= x)
      BY <2>3
    <3>. HIDE DEF x, y, z
    <3>3. Winding(poly, <<x, z>>) = Winding(poly, <<x, y>>)
      BY <3>1, <3>2, WindingFalls
    <3>. QED BY <1>1, <3>3 DEF x, z
  <2>5. UpEdges(poly, <<p[1], y>>) = {} /\ DownEdges(poly, <<p[1], y>>) = {}
    <3>1. <<p[1], y>>[2] = top - 1
      OBVIOUS
    <3>2. ASSUME NEW a \in Int \X Int, NEW b \in Int \X Int, top <= a[2]
          PROVE  ~LeftEdge(a, b, <<p[1], y>>)
      BY <3>1, <3>2 DEF LeftEdge
    <3>. QED BY <1>2, <3>2 DEF UpEdges, DownEdges
  <2>6. Winding(poly, <<p[1], y>>) = 0
    <3>1. Cardinality({}) = 0
      BY FS_EmptySet
    <3>2. Winding(poly, <<p[1], y>>) = Cardinality({}) - Cardinality({})
      BY <2>5, Zenon DEF Winding
    <3>. HIDE DEF y
    <3>. QED BY <3>1, <3>2
  <2>. QED BY <2>4, <2>6, ContainsIs
<1>. QED
  BY <1>1, <1>5, <1>6, <1>7

-----------------------------------------------------------------------------
(* The cells of a grid and what is listed in them. *)

\* Finitely many numbers have a least and a greatest one.
LEMMA Extremes ==
  ASSUME NEW S \in SUBSET Int, IsFiniteSet(S), S # {}
  PROVE  /\ Min(S) \in S /\ \A x \in S : Min(S) <= x
         /\ Max(S) \in S /\ \A x \in S : x <= Max(S)
<1>. DEFINE Has(A) == (\E m \in A : \A x \in A : m <= x) /\ (\E m \in A : \A x \in A : x <= m)
            T == {n \in Nat : \A A \in SUBSET Int : IsFiniteSet(A) /\ Cardinality(A) = n
                                                      => A = {} \/ Has(A)}
<1>1. 0 \in T
  BY FS_EmptySet
<1>2. ASSUME NEW n \in Nat, n \in T PROVE n + 1 \in T
  <2>. SUFFICES ASSUME NEW A \in SUBSET Int, IsFiniteSet(A), Cardinality(A) = n + 1, A # {}
                PROVE  Has(A)
    OBVIOUS
  <2>1. PICK a \in A : TRUE
    OBVIOUS
  <2>. DEFINE B == A \ {a}
  <2>2. B \in SUBSET Int /\ IsFiniteSet(B) /\ Cardinality(B) = n
    <3>1. IsFiniteSet(B) /\ Cardinality(B) = Cardinality(A) - 1
      BY <2>1, FS_RemoveElement
    <3>. QED BY <3>1
  <2>3. B = {} \/ Has(B)
    BY <2>2, <1>2
  <2>4. CASE B = {}
    BY <2>4
  <2>5. CASE Has(B)
    <3>1. \E m \in A : \A x \in A : m <= x
      <4>1. PICK m \in B : \A x \in B : m <= x
        BY <2>5
      <4>2. CASE m <= a
        BY <4>1, <4>2
      <4>3. CASE a <= m
        BY <4>1, <4>3
      <4>. QED BY <4>2, <4>3
    <3>2. \E m \in A : \A x \in A : x <= m
      <4>1. PICK m \in B : \A x \in B : x <= m
        BY <2>5
      <4>2. CASE m <= a
        BY <4>1, <4>2
      <4>3. CASE a <= m
        BY <4>1, <4>3
      <4>. QED BY <4>2, <4>3
    <3>. QED BY <3>1, <3>2
  <2>. QED BY <2>3, <2>4, <2>5
<1>3. Nat \subseteq T
  <2>. HIDE DEF T
  <2>. QED BY <1>1, <1>2, AllNat
<1>4. Cardinality(S) \in Nat
  BY FS_CardinalityType
<1>5. Has(S)
  BY <1>3, <1>4
<1>. QED
  BY <1>5 DEF Min, Max

\* Every element of a sequence, looked at through a function: finitely many.
LEMMA FiniteImage ==
  ASSUME NEW S, IsFiniteSet(S), NEW T, NEW f \in [S -> T], \A t \in T : \E s \in S : f[s] = t
  PROVE  IsFiniteSet(T)
<1>1. f \in Surjection(S, T)
  BY DEF Surjection
<1>. QED
  BY <1>1, FS_Surjection

LEMMA FiniteRange ==
  ASSUME NEW T, NEW s \in Seq(T)
  PROVE  IsFiniteSet(Range(s))
<1>1. IsFiniteSet(1..Len(s))
  BY FS_Interval
<1>2. s \in [1..Len(s) -> Range(s)] /\ \A t \in Range(s) : \E i \in 1..Len(s) : s[i] = t
  BY DEF Range
<1>. QED
  BY <1>1, <1>2, FiniteImage

\* The rectangle holds every corner, and each of its sides has one.
LEMMA BoundsAre ==
  ASSUME NEW polys \in Seq(Seq(Int \X Int)), NEW i \in DOMAIN polys, polys[i] # <<>>
  PROVE  LET b == boundingRect(polys)
         IN  /\ b.left \in Int /\ b.right \in Int /\ b.top \in Int /\ b.bottom \in Int
             /\ \A k \in DOMAIN polys : \A j \in DOMAIN polys[k] :
                  LET v == polys[k][j]
                  IN  b.left <= v[1] /\ v[1] <= b.right /\ b.top <= v[2] /\ v[2] <= b.bottom
             /\ \E k \in DOMAIN polys : \E j \in DOMAIN polys[k] : polys[k][j][1] = b.left
             /\ \E k \in DOMAIN polys : \E j \in DOMAIN polys[k] : polys[k][j][1] = b.right
             /\ \E k \in DOMAIN polys : \E j \in DOMAIN polys[k] : polys[k][j][2] = b.top
             /\ \E k \in DOMAIN polys : \E j \in DOMAIN polys[k] : polys[k][j][2] = b.bottom
<1>. DEFINE V == UNION {Range(poly) : poly \in Range(polys)}
            X == {v[1] : v \in V}
            Y == {v[2] : v \in V}
            b == boundingRect(polys)
<1>1. b = [left |-> Min(X), right |-> Max(X), top |-> Min(Y), bottom |-> Max(Y)]
  BY DEF boundingRect
<1>2. /\ \A k \in DOMAIN polys : \A j \in DOMAIN polys[k] : polys[k][j] \in V
      /\ \A v \in V : /\ \E k \in DOMAIN polys : \E j \in DOMAIN polys[k] : polys[k][j] = v
                      /\ v \in Int \X Int
  <2>1. \A v \in V : \E k \in DOMAIN polys : \E j \in DOMAIN polys[k] : polys[k][j] = v
    BY DEF Range
  <2>2. \A k \in DOMAIN polys : \A j \in DOMAIN polys[k] : polys[k][j] \in Int \X Int
    <3>. TAKE k \in DOMAIN polys
    <3>1. polys[k] \in Seq(Int \X Int)
      OBVIOUS
    <3>. QED BY <3>1
  <2>3. \A k \in DOMAIN polys : \A j \in DOMAIN polys[k] : polys[k][j] \in V
    <3>. TAKE k \in DOMAIN polys
    <3>1. polys[k] \in Range(polys)
      BY DEF Range
    <3>2. Range(polys[k]) \subseteq V
      BY <3>1
    <3>. QED BY <3>2 DEF Range
  <2>. QED BY <2>1, <2>2, <2>3
<1>3. IsFiniteSet(V)
  <2>. DEFINE R == {Range(poly) : poly \in Range(polys)}
              f == [poly \in Range(polys) |-> Range(poly)]
  <2>1. IsFiniteSet(Range(polys))
    BY FiniteRange
  <2>2. \A r \in R : IsFiniteSet(r)
    <3>1. \A poly \in Range(polys) : poly \in Seq(Int \X Int)
      BY DEF Range
    <3>. QED BY <3>1, FiniteRange
  <2>3. f \in [Range(polys) -> R] /\ \A r \in R : \E poly \in Range(polys) : f[poly] = r
    OBVIOUS
  <2>4. IsFiniteSet(R)
    <3>. HIDE DEF R, f
    <3>. QED BY <2>1, <2>3, FiniteImage
  <2>. QED BY <2>2, <2>4, FS_UNION
<1>. HIDE DEF V
<1>4. IsFiniteSet(X) /\ IsFiniteSet(Y)
  <2>. DEFINE f == [v \in V |-> v[1]]
              g == [v \in V |-> v[2]]
  <2>1. f \in [V -> X] /\ \A x \in X : \E v \in V : f[v] = x
    OBVIOUS
  <2>2. g \in [V -> Y] /\ \A x \in Y : \E v \in V : g[v] = x
    OBVIOUS
  <2>. HIDE DEF X, Y, f, g
  <2>3. IsFiniteSet(X)
    BY <1>3, <2>1, FiniteImage
  <2>4. IsFiniteSet(Y)
    BY <1>3, <2>2, FiniteImage
  <2>. QED BY <2>3, <2>4
<1>5. X \in SUBSET Int /\ Y \in SUBSET Int
  <2>1. \A v \in V : v[1] \in Int /\ v[2] \in Int
    BY <1>2
  <2>. QED BY <2>1
<1>6. X # {} /\ Y # {}
  <2>1. 1 \in DOMAIN polys[i]
    OBVIOUS
  <2>2. polys[i][1] \in V
    BY <1>2, <2>1
  <2>. QED BY <2>2
<1>7. /\ Min(X) \in X /\ \A x \in X : Min(X) <= x
      /\ Max(X) \in X /\ \A x \in X : x <= Max(X)
  <2>. HIDE DEF X
  <2>. QED BY <1>4, <1>5, <1>6, Extremes
<1>8. /\ Min(Y) \in Y /\ \A y \in Y : Min(Y) <= y
      /\ Max(Y) \in Y /\ \A y \in Y : y <= Max(Y)
  <2>. HIDE DEF Y
  <2>. QED BY <1>4, <1>5, <1>6, Extremes
<1>9. b.left = Min(X) /\ b.right = Max(X) /\ b.top = Min(Y) /\ b.bottom = Max(Y)
  BY <1>1
<1>10. \A k \in DOMAIN polys : \A j \in DOMAIN polys[k] :
         polys[k][j][1] \in X /\ polys[k][j][2] \in Y
  BY <1>2
<1>11. /\ \A x \in X : \E k \in DOMAIN polys : \E j \in DOMAIN polys[k] : polys[k][j][1] = x
       /\ \A y \in Y : \E k \in DOMAIN polys : \E j \in DOMAIN polys[k] : polys[k][j][2] = y
  BY <1>2
<1>. HIDE DEF X, Y, b
<1>12. b.left \in X /\ b.right \in X /\ b.top \in Y /\ b.bottom \in Y
  BY <1>7, <1>8, <1>9
<1>13. \A k \in DOMAIN polys : \A j \in DOMAIN polys[k] :
         LET v == polys[k][j]
         IN  b.left <= v[1] /\ v[1] <= b.right /\ b.top <= v[2] /\ v[2] <= b.bottom
  BY <1>7, <1>8, <1>9, <1>10
<1>14. b.left \in Int /\ b.right \in Int /\ b.top \in Int /\ b.bottom \in Int
  BY <1>5, <1>12
<1>. QED
  BY <1>11, <1>12, <1>13, <1>14 DEF b


-----------------------------------------------------------------------------
(* The cell of a point. *)

\* What a loading that died may leave of a file: its first polygons.
BeginsAFile(polys) ==
  \E f \in Files : \E n \in DOMAIN Polygons[f] : polys = SubSeq(Polygons[f], 1, n)

LEMMA BeginsWell ==
  ASSUME NEW polys, BeginsAFile(polys)
  PROVE  /\ polys \in Seq(Seq(Int \X Int)) /\ Len(polys) \in Nat /\ Len(polys) > 0
         /\ DOMAIN polys = 1..Len(polys)
         /\ \A i \in DOMAIN polys : polys[i] \in Seq(Int \X Int) /\ polys[i] # <<>>
         /\ LET b == boundingRect(polys)
            IN  /\ b.left < b.right /\ (b.right - b.left) % GridXs = 0
                /\ b.top < b.bottom /\ (b.bottom - b.top) % GridYs = 0
<1>1. PICK f \in Files : \E n \in DOMAIN Polygons[f] : polys = SubSeq(Polygons[f], 1, n)
  BY DEF BeginsAFile
<1>2. PICK n \in DOMAIN Polygons[f] : polys = SubSeq(Polygons[f], 1, n)
  BY <1>1
<1>. DEFINE all == Polygons[f]
<1>3. all \in Seq(Seq(Int \X Int)) /\ \A i \in DOMAIN all : Len(all[i]) > 2
  BY PolygonAssumption
<1>4. LET b == boundingRect(SubSeq(all, 1, n))
      IN  /\ b.left < b.right /\ (b.right - b.left) % GridXs = 0
          /\ b.top < b.bottom /\ (b.bottom - b.top) % GridYs = 0
  BY PolygonAssumption
<1>. HIDE DEF all
<1>5. n \in 1..Len(all) /\ polys = SubSeq(all, 1, n)
  BY <1>2, <1>3 DEF all
<1>6. polys \in Seq(Seq(Int \X Int)) /\ Len(polys) = n /\ \A i \in 1..n : polys[i] = all[i]
  BY <1>3, <1>5
<1>7. \A i \in DOMAIN polys : polys[i] \in Seq(Int \X Int) /\ polys[i] # <<>>
  BY <1>3, <1>5, <1>6
<1>. QED
  BY <1>4, <1>5, <1>6, <1>7

LEMMA Quotients ==
  ASSUME NEW w \in Nat, w > 0, NEW a \in Nat
  PROVE  /\ a \div w \in Nat /\ (a \div w) * w \in Nat
         /\ (a \div w) * w <= a /\ a < (a \div w) * w + w
<1>. DEFINE d == a \div w
            r == a % w
<1>1. d \in Nat /\ r \in 0..(w - 1) /\ a = w * d + r
  OBVIOUS
<1>. HIDE DEF d, r
<1>2. d * w = w * d /\ d * w \in Nat
  BY <1>1
<1>. QED
  BY <1>1, <1>2 DEF d

LEMMA QuotientsGrow ==
  ASSUME NEW w \in Nat, w > 0, NEW a \in Nat, NEW c \in Nat, a <= c
  PROVE  a \div w <= c \div w
<1>. DEFINE d == a \div w
            e == c \div w
<1>1. d \in Nat /\ e \in Nat /\ d * w <= a /\ c < e * w + w
  BY Quotients
<1>. HIDE DEF d, e
<1>2. ~(e < d)
  <2>. SUFFICES ASSUME e < d PROVE FALSE
    OBVIOUS
  <2>1. PICK k \in Nat : d = e + 1 + k
    BY <1>1
  <2>2. d * w = e * w + w + k * w /\ k * w \in Nat /\ e * w \in Nat
    BY <1>1, <2>1
  <2>. QED BY <1>1, <2>2
<1>. QED
  BY <1>1, <1>2 DEF d, e

LEMMA QuotientBelow ==
  ASSUME NEW w \in Nat, w > 0, NEW n \in Nat, NEW a \in Nat, a < n * w
  PROVE  a \div w < n
<1>. DEFINE d == a \div w
<1>1. d \in Nat /\ d * w <= a
  BY Quotients
<1>. HIDE DEF d
<1>2. ~(n <= d)
  <2>. SUFFICES ASSUME n <= d PROVE FALSE
    OBVIOUS
  <2>1. PICK k \in Nat : d = n + k
    BY <1>1
  <2>2. d * w = n * w + k * w /\ k * w \in Nat /\ n * w \in Nat
    BY <1>1, <2>1
  <2>. QED BY <1>1, <2>2
<1>. QED
  BY <1>1, <1>2 DEF d

\* A multiple of n, cut into n parts.
LEMMA WidthOfCells ==
  ASSUME NEW n \in Nat, n > 0, NEW left \in Int, NEW right \in Int, left < right,
         (right - left) % n = 0
  PROVE  LET w == (right - left) \div n
         IN  w \in Nat /\ w > 0 /\ right - left = n * w
<1>. DEFINE a == right - left
            w == a \div n
            r == a % n
<1>1. a \in Nat /\ a > 0 /\ r = 0
  OBVIOUS
<1>. HIDE DEF a
<1>2. w \in Nat /\ r \in 0..(n - 1) /\ a = n * w + r
  BY <1>1
<1>. HIDE DEF w
<1>3. a = n * w
  BY <1>1, <1>2
<1>4. w # 0
  BY <1>1, <1>3
<1>. QED
  BY <1>2, <1>3, <1>4 DEF a, w

\* Along one axis: the cell of x is one of those that are looked at for a
\* polygon that lies between lo and hi, and x is between its borders.
LEMMA CellOnAxis ==
  ASSUME NEW n \in Nat, n > 0, NEW left \in Int, NEW right \in Int, left < right,
         (right - left) % n = 0, NEW lo \in Int, NEW hi \in Int, NEW x \in Int,
         left <= lo, lo <= x, x <= hi, hi <= right, x < right
  PROVE  LET w == (right - left) \div n
             c == Truncated(x - left, w)
         IN  /\ c \in 0..(n - 1)
             /\ c \in Truncated(lo - left, w)..Clamped(Truncated(hi - left, w) + 1, n)
             /\ c * w + left \in Int /\ (c + 1) * w + left \in Int
             /\ c * w + left <= x /\ x <= (c + 1) * w + left
<1>. DEFINE a == right - left
            w == a \div n
            c == (x - left) \div w
            d == (lo - left) \div w
            e == (hi - left) \div w
<1>1. a \in Nat /\ a > 0 /\ a % n = 0
  OBVIOUS
<1>2. w \in Nat /\ w > 0 /\ a = n * w
  BY WidthOfCells
<1>3. Truncated(x - left, w) = c /\ Truncated(lo - left, w) = d /\ Truncated(hi - left, w) = e
  BY DEF Truncated
<1>4. x - left \in Nat /\ lo - left \in Nat /\ hi - left \in Nat /\ x - left < a
      /\ lo - left <= x - left /\ x - left <= hi - left
  OBVIOUS
<1>5. c < n
  <2>. DEFINE z == x - left
  <2>1. z \in Nat /\ z < n * w
    BY <1>2, <1>4
  <2>. HIDE DEF z, w
  <2>2. z \div w < n
    BY <1>2, <2>1, QuotientBelow
  <2>. QED BY <2>2 DEF z
<1>6. c \in Nat /\ c * w <= x - left /\ x - left < c * w + w /\ d \in Nat /\ e \in Nat
      /\ c * w \in Nat
  <2>. HIDE DEF w
  <2>. QED BY <1>2, <1>4, Quotients
<1>7. d <= c /\ c <= e
  <2>. HIDE DEF w
  <2>. QED BY <1>2, <1>4, QuotientsGrow
<1>8. c \in d..Clamped(e + 1, n) /\ c \in 0..(n - 1)
  <2>. HIDE DEF c, d, e
  <2>. QED BY <1>5, <1>6, <1>7 DEF Clamped
<1>9. (c + 1) * w = c * w + w
  <2>. HIDE DEF c, w
  <2>. QED BY <1>2, <1>6
<1>10. /\ c * w + left \in Int /\ (c + 1) * w + left \in Int
       /\ c * w + left <= x /\ x <= (c + 1) * w + left
  <2>. DEFINE m == c * w
  <2>. HIDE DEF c, w
  <2>1. m \in Nat /\ m <= x - left /\ x - left < m + w /\ (c + 1) * w = m + w
    BY <1>6, <1>9 DEF m
  <2>. HIDE DEF m
  <2>2. m + left \in Int /\ m + w + left \in Int /\ m + left <= x /\ x <= m + w + left
    BY <1>2, <2>1
  <2>. QED BY <2>1, <2>2 DEF m
<1>. QED
  BY <1>3, <1>8, <1>10

LEMMA ListedInItsCell ==
  ASSUME NEW polys, BeginsAFile(polys), NEW p \in Int \X Int, NEW i \in DOMAIN polys,
         containsPoint(polys[i], p),
         NEW g, g.xs = GridXs, g.ys = GridYs, g.bound = boundingRect(polys), g.polygons = polys
  PROVE  LET x == getXIndex(g, p[1])
             y == getYIndex(g, p[2])
         IN  <<x, y>> \in Cells /\ <<x, y>> \in ListedIn(g, i - 1)
<1>. DEFINE poly == polys[i]
            all == boundingRect(polys)
            one == boundingRect(<<poly>>)
            x == getXIndex(g, p[1])
            y == getYIndex(g, p[2])
<1>1. poly \in Seq(Int \X Int) /\ poly # <<>> /\ polys \in Seq(Seq(Int \X Int)) /\ p \in Int \X Int
  BY BeginsWell
<1>2. /\ all.left \in Int /\ all.right \in Int /\ all.top \in Int /\ all.bottom \in Int
      /\ \A k \in DOMAIN polys : \A j \in DOMAIN polys[k] :
           LET v == polys[k][j]
           IN  all.left <= v[1] /\ v[1] <= all.right /\ all.top <= v[2] /\ v[2] <= all.bottom
  BY <1>1, BoundsAre
<1>3. /\ one.left \in Int /\ one.right \in Int /\ one.top \in Int /\ one.bottom \in Int
      /\ \A j \in DOMAIN poly :
           LET v == poly[j]
           IN  one.left <= v[1] /\ v[1] <= one.right /\ one.top <= v[2] /\ v[2] <= one.bottom
      /\ \E j \in DOMAIN poly : poly[j][1] = one.left
      /\ \E j \in DOMAIN poly : poly[j][1] = one.right
      /\ \E j \in DOMAIN poly : poly[j][2] = one.top
      /\ \E j \in DOMAIN poly : poly[j][2] = one.bottom
  <2>. DEFINE s == <<poly>>
  <2>1. s \in Seq(Seq(Int \X Int)) /\ DOMAIN s = {1} /\ s[1] = poly
    BY <1>1
  <2>. HIDE DEF s, poly
  <2>2. 1 \in DOMAIN s /\ s[1] # <<>>
    BY <1>1, <2>1
  <2>. DEFINE b == boundingRect(s)
  <2>3. /\ b.left \in Int /\ b.right \in Int /\ b.top \in Int /\ b.bottom \in Int
        /\ \A k \in DOMAIN s : \A j \in DOMAIN s[k] :
             LET v == s[k][j]
             IN  b.left <= v[1] /\ v[1] <= b.right /\ b.top <= v[2] /\ v[2] <= b.bottom
        /\ \E k \in DOMAIN s : \E j \in DOMAIN s[k] : s[k][j][1] = b.left
        /\ \E k \in DOMAIN s : \E j \in DOMAIN s[k] : s[k][j][1] = b.right
        /\ \E k \in DOMAIN s : \E j \in DOMAIN s[k] : s[k][j][2] = b.top
        /\ \E k \in DOMAIN s : \E j \in DOMAIN s[k] : s[k][j][2] = b.bottom
    BY <2>1, <2>2, BoundsAre
  <2>4. b = one
    BY DEF s
  <2>. HIDE DEF b, one
  <2>. QED BY <2>1, <2>3, <2>4
<1>. HIDE DEF one
<1>4. /\ all.left <= one.left /\ one.right <= all.right
      /\ all.top <= one.top /\ one.bottom <= all.bottom
  <2>. HIDE DEF all
  <2>. QED BY <1>2, <1>3
<1>5. one.left <= p[1] /\ p[1] < one.right /\ one.top <= p[2] /\ p[2] < one.bottom
  <2>. DEFINE left == one.left
              right == one.right
              top == one.top
              bottom == one.bottom
  <2>1. containsPoint(poly, p)
    OBVIOUS
  <2>. HIDE DEF poly
  <2>2. left \in Int /\ right \in Int /\ top \in Int /\ bottom \in Int
    BY <1>3
  <2>3. \A j \in DOMAIN poly : /\ left <= poly[j][1] /\ poly[j][1] <= right
                               /\ top <= poly[j][2] /\ poly[j][2] <= bottom
    BY <1>3
  <2>. HIDE DEF left, right, top, bottom
  <2>4. left <= p[1] /\ p[1] < right /\ top <= p[2] /\ p[2] < bottom
    BY <1>1, <2>1, <2>2, <2>3, WithinBounds
  <2>. QED BY <2>4 DEF left, right, top, bottom
<1>6. /\ all.left < all.right /\ (all.right - all.left) % GridXs = 0
      /\ all.top < all.bottom /\ (all.bottom - all.top) % GridYs = 0
  BY BeginsWell
<1>7. GridXs \in Nat /\ GridYs \in Nat /\ GridXs > 0 /\ GridYs > 0
  BY PolygonAssumption
<1>. DEFINE w == (all.right - all.left) \div GridXs
            h == (all.bottom - all.top) \div GridYs
<1>8. /\ width(g) = w /\ height(g) = h
      /\ g.bound.left = all.left /\ g.bound.top = all.top
  BY DEF width, height
<1>. HIDE DEF all
<1>. DEFINE u == p[1]
            v == p[2]
<1>9. u \in Int /\ v \in Int
  BY <1>1
<1>10. LET c == Truncated(u - all.left, w)
       IN  /\ c \in 0..(GridXs - 1)
           /\ c \in Truncated(one.left - all.left, w)
                      ..Clamped(Truncated(one.right - all.left, w) + 1, GridXs)
           /\ c * w + all.left \in Int /\ (c + 1) * w + all.left \in Int
           /\ c * w + all.left <= u /\ u <= (c + 1) * w + all.left
  <2>. DEFINE left == all.left
              right == all.right
              lo == one.left
              hi == one.right
  <2>1. /\ left \in Int /\ right \in Int /\ left < right /\ (right - left) % GridXs = 0
        /\ lo \in Int /\ hi \in Int /\ u \in Int /\ left <= lo /\ lo <= u /\ u <= hi
        /\ hi <= right /\ u < right
    BY <1>2, <1>3, <1>4, <1>5, <1>6, <1>9
  <2>2. w = (right - left) \div GridXs
    OBVIOUS
  <2>. HIDE DEF left, right, lo, hi, u, w
  <2>3. GridXs \in Nat /\ GridXs > 0
    BY <1>7
  <2>4. LET c == Truncated(u - left, (right - left) \div GridXs)
        IN  /\ c \in 0..(GridXs - 1)
            /\ c \in Truncated(lo - left, (right - left) \div GridXs)
                       ..Clamped(Truncated(hi - left, (right - left) \div GridXs) + 1, GridXs)
            /\ c * ((right - left) \div GridXs) + left \in Int
            /\ (c + 1) * ((right - left) \div GridXs) + left \in Int
            /\ c * ((right - left) \div GridXs) + left <= u
            /\ u <= (c + 1) * ((right - left) \div GridXs) + left
    BY <2>1, <2>3, CellOnAxis
  <2>. QED BY <2>2, <2>4 DEF left, right, lo, hi
<1>11. LET c == Truncated(v - all.top, h)
       IN  /\ c \in 0..(GridYs - 1)
           /\ c \in Truncated(one.top - all.top, h)
                      ..Clamped(Truncated(one.bottom - all.top, h) + 1, GridYs)
           /\ c * h + all.top \in Int /\ (c + 1) * h + all.top \in Int
           /\ c * h + all.top <= v /\ v <= (c + 1) * h + all.top
  <2>. DEFINE left == all.top
              right == all.bottom
              lo == one.top
              hi == one.bottom
  <2>1. /\ left \in Int /\ right \in Int /\ left < right /\ (right - left) % GridYs = 0
        /\ lo \in Int /\ hi \in Int /\ v \in Int /\ left <= lo /\ lo <= v /\ v <= hi
        /\ hi <= right /\ v < right
    BY <1>2, <1>3, <1>4, <1>5, <1>6, <1>9
  <2>2. h = (right - left) \div GridYs
    OBVIOUS
  <2>. HIDE DEF left, right, lo, hi, v, h
  <2>3. GridYs \in Nat /\ GridYs > 0
    BY <1>7
  <2>4. LET c == Truncated(v - left, (right - left) \div GridYs)
        IN  /\ c \in 0..(GridYs - 1)
            /\ c \in Truncated(lo - left, (right - left) \div GridYs)
                       ..Clamped(Truncated(hi - left, (right - left) \div GridYs) + 1, GridYs)
            /\ c * ((right - left) \div GridYs) + left \in Int
            /\ (c + 1) * ((right - left) \div GridYs) + left \in Int
            /\ c * ((right - left) \div GridYs) + left <= v
            /\ v <= (c + 1) * ((right - left) \div GridYs) + left
    BY <2>1, <2>3, CellOnAxis
  <2>. QED BY <2>2, <2>4 DEF left, right, lo, hi
<1>. DEFINE l == <<getX(g, x), getY(g, y)>>
            r == <<getX(g, x + 1), getY(g, y + 1)>>
<1>12. x = Truncated(u - all.left, w) /\ y = Truncated(v - all.top, h)
  BY <1>8 DEF getXIndex, getYIndex
<1>13. /\ getX(g, x) = x * w + all.left /\ getX(g, x + 1) = (x + 1) * w + all.left
       /\ getY(g, y) = y * h + all.top /\ getY(g, y + 1) = (y + 1) * h + all.top
  BY <1>8 DEF getX, getY
<1>14. <<x, y>> \in Cells
  BY <1>10, <1>11, <1>12 DEF Cells
<1>15. polygonRectIntersection(poly, l, r)
  <2>1. l \in Int \X Int /\ r \in Int \X Int
    BY <1>10, <1>11, <1>12, <1>13
  <2>2. l[1] <= u /\ u <= r[1] /\ l[2] <= v /\ v <= r[2]
    BY <1>10, <1>11, <1>12, <1>13
  <2>3. containsPoint(poly, p)
    OBVIOUS
  <2>. HIDE DEF l, r, poly
  <2>. QED BY <1>1, <2>1, <2>2, <2>3, ListedWhereItIs
<1>16. poly = g.polygons[(i - 1) + 1]
  <2>1. (i - 1) + 1 = i
    BY <1>1
  <2>. QED BY <2>1
<1>17. /\ x \in getXIndex(g, one.left)..Clamped(getXIndex(g, one.right) + 1, g.xs)
       /\ y \in getYIndex(g, one.top)..Clamped(getYIndex(g, one.bottom) + 1, g.ys)
  BY <1>8, <1>10, <1>11, <1>12 DEF getXIndex, getYIndex
<1>18. <<x, y>> \in ListedIn(g, i - 1)
  <2>1. <<x, y>>[1] = x /\ <<x, y>>[2] = y
    OBVIOUS
  <2>. HIDE DEF x, y, poly
  <2>. QED BY <1>15, <1>16, <1>17, <2>1 DEF ListedIn, one
<1>. QED
  BY <1>14, <1>18


-----------------------------------------------------------------------------
(* What is picked out of a sequence that ascends. *)

\* Number i of the sequences f is what is picked out of the first i elements.
Picks(f, s, S, n) ==
  f[0] = <<>> /\ \A i \in 1..n : f[i] = IF s[i] \in S THEN Append(f[i - 1], s[i]) ELSE f[i - 1]

LEMMA PicksExist ==
  ASSUME NEW S, NEW U, NEW s \in Seq(U), NEW n \in Nat, n <= Len(s)
  PROVE  \E f \in [0..n -> Seq(U)] : Picks(f, s, S, n)
<1>. DEFINE P(k) == \E f \in [0..k -> Seq(U)] : Picks(f, s, S, k)
            T == {k \in Nat : k <= Len(s) => P(k)}
<1>1. 0 \in T
  <2>1. [i \in 0..0 |-> <<>>] \in [0..0 -> Seq(U)] /\ Picks([i \in 0..0 |-> <<>>], s, S, 0)
    BY DEF Picks
  <2>. QED BY <2>1
<1>2. \A k \in Nat : k \in T => k + 1 \in T
  <2>. SUFFICES ASSUME NEW k \in Nat, k \in T, k + 1 <= Len(s) PROVE P(k + 1)
    <3>. HIDE DEF P
    <3>. QED OBVIOUS
  <2>1. P(k)
    <3>1. k <= Len(s)
      OBVIOUS
    <3>. HIDE DEF P
    <3>. QED BY <3>1
  <2>2. PICK f \in [0..k -> Seq(U)] : Picks(f, s, S, k)
    BY <2>1
  <2>. DEFINE x == IF s[k + 1] \in S THEN Append(f[k], s[k + 1]) ELSE f[k]
              g == [i \in 0..(k + 1) |-> IF i = k + 1 THEN x ELSE f[i]]
  <2>3. x \in Seq(U)
    <3>1. f[k] \in Seq(U) /\ s[k + 1] \in U
      OBVIOUS
    <3>. QED BY <3>1
  <2>. HIDE DEF x
  <2>4. g \in [0..(k + 1) -> Seq(U)]
    BY <2>3
  <2>5. \A i \in 0..k : g[i] = f[i]
    OBVIOUS
  <2>6. g[k + 1] = x
    OBVIOUS
  <2>. HIDE DEF g
  <2>7. g[0] = <<>>
    <3>1. 0 \in 0..k
      OBVIOUS
    <3>. QED BY <2>2, <2>5, <3>1 DEF Picks
  <2>8. \A i \in 1..(k + 1) : g[i] = IF s[i] \in S THEN Append(g[i - 1], s[i]) ELSE g[i - 1]
    <3>1. \A i \in 1..k : i \in 0..k /\ i - 1 \in 0..k
      OBVIOUS
    <3>2. \A i \in 1..k : g[i] = IF s[i] \in S THEN Append(g[i - 1], s[i]) ELSE g[i - 1]
      BY <2>2, <2>5, <3>1 DEF Picks
    <3>3. g[k + 1] = IF s[k + 1] \in S THEN Append(g[(k + 1) - 1], s[k + 1]) ELSE g[(k + 1) - 1]
      BY <2>5, <2>6 DEF x
    <3>4. \A i \in 1..(k + 1) : i \in 1..k \/ i = k + 1
      OBVIOUS
    <3>. QED BY <3>2, <3>3, <3>4
  <2>9. Picks(g, s, S, k + 1)
    BY <2>7, <2>8 DEF Picks
  <2>. QED BY <2>4, <2>9
<1>3. n \in T
  <2>. HIDE DEF T
  <2>. QED BY <1>1, <1>2, AllNat
<1>. QED
  BY <1>3

LEMMA PickedIs ==
  ASSUME NEW S, NEW U, NEW s \in Seq(U)
  PROVE  \E f : Picks(f, s, S, Len(s)) /\ Picked(s, S) = f[Len(s)]
<1>. DEFINE n == Len(s)
            G(g) == [i \in 0..n |-> IF i = 0 THEN <<>>
                                    ELSE IF s[i] \in S THEN Append(g[i - 1], s[i]) ELSE g[i - 1]]
            pick == CHOOSE g : g = G(g)
<1>1. n \in Nat /\ n <= Len(s)
  OBVIOUS
<1>2. Picked(s, S) = pick[n]
  BY DEF Picked
<1>. HIDE DEF n
<1>3. PICK f \in [0..n -> Seq(U)] : Picks(f, s, S, n)
  BY <1>1, PicksExist
<1>4. f = G(f)
  <2>1. \A i \in 0..n : f[i] = G(f)[i]
    <3>1. \A i \in 0..n : i # 0 => i \in 1..n
      BY <1>1
    <3>. QED BY <3>1, <1>3 DEF Picks
  <2>. QED BY <2>1
<1>5. pick = G(pick)
  <2>. HIDE DEF G
  <2>. QED BY <1>4
<1>. HIDE DEF pick
<1>6. Picks(pick, s, S, n)
  <2>1. \A i \in 0..n : pick[i] = IF i = 0 THEN <<>>
                                  ELSE IF s[i] \in S THEN Append(pick[i - 1], s[i]) ELSE pick[i - 1]
    BY <1>5
  <2>2. 0 \in 0..n /\ \A i \in 1..n : i \in 0..n /\ i # 0
    BY <1>1
  <2>. HIDE DEF G
  <2>. QED BY <2>1, <2>2 DEF Picks
<1>. QED
  BY <1>2, <1>6 DEF n

LEMMA InRange ==
  ASSUME NEW U, NEW s \in Seq(U)
  PROVE  \A x : x \in Range(s) <=> \E i \in 1..Len(s) : s[i] = x
BY DEF Range

Ascends(s) == \A i, j \in 1..Len(s) : i < j => s[i] < s[j]

\* It ascends, too, and has the chosen ones.
LEMMA PickedAscends ==
  ASSUME NEW S, NEW s \in Seq(Nat), Ascends(s)
  PROVE  /\ Picked(s, S) \in Seq(Nat) /\ Ascends(Picked(s, S))
         /\ Range(Picked(s, S)) = S \cap Range(s)
<1>. DEFINE n == Len(s)
<1>1. PICK f : Picks(f, s, S, n) /\ Picked(s, S) = f[n]
  BY PickedIs
<1>2. n \in Nat /\ \A i \in 1..n : s[i] \in Nat
  OBVIOUS
<1>3. f[0] = <<>> /\ \A i \in 1..n : f[i] = IF s[i] \in S THEN Append(f[i - 1], s[i]) ELSE f[i - 1]
  BY <1>1 DEF Picks
<1>4. \A i, j \in 1..n : i < j => s[i] < s[j]
  BY DEF Ascends
<1>. HIDE DEF n
<1>. DEFINE P(k) ==
              /\ f[k] \in Seq(Nat) /\ Ascends(f[k])
              /\ \A x : (\E m \in 1..Len(f[k]) : f[k][m] = x) <=> x \in S /\ \E i \in 1..k : s[i] = x
            T == {k \in Nat : k <= n => P(k)}
<1>5. 0 \in T
  <2>1. f[0] \in Seq(Nat) /\ Len(f[0]) = 0
    BY <1>3
  <2>2. Ascends(f[0])
    BY <2>1 DEF Ascends
  <2>. QED BY <2>1, <2>2
<1>6. \A k \in Nat : k \in T => k + 1 \in T
  <2>. SUFFICES ASSUME NEW k \in Nat, k + 1 <= n, P(k) PROVE P(k + 1)
    <3>1. \A k \in Nat : k + 1 <= n => k <= n
      BY <1>2
    <3>. HIDE DEF P
    <3>. QED BY <3>1
  <2>. DEFINE a == f[k]
              v == s[k + 1]
  <2>1. k + 1 \in 1..n /\ (k + 1) - 1 = k /\ v \in Nat
    <3>1. k + 1 \in 1..n
      BY <1>2
    <3>. QED BY <1>2, <3>1
  <2>2. f[k + 1] = IF v \in S THEN Append(a, v) ELSE a
    BY <1>3, <2>1
  <2>3. /\ a \in Seq(Nat) /\ Ascends(a)
        /\ \A x : (\E m \in 1..Len(a) : a[m] = x) <=> x \in S /\ \E i \in 1..k : s[i] = x
    OBVIOUS
  <2>4. \A i \in 1..(k + 1) : i \in 1..k \/ i = k + 1
    OBVIOUS
  <2>5. \A i \in 1..k : i \in 1..(k + 1) /\ s[i] < v
    <3>1. \A i \in 1..k : i \in 1..n /\ i < k + 1
      BY <1>2
    <3>. QED BY <1>4, <2>1, <3>1
  <2>6. \A m \in 1..Len(a) : a[m] < v
    <3>. TAKE m \in 1..Len(a)
    <3>1. \E i \in 1..k : s[i] = a[m]
      BY <2>3
    <3>. QED BY <2>5, <3>1
  <2>. HIDE DEF a
  <2>7. CASE v \notin S
    <3>1. f[k + 1] = a
      BY <2>2, <2>7
    <3>2. \A x : x \in S /\ (\E i \in 1..(k + 1) : s[i] = x) <=> x \in S /\ \E i \in 1..k : s[i] = x
      BY <2>4, <2>5, <2>7
    <3>. QED BY <2>3, <3>1, <3>2
  <2>8. CASE v \in S
    <3>. DEFINE b == Append(a, v)
                l == Len(a)
    <3>1. /\ l \in Nat /\ b \in Seq(Nat) /\ Len(b) = l + 1 /\ b[l + 1] = v
          /\ \A m \in 1..l : b[m] = a[m] /\ m \in 1..(l + 1)
          /\ \A m \in 1..(l + 1) : m \in 1..l \/ m = l + 1
          /\ l + 1 \in 1..(l + 1)
      BY <2>1, <2>3
    <3>2. f[k + 1] = b
      BY <2>2, <2>8
    <3>. HIDE DEF b
    <3>3. Ascends(b)
      <4>. SUFFICES ASSUME NEW i \in 1..(l + 1), NEW j \in 1..(l + 1), i < j PROVE b[i] < b[j]
        BY <3>1 DEF Ascends
      <4>1. i \in 1..l
        BY <3>1
      <4>2. CASE j \in 1..l
        BY <2>3, <3>1, <4>1, <4>2 DEF Ascends
      <4>3. CASE j = l + 1
        BY <2>6, <3>1, <4>1, <4>3
      <4>. QED BY <3>1, <4>2, <4>3
    <3>4. \A x : (\E m \in 1..(l + 1) : b[m] = x) <=> x = v \/ \E m \in 1..l : a[m] = x
      BY <3>1
    <3>5. \A x : (\E i \in 1..(k + 1) : s[i] = x) <=> x = v \/ \E i \in 1..k : s[i] = x
      <4>1. k + 1 \in 1..(k + 1)
        OBVIOUS
      <4>. QED BY <2>4, <2>5, <4>1
    <3>6. \A x : (\E m \in 1..(l + 1) : b[m] = x) <=> x \in S /\ \E i \in 1..(k + 1) : s[i] = x
      <4>. HIDE DEF v, l
      <4>1. \A x : (\E m \in 1..l : a[m] = x) <=> x \in S /\ \E i \in 1..k : s[i] = x
        BY <2>3 DEF l
      <4>. QED BY <2>8, <3>4, <3>5, <4>1
    <3>. QED BY <3>1, <3>2, <3>3, <3>6
  <2>. QED BY <2>7, <2>8
<1>7. Nat \subseteq T
  <2>. HIDE DEF T
  <2>. QED BY <1>5, <1>6, AllNat
<1>8. P(n)
  <2>. HIDE DEF P
  <2>1. n \in T /\ n <= n
    BY <1>2, <1>7
  <2>. QED BY <2>1
<1>9. Range(f[n]) = S \cap Range(s)
  <2>. DEFINE b == f[n]
  <2>1. /\ b \in Seq(Nat)
        /\ \A x : (\E m \in 1..Len(b) : b[m] = x) <=> x \in S /\ \E i \in 1..n : s[i] = x
    BY <1>8
  <2>. HIDE DEF b
  <2>2. \A x : x \in Range(b) <=> \E m \in 1..Len(b) : b[m] = x
    BY <2>1, InRange
  <2>3. \A x : x \in Range(s) <=> \E i \in 1..n : s[i] = x
    BY InRange DEF n
  <2>. QED BY <2>1, <2>2, <2>3 DEF b
<1>. QED
  BY <1>1, <1>8, <1>9 DEF n

\* Two sequences that ascend and have the same elements agree.
LEMMA AscendingAgree ==
  ASSUME NEW a \in Seq(Nat), NEW b \in Seq(Nat), Ascends(a), Ascends(b), Range(a) = Range(b)
  PROVE  \A k \in 1..Len(a) : k \in 1..Len(b) /\ a[k] = b[k]
<1>. DEFINE n == Len(a)
            m == Len(b)
            Odd == {k \in 1..n : ~(k \in 1..m /\ a[k] = b[k])}
<1>1. /\ n \in Nat /\ m \in Nat
      /\ \A i \in 1..n : a[i] \in Nat
      /\ \A i \in 1..m : b[i] \in Nat
  OBVIOUS
<1>2. /\ \A i, j \in 1..n : i < j => a[i] < a[j]
      /\ \A i, j \in 1..m : i < j => b[i] < b[j]
  BY DEF Ascends
<1>3. ASSUME NEW i \in 1..n PROVE \E j \in 1..m : b[j] = a[i]
  <2>1. a[i] \in Range(b)
    BY InRange
  <2>. QED BY <2>1, InRange
<1>4. ASSUME NEW i \in 1..m PROVE \E j \in 1..n : a[j] = b[i]
  <2>1. b[i] \in Range(a)
    BY InRange
  <2>. QED BY <2>1, InRange
<1>. SUFFICES ASSUME Odd # {} PROVE FALSE
  OBVIOUS
<1>. HIDE DEF n, m
<1>5. PICK k \in Odd : \A i \in Odd : k <= i
  <2>1. Odd \in SUBSET Nat
    BY <1>1
  <2>. HIDE DEF Odd
  <2>. QED BY <2>1, LeastOf
<1>6. k \in 1..n /\ k \in Nat
  BY <1>1
<1>7. ASSUME NEW i \in 1..n, i < k PROVE i \in 1..m /\ a[i] = b[i]
  <2>1. ~(k <= i)
    BY <1>1, <1>6, <1>7
  <2>2. ~(i \in Odd)
    BY <1>5, <2>1
  <2>. QED BY <2>2
<1>8. PICK j \in 1..m : b[j] = a[k]
  BY <1>3, <1>6
<1>9. j \in Nat /\ a[k] \in Nat
  BY <1>1, <1>6
<1>10. ~(j < k)
  <2>. SUFFICES ASSUME j < k PROVE FALSE
    OBVIOUS
  <2>1. j \in 1..n
    BY <1>1, <1>6
  <2>2. a[j] < a[k] /\ a[j] = b[j]
    BY <1>2, <1>6, <1>7, <2>1
  <2>3. a[k] < a[k]
    BY <1>8, <2>2
  <2>. QED BY <1>9, <2>3
<1>11. k \in 1..m /\ k <= j
  BY <1>1, <1>6, <1>9, <1>10
<1>12. k # j
  <2>. SUFFICES ASSUME k = j PROVE FALSE
    OBVIOUS
  <2>1. k \in 1..m /\ a[k] = b[k]
    BY <1>8, <1>11
  <2>. QED BY <2>1
<1>13. b[k] < a[k] /\ b[k] \in Nat
  <2>1. k < j
    BY <1>6, <1>9, <1>11, <1>12
  <2>2. b[k] < b[j]
    BY <1>2, <1>11, <2>1
  <2>. QED BY <1>1, <1>8, <1>11, <2>2
<1>14. PICK i \in 1..n : a[i] = b[k]
  BY <1>4, <1>11
<1>15. i \in Nat /\ i # k
  <2>1. a[i] # a[k]
    BY <1>9, <1>13, <1>14
  <2>. QED BY <1>1, <2>1
<1>16. ~(k < i)
  <2>. SUFFICES ASSUME k < i PROVE FALSE
    OBVIOUS
  <2>1. a[k] < a[i]
    BY <1>2, <1>6
  <2>. QED BY <1>9, <1>13, <1>14, <2>1
<1>17. i < k
  BY <1>6, <1>15, <1>16
<1>18. i \in 1..m /\ a[i] = b[i]
  BY <1>7, <1>17
<1>19. b[i] < b[k]
  BY <1>2, <1>11, <1>17, <1>18
<1>20. b[k] < b[k]
  BY <1>14, <1>18, <1>19
<1>. QED
  BY <1>13, <1>20

LEMMA AscendingSame ==
  ASSUME NEW a \in Seq(Nat), NEW b \in Seq(Nat), Ascends(a), Ascends(b), Range(a) = Range(b)
  PROVE  a = b
<1>1. \A k \in 1..Len(a) : k \in 1..Len(b) /\ a[k] = b[k]
  BY AscendingAgree
<1>2. \A k \in 1..Len(b) : k \in 1..Len(a) /\ b[k] = a[k]
  BY AscendingAgree
<1>3. Len(a) = Len(b)
  <2>1. Len(a) \in Nat /\ Len(b) \in Nat
    OBVIOUS
  <2>2. Len(a) = 0 \/ Len(a) \in 1..Len(b)
    BY <1>1, <2>1
  <2>3. Len(b) = 0 \/ Len(b) \in 1..Len(a)
    BY <1>2, <2>1
  <2>. QED BY <2>1, <2>2, <2>3
<1>. QED
  BY <1>1, <1>3


-----------------------------------------------------------------------------
(* What a grid answers. *)

\* A grid before its cells are filled.
Blank(polys) ==
  [EmptyGrid EXCEPT !.xs = GridXs, !.ys = GridYs, !.bound = boundingRect(polys),
                    !.polygons = polys]

Listed(polys, x, y) == {i \in 0..(Len(polys) - 1) : <<x, y>> \in ListedIn(Blank(polys), i)}

LEMMA BuiltCells ==
  ASSUME NEW polys, Len(polys) \in Nat, DOMAIN polys = 1..Len(polys)
  PROVE  LET g == buildGrid(polys, GridXs, GridYs)
         IN  /\ g.xs = GridXs /\ g.ys = GridYs
             /\ g.bound = boundingRect(polys) /\ g.polygons = polys
             /\ DOMAIN g.grid = 0..(GridXs - 1)
             /\ \A x \in 0..(GridXs - 1) : DOMAIN g.grid[x] = 0..(GridYs - 1)
             /\ \A c \in Cells : g.grid[c[1]][c[2]] = InOrder(Listed(polys, c[1], c[2]))
<1>. DEFINE n == Len(polys)
            listed == [k \in DOMAIN polys |-> ListedIn(Blank(polys), k - 1)]
            In(x, y) == {i \in 0..(n - 1) : <<x, y>> \in listed[i + 1]}
            cells == [x \in 0..(GridXs - 1) |-> [y \in 0..(GridYs - 1) |-> InOrder(In(x, y))]]
            g == buildGrid(polys, GridXs, GridYs)
<1>1. g = [Blank(polys) EXCEPT !.grid = cells]
  BY DEF buildGrid, Blank
<1>2. \A x, y : In(x, y) = Listed(polys, x, y)
  <2>1. \A i \in 0..(n - 1) : i + 1 \in DOMAIN polys /\ (i + 1) - 1 = i
    OBVIOUS
  <2>2. \A i \in 0..(n - 1) : listed[i + 1] = ListedIn(Blank(polys), i)
    BY <2>1
  <2>. HIDE DEF listed
  <2>. QED BY <2>2 DEF Listed
<1>. HIDE DEF In
<1>3. \A c \in Cells : cells[c[1]][c[2]] = InOrder(Listed(polys, c[1], c[2]))
  BY <1>2 DEF Cells
<1>4. /\ DOMAIN cells = 0..(GridXs - 1)
      /\ \A x \in 0..(GridXs - 1) : DOMAIN cells[x] = 0..(GridYs - 1)
  OBVIOUS
<1>. HIDE DEF cells, g
<1>5. /\ g.xs = GridXs /\ g.ys = GridYs /\ g.grid = cells
      /\ g.bound = boundingRect(polys) /\ g.polygons = polys
  BY <1>1 DEF EmptyGrid, Blank
<1>. QED
  BY <1>3, <1>4, <1>5 DEF g

LEMMA ClampedInside ==
  ASSUME NEW i \in Int, NEW n \in Nat, n > 0
  PROVE  Clamped(i, n) \in 0..(n - 1) /\ (i \in 0..(n - 1) => Clamped(i, n) = i)
BY DEF Clamped

LEMMA TruncatedIsInt ==
  ASSUME NEW i \in Int, NEW n \in Nat, n > 0
  PROVE  Truncated(i, n) \in Int
<1>1. CASE i < 0
  <2>1. -i \in Nat
    BY <1>1
  <2>. DEFINE a == -i
              q == a \div n
  <2>2. q \in Nat
    <3>. HIDE DEF a
    <3>. QED BY <2>1, Quotients DEF a
  <2>3. Truncated(i, n) = -q
    BY <1>1 DEF Truncated
  <2>. QED BY <2>2, <2>3
<1>2. CASE ~(i < 0)
  <2>1. i \in Nat /\ i \div n \in Nat
    BY <1>2, Quotients
  <2>. QED BY <1>2, <2>1 DEF Truncated
<1>. QED
  BY <1>1, <1>2

\* The cell a point is looked for in.
LEMMA LooksInside ==
  ASSUME NEW polys, BeginsAFile(polys), NEW p \in Int \X Int,
         NEW g, g.xs = GridXs, g.ys = GridYs, g.bound = boundingRect(polys)
  PROVE  /\ getXIndex(g, p[1]) \in Int /\ getYIndex(g, p[2]) \in Int
         /\ <<Clamped(getXIndex(g, p[1]), GridXs), Clamped(getYIndex(g, p[2]), GridYs)>> \in Cells
<1>. DEFINE all == boundingRect(polys)
            w == (all.right - all.left) \div GridXs
            h == (all.bottom - all.top) \div GridYs
<1>1. GridXs \in Nat /\ GridYs \in Nat /\ GridXs > 0 /\ GridYs > 0
  BY PolygonAssumption
<1>2. all.left \in Int /\ all.right \in Int /\ all.top \in Int /\ all.bottom \in Int
  <2>1. polys \in Seq(Seq(Int \X Int)) /\ 1 \in DOMAIN polys /\ polys[1] # <<>>
    BY BeginsWell
  <2>. QED BY <2>1, BoundsAre
<1>3. /\ all.left < all.right /\ (all.right - all.left) % GridXs = 0
      /\ all.top < all.bottom /\ (all.bottom - all.top) % GridYs = 0
  BY BeginsWell
<1>4. /\ getXIndex(g, p[1]) = Truncated(p[1] - all.left, w)
      /\ getYIndex(g, p[2]) = Truncated(p[2] - all.top, h)
  BY DEF getXIndex, getYIndex, width, height
<1>. HIDE DEF all
<1>5. w \in Nat /\ w > 0
  <2>. DEFINE left == all.left
              right == all.right
  <2>1. left \in Int /\ right \in Int /\ left < right /\ (right - left) % GridXs = 0
    BY <1>2, <1>3
  <2>2. w = (right - left) \div GridXs
    OBVIOUS
  <2>. HIDE DEF left, right, w
  <2>. QED BY <1>1, <2>1, <2>2, WidthOfCells
<1>6. h \in Nat /\ h > 0
  <2>. DEFINE left == all.top
              right == all.bottom
  <2>1. left \in Int /\ right \in Int /\ left < right /\ (right - left) % GridYs = 0
    BY <1>2, <1>3
  <2>2. h = (right - left) \div GridYs
    OBVIOUS
  <2>. HIDE DEF left, right, h
  <2>. QED BY <1>1, <2>1, <2>2, WidthOfCells
<1>7. p[1] - all.left \in Int /\ p[2] - all.top \in Int
  BY <1>2
<1>. HIDE DEF w, h
<1>8. getXIndex(g, p[1]) \in Int /\ getYIndex(g, p[2]) \in Int
  BY <1>4, <1>5, <1>6, <1>7, TruncatedIsInt
<1>. QED
  BY <1>1, <1>8, ClampedInside DEF Cells

\* A cell has the numbers of its polygons from the least on.
LEMMA ListedAscend ==
  ASSUME NEW S, NEW n \in Nat, S \subseteq 0..(n - 1)
  PROVE  InOrder(S) \in Seq(Nat) /\ Ascends(InOrder(S)) /\ Range(InOrder(S)) = S
<1>1. S \in SUBSET Nat /\ IsFiniteSet(S)
  <2>1. IsFiniteSet(0..(n - 1)) /\ 0..(n - 1) \subseteq Nat
    BY FS_Interval
  <2>2. IsFiniteSet(S)
    BY <2>1, FS_Subset
  <2>. QED BY <2>1, <2>2
<1>. DEFINE s == InOrder(S)
            m == Cardinality(S)
<1>2. /\ m \in Nat /\ Len(s) = m /\ DOMAIN s = 1..m
      /\ \A k \in 1..m : s[k] \in S
      /\ \A k, l \in 1..m : k < l => s[k] < s[l]
      /\ \A x \in S : \E k \in 1..m : s[k] = x
  BY <1>1, InOrderAt
<1>3. s = [k \in 1..m |-> s[k]]
  <2>. DEFINE Nth(k) == CHOOSE x \in S : Cardinality({y \in S : y < x}) = k - 1
  <2>1. s = [k \in 1..m |-> Nth(k)]
    BY DEF InOrder
  <2>. HIDE DEF Nth, s
  <2>. QED BY <2>1
<1>. HIDE DEF s, m
<1>4. s \in Seq(Nat)
  BY <1>1, <1>2, <1>3
<1>. QED
  BY <1>2, <1>4 DEF s, Ascends, Range

LEMMA AnswersAgree ==
  ASSUME NEW of, BeginsAFile(of), NEW polys, \A i \in 1..Len(of) : polys[i] = of[i],
         NEW g, g.xs = GridXs, g.ys = GridYs, g.bound = boundingRect(of), g.polygons = polys,
         \A c \in Cells : g.grid[c[1]][c[2]] = InOrder(Listed(of, c[1], c[2])),
         NEW p \in Int \X Int
  PROVE  getRegion(g, p) = getRegionBF(of, p)
<1>. DEFINE n == Len(of)
            x == Clamped(getXIndex(g, p[1]), GridXs)
            y == Clamped(getYIndex(g, p[2]), GridYs)
            S == Listed(of, x, y)
            cell == InOrder(S)
            num == Numbers(of)
            C == {i \in Range(cell) : containsPoint(g.polygons[i + 1], p)}
            D == {i \in Range(num) : containsPoint(of[i + 1], p)}
<1>1. n \in Nat /\ DOMAIN of = 1..n
  BY BeginsWell
<1>2. <<x, y>> \in Cells
  BY LooksInside
<1>3. g.grid[x][y] = cell
  BY <1>2
<1>4. getRegion(g, p) = Picked(cell, C)
  <2>1. g.xs # 0
    BY PolygonAssumption
  <2>. QED BY <1>3, <2>1 DEF getRegion
<1>5. getRegionBF(of, p) = Picked(num, D)
  BY DEF getRegionBF
<1>6. S \subseteq 0..(n - 1)
  BY DEF Listed
<1>7. cell \in Seq(Nat) /\ Ascends(cell) /\ Range(cell) = S
  <2>. HIDE DEF S, n
  <2>. QED BY <1>1, <1>6, ListedAscend
<1>8. num \in Seq(Nat) /\ Ascends(num) /\ Range(num) = 0..(n - 1)
  <2>1. num = [k \in 1..n |-> k - 1]
    BY <1>1 DEF Numbers
  <2>. HIDE DEF num, n
  <2>2. num \in Seq(Nat) /\ Len(num) = n /\ DOMAIN num = 1..n /\ \A k \in 1..n : num[k] = k - 1
    BY <1>1, <2>1
  <2>3. \A z \in 0..(n - 1) : z + 1 \in 1..n /\ (z + 1) - 1 = z
    BY <1>1
  <2>4. \A z \in 0..(n - 1) : z \in Range(num)
    <3>. TAKE z \in 0..(n - 1)
    <3>1. z + 1 \in DOMAIN num /\ num[z + 1] = z
      BY <2>2, <2>3
    <3>. QED BY <3>1 DEF Range
  <2>5. \A z \in Range(num) : z \in 0..(n - 1)
    <3>1. \A k \in 1..n : k - 1 \in 0..(n - 1)
      BY <1>1
    <3>. QED BY <2>2, <3>1 DEF Range
  <2>6. Ascends(num)
    BY <1>1, <2>2 DEF Ascends
  <2>. QED BY <2>2, <2>4, <2>5, <2>6
<1>9. \A z \in 0..(n - 1) : z + 1 \in 1..n /\ (z + 1) - 1 = z /\ polys[z + 1] = of[z + 1]
  BY <1>1
<1>10. C = {z \in S : containsPoint(of[z + 1], p)}
  <2>1. \A z \in S : g.polygons[z + 1] = of[z + 1]
    BY <1>6, <1>9
  <2>. HIDE DEF cell, S, n
  <2>. QED BY <1>7, <2>1
<1>11. D = {z \in 0..(n - 1) : containsPoint(of[z + 1], p)}
  <2>. HIDE DEF num, n
  <2>. QED BY <1>8
<1>12. ASSUME NEW z \in 0..(n - 1), containsPoint(of[z + 1], p)
       PROVE  z \in S
  <2>. DEFINE b == Blank(of)
              u == getXIndex(b, p[1])
              v == getYIndex(b, p[2])
  <2>1. b.xs = GridXs /\ b.ys = GridYs /\ b.bound = boundingRect(of) /\ b.polygons = of
    BY DEF Blank, EmptyGrid
  <2>2. z + 1 \in DOMAIN of /\ (z + 1) - 1 = z
    BY <1>1, <1>9
  <2>. HIDE DEF b
  <2>3. <<u, v>> \in Cells /\ <<u, v>> \in ListedIn(b, z)
    <3>. DEFINE i == z + 1
    <3>1. i \in DOMAIN of /\ i - 1 = z /\ containsPoint(of[i], p)
      BY <1>12, <2>2
    <3>. HIDE DEF i
    <3>. QED BY <2>1, <3>1, ListedInItsCell
  <2>4. getXIndex(g, p[1]) = u /\ getYIndex(g, p[2]) = v
    BY <2>1 DEF getXIndex, getYIndex, width, height
  <2>5. u \in 0..(GridXs - 1) /\ v \in 0..(GridYs - 1)
    BY <2>3 DEF Cells
  <2>6. GridXs \in Nat /\ GridYs \in Nat /\ GridXs > 0 /\ GridYs > 0
    BY PolygonAssumption
  <2>. HIDE DEF u, v
  <2>7. x = u /\ y = v
    <3>1. u \in Int /\ v \in Int
      BY <2>5
    <3>2. Clamped(u, GridXs) = u /\ Clamped(v, GridYs) = v
      BY <2>5, <2>6, <3>1, ClampedInside
    <3>. QED BY <2>4, <3>2
  <2>. HIDE DEF x, y
  <2>. QED BY <1>12, <2>3, <2>7 DEF Listed, b
<1>13. C = D
  <2>1. {z \in S : containsPoint(of[z + 1], p)} = {z \in 0..(n - 1) : containsPoint(of[z + 1], p)}
    <3>. HIDE DEF S, n
    <3>. QED BY <1>6, <1>12
  <2>. HIDE DEF C, D
  <2>. QED BY <1>10, <1>11, <2>1
<1>14. C \subseteq S /\ D \subseteq 0..(n - 1)
  <2>. HIDE DEF C, D, S, n
  <2>. QED BY <1>10, <1>11
<1>. HIDE DEF C, D, S, n, cell, num
<1>. DEFINE a == Picked(cell, C)
            b == Picked(num, D)
<1>15. a \in Seq(Nat) /\ Ascends(a) /\ Range(a) = C \cap Range(cell)
  BY <1>7, PickedAscends
<1>16. b \in Seq(Nat) /\ Ascends(b) /\ Range(b) = D \cap Range(num)
  BY <1>8, PickedAscends
<1>. HIDE DEF a, b
<1>17. Range(a) = Range(b)
  BY <1>7, <1>8, <1>13, <1>14, <1>15, <1>16
<1>18. a = b
  BY <1>15, <1>16, <1>17, AscendingSame
<1>. QED
  BY <1>4, <1>5, <1>18 DEF a, b


-----------------------------------------------------------------------------
(* A grid that is written whole and read again. *)

\* The place of a cell in the files, as readGrid looks for it.
Place(x, y) == y * GridXs + x + 1

LEMMA PlaceIs ==
  ASSUME NEW x \in 0..(GridXs - 1), NEW y \in 0..(GridYs - 1)
  PROVE  /\ Place(x, y) \in 1..(GridXs * GridYs)
         /\ (Place(x, y) - 1) % GridXs = x /\ (Place(x, y) - 1) \div GridXs = y
<1>. DEFINE xs == GridXs
            ys == GridYs
            m == y * xs
            z == y * xs + x
<1>1. xs \in Nat /\ ys \in Nat
  BY PolygonAssumption
<1>. HIDE DEF xs, ys
<1>2. m \in Nat /\ x \in Nat /\ x < xs /\ y \in Nat /\ y < ys
  BY <1>1 DEF xs, ys
<1>3. m + xs <= xs * ys /\ xs * ys \in Nat
  <2>1. PICK e \in Nat : ys = y + 1 + e
    <3>1. ys - y - 1 \in Nat /\ ys = y + 1 + (ys - y - 1)
      BY <1>1, <1>2
    <3>. QED BY <3>1
  <2>2. xs * ys = m + xs + xs * e /\ xs * e \in Nat
    BY <1>1, <1>2, <2>1
  <2>. QED BY <1>1, <1>2, <2>2
<1>4. z \div xs = y /\ z % xs = x
  BY <1>1, <1>2, SMT
<1>5. (z + 1) - 1 = z /\ z = m + x
  BY <1>2
<1>6. z + 1 \in 1..(xs * ys)
  <2>. HIDE DEF m, z
  <2>. QED BY <1>1, <1>2, <1>3, <1>5
<1>7. Place(x, y) = z + 1
  BY DEF Place, xs
<1>. HIDE DEF z, m
<1>. QED
  BY <1>4, <1>5, <1>6, <1>7 DEF xs, ys

LEMMA ReadInside ==
  ASSUME NEW U, NEW s \in Seq(U), NEW k \in 1..Len(s)
  PROVE  Read(s, k) = s[k]
BY DEF Read

LEMMA RoundTrip ==
  ASSUME NEW g, g.xs = GridXs, g.ys = GridYs,
         \A c \in Cells : g.grid[c[1]][c[2]] \in Seq(Nat),
         NEW file, file.header = outputGrid(g).header, file.sizes = outputGrid(g).sizes,
         file.index = outputGrid(g).index
  PROVE  /\ readGrid(file).xs = GridXs /\ readGrid(file).ys = GridYs
         /\ readGrid(file).bound = g.bound
         /\ \A c \in Cells : readGrid(file).grid[c[1]][c[2]] = g.grid[c[1]][c[2]]
<1>. DEFINE n == GridXs * GridYs
            cells == [k \in 1..n |-> CellAt(g, k)]
            sizes == [k \in 1..n |-> Read(file.sizes, k)]
            Cell(k) ==
              LET before == Total(SubSeq(sizes, 1, k - 1))
              IN  [j \in 1..sizes[k] |-> Read(file.index, before + j)]
<1>1. GridXs \in Nat /\ GridYs \in Nat /\ GridXs > 0 /\ GridYs > 0 /\ n \in Nat
  BY PolygonAssumption
<1>2. /\ file.header = <<[xs |-> GridXs, ys |-> GridYs, bound |-> g.bound]>>
      /\ file.sizes = [k \in 1..n |-> Len(CellAt(g, k))]
      /\ file.index = FlattenSeq(cells)
  BY DEF outputGrid
<1>3. \A k \in 1..n : CellAt(g, k) \in Seq(Nat)
  <2>. TAKE k \in 1..n
  <2>1. <<(k - 1) % GridXs, (k - 1) \div GridXs>> \in Cells
    BY <1>1, CellOfGrid DEF Cells
  <2>. QED BY <2>1 DEF CellAt
<1>4. readGrid(file)
        = [EmptyGrid EXCEPT !.xs = GridXs, !.ys = GridYs, !.bound = g.bound,
             !.grid = [x \in 0..(GridXs - 1) |-> [y \in 0..(GridYs - 1) |->
                         Cell(y * GridXs + x + 1)]]]
  <2>. DEFINE h == file.header[1]
  <2>1. file.header # <<>> /\ h.xs = GridXs /\ h.ys = GridYs /\ h.bound = g.bound
    BY <1>2
  <2>. DEFINE sz == [k \in 1..(h.xs * h.ys) |-> Read(file.sizes, k)]
              Cl(k) ==
                LET before == Total(SubSeq(sz, 1, k - 1))
                IN  [j \in 1..sz[k] |-> Read(file.index, before + j)]
  <2>2. readGrid(file)
          = [EmptyGrid EXCEPT !.xs = h.xs, !.ys = h.ys, !.bound = h.bound,
               !.grid = [x \in 0..(h.xs - 1) |-> [y \in 0..(h.ys - 1) |->
                           Cl(y * h.xs + x + 1)]]]
    BY <2>1 DEF readGrid
  <2>3. sz = sizes
    BY <2>1
  <2>4. \A k : Cl(k) = Cell(k)
    <3>. HIDE DEF sz, sizes
    <3>. QED BY <2>3
  <2>. HIDE DEF Cl, Cell, h
  <2>. QED BY <2>1, <2>2, <2>4
<1>. HIDE DEF n
<1>5. cells \in Seq(Seq(Nat)) /\ Len(cells) = n /\ \A k \in 1..n : cells[k] = CellAt(g, k)
  BY <1>1, <1>3
<1>. HIDE DEF cells
<1>6. /\ Lengths(cells) \in Seq(Nat) /\ Len(Lengths(cells)) = n
      /\ \A k \in 1..n : Lengths(cells)[k] = Len(cells[k]) /\ Lengths(cells)[k] \in Nat
  <2>1. \A k \in 1..n : Len(cells[k]) \in Nat
    BY <1>1, <1>3, <1>5
  <2>. QED BY <1>1, <1>5, <2>1 DEF Lengths
<1>7. sizes = Lengths(cells)
  <2>1. file.sizes = [k \in 1..n |-> Len(cells[k])]
    BY <1>2, <1>5
  <2>2. \A k \in 1..n : Read(file.sizes, k) = Len(cells[k])
    BY <2>1 DEF Read
  <2>. QED BY <1>5, <2>2 DEF Lengths
<1>. HIDE DEF sizes
<1>8. PICK s \in [0..n -> Nat] : Sums(s, Lengths(cells), n)
  BY <1>1, <1>6, SumsExist
<1>9. Placed(file.index, cells, s, n)
  BY <1>2, <1>5, <1>8, FlattenPlaces
<1>10. file.index \in Seq(Nat)
  BY <1>2, <1>5, FlattenType
<1>11. \A k \in 1..n : Total(SubSeq(sizes, 1, k - 1)) = s[k - 1]
  <2>. TAKE k \in 1..n
  <2>. DEFINE first == SubSeq(Lengths(cells), 1, k - 1)
  <2>1. /\ k - 1 \in Nat /\ k - 1 <= n /\ first \in Seq(Nat) /\ Len(first) = k - 1
        /\ \A i \in 1..(k - 1) : first[i] = Lengths(cells)[i] /\ i \in 1..n
    BY <1>1, <1>6
  <2>. HIDE DEF first
  <2>2. Sums(s, first, k - 1)
    BY <2>1, <1>8 DEF Sums
  <2>3. Total(first) = s[k - 1]
    BY <2>1, <2>2, TotalIs
  <2>. QED BY <2>3, <1>7 DEF first
<1>12. ASSUME NEW k \in 1..n PROVE Cell(k) = CellAt(g, k)
  <2>. DEFINE c == cells[k]
              before == Total(SubSeq(sizes, 1, k - 1))
  <2>1. c = CellAt(g, k) /\ c \in Seq(Nat) /\ sizes[k] = Len(c) /\ before = s[k - 1]
    BY <1>3, <1>5, <1>6, <1>7, <1>11
  <2>2. \A j \in 1..Len(c) : s[k - 1] + j \in 1..Len(file.index) /\ file.index[s[k - 1] + j] = c[j]
    BY <1>9 DEF Placed
  <2>. HIDE DEF c
  <2>3. \A j \in 1..Len(c) : Read(file.index, s[k - 1] + j) = c[j]
    BY <1>10, <2>2, ReadInside
  <2>4. Cell(k) = [j \in 1..Len(c) |-> Read(file.index, s[k - 1] + j)]
    BY <2>1
  <2>5. c = [j \in 1..Len(c) |-> c[j]]
    BY <2>1
  <2>6. Cell(k) = [j \in 1..Len(c) |-> c[j]]
    <3>. HIDE DEF Cell
    <3>. QED BY <2>3, <2>4
  <2>. QED BY <2>1, <2>5, <2>6
<1>. HIDE DEF Cell
<1>. DEFINE all == [x \in 0..(GridXs - 1) |-> [y \in 0..(GridYs - 1) |-> Cell(y * GridXs + x + 1)]]
<1>13. \A c \in Cells : all[c[1]][c[2]] = g.grid[c[1]][c[2]]
  <2>. TAKE c \in Cells
  <2>1. PICK x \in 0..(GridXs - 1), y \in 0..(GridYs - 1) : c = <<x, y>>
    BY DEF Cells
  <2>2. all[x][y] = Cell(y * GridXs + x + 1)
    OBVIOUS
  <2>. DEFINE k == Place(x, y)
  <2>3. k \in 1..n /\ (k - 1) % GridXs = x /\ (k - 1) \div GridXs = y
    BY PlaceIs DEF n
  <2>. HIDE DEF k
  <2>4. Cell(k) = g.grid[x][y]
    BY <1>12, <2>3 DEF CellAt
  <2>. HIDE DEF all
  <2>. QED BY <2>1, <2>2, <2>4 DEF k, Place
<1>. HIDE DEF all
<1>14. readGrid(file) = [EmptyGrid EXCEPT !.xs = GridXs, !.ys = GridYs, !.bound = g.bound,
                                          !.grid = all]
  BY <1>4 DEF all
<1>15. /\ readGrid(file).xs = GridXs /\ readGrid(file).ys = GridYs
       /\ readGrid(file).bound = g.bound /\ readGrid(file).grid = all
  BY <1>14 DEF EmptyGrid
<1>. QED
  BY <1>13, <1>15


-----------------------------------------------------------------------------
(* Polygons that can be read are a file's first ones. *)

LEMMA LegibleBegin ==
  ASSUME PolygonInv, SourceInv, pc = "idle", getPolygons(blocks) # <<>>,
         Legible(getPolygons(blocks))
  PROVE  BeginsAFile(getPolygons(blocks))
<1>. DEFINE num == getTuples(blocks, NumColumn, <<>>)
            x == getTuples(blocks, XColumn, <<>>)
            y == getTuples(blocks, YColumn, <<>>)
            polys == getPolygons(blocks)
            n == Len(polys)
<1>1. n \in Nat /\ DOMAIN polys = 1..n
  BY PolygonsThere DEF PolygonInv
<1>2. DOMAIN num = 1..n
  BY <1>1 DEF getPolygons
<1>3. polys = [i \in 1..n |-> polys[i]]
  BY <1>2 DEF getPolygons
<1>4. \A i \in 1..n : num[i] = Zero => polys[i] = <<>>
  <2>. TAKE i \in 1..n
  <2>. HAVE num[i] = Zero
  <2>1. NumPoints(num[i]) = 0
    BY DEF NumPoints
  <2>2. DOMAIN polys[i] = 1..NumPoints(num[i])
    BY <1>2 DEF getPolygons
  <2>3. polys[i] = [j \in 1..NumPoints(num[i]) |-> polys[i][j]]
    BY <1>2 DEF getPolygons
  <2>4. polys[i] = [j \in {} |-> polys[i][j]]
    <3>. HIDE DEF polys, num
    <3>. QED BY <2>1, <2>3
  <2>. HIDE DEF polys
  <2>. QED BY <2>4
<1>5. /\ polys # <<>>
      /\ \A i \in 1..n : polys[i] # <<>> /\ \A p \in Range(polys[i]) : Unread \notin Range(p)
  BY <1>1 DEF Legible, Range
<1>6. \A i \in DOMAIN num : num[i] # Zero
  <2>. HIDE DEF polys, n, num
  <2>. QED BY <1>2, <1>4, <1>5
<1>7. NumColumn \in Range(PolyColumns) /\ XColumn \in Range(PolyColumns) /\ YColumn \in Range(PolyColumns)
  <2>1. /\ DOMAIN PolyColumns = 1..3
        /\ PolyColumns[1] = NumColumn /\ PolyColumns[2] = XColumn /\ PolyColumns[3] = YColumn
    BY DEF PolyColumns
  <2>. QED BY <2>1 DEF Range
<1>8. n > 0
  <2>1. CASE n = 0
    <3>1. polys = <<>>
      BY <1>3, <2>1
    <3>. QED BY <1>5, <3>1
  <2>2. CASE n # 0
    <3>. HIDE DEF n
    <3>. QED BY <1>1, <2>2
  <2>. QED BY <2>1, <2>2
<1>9. PICK f : Widest(f)
  <2>1. num[1] \in {num[i] : i \in DOMAIN num} /\ 1 \in DOMAIN num
    <3>. HIDE DEF n, num
    <3>. QED BY <1>1, <1>2, <1>8
  <2>2. num[1] # Zero
    BY <1>6, <2>1
  <2>3. num[1].from \in begun
    BY <1>7, <2>1, <2>2, IdleCells
  <2>. QED BY <2>3 DEF SourceInv, Widest
<1>. DEFINE P == Polygons[f]
            Q == PointsIn(f)
<1>10. /\ f \in Files /\ P \in Seq(Seq(Int \X Int)) /\ Q \in Seq(Int \X Int) /\ Len(P) \in Nat
       /\ \A i \in 1..Len(P) : P[i] \in Seq(Int \X Int)
  BY <1>9, WidestFile
<1>11. Corners(polys, x, y, f)
  BY <1>6, <1>9, IdleCorners
<1>12. ASSUME NEW c \in {XColumn, YColumn}, NEW m \in 1..Len(Q), NEW axis,
              Axis(getTuples(blocks, c, <<>>), m, axis) # Unread
       PROVE  Axis(getTuples(blocks, c, <<>>), m, axis) = Q[m][axis]
  <2>. DEFINE col == getTuples(blocks, c, <<>>)
  <2>1. m \in DOMAIN col /\ col[m] # Zero
    BY <1>12 DEF Axis, Coordinate
  <2>. QED BY <1>9, <2>1, AxisIs
<1>. HIDE DEF P, Q, polys, x, y, num, n
<1>13. \A i \in 1..n :
         /\ i \in 1..Len(P)
         /\ polys[i] = [j \in 1..Len(P[i]) |-> polys[i][j]]
         /\ \A j \in 1..Len(P[i]) : \E m \in 1..Len(Q) :
              Q[m] = P[i][j] /\ polys[i][j] = <<Axis(x, m, 1), Axis(y, m, 2)>>
  BY <1>1, <1>11 DEF Corners, P, Q
<1>14. ASSUME NEW i \in 1..n PROVE polys[i] = P[i]
  <2>1. polys[i] = [j \in 1..Len(P[i]) |-> polys[i][j]]
    BY <1>13
  <2>2. P[i] = [j \in 1..Len(P[i]) |-> P[i][j]]
    <3>1. P[i] \in Seq(Int \X Int)
      BY <1>10, <1>13
    <3>. QED BY <3>1
  <2>3. \A j \in 1..Len(P[i]) : polys[i][j] = P[i][j]
    <3>. TAKE j \in 1..Len(P[i])
    <3>1. PICK m \in 1..Len(Q) : Q[m] = P[i][j] /\ polys[i][j] = <<Axis(x, m, 1), Axis(y, m, 2)>>
      BY <1>13
    <3>. DEFINE p == polys[i][j]
    <3>2. p \in Range(polys[i])
      <4>1. j \in DOMAIN polys[i]
        BY <2>1
      <4>. QED BY <4>1 DEF Range
    <3>3. Unread \notin Range(p)
      BY <1>5, <3>2
    <3>4. p = <<Axis(x, m, 1), Axis(y, m, 2)>>
      BY <3>1
    <3>. HIDE DEF p
    <3>5. Axis(x, m, 1) # Unread /\ Axis(y, m, 2) # Unread
      <4>1. 1 \in DOMAIN p /\ 2 \in DOMAIN p /\ p[1] = Axis(x, m, 1) /\ p[2] = Axis(y, m, 2)
        BY <3>4
      <4>. QED BY <3>3, <4>1 DEF Range
    <3>6. Axis(x, m, 1) = Q[m][1]
      BY <1>12, <3>5 DEF x
    <3>7. Axis(y, m, 2) = Q[m][2]
      BY <1>12, <3>5 DEF y
    <3>8. p = <<Q[m][1], Q[m][2]>>
      BY <3>4, <3>6, <3>7
    <3>9. \A q \in Int \X Int : <<q[1], q[2]>> = q
      OBVIOUS
    <3>10. Q[m] \in Int \X Int
      BY <1>10
    <3>. QED BY <3>1, <3>8, <3>9, <3>10 DEF p
  <2>. QED BY <2>1, <2>2, <2>3
<1>15. n \in 1..Len(P)
  <2>1. n \in 1..n
    BY <1>1, <1>8
  <2>. QED BY <1>13, <2>1
<1>16. polys = SubSeq(P, 1, n)
  <2>1. SubSeq(P, 1, n) = [i \in 1..n |-> P[i]]
    BY <1>10, <1>15
  <2>2. polys = [i \in 1..n |-> polys[i]]
    BY <1>3
  <2>3. [i \in 1..n |-> polys[i]] = [i \in 1..n |-> P[i]]
    BY <1>14
  <2>. QED BY <2>1, <2>2, <2>3
<1>17. n \in DOMAIN Polygons[f] /\ polys = SubSeq(Polygons[f], 1, n)
  BY <1>10, <1>15, <1>16 DEF P
<1>. QED
  BY <1>10, <1>17 DEF BeginsAFile, polys


-----------------------------------------------------------------------------
(* The grid that is built, saved, loaded. *)

Built(polys) == buildGrid(polys, GridXs, GridYs)

\* A grid in the making, in whole files or read from them is the one that is
\* built of the first polygons of a file; and what is joined with it, if it
\* can be read at all, are first polygons, too.
WholeInv ==
  /\ building # NoGrid =>
       BeginsAFile(building.polygons) /\ building = Built(building.polygons)
  /\ gridFile # NoFile /\ gridFile.whole =>
       /\ BeginsAFile(gridFile.of)
       /\ gridFile.header = outputGrid(Built(gridFile.of)).header
       /\ gridFile.sizes = outputGrid(Built(gridFile.of)).sizes
       /\ gridFile.index = outputGrid(Built(gridFile.of)).index
  /\ grid # NoGrid /\ grid.polygons # <<>> /\ Legible(grid.polygons) =>
       BeginsAFile(grid.polygons)
  /\ grid # NoGrid /\ grid.whole /\ grid.of # <<>> =>
       /\ BeginsAFile(grid.of)
       /\ grid.xs = GridXs /\ grid.ys = GridYs /\ grid.bound = boundingRect(grid.of)
       /\ \A c \in Cells : grid.grid[c[1]][c[2]] = InOrder(Listed(grid.of, c[1], c[2]))

LEMMA BuiltOf ==
  ASSUME NEW polys, BeginsAFile(polys)
  PROVE  /\ Built(polys).xs = GridXs /\ Built(polys).ys = GridYs
         /\ Built(polys).bound = boundingRect(polys) /\ Built(polys).polygons = polys
         /\ \A c \in Cells : /\ Built(polys).grid[c[1]][c[2]] = InOrder(Listed(polys, c[1], c[2]))
                             /\ Built(polys).grid[c[1]][c[2]] \in Seq(Nat)
<1>1. Len(polys) \in Nat /\ DOMAIN polys = 1..Len(polys)
  BY BeginsWell
<1>2. /\ Built(polys).xs = GridXs /\ Built(polys).ys = GridYs
      /\ Built(polys).bound = boundingRect(polys) /\ Built(polys).polygons = polys
      /\ \A c \in Cells : Built(polys).grid[c[1]][c[2]] = InOrder(Listed(polys, c[1], c[2]))
  BY <1>1, BuiltCells DEF Built
<1>3. \A x, y : InOrder(Listed(polys, x, y)) \in Seq(Nat)
  <2>. TAKE x, y
  <2>1. Listed(polys, x, y) \subseteq 0..(Len(polys) - 1)
    BY DEF Listed
  <2>. QED BY <1>1, <2>1, ListedAscend
<1>. QED
  BY <1>2, <1>3

LEMMA StepKeepsWhole ==
  ASSUME PolygonInv, SourceInv, WholeInv, [PolygonNext]_polygonVars
  PROVE  WholeInv'
<1>1. CASE UNCHANGED gridVars
  BY <1>1 DEF WholeInv, gridVars
<1>2. ASSUME Die PROVE WholeInv'
  BY <1>2 DEF WholeInv, Die
<1>3. ASSUME CreateGrid PROVE WholeInv'
  <2>. DEFINE polys == getPolygons(blocks)
  <2>1. /\ pc = "idle" /\ polys # <<>> /\ Legible(polys)
        /\ building' = Built(polys) /\ UNCHANGED <<gridFile, grid>>
    BY <1>3 DEF CreateGrid, Built
  <2>2. BeginsAFile(polys)
    BY <2>1, LegibleBegin
  <2>. HIDE DEF polys
  <2>3. building'.polygons = polys
    BY <2>1, <2>2, BuiltOf
  <2>. QED BY <2>1, <2>2, <2>3 DEF WholeInv
<1>4. ASSUME OutputGrid PROVE WholeInv'
  <2>. DEFINE out == outputGrid(building)
  <2>1. /\ building # NoGrid
        /\ gridFile' = Saved(building, out.header, out.sizes, out.index, TRUE)
        /\ building' = NoGrid /\ UNCHANGED grid
    BY <1>4 DEF OutputGrid
  <2>2. BeginsAFile(building.polygons) /\ building = Built(building.polygons)
    BY <2>1 DEF WholeInv
  <2>. HIDE DEF out
  <2>3. /\ gridFile'.header = out.header /\ gridFile'.sizes = out.sizes
        /\ gridFile'.index = out.index /\ gridFile'.of = building.polygons
    BY <2>1 DEF Saved
  <2>. QED BY <2>1, <2>2, <2>3 DEF WholeInv, out
<1>5. ASSUME DieInOutput PROVE WholeInv'
  <2>1. ~gridFile'.whole
    BY <1>5 DEF DieInOutput, Saved
  <2>2. building' = NoGrid /\ grid' = NoGrid
    BY <1>5 DEF DieInOutput
  <2>. QED BY <2>1, <2>2 DEF WholeInv
<1>6. ASSUME LoadGrid PROVE WholeInv'
  <2>. DEFINE polys == getPolygons(blocks)
              r == readGrid(gridFile)
  <2>1. /\ pc = "idle" /\ (known => gridFile # NoFile)
        /\ UNCHANGED <<gridFile, building>>
        /\ grid' = IF known THEN Joined(r, polys, gridFile.of, gridFile.whole)
                   ELSE Joined(EmptyGrid, <<>>, <<>>, TRUE)
    BY <1>6 DEF LoadGrid
  <2>2. CASE ~known
    <3>1. grid'.polygons = <<>> /\ grid'.of = <<>>
      BY <2>1, <2>2 DEF Joined
    <3>. QED BY <2>1, <3>1 DEF WholeInv
  <2>3. CASE known
    <3>. HIDE DEF polys, r
    <3>1. /\ grid'.xs = r.xs /\ grid'.ys = r.ys /\ grid'.bound = r.bound /\ grid'.grid = r.grid
          /\ grid'.polygons = polys /\ grid'.of = gridFile.of /\ (grid'.whole <=> gridFile.whole)
      BY <2>1, <2>3 DEF Joined
    <3>2. ASSUME polys # <<>>, Legible(polys) PROVE BeginsAFile(polys)
      <4>1. pc = "idle"
        BY <2>1
      <4>2. getPolygons(blocks) # <<>> /\ Legible(getPolygons(blocks))
        BY <3>2 DEF polys
      <4>. QED BY <4>1, <4>2, LegibleBegin DEF polys
    <3>3. ASSUME gridFile.whole
          PROVE  /\ BeginsAFile(gridFile.of)
                 /\ r.xs = GridXs /\ r.ys = GridYs /\ r.bound = boundingRect(gridFile.of)
                 /\ \A c \in Cells : r.grid[c[1]][c[2]] = InOrder(Listed(gridFile.of, c[1], c[2]))
      <4>1. gridFile # NoFile
        BY <2>1, <2>3
      <4>2. /\ BeginsAFile(gridFile.of)
            /\ gridFile.header = outputGrid(Built(gridFile.of)).header
            /\ gridFile.sizes = outputGrid(Built(gridFile.of)).sizes
            /\ gridFile.index = outputGrid(Built(gridFile.of)).index
        BY <3>3, <4>1 DEF WholeInv
      <4>. DEFINE of == gridFile.of
                  g == Built(of)
                  file == gridFile
      <4>3. /\ BeginsAFile(of)
            /\ file.header = outputGrid(g).header /\ file.sizes = outputGrid(g).sizes
            /\ file.index = outputGrid(g).index
        BY <4>2
      <4>. HIDE DEF of
      <4>4. /\ g.xs = GridXs /\ g.ys = GridYs /\ g.bound = boundingRect(of)
            /\ \A c \in Cells : /\ g.grid[c[1]][c[2]] = InOrder(Listed(of, c[1], c[2]))
                                /\ g.grid[c[1]][c[2]] \in Seq(Nat)
        BY <4>3, BuiltOf
      <4>. HIDE DEF g, file
      <4>5. /\ readGrid(file).xs = GridXs /\ readGrid(file).ys = GridYs
            /\ readGrid(file).bound = g.bound
            /\ \A c \in Cells : readGrid(file).grid[c[1]][c[2]] = g.grid[c[1]][c[2]]
        BY <4>3, <4>4, RoundTrip
      <4>. QED BY <4>3, <4>4, <4>5 DEF of, file, r
    <3>. QED BY <2>1, <3>1, <3>2, <3>3 DEF WholeInv
  <2>. QED BY <2>2, <2>3
<1>7. ASSUME EndQuery PROVE WholeInv'
  BY <1>7 DEF WholeInv, EndQuery
<1>8. ArenaStep \/ PersistPolygons \/ UNCHANGED polygonVars => UNCHANGED gridVars
  BY DEF ArenaStep, PersistPolygons, polygonVars
<1>9. LoadGridFails => Die
  BY DEF LoadGridFails
<1>. QED
  BY <1>1, <1>2, <1>3, <1>4, <1>5, <1>6, <1>7, <1>8, <1>9 DEF PolygonNext

LEMMA WholeInvariance == PolygonSpec => []WholeInv
<1>1. PolygonInit => WholeInv
  BY DEF PolygonInit, WholeInv
<1>2. PolygonInv /\ SourceInv /\ WholeInv /\ [PolygonNext]_polygonVars => WholeInv'
  BY StepKeepsWhole
<1>. QED
  BY <1>1, <1>2, PolygonInvariance, SourceInvariance, PTL DEF PolygonSpec

\* "brute force and grid index results don't match!!!!" is never printed: a
\* grid read from whole files answers for every point with whole coordinates
\* as the polygons do without it, in the same order, whatever was loaded since
\* and however many deaths lie behind: a point a polygon goes around is within
\* the polygon's bounds, in a cell that is looked at for it, and in that cell
\* an edge, a corner or the whole cell gives the polygon away.
THEOREM GridAnswersRight == PolygonSpec => []GridAnswersAsBruteForce
<1>1. WholeInv => GridAnswersAsBruteForce
  <2>. SUFFICES ASSUME WholeInv, grid # NoGrid, grid.whole, grid.of # <<>>,
                       IsPrefix(grid.of, grid.polygons), Legible(grid.polygons),
                       NEW p \in QueryPoints
                PROVE  getRegion(grid, p) = getRegionBF(grid.of, p)
    BY DEF GridAnswersAsBruteForce
  <2>. DEFINE of == grid.of
              polys == grid.polygons
              g == grid
  <2>1. /\ BeginsAFile(of)
        /\ g.xs = GridXs /\ g.ys = GridYs /\ g.bound = boundingRect(of) /\ g.polygons = polys
        /\ \A c \in Cells : g.grid[c[1]][c[2]] = InOrder(Listed(of, c[1], c[2]))
    BY DEF WholeInv
  <2>2. of \in Seq(Seq(Int \X Int)) /\ Len(of) > 0
    <3>. HIDE DEF of
    <3>. QED BY <2>1, BeginsWell
  <2>3. polys # <<>>
    <3>. HIDE DEF of, polys
    <3>1. Len(of) <= Len(polys)
      BY DEF IsPrefix, of, polys
    <3>. QED BY <2>2, <3>1
  <2>4. BeginsAFile(polys)
    BY <2>3 DEF WholeInv
  <2>. HIDE DEF of, polys, g
  <2>5. polys \in Seq(Seq(Int \X Int)) /\ 1 \in DOMAIN polys /\ polys[1] # <<>>
    BY <2>4, BeginsWell
  <2>6. \A i \in 1..Len(of) : polys[i] = of[i]
    <3>. DEFINE S == Seq(Int \X Int)
    <3>1. of \in Seq(S) /\ polys \in Seq(S) /\ IsPrefix(of, polys)
      BY <2>2, <2>5 DEF of, polys
    <3>. HIDE DEF S
    <3>2. \A i \in 1..Len(of) : of[i] = polys[i]
      BY <3>1, PrefixAt
    <3>. QED BY <3>2
  <2>7. p \in Int \X Int
    <3>. DEFINE b == boundingRect(polys)
    <3>1. b.left \in Int /\ b.right \in Int /\ b.top \in Int /\ b.bottom \in Int
      BY <2>5, BoundsAre
    <3>2. p \in ((b.left - 1)..(b.right + 1)) \X ((b.top - 1)..(b.bottom + 1))
      BY DEF QueryPoints, polys
    <3>. HIDE DEF b
    <3>. QED BY <3>1, <3>2
  <2>8. getRegion(g, p) = getRegionBF(of, p)
    BY <2>1, <2>6, <2>7, AnswersAgree
  <2>. QED BY <2>8 DEF g, of
<1>. QED
  BY <1>1, WholeInvariance, PTL

=============================================================================
