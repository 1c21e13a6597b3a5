------------------------------ MODULE GroupBy ------------------------------
(***************************************************************************)
(* DataManager::executeGroupbyQuery, over a grid and over polygons         *)
(* (DataManager.cpp): the tuples of a query's answer are dealt out to      *)
(* OpenMP threads in equal runs; each thread bins its tuples in a table of *)
(* its own and adds the table to the shared one in a critical section.     *)
(* createDensityFunction then turns the bins into one number per cell, in  *)
(* another cell order, or per polygon.                                     *)
(*                                                                         *)
(* A coordinate is a number of 1/Unit-ths of a cell from the corner of the *)
(* bounding rectangle; over polygons a tuple comes with the ones it lies   *)
(* in, which PolygonStore is about.  "count", which the threads increment  *)
(* without a lock, is only printed and is left out.                        *)
(***************************************************************************)
EXTENDS Integers, Sequences, FiniteSets

CONSTANTS
  NumThreads,   \* omp_get_max_threads()
  LatRes,       \* xres: cells along the first coordinate, the latitude
  LonRes,       \* yres: cells along the second
  Unit,         \* resolution of a coordinate within a cell
  Filters,      \* the ranges the filter columns must be in: a sequence
  Answers,      \* the answers over the grid: sequences of tuples
  PolyCt,       \* the polygons of the other overload
  FilterBy,     \* filterColumnBy, <<>> when no column is given
  PolyAnswers   \* the answers over the polygons

Threads == 0..(NumThreads - 1)
Cells == 0..(LatRes * LonRes - 1)

\* executeQuery answers with tuples inside the rectangle, borders included.
Tuples ==
  [x : 0..(LatRes * Unit), y : 0..(LonRes * Unit), value : [DOMAIN Filters -> Int]]

\* ... or inside the polygons' bounds.
PolyTuples == [region : SUBSET (0..(PolyCt - 1)), value : Int]

ASSUME GroupByAssumption ==
  /\ NumThreads \in Nat \ {0}
  /\ LatRes \in Nat \ {0} /\ LonRes \in Nat \ {0} /\ Unit \in Nat \ {0}
  /\ Filters \in Seq([first : Int, second : Int])
  /\ Answers \subseteq Seq(Tuples)
  /\ PolyCt \in Nat
  /\ FilterBy \in Seq(Int) /\ Len(FilterBy) <= 1
  /\ PolyAnswers \subseteq Seq(PolyTuples)

VARIABLES
  over,   \* the overload called: "grid" or "polygons"
  pts,    \* the tuples of the answer, with the values of the filter columns
  pc,     \* of each thread: "bin", "merge" or "done"
  st,     \* of each thread: the next tuple, from 0
  lsfn,   \* of each thread: its bins
  sfn,    \* the shared bins
  fn,     \* the density function
  returned

vars == <<over, pts, pc, st, lsfn, sfn, fn, returned>>

noPts == Len(pts)
loopCt == noPts \div NumThreads   \* ceil() of a quotient of integers

\* Of a bin only its length is used later: a number stands for it.  (What is
\* appended is the thread's number, times countColumn's value, not the tuple's.)
Bins == IF over = "grid" THEN Cells ELSE 0..(PolyCt - 1)
EmptyBins == [c \in Bins |-> 0]

\* The smaller of two numbers.
min(a, b) == IF a < b THEN a ELSE b

\* (Mutated: a thread begins with the tuple before its run.)
BeginsEarly(t) == t * loopCt - 1

Begins(t) == t * loopCt

Ends(t) == min((t + 1) * loopCt, noPts)

filteredOut(p) ==
  IF over = "polygons" THEN \E j \in DOMAIN FilterBy : p.value # FilterBy[j]
  ELSE \E j \in DOMAIN Filters :
         p.value[j] < Filters[j].first \/ p.value[j] > Filters[j].second

\* The cell of a tuple; the far borders of the rectangle belong to none.
InGrid(p) == p.x \div Unit <= LatRes - 1 /\ p.y \div Unit <= LonRes - 1
CellOf(p) == (p.y \div Unit) * LatRes + p.x \div Unit

\* The bins a tuple is put in: its cell, or each polygon of getRegion().
BinsOf(p) ==
  IF over = "polygons" THEN p.region ELSE IF InGrid(p) THEN {CellOf(p)} ELSE {}

Init ==
  /\ \/ over = "grid" /\ pts \in Answers
     \/ over = "polygons" /\ pts \in PolyAnswers
  /\ pc = [t \in Threads |-> "bin"]
  /\ st = [t \in Threads |-> Begins(t)]
  /\ lsfn = [t \in Threads |-> EmptyBins]
  /\ sfn = EmptyBins
  /\ fn = <<>>
  /\ returned = FALSE

\* One round of a thread's loop.
Bin(t) ==
  /\ pc[t] = "bin" /\ st[t] < Ends(t)
  /\ LET p == pts[st[t] + 1]
     IN  lsfn' = IF filteredOut(p) THEN lsfn
                 ELSE [lsfn EXCEPT ![t] =
                        [c \in Bins |-> IF c \in BinsOf(p) THEN @[c] + 1 ELSE @[c]]]
  /\ st' = [st EXCEPT ![t] = @ + 1]
  /\ UNCHANGED <<over, pts, pc, sfn, fn, returned>>

EndLoop(t) ==
  /\ pc[t] = "bin" /\ st[t] >= Ends(t)
  /\ pc' = [pc EXCEPT ![t] = "merge"]
  /\ UNCHANGED <<over, pts, st, lsfn, sfn, fn, returned>>

\* (Mutated: a thread's table takes the place of the shared one.)
MergeOverwrites(t) ==
  /\ pc[t] = "merge"
  /\ sfn' = lsfn[t]
  /\ pc' = [pc EXCEPT ![t] = "done"]
  /\ UNCHANGED <<over, pts, st, lsfn, fn, returned>>

\* The critical section.
Merge(t) ==
  /\ pc[t] = "merge"
  /\ sfn' = [c \in Bins |-> sfn[c] + lsfn[t][c]]
  /\ pc' = [pc EXCEPT ![t] = "done"]
  /\ UNCHANGED <<over, pts, st, lsfn, fn, returned>>

AllDone == \A t \in Threads : pc[t] = "done"

\* (Mutated: the order of the bins is kept.)
DensityInBinOrder == sfn

\* createDensityFunction: cell (lat, lon) is at lat + lon * LatRes in the bins
\* and at lon + lat * LonRes in the function; a polygon keeps its place.
Density ==
  IF over = "polygons" THEN sfn
  ELSE [i \in Cells |->
         sfn[CHOOSE c \in Cells : c \div LatRes + (c % LatRes) * LonRes = i]]

\* The parallel region ends when all threads are done.
CreateDensityFunction ==
  /\ AllDone /\ ~returned
  /\ fn' = Density
  /\ returned' = TRUE
  /\ UNCHANGED <<over, pts, pc, st, lsfn, sfn>>

Next ==
  \/ \E t \in Threads : Bin(t) \/ EndLoop(t) \/ Merge(t)
  \/ CreateDensityFunction
  \/ returned /\ UNCHANGED vars

Spec == Init /\ [][Next]_vars

-----------------------------------------------------------------------------
\* The types of the variables.
TypeOK ==
  /\ over \in {"grid", "polygons"}
  /\ pts \in IF over = "grid" THEN Answers ELSE PolyAnswers
  /\ pc \in [Threads -> {"bin", "merge", "done"}]
  /\ st \in [Threads -> 0..noPts]
  /\ lsfn \in [Threads -> [Bins -> Nat]]
  /\ sfn \in [Bins -> Nat]
  /\ returned \in BOOLEAN
  /\ fn \in IF returned THEN [Bins -> Nat] ELSE {<<>>}

\* The rows below n that pass the filters and lie in cell (lat, lon).
RowsIn(lat, lon, n) ==
  {k \in 1..n :
     /\ ~filteredOut(pts[k])
     /\ pts[k].x \in (lat * Unit)..(lat * Unit + Unit - 1)
     /\ pts[k].y \in (lon * Unit)..(lon * Unit + Unit - 1)}

\* ... or pass the other overload's and lie in polygon l.
RowsOfPolygon(l, n) == {k \in 1..n : ~filteredOut(pts[k]) /\ l \in pts[k].region}

DensityCounts(n) ==
  IF over = "polygons"
    THEN \A l \in 0..(PolyCt - 1) : fn[l] = Cardinality(RowsOfPolygon(l, n))
  ELSE
  \A lat \in 0..(LatRes - 1), lon \in 0..(LonRes - 1) :
    fn[lon + lat * LonRes] = Cardinality(RowsIn(lat, lon, n))

\* The tuples of its run a thread is past, and those of some tuples that
\* belong in a bin.
PastBy(t) == (Begins(t) + 1)..st[t]
InBin(c, ks) == {k \in ks : ~filteredOut(pts[k]) /\ c \in BinsOf(pts[k])}

\* While the threads work, each one's bins account for exactly the tuples of
\* its run it is past, and the shared bins for those of the threads that have
\* merged theirs: none is in a bin it does not belong to, lost or counted
\* twice, whatever order the threads come to merge in.
BinsAccountForTuples ==
  LET merged == {t \in Threads : pc[t] = "done"}
  IN  \A c \in Bins :
        /\ \A t \in Threads : lsfn[t][c] = Cardinality(InBin(c, PastBy(t)))
        /\ sfn[c] = Cardinality(InBin(c, UNION {PastBy(t) : t \in merged}))

\* The function counts, for each cell or polygon, the rows the threads were dealt, each
\* once: neither the order of the merges nor the change of the cell order
\* loses or moves one.
DealtRowsCounted == returned => DensityCounts(NumThreads * loopCt)

\* "for(int i = 0;i < noPts;i ++)" (DataManager.cpp, the loops before OpenMP):
\* the function counts every row of the answer.
EveryRowCounted == returned => DensityCounts(noPts)

=============================================================================
