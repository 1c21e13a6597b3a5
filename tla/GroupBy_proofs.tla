---------------------------- MODULE GroupBy_proofs ----------------------------
(***************************************************************************)
(* The group-by queries, for any number of threads, any grid or polygons   *)
(* and any answer: however the threads interleave, the density function    *)
(* counts for each cell or polygon the rows that were dealt to a thread.   *)
(***************************************************************************)
EXTENDS GroupBy, FiniteSetTheorems, TLAPS

-----------------------------------------------------------------------------
\* Quotients and remainders.

LEMMA Quotient ==
  ASSUME NEW a \in Nat, NEW b \in Nat, b > 0
  PROVE  /\ a \div b \in Nat /\ a % b \in 0..(b - 1)
         /\ a = (a \div b) * b + (a % b)
<1>1. a = (a \div b) * b + (a % b)
  BY SMT
<1>2. a \div b \in Nat
  BY SMT
<1>3. a % b \in 0..(b - 1)
  BY SMT
<1>. QED
  BY <1>1, <1>2, <1>3

LEMMA MultiplesApart ==
  ASSUME NEW a \in Nat, NEW c \in Nat, NEW b \in Nat, a < c
  PROVE  (a + 1) * b <= c * b /\ a * b + b = (a + 1) * b /\ a * b \in Nat
<1>1. PICK d \in Nat : c = a + 1 + d
  <2>1. c - a - 1 \in Nat /\ c = a + 1 + (c - a - 1)
    OBVIOUS
  <2>. QED BY <2>1
<1>2. (a + 1 + d) * b = (a + 1) * b + d * b
  OBVIOUS
<1>3. d * b \in Nat /\ (a + 1) * b \in Nat /\ a * b \in Nat
  OBVIOUS
<1>4. a * b + b = (a + 1) * b
  OBVIOUS
<1>. QED
  BY <1>1, <1>2, <1>3, <1>4

\* A number is a multiple and a rest in one way.
LEMMA OneQuotient ==
  ASSUME NEW b \in Nat, b > 0, NEW a \in Nat, NEW c \in Nat,
         NEW r \in 0..(b - 1), NEW s \in 0..(b - 1), a * b + r = c * b + s
  PROVE  a = c /\ r = s
<1>1. ~(a < c)
  <2>. SUFFICES ASSUME a < c PROVE FALSE
    OBVIOUS
  <2>1. a * b + b <= c * b /\ a * b \in Nat
    BY MultiplesApart
  <2>2. c * b \in Nat
    OBVIOUS
  <2>. QED BY <2>1, <2>2
<1>2. ~(c < a)
  <2>. SUFFICES ASSUME c < a PROVE FALSE
    OBVIOUS
  <2>1. c * b + b <= a * b /\ c * b \in Nat
    BY MultiplesApart
  <2>2. a * b \in Nat
    OBVIOUS
  <2>. QED BY <2>1, <2>2
<1>3. a = c
  BY <1>1, <1>2
<1>4. a * b \in Nat /\ c * b \in Nat
  OBVIOUS
<1>. QED
  BY <1>3, <1>4

LEMMA QuotientIs ==
  ASSUME NEW b \in Nat, NEW a \in Nat, NEW r \in Nat, r < b
  PROVE  /\ a * b + r \in Nat
         /\ (a * b + r) \div b = a /\ (a * b + r) % b = r
BY SMT

\* The tuples whose quotient by b is a, as an interval.
LEMMA QuotientInterval ==
  ASSUME NEW b \in Nat, b > 0, NEW a \in Nat, NEW n \in Nat
  PROVE  n \div b = a <=> n \in (a * b)..(a * b + b - 1)
<1>1. a * b \in Nat
  OBVIOUS
<1>2. n \div b \in Nat /\ n % b \in 0..(b - 1) /\ n = (n \div b) * b + (n % b)
  BY Quotient
<1>3. ASSUME n \div b = a PROVE n \in (a * b)..(a * b + b - 1)
  <2>. DEFINE m == n % b
  <2>. HIDE DEF m
  <2>1. m \in 0..(b - 1) /\ n = a * b + m
    BY <1>2, <1>3 DEF m
  <2>. QED BY <2>1, <1>1
<1>4. ASSUME n \in (a * b)..(a * b + b - 1) PROVE n \div b = a
  <2>1. n - a * b \in 0..(b - 1) /\ n = a * b + (n - a * b)
    BY <1>4, <1>1
  <2>. DEFINE r == n - a * b
  <2>. HIDE DEF r
  <2>2. r \in 0..(b - 1) /\ n = a * b + r
    BY <2>1 DEF r
  <2>. QED BY <2>2, QuotientIs
<1>. QED
  BY <1>3, <1>4

-----------------------------------------------------------------------------
(* The invariant. *)

\* A thread is at a tuple of its run, or past the last one.
WithinRuns ==
  \A t \in Threads :
    /\ Begins(t) <= st[t] /\ st[t] <= Begins(t) + loopCt
    /\ pc[t] # "bin" => st[t] = Begins(t) + loopCt

FunctionInv == IF returned THEN AllDone /\ fn = Density ELSE fn = <<>>

Typed ==
  /\ over \in {"grid", "polygons"}
  /\ pts \in IF over = "grid" THEN Answers ELSE PolyAnswers
  /\ pc \in [Threads -> {"bin", "merge", "done"}]
  /\ st \in [Threads -> 0..noPts]
  /\ lsfn \in [Threads -> [Bins -> Nat]]
  /\ sfn \in [Bins -> Nat]
  /\ returned \in BOOLEAN

Inv == Typed /\ WithinRuns /\ BinsAccountForTuples /\ FunctionInv

\* The threads' runs are one after the other, and all in the answer.
LEMMA Runs ==
  ASSUME pts \in IF over = "grid" THEN Answers ELSE PolyAnswers
  PROVE  /\ noPts \in Nat /\ loopCt \in Nat
         /\ NumThreads * loopCt \in Nat /\ NumThreads * loopCt <= noPts
         /\ pts \in Seq(IF over = "grid" THEN Tuples ELSE PolyTuples)
         /\ \A t \in Threads : /\ t \in Nat /\ Begins(t) \in Nat
                               /\ Begins(t) + loopCt <= NumThreads * loopCt
                               /\ Ends(t) = Begins(t) + loopCt
         /\ \A t, u \in Threads : t < u => Begins(t) + loopCt <= Begins(u)
<1>1. pts \in Seq(IF over = "grid" THEN Tuples ELSE PolyTuples) /\ noPts \in Nat
  BY GroupByAssumption DEF noPts
<1>2. NumThreads \in Nat /\ NumThreads > 0
  BY GroupByAssumption
<1>3. loopCt \in Nat /\ \E r \in Nat : noPts = loopCt * NumThreads + r
  BY <1>1, <1>2, Quotient DEF loopCt
<1>. DEFINE dealt == NumThreads * loopCt
<1>4. dealt \in Nat /\ dealt = loopCt * NumThreads
  BY <1>2, <1>3
<1>5. dealt <= noPts
  <2>. HIDE DEF dealt
  <2>. QED BY <1>1, <1>3, <1>4
<1>6. ASSUME NEW t \in Threads
      PROVE  /\ t \in Nat /\ t < NumThreads /\ Begins(t) \in Nat
             /\ (t + 1) * loopCt = Begins(t) + loopCt
             /\ Begins(t) + loopCt <= dealt
  <2>1. t \in Nat /\ t < NumThreads
    BY <1>2 DEF Threads
  <2>2. (t + 1) * loopCt <= NumThreads * loopCt /\ t * loopCt + loopCt = (t + 1) * loopCt
        /\ t * loopCt \in Nat
    BY <2>1, <1>2, <1>3, MultiplesApart
  <2>. QED BY <2>1, <2>2 DEF Begins
<1>7. ASSUME NEW t \in Threads PROVE Ends(t) = Begins(t) + loopCt
  <2>. HIDE DEF dealt
  <2>. DEFINE e == Begins(t) + loopCt
  <2>1. e \in Nat /\ e <= noPts
    <3>1. Begins(t) \in Nat /\ e <= dealt
      BY <1>6
    <3>2. e \in Nat
      BY <3>1, <1>3
    <3>. HIDE DEF e
    <3>. QED BY <3>1, <3>2, <1>5, <1>4, <1>1
  <2>2. Ends(t) = min(e, noPts)
    BY <1>6 DEF Ends
  <2>. HIDE DEF e
  <2>3. Ends(t) = e
    BY <2>1, <2>2, <1>1 DEF min
  <2>. QED BY <2>3 DEF e
<1>8. ASSUME NEW t \in Threads, NEW u \in Threads, t < u
      PROVE  Begins(t) + loopCt <= Begins(u)
  <2>1. t \in Nat /\ u \in Nat
    BY <1>6
  <2>2. (t + 1) * loopCt <= u * loopCt /\ t * loopCt + loopCt = (t + 1) * loopCt
    BY <2>1, <1>3, <1>8, MultiplesApart
  <2>. QED BY <2>2 DEF Begins
<1>. QED
  BY <1>1, <1>3, <1>4, <1>5, <1>6, <1>7, <1>8

\* Sets of tuples' numbers are finite, and so are those of the ones in a bin.
LEMMA InBinFinite ==
  ASSUME NEW c, NEW ks, NEW n \in Nat, ks \subseteq 1..n
  PROVE  IsFiniteSet(ks) /\ IsFiniteSet(InBin(c, ks)) /\ Cardinality(InBin(c, ks)) \in Nat
<1>1. IsFiniteSet(1..n)
  <2>1. 1 \in Int /\ n \in Int
    OBVIOUS
  <2>. QED BY <2>1, FS_Interval
<1>2. InBin(c, ks) \subseteq 1..n
  BY DEF InBin
<1>3. IsFiniteSet(ks) /\ IsFiniteSet(InBin(c, ks))
  BY <1>1, <1>2, FS_Subset
<1>. QED
  BY <1>3, FS_CardinalityType

LEMMA InvAtFirst ==
  ASSUME Init
  PROVE  Inv
<1>1. Typed
  <2>1. over \in {"grid", "polygons"} /\ pts \in IF over = "grid" THEN Answers ELSE PolyAnswers
    BY DEF Init
  <2>2. lsfn \in [Threads -> [Bins -> Nat]] /\ sfn \in [Bins -> Nat]
        /\ pc \in [Threads -> {"bin", "merge", "done"}] /\ returned \in BOOLEAN
    BY DEF Init, EmptyBins
  <2>3. noPts \in Nat
    BY <2>1, GroupByAssumption DEF noPts
  <2>4. st \in [Threads -> 0..noPts]
    <3>3. ASSUME NEW t \in Threads PROVE Begins(t) \in 0..noPts
      <4>1. Begins(t) \in Nat /\ Begins(t) + loopCt <= NumThreads * loopCt
            /\ NumThreads * loopCt \in Nat /\ NumThreads * loopCt <= noPts
        BY <2>1, Runs
      <4>. QED BY <4>1, <2>1, Runs
    <3>. QED BY <3>3 DEF Init
  <2>. QED BY <2>1, <2>2, <2>4 DEF Typed
<1>2. \A t \in Threads : st[t] = Begins(t) /\ pc[t] = "bin"
  BY DEF Init
<1>3. WithinRuns
  BY <1>1, <1>2, Runs DEF WithinRuns, Typed
<1>4. \A t \in Threads : PastBy(t) = {}
  BY <1>1, <1>2, Runs DEF PastBy, Typed
<1>5. BinsAccountForTuples
  <2>1. {t \in Threads : pc[t] = "done"} = {}
    BY <1>2
  <2>2. \A c : InBin(c, {}) = {}
    BY DEF InBin
  <2>3. Cardinality({}) = 0
    BY FS_EmptySet
  <2>4. \A c \in Bins : sfn[c] = 0 /\ \A t \in Threads : lsfn[t][c] = 0
    BY DEF Init, EmptyBins
  <2>5. UNION {PastBy(t) : t \in {}} = {}
    OBVIOUS
  <2>. QED BY <2>1, <2>2, <2>3, <2>4, <2>5, <1>4 DEF BinsAccountForTuples
<1>6. FunctionInv
  BY DEF Init, FunctionInv
<1>. QED
  BY <1>1, <1>3, <1>5, <1>6 DEF Inv

LEMMA BinsOfSteps ==
  ASSUME UNCHANGED <<over, pts>>
  PROVE  /\ Bins' = Bins /\ noPts' = noPts /\ loopCt' = loopCt
         /\ \A t : Begins(t)' = Begins(t)
         /\ \A c, ks : InBin(c, ks)' = InBin(c, ks)
<1>1. Bins' = Bins /\ noPts' = noPts
  BY DEF Bins, noPts
<1>2. loopCt' = loopCt
  BY <1>1 DEF loopCt
<1>3. \A p : BinsOf(p)' = BinsOf(p) /\ filteredOut(p)' = filteredOut(p)
  BY DEF BinsOf, filteredOut
<1>. QED
  BY <1>1, <1>2, <1>3 DEF Begins, InBin

\* A step of a thread adds a tuple to those it is past, and no other thread.
LEMMA BinKeeps ==
  ASSUME Inv, NEW t \in Threads, Bin(t)
  PROVE  Inv'
<1>. DEFINE k == st[t] + 1
            p == pts[k]
<1>1. /\ Typed /\ WithinRuns /\ BinsAccountForTuples /\ FunctionInv
      /\ pc[t] = "bin" /\ st[t] < Ends(t) /\ st' = [st EXCEPT ![t] = @ + 1]
      /\ UNCHANGED <<over, pts, pc, sfn, fn, returned>>
      /\ lsfn' = IF filteredOut(p) THEN lsfn
                 ELSE [lsfn EXCEPT ![t] =
                        [c \in Bins |-> IF c \in BinsOf(p) THEN lsfn[t][c] + 1 ELSE lsfn[t][c]]]
  BY DEF Inv, Bin
<1>2. /\ Bins' = Bins /\ noPts' = noPts /\ loopCt' = loopCt
      /\ \A u : Begins(u)' = Begins(u)
      /\ \A c, ks : InBin(c, ks)' = InBin(c, ks)
  BY <1>1, BinsOfSteps
<1>3. /\ noPts \in Nat /\ loopCt \in Nat /\ \A u \in Threads : u \in Nat /\ Begins(u) \in Nat
      /\ Ends(t) = Begins(t) + loopCt /\ Ends(t) <= noPts
  <2>1. /\ noPts \in Nat /\ loopCt \in Nat /\ \A u \in Threads : u \in Nat /\ Begins(u) \in Nat
        /\ Ends(t) = Begins(t) + loopCt /\ NumThreads * loopCt \in Nat
        /\ Begins(t) + loopCt <= NumThreads * loopCt /\ NumThreads * loopCt <= noPts
    BY <1>1, Runs DEF Typed
  <2>. DEFINE dealt == NumThreads * loopCt
  <2>. HIDE DEF dealt
  <2>2. dealt \in Nat /\ Begins(t) + loopCt <= dealt /\ dealt <= noPts
    BY <2>1 DEF dealt
  <2>. QED BY <2>1, <2>2
<1>4. st[t] \in 0..noPts /\ k \in 1..noPts /\ st \in [Threads -> 0..noPts]
  BY <1>1, <1>3 DEF Typed
<1>5. \A u \in Threads : st'[u] = IF u = t THEN k ELSE st[u]
  BY <1>1, <1>4
<1>6. Typed'
  <2>1. st' \in [Threads -> 0..noPts]
    BY <1>1, <1>4
  <2>2. lsfn' \in [Threads -> [Bins -> Nat]]
    <3>1. lsfn \in [Threads -> [Bins -> Nat]]
      BY <1>1 DEF Typed
    <3>2. [c \in Bins |-> IF c \in BinsOf(p) THEN lsfn[t][c] + 1 ELSE lsfn[t][c]] \in [Bins -> Nat]
      BY <3>1
    <3>. QED BY <3>1, <3>2, <1>1
  <2>. QED BY <2>1, <2>2, <1>1, <1>2 DEF Typed
<1>7. WithinRuns'
  BY <1>1, <1>2, <1>3, <1>4, <1>5 DEF WithinRuns
<1>8. \A u \in Threads : PastBy(u)' = IF u = t THEN PastBy(t) \cup {k} ELSE PastBy(u)
  <2>1. Begins(t) <= st[t]
    BY <1>1 DEF WithinRuns
  <2>2. PastBy(t)' = PastBy(t) \cup {k}
    <3>1. PastBy(t)' = (Begins(t) + 1)..k
      BY <1>2, <1>5 DEF PastBy
    <3>2. (Begins(t) + 1)..(st[t] + 1) = ((Begins(t) + 1)..st[t]) \cup {st[t] + 1}
      BY <2>1, <1>3, <1>4
    <3>. QED BY <3>1, <3>2 DEF PastBy
  <2>. QED BY <2>2, <1>2, <1>5 DEF PastBy
<1>9. \A u \in Threads, c \in Bins :
        lsfn'[u][c] = IF u = t /\ ~filteredOut(p) /\ c \in BinsOf(p)
                      THEN lsfn[u][c] + 1 ELSE lsfn[u][c]
  BY <1>1 DEF Typed
<1>10. \A u \in Threads, c \in Bins : lsfn'[u][c] = Cardinality(InBin(c, PastBy(u)'))
  <2>. SUFFICES ASSUME NEW u \in Threads, NEW c \in Bins
                PROVE  lsfn'[u][c] = Cardinality(InBin(c, PastBy(u)'))
    OBVIOUS
  <2>1. lsfn[u][c] = Cardinality(InBin(c, PastBy(u)))
    BY <1>1 DEF BinsAccountForTuples
  <2>2. CASE u # t
    BY <2>1, <2>2, <1>8, <1>9
  <2>3. CASE u = t
    <3>1. PastBy(t) \subseteq 1..noPts /\ k \notin PastBy(t)
      BY <1>3, <1>4 DEF PastBy
    <3>2. IsFiniteSet(InBin(c, PastBy(t))) /\ Cardinality(InBin(c, PastBy(t))) \in Nat
      BY <3>1, <1>3, InBinFinite
    <3>3. InBin(c, PastBy(t) \cup {k}) = IF ~filteredOut(p) /\ c \in BinsOf(p)
                                        THEN InBin(c, PastBy(t)) \cup {k} ELSE InBin(c, PastBy(t))
      BY DEF InBin
    <3>4. k \notin InBin(c, PastBy(t))
      BY <3>1 DEF InBin
    <3>5. Cardinality(InBin(c, PastBy(t)) \cup {k}) = Cardinality(InBin(c, PastBy(t))) + 1
      BY <3>2, <3>4, FS_AddElement
    <3>. QED BY <2>1, <2>3, <3>3, <3>5, <1>8, <1>9
  <2>. QED BY <2>2, <2>3
<1>11. BinsAccountForTuples'
  <2>1. \A u \in {v \in Threads : pc[v] = "done"} : PastBy(u)' = PastBy(u)
    BY <1>1, <1>8
  <2>2. UNION {PastBy(u)' : u \in {v \in Threads : pc[v] = "done"}}
          = UNION {PastBy(u) : u \in {v \in Threads : pc[v] = "done"}}
    BY <2>1
  <2>3. \A c \in Bins :
          sfn[c] = Cardinality(InBin(c, UNION {PastBy(u) : u \in {v \in Threads : pc[v] = "done"}}))
    BY <1>1 DEF BinsAccountForTuples
  <2>. QED BY <2>2, <2>3, <1>1, <1>2, <1>10 DEF BinsAccountForTuples
<1>12. FunctionInv'
  <2>1. Density' = Density
    BY <1>1 DEF Density
  <2>2. AllDone' = AllDone
    BY <1>1 DEF AllDone
  <2>. QED BY <2>1, <2>2, <1>1 DEF FunctionInv
<1>. QED
  BY <1>6, <1>7, <1>11, <1>12 DEF Inv

LEMMA EndLoopKeeps ==
  ASSUME Inv, NEW t \in Threads, EndLoop(t)
  PROVE  Inv'
<1>1. /\ Typed /\ WithinRuns /\ BinsAccountForTuples /\ FunctionInv
      /\ pc[t] = "bin" /\ st[t] >= Ends(t) /\ pc' = [pc EXCEPT ![t] = "merge"]
      /\ UNCHANGED <<over, pts, st, lsfn, sfn, fn, returned>>
  BY DEF Inv, EndLoop
<1>2. /\ Bins' = Bins /\ noPts' = noPts /\ loopCt' = loopCt
      /\ \A u : Begins(u)' = Begins(u)
      /\ \A c, ks : InBin(c, ks)' = InBin(c, ks)
  BY <1>1, BinsOfSteps
<1>3. Typed'
  BY <1>1, <1>2 DEF Typed
<1>4. WithinRuns'
  <2>1. loopCt \in Nat /\ Begins(t) \in Nat /\ Ends(t) = Begins(t) + loopCt
    BY <1>1, Runs DEF Typed
  <2>2. st[t] = Begins(t) + loopCt
    <3>1. st[t] \in 0..noPts /\ noPts \in Nat
      BY <1>1, Runs DEF Typed
    <3>2. st[t] <= Begins(t) + loopCt
      BY <1>1 DEF WithinRuns
    <3>. QED BY <3>1, <3>2, <2>1, <1>1
  <2>. QED BY <1>1, <1>2, <2>2 DEF WithinRuns, Typed
<1>5. BinsAccountForTuples'
  <2>1. {u \in Threads : pc'[u] = "done"} = {u \in Threads : pc[u] = "done"}
    BY <1>1 DEF Typed
  <2>2. \A u : PastBy(u)' = PastBy(u)
    BY <1>1, <1>2 DEF PastBy
  <2>. QED BY <2>1, <2>2, <1>1, <1>2 DEF BinsAccountForTuples
<1>6. FunctionInv'
  <2>1. ~AllDone
    BY <1>1 DEF AllDone
  <2>. QED BY <2>1, <1>1 DEF FunctionInv
<1>. QED
  BY <1>3, <1>4, <1>5, <1>6 DEF Inv

\* What a thread adds to the shared bins is from its own run only.
LEMMA MergeKeeps ==
  ASSUME Inv, NEW t \in Threads, Merge(t)
  PROVE  Inv'
<1>1. /\ Typed /\ WithinRuns /\ BinsAccountForTuples /\ FunctionInv
      /\ pc[t] = "merge" /\ pc' = [pc EXCEPT ![t] = "done"]
      /\ sfn' = [c \in Bins |-> sfn[c] + lsfn[t][c]]
      /\ UNCHANGED <<over, pts, st, lsfn, fn, returned>>
  BY DEF Inv, Merge
<1>2. /\ Bins' = Bins /\ noPts' = noPts /\ loopCt' = loopCt
      /\ \A u : Begins(u)' = Begins(u)
      /\ \A c, ks : InBin(c, ks)' = InBin(c, ks)
      /\ \A u : PastBy(u)' = PastBy(u)
  BY <1>1, BinsOfSteps DEF PastBy
<1>3. Typed'
  BY <1>1, <1>2 DEF Typed
<1>4. WithinRuns'
  BY <1>1, <1>2 DEF WithinRuns, Typed
<1>. DEFINE merged == {u \in Threads : pc[u] = "done"}
            before == UNION {PastBy(u) : u \in merged}
<1>5. {u \in Threads : pc'[u] = "done"} = merged \cup {t}
  BY <1>1 DEF Typed
<1>6. UNION {PastBy(u) : u \in merged \cup {t}} = before \cup PastBy(t)
  OBVIOUS
<1>7. /\ noPts \in Nat /\ loopCt \in Nat
      /\ \A u \in Threads : u \in Nat /\ Begins(u) \in Nat
      /\ \A u, v \in Threads : u < v => Begins(u) + loopCt <= Begins(v)
  BY <1>1, Runs DEF Typed
<1>8. \A u \in Threads : st[u] \in 0..noPts /\ st[u] <= Begins(u) + loopCt
  BY <1>1 DEF Typed, WithinRuns
<1>9. before \cap PastBy(t) = {}
  <2>1. ASSUME NEW u \in merged PROVE PastBy(u) \cap PastBy(t) = {}
    <3>1. u \in Threads /\ (u < t \/ t < u)
      BY <1>1, <1>7
    <3>2. Begins(u) + loopCt <= Begins(t) \/ Begins(t) + loopCt <= Begins(u)
      BY <3>1, <1>7
    <3>. QED BY <3>1, <3>2, <1>7, <1>8 DEF PastBy
  <2>. QED BY <2>1
<1>10. \A u \in Threads : PastBy(u) \subseteq 1..noPts
  BY <1>7, <1>8 DEF PastBy
<1>11. before \subseteq 1..noPts
  BY <1>10
<1>12. ASSUME NEW c \in Bins
       PROVE  sfn'[c] = Cardinality(InBin(c, before \cup PastBy(t)))
  <2>1. sfn[c] = Cardinality(InBin(c, before)) /\ lsfn[t][c] = Cardinality(InBin(c, PastBy(t)))
    BY <1>1 DEF BinsAccountForTuples
  <2>2. InBin(c, before \cup PastBy(t)) = InBin(c, before) \cup InBin(c, PastBy(t))
        /\ InBin(c, before) \cap InBin(c, PastBy(t)) = {}
    BY <1>9 DEF InBin
  <2>3. /\ IsFiniteSet(InBin(c, before)) /\ Cardinality(InBin(c, before)) \in Nat
        /\ IsFiniteSet(InBin(c, PastBy(t))) /\ Cardinality(InBin(c, PastBy(t))) \in Nat
    BY <1>7, <1>10, <1>11, InBinFinite
  <2>4. Cardinality(InBin(c, before) \cup InBin(c, PastBy(t)))
          = Cardinality(InBin(c, before)) + Cardinality(InBin(c, PastBy(t)))
             - Cardinality(InBin(c, before) \cap InBin(c, PastBy(t)))
    BY <2>3, FS_Union
  <2>5. Cardinality({}) = 0
    BY FS_EmptySet
  <2>. DEFINE a == Cardinality(InBin(c, before))
              b == Cardinality(InBin(c, PastBy(t)))
  <2>6. Cardinality(InBin(c, before \cup PastBy(t))) = a + b - 0
    BY <2>2, <2>4, <2>5
  <2>7. a \in Nat /\ b \in Nat /\ sfn[c] = a /\ lsfn[t][c] = b
    BY <2>1, <2>3
  <2>8. sfn'[c] = sfn[c] + lsfn[t][c]
    BY <1>1
  <2>. HIDE DEF a, b
  <2>. QED BY <2>6, <2>7, <2>8
<1>13. BinsAccountForTuples'
  <2>1. \A u \in Threads, c \in Bins : lsfn[u][c] = Cardinality(InBin(c, PastBy(u)))
    BY <1>1 DEF BinsAccountForTuples
  <2>2. UNION {PastBy(u)' : u \in {v \in Threads : pc'[v] = "done"}} = before \cup PastBy(t)
    <3>1. UNION {PastBy(u)' : u \in {v \in Threads : pc'[v] = "done"}}
            = UNION {PastBy(u) : u \in merged \cup {t}}
      BY <1>2, <1>5
    <3>. QED BY <3>1, <1>6
  <2>. HIDE DEF before
  <2>. QED BY <2>1, <2>2, <1>1, <1>2, <1>12 DEF BinsAccountForTuples
<1>14. FunctionInv'
  <2>1. ~AllDone
    BY <1>1 DEF AllDone
  <2>. QED BY <2>1, <1>1 DEF FunctionInv
<1>. QED
  BY <1>3, <1>4, <1>13, <1>14 DEF Inv

LEMMA RestKeeps ==
  ASSUME Inv, CreateDensityFunction \/ UNCHANGED vars
  PROVE  Inv'
<1>1. /\ Typed /\ WithinRuns /\ BinsAccountForTuples /\ FunctionInv
      /\ UNCHANGED <<over, pts, pc, st, lsfn, sfn>>
      /\ \/ AllDone /\ fn' = Density /\ returned'
         \/ UNCHANGED <<fn, returned>>
      /\ returned' \in BOOLEAN
  BY DEF Inv, Typed, CreateDensityFunction, vars
<1>2. /\ Bins' = Bins /\ noPts' = noPts /\ loopCt' = loopCt
      /\ \A u : Begins(u)' = Begins(u)
      /\ \A c, ks : InBin(c, ks)' = InBin(c, ks)
      /\ \A u : PastBy(u)' = PastBy(u)
  BY <1>1, BinsOfSteps DEF PastBy
<1>3. Typed'
  BY <1>1, <1>2 DEF Typed
<1>4. WithinRuns'
  BY <1>1, <1>2 DEF WithinRuns
<1>5. BinsAccountForTuples'
  BY <1>1, <1>2 DEF BinsAccountForTuples
<1>6. Density' = Density /\ AllDone' = AllDone
  BY <1>1 DEF Density, AllDone
<1>7. FunctionInv'
  BY <1>1, <1>6 DEF FunctionInv
<1>. QED
  BY <1>3, <1>4, <1>5, <1>7 DEF Inv

THEOREM Invariance == Spec => []Inv
<1>1. Init => Inv
  BY InvAtFirst
<1>2. Inv /\ [Next]_vars => Inv'
  BY BinKeeps, EndLoopKeeps, MergeKeeps, RestKeeps DEF Next
<1>. QED
  BY <1>1, <1>2, PTL DEF Spec

-----------------------------------------------------------------------------
(* The order of the cells. *)

\* A number below a product is a row below the one and a place below the other.
LEMMA RowAndPlace ==
  ASSUME NEW b \in Nat, b > 0, NEW m \in Nat, NEW n \in 0..(m * b - 1)
  PROVE  n \div b \in 0..(m - 1) /\ n % b \in 0..(b - 1) /\ n = (n \div b) * b + (n % b)
<1>1. m * b \in Nat
  OBVIOUS
<1>2. n \in Nat /\ n < m * b
  BY <1>1
<1>3. n \div b \in Nat /\ n % b \in 0..(b - 1) /\ n = (n \div b) * b + (n % b)
  BY <1>2, Quotient
<1>. DEFINE q == n \div b
            r == n % b
<1>. HIDE DEF q, r
<1>4. q \in Nat /\ r \in 0..(b - 1) /\ n = q * b + r
  BY <1>3 DEF q, r
<1>5. q < m
  <2>. SUFFICES ASSUME m <= q PROVE FALSE
    BY <1>4
  <2>1. CASE m = q
    <3>1. q * b \in Nat /\ n < q * b
      BY <1>1, <1>2, <2>1
    <3>. QED BY <3>1, <1>4
  <2>2. CASE m < q
    <3>1. (m + 1) * b <= q * b /\ m * b + b = (m + 1) * b
      BY <2>2, <1>4, MultiplesApart
    <3>2. q * b \in Nat /\ n >= q * b
      BY <1>4
    <3>. QED BY <3>1, <3>2, <1>1, <1>2
  <2>. QED BY <2>1, <2>2, <1>4
<1>. QED
  BY <1>4, <1>5 DEF q, r

\* ... and the other way round.
LEMMA BelowProduct ==
  ASSUME NEW b \in Nat, NEW m \in Nat, NEW a \in 0..(m - 1), NEW r \in 0..(b - 1)
  PROVE  a * b + r \in 0..(m * b - 1) /\ m * b \in Nat
<1>1. a \in Nat /\ a < m /\ r \in Nat /\ r < b
  OBVIOUS
<1>2. (a + 1) * b <= m * b /\ a * b + b = (a + 1) * b /\ a * b \in Nat
  BY <1>1, MultiplesApart
<1>3. m * b \in Nat
  OBVIOUS
<1>. DEFINE x == a * b
            y == m * b
<1>. HIDE DEF x, y
<1>4. x \in Nat /\ y \in Nat /\ x + b <= y
  BY <1>2, <1>3 DEF x, y
<1>5. x + r \in 0..(y - 1)
  BY <1>1, <1>4
<1>. QED
  BY <1>3, <1>5 DEF x, y

LEMMA Resolution ==
  /\ LatRes \in Nat /\ LatRes > 0 /\ LonRes \in Nat /\ LonRes > 0 /\ Unit \in Nat /\ Unit > 0
  /\ LatRes * LonRes \in Nat /\ LonRes * LatRes = LatRes * LonRes
<1>1. LatRes \in Nat /\ LatRes > 0 /\ LonRes \in Nat /\ LonRes > 0 /\ Unit \in Nat /\ Unit > 0
  BY GroupByAssumption
<1>. QED
  BY <1>1

\* The bin and the place in the function of a cell.
BinOf(lat, lon) == lon * LatRes + lat
PlaceOf(lat, lon) == lon + lat * LonRes

\* createDensityFunction gives the place of a cell the number in its bin, and
\* gives every place a number.
LEMMA DensityIs ==
  ASSUME over = "grid"
  PROVE  /\ \A lat \in 0..(LatRes - 1), lon \in 0..(LonRes - 1) :
              /\ BinOf(lat, lon) \in Cells /\ PlaceOf(lat, lon) \in Cells
              /\ Density[PlaceOf(lat, lon)] = sfn[BinOf(lat, lon)]
         /\ DOMAIN Density = Cells
         /\ \A i \in Cells : \E lat \in 0..(LatRes - 1), lon \in 0..(LonRes - 1) :
              i = PlaceOf(lat, lon)
<1>1. ASSUME NEW lat \in 0..(LatRes - 1), NEW lon \in 0..(LonRes - 1)
      PROVE  BinOf(lat, lon) \in Cells /\ PlaceOf(lat, lon) \in Cells
  <2>1. lon * LatRes + lat \in 0..(LonRes * LatRes - 1)
        /\ lat * LonRes + lon \in 0..(LatRes * LonRes - 1)
    BY BelowProduct, Resolution
  <2>2. lat * LonRes + lon = lon + lat * LonRes
    <3>1. lat * LonRes \in Nat /\ lon \in Nat
      BY Resolution
    <3>. QED BY <3>1
  <2>. QED BY <2>1, <2>2, Resolution DEF BinOf, PlaceOf, Cells
<1>2. ASSUME NEW lat \in 0..(LatRes - 1), NEW lon \in 0..(LonRes - 1), NEW c \in Cells
      PROVE  c \div LatRes + (c % LatRes) * LonRes = PlaceOf(lat, lon) <=> c = BinOf(lat, lon)
  <2>. DEFINE q == c \div LatRes
              r == c % LatRes
  <2>1. q \in 0..(LonRes - 1) /\ r \in 0..(LatRes - 1) /\ c = q * LatRes + r
    BY RowAndPlace, Resolution DEF Cells
  <2>2. c = BinOf(lat, lon) <=> q = lon /\ r = lat
    <3>. HIDE DEF q, r
    <3>1. ASSUME c = BinOf(lat, lon) PROVE q = lon /\ r = lat
      <4>1. q * LatRes + r = lon * LatRes + lat /\ q \in Nat /\ lon \in Nat
        BY <2>1, <3>1, Resolution DEF BinOf
      <4>. QED BY <4>1, <2>1, OneQuotient, Resolution
    <3>. QED BY <3>1, <2>1 DEF BinOf
  <2>3. q + r * LonRes = PlaceOf(lat, lon) <=> q = lon /\ r = lat
    <3>. HIDE DEF q, r
    <3>1. ASSUME q + r * LonRes = PlaceOf(lat, lon) PROVE q = lon /\ r = lat
      <4>1. q \in Nat /\ r \in Nat /\ lat \in Nat /\ lon \in Nat
        BY <2>1, Resolution
      <4>2. r * LonRes \in Nat /\ lat * LonRes \in Nat
        BY <4>1, Resolution
      <4>3. r * LonRes + q = lat * LonRes + lon
        BY <3>1, <4>1, <4>2 DEF PlaceOf
      <4>. QED BY <4>1, <4>3, <2>1, OneQuotient, Resolution
    <3>. QED BY <3>1 DEF PlaceOf
  <2>. QED BY <2>2, <2>3
<1>3. Density = [i \in Cells |->
                   sfn[CHOOSE c \in Cells : c \div LatRes + (c % LatRes) * LonRes = i]]
  BY DEF Density
<1>4. ASSUME NEW lat \in 0..(LatRes - 1), NEW lon \in 0..(LonRes - 1)
      PROVE  Density[PlaceOf(lat, lon)] = sfn[BinOf(lat, lon)]
  <2>. DEFINE P(c) == c \div LatRes + (c % LatRes) * LonRes = PlaceOf(lat, lon)
  <2>1. \A c \in Cells : P(c) <=> c = BinOf(lat, lon)
    BY <1>2
  <2>. HIDE DEF P
  <2>2. (CHOOSE c \in Cells : P(c)) = BinOf(lat, lon)
    BY <2>1, <1>1
  <2>3. Density[PlaceOf(lat, lon)] = sfn[CHOOSE c \in Cells : P(c)]
    BY <1>1, <1>3 DEF P
  <2>. QED BY <2>2, <2>3
<1>5. ASSUME NEW i \in Cells
      PROVE  \E lat \in 0..(LatRes - 1), lon \in 0..(LonRes - 1) : i = PlaceOf(lat, lon)
  <2>1. i \div LonRes \in 0..(LatRes - 1) /\ i % LonRes \in 0..(LonRes - 1)
        /\ i = (i \div LonRes) * LonRes + (i % LonRes)
    BY RowAndPlace, Resolution DEF Cells
  <2>2. (i \div LonRes) * LonRes + (i % LonRes) = PlaceOf(i \div LonRes, i % LonRes)
    <3>1. (i \div LonRes) \in Nat /\ i % LonRes \in Nat
      BY <2>1, Resolution
    <3>. DEFINE q == i \div LonRes
                r == i % LonRes
    <3>. HIDE DEF q, r
    <3>2. q \in Nat /\ r \in Nat
      BY <3>1 DEF q, r
    <3>3. q * LonRes + r = PlaceOf(q, r)
      BY <3>2, Resolution DEF PlaceOf
    <3>. QED BY <3>3 DEF q, r
  <2>. QED BY <2>1, <2>2
<1>. QED
  BY <1>1, <1>3, <1>4, <1>5

\* The types of the variables, the function's too.
LEMMA InvTypes ==
  ASSUME Inv
  PROVE  TypeOK
<1>1. Typed /\ FunctionInv
  BY DEF Inv
<1>2. ASSUME returned PROVE fn \in [Bins -> Nat]
  <2>1. fn = Density /\ sfn \in [Bins -> Nat]
    BY <1>1, <1>2 DEF FunctionInv, Typed
  <2>2. CASE over = "polygons"
    BY <2>1, <2>2 DEF Density
  <2>3. CASE over = "grid"
    <3>1. Bins = Cells
      BY <2>3 DEF Bins
    <3>2. \A i \in Cells : Density[i] \in Nat
      BY <2>1, <2>3, <3>1, DensityIs
    <3>3. Density = [i \in Cells |-> Density[i]]
      BY <2>3 DEF Density
    <3>. QED BY <2>1, <3>1, <3>2, <3>3
  <2>. QED BY <2>2, <2>3, <1>1 DEF Typed
<1>3. fn \in IF returned THEN [Bins -> Nat] ELSE {<<>>}
  BY <1>1, <1>2 DEF FunctionInv
<1>. QED
  BY <1>1, <1>3 DEF Typed, TypeOK

-----------------------------------------------------------------------------
(* What the function counts. *)

\* When all threads are past their runs, that is all but the tuples the
\* division by the number of threads leaves over.
LEMMA AllPast ==
  ASSUME Inv, AllDone
  PROVE  UNION {PastBy(t) : t \in Threads} = 1..(NumThreads * loopCt)
<1>1. Typed /\ WithinRuns
  BY DEF Inv
<1>. DEFINE n == NumThreads * loopCt
<1>2. /\ loopCt \in Nat /\ n \in Nat
      /\ \A t \in Threads : t \in Nat /\ Begins(t) \in Nat /\ Begins(t) + loopCt <= n
  BY <1>1, Runs DEF Typed
<1>3. NumThreads \in Nat /\ NumThreads > 0
  BY GroupByAssumption
<1>4. \A t \in Threads : PastBy(t) = (Begins(t) + 1)..(Begins(t) + loopCt)
  BY <1>1 DEF AllDone, WithinRuns, PastBy
<1>5. \A t \in Threads : PastBy(t) \subseteq 1..n
  <2>. HIDE DEF n
  <2>. QED BY <1>2, <1>4
<1>6. ASSUME NEW k \in 1..n PROVE \E t \in Threads : k \in PastBy(t)
  <2>1. k - 1 \in 0..(n - 1) /\ k \in Nat
    <3>. HIDE DEF n
    <3>. QED BY <1>2
  <2>2. loopCt > 0
    <3>1. loopCt = 0 => n = 0
      BY <1>3
    <3>. HIDE DEF n
    <3>. QED BY <3>1, <1>2, <1>6
  <2>. DEFINE t == (k - 1) \div loopCt
              r == (k - 1) % loopCt
  <2>3. t \in 0..(NumThreads - 1) /\ r \in 0..(loopCt - 1) /\ k - 1 = t * loopCt + r
    <3>1. k - 1 \in 0..(NumThreads * loopCt - 1)
      BY <2>1
    <3>. QED BY <3>1, <2>2, <1>2, <1>3, RowAndPlace
  <2>. HIDE DEF t, r
  <2>4. t \in Threads /\ k - 1 = Begins(t) + r
    BY <2>3 DEF Threads, Begins
  <2>5. k \in (Begins(t) + 1)..(Begins(t) + loopCt)
    BY <2>1, <2>3, <2>4, <1>2
  <2>. QED BY <2>4, <2>5, <1>4
<1>. QED
  BY <1>5, <1>6

\* A tuple is in the bin of a cell when its coordinates are in the cell.
LEMMA InCell ==
  ASSUME over = "grid", NEW p \in Tuples,
         NEW lat \in 0..(LatRes - 1), NEW lon \in 0..(LonRes - 1)
  PROVE  BinOf(lat, lon) \in BinsOf(p)
           <=> /\ p.x \in (lat * Unit)..(lat * Unit + Unit - 1)
               /\ p.y \in (lon * Unit)..(lon * Unit + Unit - 1)
<1>1. p.x \in Nat /\ p.y \in Nat /\ lat \in Nat /\ lon \in Nat
  <2>1. LatRes * Unit \in Nat /\ LonRes * Unit \in Nat
    BY Resolution
  <2>. QED BY <2>1, Resolution DEF Tuples
<1>. DEFINE q == p.x \div Unit
            r == p.y \div Unit
<1>2. q \in Nat /\ r \in Nat
  BY <1>1, Quotient, Resolution
<1>3. /\ q = lat <=> p.x \in (lat * Unit)..(lat * Unit + Unit - 1)
      /\ r = lon <=> p.y \in (lon * Unit)..(lon * Unit + Unit - 1)
  BY <1>1, QuotientInterval, Resolution
<1>4. BinsOf(p) = IF q <= LatRes - 1 /\ r <= LonRes - 1 THEN {r * LatRes + q} ELSE {}
  BY DEF BinsOf, InGrid, CellOf
<1>. HIDE DEF q, r
<1>5. ASSUME q <= LatRes - 1, r <= LonRes - 1, BinOf(lat, lon) = r * LatRes + q
      PROVE  q = lat /\ r = lon
  <2>1. q \in 0..(LatRes - 1) /\ lon * LatRes + lat = r * LatRes + q
    BY <1>2, <1>5, Resolution DEF BinOf
  <2>. QED BY <2>1, <1>1, <1>2, OneQuotient, Resolution
<1>6. ASSUME q = lat, r = lon
      PROVE  q <= LatRes - 1 /\ r <= LonRes - 1 /\ BinOf(lat, lon) = r * LatRes + q
  BY <1>6, Resolution DEF BinOf
<1>. QED
  BY <1>3, <1>4, <1>5, <1>6

LEMMA InvCounts ==
  ASSUME Inv
  PROVE  DealtRowsCounted
<1>. SUFFICES ASSUME returned PROVE DensityCounts(NumThreads * loopCt)
  BY DEF DealtRowsCounted
<1>. DEFINE n == NumThreads * loopCt
<1>1. Typed /\ AllDone /\ fn = Density
  BY DEF Inv, FunctionInv
<1>2. /\ noPts \in Nat /\ n \in Nat /\ n <= noPts
      /\ pts \in Seq(IF over = "grid" THEN Tuples ELSE PolyTuples)
  BY <1>1, Runs DEF Typed
<1>3. \A k \in 1..n : pts[k] \in IF over = "grid" THEN Tuples ELSE PolyTuples
  <2>. HIDE DEF n
  <2>1. \A k \in 1..n : k \in 1..Len(pts)
    BY <1>2 DEF noPts
  <2>. QED BY <2>1, <1>2
<1>4. {t \in Threads : pc[t] = "done"} = Threads
  BY <1>1 DEF AllDone
<1>5. \A c \in Bins : sfn[c] = Cardinality(InBin(c, 1..n))
  BY <1>1, <1>4, AllPast DEF Inv, BinsAccountForTuples
<1>. HIDE DEF n
<1>6. CASE over = "polygons"
  <2>1. \A l \in 0..(PolyCt - 1) : fn[l] = Cardinality(InBin(l, 1..n))
    BY <1>1, <1>5, <1>6 DEF Density, Bins
  <2>2. \A l : InBin(l, 1..n) = RowsOfPolygon(l, n)
    BY <1>6 DEF InBin, RowsOfPolygon, BinsOf
  <2>. QED BY <2>1, <2>2, <1>6 DEF DensityCounts, n
<1>7. CASE over = "grid"
  <2>1. ASSUME NEW lat \in 0..(LatRes - 1), NEW lon \in 0..(LonRes - 1)
        PROVE  fn[lon + lat * LonRes] = Cardinality(RowsIn(lat, lon, n))
    <3>1. fn[PlaceOf(lat, lon)] = sfn[BinOf(lat, lon)] /\ BinOf(lat, lon) \in Bins
      BY <1>1, <1>7, DensityIs DEF Bins
    <3>2. InBin(BinOf(lat, lon), 1..n) = RowsIn(lat, lon, n)
      <4>1. \A k \in 1..n : BinOf(lat, lon) \in BinsOf(pts[k])
                              <=> /\ pts[k].x \in (lat * Unit)..(lat * Unit + Unit - 1)
                                  /\ pts[k].y \in (lon * Unit)..(lon * Unit + Unit - 1)
        BY <1>3, <1>7, InCell
      <4>. QED BY <4>1 DEF InBin, RowsIn
    <3>. QED BY <3>1, <3>2, <1>5 DEF PlaceOf
  <2>. QED BY <2>1, <1>7 DEF DensityCounts, n
<1>. QED
  BY <1>1, <1>6, <1>7 DEF Typed

-----------------------------------------------------------------------------
\* The variables keep their types: a thread stays inside the answer, and every
\* cell or polygon is given a number.
THEOREM TypeCorrect == Spec => []TypeOK
<1>1. Inv => TypeOK
  BY InvTypes
<1>. QED
  BY <1>1, Invariance, PTL

\* For any number of threads and any answer, however the loops and the critical
\* sections interleave: each thread's bins, and the shared ones, count exactly
\* the tuples that were put there.
THEOREM BinsAreCounts == Spec => []BinsAccountForTuples
<1>1. Inv => BinsAccountForTuples
  BY DEF Inv
<1>. QED
  BY <1>1, Invariance, PTL

\* For any grid, polygons, filters and answer: the density function that
\* executeGroupbyQuery returns counts the rows dealt to the threads, each in
\* the cell or the polygons it lies in, in spite of the change of the cell
\* order in createDensityFunction.
THEOREM FunctionCounts == Spec => []DealtRowsCounted
<1>1. Inv => DealtRowsCounted
  BY InvCounts
<1>. QED
  BY <1>1, Invariance, PTL
=============================================================================
