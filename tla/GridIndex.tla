----------------------------- MODULE GridIndex -----------------------------
(***************************************************************************)
(* The operators of GridIndex (DataLayer/GridIndex.cpp) over polygons, and *)
(* of Util/UsefulFuncs.cpp it is built from: which cells a polygon is      *)
(* listed in, the polygons a point lies in, and the two files a grid is    *)
(* saved to.                                                               *)
(*                                                                         *)
(* A point is <<x, y>>, a polygon the sequence of its corners, a cell a    *)
(* sequence of polygon numbers from 0.  Coordinates are integers and the   *)
(* bounds a multiple of the cells, so that all comparisons are exact.  The *)
(* program only makes grids in geographic coordinates, of given numbers of *)
(* cells.                                                                  *)
(***************************************************************************)
EXTENDS Integers, Sequences, SequencesExt, FiniteSets, FiniteSetsExt, Order

\* Conversion of a quotient to int: towards zero.
Truncated(n, d) == IF n < 0 THEN -((-n) \div d) ELSE n \div d

\* QPolygonF::containsPoint(p, Qt::WindingFill): the edges to the left of the
\* point, counted with their direction; an edge has its lower end, not its
\* upper one.
containsPoint(poly, p) ==
  LET a(i) == poly[i]
      b(i) == poly[(i % Len(poly)) + 1]
      LeftOf(lo, hi) ==
        /\ lo[2] <= p[2] /\ p[2] < hi[2]
        /\ lo[1] * (hi[2] - lo[2]) + (hi[1] - lo[1]) * (p[2] - lo[2])
             <= p[1] * (hi[2] - lo[2])
  IN  Cardinality({i \in DOMAIN poly : LeftOf(a(i), b(i))})
        # Cardinality({i \in DOMAIN poly : LeftOf(b(i), a(i))})

\* Where the ray from o in direction dir meets the segment from a to b: at
\* <<x, y>> / den.
rayToLineSegmentIntersection(o, dir, a, b) ==
  LET d == dir[1] * (b[2] - a[2]) - dir[2] * (b[1] - a[1])
      sign == IF d < 0 THEN -1 ELSE 1
      r == sign * ((o[2] - a[2]) * (b[1] - a[1]) - (o[1] - a[1]) * (b[2] - a[2]))
      s == sign * ((o[2] - a[2]) * dir[1] - (o[1] - a[1]) * dir[2])
      den == sign * d
  IN  [hit |-> d # 0 /\ r >= 0 /\ s >= 0 /\ s <= den,
       x |-> o[1] * den + r * dir[1], y |-> o[2] * den + r * dir[2], den |-> den]

\* The second test compares a y with an x: along the bottom every hit has the
\* y of the bottom.
lineRectIntersection(a, b, leftBottom, rightTop) ==
  LET up == rayToLineSegmentIntersection(leftBottom, <<0, 1>>, a, b)
      right == rayToLineSegmentIntersection(leftBottom, <<1, 0>>, a, b)
      down == rayToLineSegmentIntersection(rightTop, <<0, -1>>, a, b)
      left == rayToLineSegmentIntersection(rightTop, <<-1, 0>>, a, b)
  IN  \/ up.hit /\ up.y <= rightTop[2] * up.den
      \/ right.hit /\ right.y <= rightTop[1] * right.den
      \/ down.hit /\ down.y >= leftBottom[2] * down.den
      \/ left.hit /\ left.x >= leftBottom[1] * left.den

\* The sides of the rectangle a point is beyond.
ComputeOutCode(p, leftBottom, rightTop) ==
  {side \in {"LEFT", "RIGHT", "BOTTOM", "TOP"} :
     CASE side = "LEFT" -> p[1] < leftBottom[1]
       [] side = "RIGHT" -> p[1] > rightTop[1]
       [] side = "BOTTOM" -> p[2] < leftBottom[2]
       [] OTHER -> p[2] > rightTop[2]}

RectCorners(leftBottom, rightTop) ==
  {leftBottom, rightTop, <<leftBottom[1], rightTop[2]>>, <<rightTop[1], leftBottom[2]>>}

\* (Mutated: the edges are not looked at.)
polygonRectIntersectionOfPoints(poly, leftBottom, rightTop) ==
  \/ \E i \in DOMAIN poly : ComputeOutCode(poly[i], leftBottom, rightTop) = {}
  \/ \E c \in RectCorners(leftBottom, rightTop) : containsPoint(poly, c)

\* A corner of the polygon in the rectangle, one of the rectangle in the
\* polygon, or an edge that is not beyond one side and meets the border.
polygonRectIntersection(poly, leftBottom, rightTop) ==
  \/ \E i \in DOMAIN poly : ComputeOutCode(poly[i], leftBottom, rightTop) = {}
  \/ \E c \in RectCorners(leftBottom, rightTop) : containsPoint(poly, c)
  \/ \E i \in DOMAIN poly :
       LET a == poly[i]
           b == poly[(i % Len(poly)) + 1]
       IN  /\ ComputeOutCode(a, leftBottom, rightTop)
                \cap ComputeOutCode(b, leftBottom, rightTop) = {}
           /\ lineRectIntersection(a, b, leftBottom, rightTop)

-----------------------------------------------------------------------------
(* A grid is [xs, ys, bound, grid, polygons]; grid[x][y] is a cell. *)

\* The object before anything is read into it.
EmptyGrid ==
  [xs |-> 0, ys |-> 0, bound |-> [left |-> 0, right |-> 0, top |-> 0, bottom |-> 0],
   grid |-> <<>>, polygons |-> <<>>]

boundingRect(polys) ==
  LET x == {p[1] : p \in UNION {Range(poly) : poly \in Range(polys)}}
      y == {p[2] : p \in UNION {Range(poly) : poly \in Range(polys)}}
  IN  [left |-> Min(x), right |-> Max(x), top |-> Min(y), bottom |-> Max(y)]

width(g) == (g.bound.right - g.bound.left) \div g.xs
height(g) == (g.bound.bottom - g.bound.top) \div g.ys

getXIndex(g, x) == Truncated(x - g.bound.left, width(g))
getYIndex(g, y) == Truncated(y - g.bound.top, height(g))
getX(g, x) == x * width(g) + g.bound.left
getY(g, y) == y * height(g) + g.bound.top

\* An index is compared as an int with a uint: below 0 is beyond the end.
Clamped(i, n) == IF i < 0 \/ i >= n THEN n - 1 ELSE i

\* The cells polygon number i is listed in.
ListedIn(g, i) ==
  LET b == boundingRect(<<g.polygons[i + 1]>>)
      xIndices == getXIndex(g, b.left)..Clamped(getXIndex(g, b.right) + 1, g.xs)
      yIndices == getYIndex(g, b.top)..Clamped(getYIndex(g, b.bottom) + 1, g.ys)
  IN  {c \in xIndices \X yIndices :
         polygonRectIntersection(g.polygons[i + 1], <<getX(g, c[1]), getY(g, c[2])>>,
                                 <<getX(g, c[1] + 1), getY(g, c[2] + 1)>>)}

Numbers(polys) == [k \in DOMAIN polys |-> k - 1]

buildGrid(polys, xs, ys) ==
  LET g == [EmptyGrid EXCEPT !.xs = xs, !.ys = ys, !.bound = boundingRect(polys),
                             !.polygons = polys]
      listed == [k \in DOMAIN polys |-> ListedIn(g, k - 1)]
  IN  [g EXCEPT !.grid =
        [x \in 0..(xs - 1) |-> [y \in 0..(ys - 1) |->
          InOrder({i \in 0..(Len(polys) - 1) : <<x, y>> \in listed[i + 1]})]]]

\* The elements of s that are in S, one after the other.
Picked(s, S) ==
  LET pick[i \in 0..Len(s)] ==
        IF i = 0 THEN <<>>
        ELSE IF s[i] \in S THEN Append(pick[i - 1], s[i]) ELSE pick[i - 1]
  IN  pick[Len(s)]

\* The polygons a point lies in, looked for among those of its cell.
getRegion(g, p) ==
  IF g.xs = 0 THEN <<>>
  ELSE LET cell == g.grid[Clamped(getXIndex(g, p[1]), g.xs)][Clamped(getYIndex(g, p[2]), g.ys)]
       IN  Picked(cell, {i \in Range(cell) : containsPoint(g.polygons[i + 1], p)})

\* The same without the grid.
getRegionBF(polys, p) ==
  Picked(Numbers(polys), {i \in Range(Numbers(polys)) : containsPoint(polys[i + 1], p)})

-----------------------------------------------------------------------------
(* Files: .grid holds a header, then the cells' sizes row by row, and       *)
(* .grid.index the cells' polygons in the same order.                       *)

\* Cell number k, from 1, in that order.
CellAt(g, k) == g.grid[(k - 1) % g.xs][(k - 1) \div g.xs]

outputGrid(g) ==
  [header |-> <<[xs |-> g.xs, ys |-> g.ys, bound |-> g.bound]>>,
   sizes |-> [k \in 1..(g.xs * g.ys) |-> Len(CellAt(g, k))],
   index |-> FlattenSeq([k \in 1..(g.xs * g.ys) |-> CellAt(g, k)])]

Total(s) ==
  LET sum[i \in 0..Len(s)] == IF i = 0 THEN 0 ELSE sum[i - 1] + s[i]
  IN  sum[Len(s)]

\* What QDataStream reads: 0 beyond the end.
Read(s, k) == IF k \in DOMAIN s THEN s[k] ELSE 0

readGrid(file) ==
  IF file.header = <<>> THEN EmptyGrid
  ELSE LET h == file.header[1]
           sizes == [k \in 1..(h.xs * h.ys) |-> Read(file.sizes, k)]
           Cell(k) ==
             LET before == Total(SubSeq(sizes, 1, k - 1))
             IN  [j \in 1..sizes[k] |-> Read(file.index, before + j)]
       IN  [EmptyGrid EXCEPT !.xs = h.xs, !.ys = h.ys, !.bound = h.bound,
              !.grid = [x \in 0..(h.xs - 1) |-> [y \in 0..(h.ys - 1) |->
                          Cell(y * h.xs + x + 1)]]]

=============================================================================
