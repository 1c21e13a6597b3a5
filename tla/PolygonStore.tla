---------------------------- MODULE PolygonStore ----------------------------
(***************************************************************************)
(* A dataset of polygons: three columns of the arena (DataStoreArena),     *)
(* written by loadPolyData and read back by getPolygons, and the grid that *)
(* IndexStore::createGridIndex saves beside them and loadGridIndex joins   *)
(* with whatever polygons the arena has then.                              *)
(*                                                                         *)
(* The process may die in the arena's steps, as there, and while the grid  *)
(* is written: of each of its two files any beginning may be on the disk.  *)
(* The polygons of a dataset are only ever added to: each file holds those *)
(* of the shorter ones first.                                              *)
(* Integers stand for its coordinates: the bounds of a file's polygons,    *)
(* and of any first ones a death may leave, have an extent that a grid of  *)
(* this size divides without a rest.                                       *)
(***************************************************************************)
EXTENDS DataStoreArena, GridIndex

CONSTANTS
  NumColumn,    \* "layerNumPoints"
  XColumn,      \* "layerXs"
  YColumn,      \* "layerYs"
  Polygons,     \* Polygons[f]: the polygons of file f
  GridXs,       \* cells of the grid
  GridYs,
  Buffer,       \* entries of a file that are flushed at a time
  Unread,       \* a coordinate no file gave
  NoFile,       \* the grid's files when there are none
  NoGrid        \* no grid is loaded

PointsIn(f) == FlattenSeq(Polygons[f])

ASSUME PolygonAssumption ==
  /\ NumColumn \in Columns /\ XColumn \in Columns \ {NumColumn}
  /\ YColumn \in Columns \ {NumColumn, XColumn}
  /\ GridXs \in Nat \ {0} /\ GridYs \in Nat \ {0} /\ Buffer \in Nat \ {0}
  /\ \A f \in Files :
       /\ Polygons[f] \in Seq(Seq(Int \X Int))
       /\ Rows[f] = PolyRows(<<NumColumn, XColumn, YColumn>>,
                             <<Len(Polygons[f]), Len(PointsIn(f)), Len(PointsIn(f))>>)
       /\ \A i \in DOMAIN Polygons[f] : Len(Polygons[f][i]) > 2
       /\ \A n \in DOMAIN Polygons[f] :
            LET b == boundingRect(SubSeq(Polygons[f], 1, n))
            IN  /\ b.left < b.right /\ (b.right - b.left) % GridXs = 0
                /\ b.top < b.bottom /\ (b.bottom - b.top) % GridYs = 0
       /\ \A g \in Files :
            IsPrefix(Polygons[f], Polygons[g]) \/ IsPrefix(Polygons[g], Polygons[f])

VARIABLES
  known,      \* settings "<dataset>.grid"
  gridFile,   \* the two files, with the polygons they were made of
  building,   \* createGridIndex: the grid being written, or NoGrid
  grid,       \* the GridIndex a query has loaded, or NoGrid
  begun       \* history: files whose columns persist() began to write

gridVars == <<known, gridFile, building, grid>>
polygonVars == <<vars, gridVars, begun>>

-----------------------------------------------------------------------------
\* The values of the cells; memory nobody wrote reads as no points and as a
\* coordinate that is not a number.
NumPoints(v) == IF v = Zero THEN 0 ELSE Len(Polygons[v.from][v.id + 1])

Coordinate(v, axis) == IF v = Zero THEN Unread ELSE PointsIn(v.from)[v.id + 1][axis]

\* (Mutated: the points of a polygon begin where the first one's do.)
getPolygonsFromStart(bs) ==
  LET num == getTuples(bs, NumColumn, <<>>)
      x == getTuples(bs, XColumn, <<>>)
      y == getTuples(bs, YColumn, <<>>)
      Axis(col, j, axis) == IF j \in DOMAIN col THEN Coordinate(col[j], axis) ELSE Unread
  IN  [i \in DOMAIN num |-> [j \in 1..NumPoints(num[i]) |-> <<Axis(x, j, 1), Axis(y, j, 2)>>]]

\* (Mutated: past the end of the coordinates the last one is taken again.)
getPolygonsClamped(bs) ==
  LET num == getTuples(bs, NumColumn, <<>>)
      x == getTuples(bs, XColumn, <<>>)
      y == getTuples(bs, YColumn, <<>>)
      Axis(col, j, axis) ==
        IF col = <<>> THEN Unread ELSE Coordinate(col[Min({j, Len(col)})], axis)
      counts == [i \in DOMAIN num |-> NumPoints(num[i])]
  IN  [i \in DOMAIN num |->
        LET sum == Total(SubSeq(counts, 1, i - 1))
        IN  [j \in 1..counts[i] |-> <<Axis(x, sum + j, 1), Axis(y, sum + j, 2)>>]]

\* Polygon by polygon, as many points as its count says; past the end of the
\* coordinates it reads memory of others.
getPolygons(bs) ==
  LET num == getTuples(bs, NumColumn, <<>>)
      x == getTuples(bs, XColumn, <<>>)
      y == getTuples(bs, YColumn, <<>>)
      Axis(col, j, axis) == IF j \in DOMAIN col THEN Coordinate(col[j], axis) ELSE Unread
      counts == [i \in DOMAIN num |-> NumPoints(num[i])]
  IN  [i \in DOMAIN num |->
        LET sum == Total(SubSeq(counts, 1, i - 1))
        IN  [j \in 1..counts[i] |-> <<Axis(x, sum + j, 1), Axis(y, sum + j, 2)>>]]

Legible(polys) ==
  \A poly \in Range(polys) : poly # <<>> /\ \A p \in Range(poly) : Unread \notin Range(p)

-----------------------------------------------------------------------------
PolygonInit ==
  /\ Init
  /\ known = FALSE
  /\ gridFile = NoFile
  /\ building = NoGrid
  /\ grid = NoGrid
  /\ begun = {}

\* A step of the arena, when neither createGridIndex nor a query is at work.
ArenaStep ==
  /\ building = NoGrid /\ grid = NoGrid
  /\ \/ Start \/ \E f \in Files : LoadFile(f)
     \/ InsertCell \/ SaveSize \/ OpenFile \/ WriteFile \/ SaveEntry \/ EndPersist
  /\ UNCHANGED <<gridVars, begun>>

PersistPolygons ==
  /\ BeginPersist
  /\ begun' = begun \cup {load.file}
  /\ UNCHANGED gridVars

\* (Mutated: the grid is saved without its setting.)
CreateGridUnknown ==
  /\ pc = "idle" /\ building = NoGrid /\ grid = NoGrid
  /\ LET polys == getPolygons(blocks)
     IN  /\ polys # <<>> /\ Legible(polys)
         /\ building' = buildGrid(polys, GridXs, GridYs)
  /\ UNCHANGED <<vars, known, gridFile, grid, begun>>

\* createGridIndex: the settings are synced before the grid is built; then both
\* files are opened, and emptied.  (Polygons the arena could not give whole
\* are not followed further.)
CreateGrid ==
  /\ pc = "idle" /\ building = NoGrid /\ grid = NoGrid
  /\ LET polys == getPolygons(blocks)
     IN  /\ polys # <<>> /\ Legible(polys)
         /\ building' = buildGrid(polys, GridXs, GridYs)
  /\ known' = TRUE
  /\ UNCHANGED <<vars, gridFile, grid, begun>>

Saved(g, header, sizes, index, whole) ==
  [header |-> header, sizes |-> sizes, index |-> index, of |-> g.polygons, whole |-> whole]

OutputGrid ==
  /\ building # NoGrid
  /\ LET out == outputGrid(building)
     IN  gridFile' = Saved(building, out.header, out.sizes, out.index, TRUE)
  /\ building' = NoGrid
  /\ UNCHANGED <<vars, known, grid, begun>>

\* How much of a file of n entries is on the disk before it is closed.
Flushed(n) == {k \in 0..n : k % Buffer = 0}

\* The process dies while the files are open: they end where the last full
\* buffer did.
DieInOutput ==
  /\ building # NoGrid
  /\ LET out == outputGrid(building)
     IN  \E s \in Flushed(Len(out.sizes)), i \in Flushed(Len(out.index)), h \in 0..1 :
           /\ h = 0 => s = 0
           /\ gridFile' = Saved(building, SubSeq(out.header, 1, h), SubSeq(out.sizes, 1, s),
                                SubSeq(out.index, 1, i), FALSE)
  /\ Crash
  /\ building' = NoGrid /\ grid' = NoGrid
  /\ UNCHANGED <<known, begun>>

\* Before the files are open, or anywhere else.
Die ==
  /\ Crash
  /\ building' = NoGrid /\ grid' = NoGrid
  /\ UNCHANGED <<known, gridFile, begun>>

\* A grid as it is read, and the polygons it gets; of what it was made is kept
\* beside it.
Joined(g, polys, of, whole) ==
  [xs |-> g.xs, ys |-> g.ys, bound |-> g.bound, grid |-> g.grid, polygons |-> polys,
   of |-> of, whole |-> whole]

\* loadGridIndex, with the polygons there are now; if the settings do not know
\* the grid it returns one without cells.
LoadGrid ==
  /\ pc = "idle" /\ building = NoGrid /\ grid = NoGrid
  /\ known => gridFile # NoFile
  /\ grid' = IF known
               THEN Joined(readGrid(gridFile), getPolygons(blocks), gridFile.of, gridFile.whole)
               ELSE Joined(EmptyGrid, <<>>, <<>>, TRUE)
  /\ UNCHANGED <<vars, known, gridFile, building, begun>>

\* The query ends; it was the grid's only user.
EndQuery ==
  /\ grid # NoGrid
  /\ grid' = NoGrid
  /\ UNCHANGED <<vars, known, gridFile, building, begun>>

\* The settings know a grid whose files were never opened: assert(false).
LoadGridFails ==
  /\ pc = "idle" /\ building = NoGrid /\ grid = NoGrid
  /\ known /\ gridFile = NoFile
  /\ Die

PolygonNext ==
  \/ ArenaStep \/ PersistPolygons \/ Die
  \/ CreateGrid \/ OutputGrid \/ DieInOutput
  \/ LoadGrid \/ EndQuery \/ LoadGridFails

PolygonSpec == PolygonInit /\ [][PolygonNext]_polygonVars

-----------------------------------------------------------------------------
\* The types of the variables.
PolygonTypeOK ==
  /\ TypeOK
  /\ known \in BOOLEAN
  /\ gridFile # NoFile => known /\ gridFile.whole \in BOOLEAN
  /\ building # NoGrid => pc = "idle" /\ known
  /\ grid # NoGrid => pc # "down" /\ grid.xs \in {0, GridXs} /\ grid.ys \in {0, GridYs}
  /\ begun \subseteq Files

Longest(fs) == CHOOSE f \in fs : \A g \in fs : IsPrefix(Polygons[g], Polygons[f])

\* The polygons read back are those of the fullest file loaded, corner by
\* corner: also when an earlier load died with some of the three columns
\* written and others not, a later one makes the columns fit again (unless a
\* block's file was open at the death, see OnlyTornFilesLoseCells).
PolygonsAsLoaded ==
  pc = "idle" /\ torn = {} /\ begun # {} /\ Longest(begun) \in loaded
    => getPolygons(blocks) = Polygons[Longest(begun)]

\* What a death left of a load is a part of it, for whoever reads the polygons
\* before a later load makes the columns fit again: there are no more polygons
\* than in the fullest file, each with its number of corners, and a coordinate
\* is the one of that corner, or one no column has yet and getPolygons reads
\* past the end for; never one of another corner or polygon.
PolygonsNeverMixed ==
  pc = "idle" /\ torn = {} /\ begun # {} =>
    LET polys == getPolygons(blocks)
        all == Polygons[Longest(begun)]
    IN  \A i \in DOMAIN polys :
          /\ i \in DOMAIN all /\ Len(polys[i]) = Len(all[i])
          /\ \A j \in DOMAIN polys[i] : \A axis \in 1..2 :
               polys[i][j][axis] \in {Unread, all[i][j][axis]}

\* Every number in a loaded grid is of one of the polygons joined with it,
\* which getRegion takes from their vector without a test: however much of
\* the grid's files was written, whatever was loaded or died since.
IdsNameAPolygon ==
  grid # NoGrid =>
    \A x \in DOMAIN grid.grid : \A y \in DOMAIN grid.grid[x] :
      Range(grid.grid[x][y]) \subseteq 0..(Len(grid.polygons) - 1)

QueryPoints ==
  LET b == boundingRect(grid.polygons)
  IN  ((b.left - 1)..(b.right + 1)) \X ((b.top - 1)..(b.bottom + 1))

\* "brute force and grid index results don't match!!!!" (GridIndex::test) is
\* never so: a grid read from whole files answers, for points in cells, on
\* their borders and outside, with the polygons found without it, in the same
\* order, short only of the polygons loaded after it was built.
GridAnswersAsBruteForce ==
  grid # NoGrid /\ grid.whole /\ grid.of # <<>>
    /\ IsPrefix(grid.of, grid.polygons) /\ Legible(grid.polygons)
    => \A p \in QueryPoints : getRegion(grid, p) = getRegionBF(grid.of, p)

=============================================================================
