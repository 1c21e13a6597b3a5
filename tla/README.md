# A TLA+ development for event_detection

This directory specifies the parts of this repository that keep state, run
concurrently or must survive a restart: modules for TLC to check on small
instances, and proofs for TLAPS to check for every instance. Each definition is
a translation of the source; `PROJECT.json` names, for each one, the lines it
stands for (`map`), the runs, the mutants that show each property can fail, the
hazards, and the theorems. Paths below are under `src/Code/`; `DL` stands for
`Fabio/src/DataLayer`.

## The system

The repository collects several programs for event detection on city data.
Only one of them has state that outlives a function call:

**Fabio** (C++/Qt, "Urbane"/UrbanPulse). A batch program
(`Fabio/src/Pulse/GenerateScalarFiles.cpp`) loads CSV tables of points in place
and time, indexes them, and computes for each filter a density function over a
grid of cells.

| Part | State | Operations | Called by |
|---|---|---|---|
| `DataStoreArena` (`DL/DataStoreArena.cpp`) | chains of fixed-size blocks per column, cut from one mapping; block files and `meta.ini` on disk | `loadCSVData`, `loadPolyData`, `insert`, `getTuples`, `getData`, `persist`, `restore` | batch program, `IndexStore`, `DataManager` |
| k-d tree (`DL/kdindex/KdIndex.cpp`, `KdBlock.hpp`) | keys, range and tree file of one block of the spacetime column | `buildKdTree`, `searchKdTree` | `IndexStore`, `CudaDb` |
| `IndexStore` (`DL/IndexStore.cpp`) | `indexSettings.ini`, names of index files | `createStingIndex`, `querySting`, grid index | batch program, `DataManager` |
| `CudaDb`, `CudaDevice` (`DL/kdindex`) | devices, their threads, request and result queues, what a device's memory holds | `start`, `stop`, `requestQuery`, `getResult`, `run` | `IndexStore` |
| `RequestQueue` (`DL/kdindex/RequestQueue.hpp`) | a bounded deque, a mutex, two condition variables | `push`, `waitToPush`, `pop`, `popIf`, `notifyProcessed` | `CudaDb`, `CudaDevice` |
| `DataManager` (`DL/DataManager.cpp`) | the last answer | `executeQuery`, `executeGroupbyQuery`, `createDensityFunction` | batch program |
| `GridIndex` (`DL/GridIndex.cpp`, with the geometry of `Fabio/src/Util/UsefulFuncs.cpp`) | cells and the polygons that meet them; two files | `buildGrid`, `getRegion`, `outputGrid`, `readGrid` | `IndexStore`, `DataManager` |
| `QMatrix4x4D` (`Fabio/src/MapView`) | sixteen elements and flags that say of what kind they are | construction, arithmetic, `scale`, `translate`, `rotate`, projections, inverses, mappings | `Camera` |

The parts interact by calls, but two of them share memory: `createStingIndex`
takes the address of an arena block from `getData` and `buildKdTree` permutes
the records there. Host and GPU threads share only request queues. OpenMP
threads inside a query share a table guarded by a critical section.

**Telang** (`Telang_original/`, `telang/`): IBM's anomaly detector in Java,
a pure computation over grid counts (tensor statistics, hierarchical
clustering `HAC.java`, Gini thresholds) and scripts around it. **Iterative
SaTScan** (`satscan/`): a loop that runs the external SaTScan, removes the cases
of the best cluster and runs it again. **Taxi preprocessing** (`Harish/`) and
sanity scripts: one-shot conversions.

Behaviours that are hard here: wake-ups between the two sides of a queue; a
death of the process in the middle of `persist()`, which rewrites everything on
each load; one piece of memory that is permuted by one component and read by
position by another, before and after a restart; an index layout that is
computed in three places which must agree; work dealt out to threads; a grid
read back from files that were cut short, and joined with polygons loaded since;
flags that let later calls skip elements of a matrix.
`PROJECT.json` lists them one by one (`hazards`).

## Modules

**`RequestQueue`** - the queue, with its mutex and condition variables.
An action is one critical section: from taking the mutex to unlocking or
waiting. `notify_one`, which the code calls after unlocking, is an action of its
own (`NotifyPop` after `Push`, `NotifyPush` after `Pop`), so every other thread
may act in between. `condPush` and `condPop` are the wait sets; a wait may end
without a reason (`Wake`), which also covers `notifyProcessed`. `Pushers` may
begin with `waitToPush` ("room"); `Takers` call `popIf(RS_DONE)` and `Poppers`
call `pop`. `QueueAssumption` says of the users what the source shows:
a queue read with `popIf(RS_DONE)` holds only requests in that state
(`CudaDevice` pushes on `results` after setting it).

**`BoundedFifo`** - what the queue promises: a bounded first-in first-out
buffer that keeps delivering. `RequestQueue` implements it, with `queue` for
`buffer` (`Fifo`, `ImplementsFifo`).

**`DataStoreArena`** - the column store. `blocks` is the list of `Block` objects
in the order of their creation, with the chain of a column given by the column's
name; `files`, `size` and `entries` are the disk: block files, `storage/size`,
the group of settings of a block. A load is a run of `InsertCell`, then
`persist()` step by step: `SaveSize`, and per block `OpenFile` (which truncates),
`WriteFile` (row by row, so that a death leaves any prefix), `SaveEntry`.
`Crash` can come between any two steps and keeps the disk; `Start` is the
constructor with `restore()`. Values are the file and the row they came from.

**`KdIndex`** - the k-d tree of one block. The recursion of `buildKdTree` is the
list `calls`, the next call first; `WriteLeaf` and `SplitNode` are the two halves
of the function. `sortArray` is not stable, so `SplitNode` takes any permutation
that sorts by the key of the depth. `nodes` is the node array by position:
a leaf's offset and range take the `Extra` positions after its own. `TreeNode`
reads a node from the tree file, which ends at `freeNode`. `searchKdTree`,
`Leaves`, `requestQuery` and `querySting` are the search of the `RT_CPU` path, the
only one that is built: the project file does not define `USE_CUDA`. `searchKdTree` is
one call, and what it calls is an argument: `Leaves` ties the knot with a function of the node and
depth. The hits of `requestQuery` are a set, each with its leaf and place, because
OpenMP's threads collect them in any order; `querySting` sorts their indices.

**`IndexedStore`** - composes `KdIndex` (which it extends: `trips` is the
block in the arena's memory) with what the arena keeps of that block: saved on
every further load, restored at a start, indexed again. It abstracts the arena
to this one block, which `DataStoreArena` shows to be what a load leaves.

**`GroupBy`** - both overloads of `executeGroupbyQuery`, over a grid of cells and
over polygons (`over`), each with its `createDensityFunction`. They share the loop
and differ in the filter, in the bins and in how many a tuple is put in:
one cell or none, or every polygon `getRegion` names (`BinsOf`). A thread has
its bounds `Begins(t)` and `Ends(t)` and its bins `lsfn[t]`; `Bin` is one round
of its loop, `Merge` the critical section.

**`GpuQuery`** - `CudaDb` as the host of its `CudaDevice` threads. The queues are
the bounded FIFOs `RequestQueue` was shown to be: an operation is one step,
enabled when it would not wait. The host's place (`host`) walks through the loops
over devices of `start`, `requestQuery`, `getResult` and `stop` one device at a
time; a device's thread runs `Initialize`, `NotifyStarted`, then `Pop` and
`Complete` in turns until `RT_STOP`. `waitUntilStarted` waits once, so `Wake` (a wait
that ends without a reason) lets the host go on before the device has started.
`querySting`'s batch is the host's program: n calls of `requestQuery`, then n of
`getResult`. A request for each device is derived from the request and the device
(`Dealt`). `memory` says at which address a device's memory holds the
blocks and the ranges, beside what `lastKeys` and `lastRanges` make the device
believe; a kernel that reads anything else yields `Garbage`. None of this is
built today (`USE_CUDA` is undefined) but for the `RT_CPU` requests, which
take the same way through the host's queue.

**`GridIndex`** - the operators of the grid over polygons: which cells a polygon is
listed in (`ListedIn`, down to the intersection tests of `UsefulFuncs.cpp`), the
lookup of a point and its brute-force twin, and the two files (`outputGrid`,
`readGrid`, which reads zeros past the end). Coordinates are integers and a grid's
bounds are multiples of its cells, so every comparison is exact;
an intersection of lines is kept as a fraction. `containsPoint` is Qt's.

**`PolygonStore`** - composes `DataStoreArena` (which it extends) with `GridIndex`: the
polygons of a dataset are three columns of the arena, `loadPolyData` writes
them, `getPolygons` reads them, `createGridIndex` builds a grid of them and saves it
beside a setting, `loadGridIndex` joins the saved grid with the polygons there
are then. The process may die at each step of the arena's `persist()` and in
`outputGrid`, which leaves a beginning of each of its files. `Order` has the one operator
both parts need: what the code appends to a list in the order of its numbers.

**`Matrix4x4`** - the operators of `QMatrix4x4D`, each with its branches on `flagBits`.
An object is `[m, flagBits]`; arithmetic is over integers, quotients that need
not be integers are kept as numerator and denominator (`inverted`,
`normalMatrix`) and points with their w. Angles come as their sines and cosines.

**`MatrixCalls`** - an object through a sequence of calls, one action per operation that
changes it. Beside the object it keeps the matrix the comments in the code promise
(`exact`), written from what each call is to do: Rodrigues' formula for
`rotate`, a box moved and scaled to a cube for `ortho`, and so on.

The `MC*` modules hold the small instances, `*_proofs` the proofs. A definition
marked "(Mutated: ...)" is a plausible mistake in the definition after it; it
is used by no specification. `PROJECT.json` pairs it with the property that fails
when it takes the definition's place.

## Runs

| Run | States | What it shows |
|---|---|---|
| `request_queue` | 6 thousand | no lost wake-up on either condition variable, FIFO refinement, every request delivered |
| `arena_crash` | 1 million | ids, block limits, disk against memory, survival of finished loads, only torn files lose cells |
| `kd_index` | 111 thousand | layout and search of all trees of up to 5 records and 2 keys |
| `indexed_store` | 18 thousand | answers over index rebuilds, saves and restarts |
| `group_by` | 108 thousand | bins and density over a grid and over polygons under every interleaving of two threads |
| `gpu_service` | 262 thousand | answers of the right request, complete and exact; no thread waits for room; nothing left behind; the host returns |
| `matrix` | 36 thousand | flags never promise too much; elements, inverses and mappings are the promised ones on quick and slow paths |
| `polygon_store` | 614 thousand | polygons over loads, restarts and deaths, never mixed in between; torn grid files name no polygon there is not; the grid answers as brute force |
| `kd_upper_bound` | violation | records on the upper bound are missed |
| `kd_one_leaf` | violation | a tree of one leaf answers nothing above zero |
| `indexed_store_fetch` | violation | the indexing process fetches another row's place and time |
| `group_by_tail` | violation | the remainder of `noPts / nt` is dropped |

*Bounds.* `request_queue`: two places and two requests per pusher let both
pushers wait on a full queue and both consumers on an empty one, so that
`notify_one` has a choice; the theorems below need no bound. `arena_crash`: a
block takes three narrow cells or one wide one, and the second file extends
a saved block and opens another; two deaths while persisting allow one during
the recovery from the other. Deaths at other moments are not counted: they
change nothing on disk. `kd_index`: leaves of two records instead of 256, so that
five records give two levels of splitting on two keys with the last leaf padded;
keys are 0 or 1, so equal keys are the rule. `indexed_store`: up to four records
with one key of three values, index built twice: a split that moves records, over
a block already permuted. `indexed_store_fetch`: blocks of three records with
different keys (`MCDistinctBlocks`), which can be sorted in one way only; among equal
keys the model lets a sort swap records that `radix_pair.h` leaves in place, and a run
that is to show a fault of the program must not rest on that. It looks at the
keys of what is fetched (`PlacesMatch`), not at the index they carry. `group_by`: five tuples for two threads, so that there
is a remainder, on a 2x3 grid, whose sides differ so that a mistaken cell order
shows, or over three polygons of which two overlap. `matrix`: every object made
by one call, and every sequence of two more (`MaxCalls`), which is what it takes to
reach each of the ten combinations of flags and to act on each; the theorems
below need no bound. `polygon_store`: a band that crosses a cell with no corner of
either in the other, and a polygon with a dent; blocks of twelve bytes, so that one
column takes several blocks; a file's buffer of three entries (`Buffer`), so that
each grid file can be cut in different places; one death while persisting,
any number elsewhere. `gpu_service`: two devices and five blocks leave one block
over, three requests are one more than the queue takes, and three queries are
one that meets some blocks of a device, one that meets all of them, and one
whose regions leave too little memory; three requests in a row are what the two
caches need to go wrong. No run uses symmetry. The deadlock check is off in
`gpu_service`, because the code does hang there (`HostReturns` says in which two
cases), and in `matrix`, where the calls are used up; the other terminating
models stutter explicitly when they are finished.

*Fairness.* `RequestQueue` and `GpuQuery` have liveness properties. Treating a
critical section as one step under weak fairness takes the mutex to be free of
starvation, which boost's is when the scheduler is fair. In
`GpuQuery`, the host inside an operation and the device threads are
scheduled; no program is bound to call the service, and no `Wake` has to happen. In
`RequestQueue`, `Fairness` is weak
fairness of each thread's steps inside an operation, which the operating
system's scheduler gives, and of a consumer's next call: `CudaDevice::run` loops
on `pop()`, and the host pops a result for each request. Nothing is assumed of
pushers calling `push`, nor of `Wake`: `EveryRequestDelivered` holds
without the help of a spurious wake-up. Weak fairness suffices because a
thread woken by `notify_one` stays able to test its condition.

## What the checks found

Four properties that the repository states or plainly intends fail in the code.
Each has a run that shows it, and the neighbouring property that does hold
is checked, too, so that the finding is bounded.

1. `KdBlock.hpp:203` - a query misses records whose key equals its upper bound
   and the median (`UpperBoundIncluded`). Below the upper bounds the
   search is complete and it never answers wrongly (`SearchSound`).
2. `IndexStore.cpp:104` - a block of at most 256 records has a tree file that
   lacks the root leaf's offset and range (`OneLeafAnswers`).
3. `KdIndex.cpp:130` - the process that builds the index permutes the spacetime
   block, so that its own group-by queries read another row's place and time: with
   the keys 0, 2, 1 sorted to 0, 1, 2, key 2 is answered with id 1, at which key 1
   is fetched (`EveryProcessReadsItsRows`). The index itself stays right
   (`AnswersAreOfTheInput`), and a restarted process that found the block
   saved in order is right, too (`RestartedProcessReadsItsRows`).
4. `DataManager.cpp:279` - `ceil(noPts / nt)` divides integers: up to nt - 1 rows of
   an answer are not counted (`EveryRowCounted`). The others are counted once,
   in the right cell (`DealtRowsCounted`).

Four more peculiarities of the GPU service appear in its properties as conditions:
a batch of more requests than the host's queue takes, 128, never returns
(`CudaDb.cpp:82`, in `HostReturns`), the remainder of the division of blocks by
devices is searched nowhere (`Expected`), a device that served requests of
different makes answers from memory it no longer has (`Reliable`), and after a
refused request the next one's result is taken for it (`HasRefused`).

## Proofs

**`RequestQueue_proofs`** (for any threads, bound, and number of requests)

- `TypeCorrect`: `Spec => []TypeOK`.
- `PushWakeup`, `PopWakeup`: no lost wake-up. The invariants count: while a
  thread sleeps on `condPop`, there are at least as many consumers awake
  or pushers that have not notified (`RequestSeekers`) as requests in the queue. This is
  inductive together with `TypeOK`. The case that matters is a consumer that was
  notified and finds the queue empty; the lemmas on `Cardinality` at the head of
  the module say how a seeker's coming or going changes the count.
  It uses `QueueAssumption`: that consumers of one queue look for the same thing.
- `FifoImplemented`: every step is a step of `BoundedFifo` or a stutter.

**`KdIndex_proofs`** (for any leaf size, number of keys, block, and outcome of the sorts)

- `TypeCorrect`: the calls stay inside the block. It rests on `SplitProper`: the
  cut of n > MaxRecords records is a multiple of the leaf size, above 0 and at most
  n; and on `WholeBlock`, what `Init` gives.
- `PositionsDisjoint`: `NodesDisjoint` is strengthened to `PositionInv`, which adds
  that everything written or promised lies below `freeNode`, and that what is
  promised to two calls, or to a call and a written node, is apart.
- `LeavesWhole` and `RecordsWritten` follow from `FileInv`: the calls still
  to be made cut the rest of the block into consecutive pieces (`Contiguous`),
  all but the last a multiple of the leaf size; the keys file is the block's
  records before them (`WrittenRecords`) and is padded only when no call is left.
  `SortedBlock` shows that a sort moves records only inside the piece of its call,
  so that what is written stays what the block holds.
- `PositionsFit`: `createStingIndex` sizes the node array from the number of
  records n before it builds (`Allocated`). A tree of l leaves has 2l - 2 nodes
  below its root, and each leaf takes `Extra` positions more for its offset and
  range; `RoomInv` says that what the calls still to be made need (`Need`), with
  what is given out, is in the array. A split hands its need on to its two parts
  (`NeedOfSplit`), because the left one is a whole number of leaves.
- `SearchIsSound`: `SearchSound`, from the invariant `CutInv`. It says that
  there is a map `sp` from nodes to parts of the block: each node that is written is a
  leaf with the records of its part or cuts it in two (`Tree`), the
  records on the two sides of a cut are up to the median and from it on, those of a leaf within
  its range (`Parted`), and the part that a call is still to sort is inside or
  beside each of them (`CallsNested`), so that the sort moves no record over a cut
  made before. `FoundLeaves` then goes up the tree from its last node: a
  child's position is above its parent's, which both ends the recursion of the search
  (`Visited`) and is what the induction is on. The leaves found are pieces of the
  keys file one behind the other (`Pieces`), so that no record is met twice, and they
  cover each record that is wanted (`Covers`). `AscendingOnce`: what sorting
  makes of indices that were each met once; places in it are told by counting what is
  below.

**`MatrixCalls_proofs`** (for all integer matrices and arguments, any number of calls)

- `FlagsAreSound`, `TypeCorrect` and `ElementsAreExact`. The invariant is `Right`:
  the object's flags are sound (`Sound(q)`) and its elements are those of `exact`.
  Neither half is inductive alone: a quick path is right only because the
  flags say which elements it may skip. Each operation has two lemmas, one that what
  it leaves is sound and one that it is what `exact` promises. Products are
  compared element by element (`TimesAt`, and `TimesAssociative` for `lookAt`, which
  multiplies and translates in another order than its definition); `rotate`'s
  shortcuts for the axes and its quaternion agree with Rodrigues' formula by the
  identities of four squares (`FourSquares`). `lookAt` is promised as the one
  rotation that faces the given way (`CHOOSE` in the model); that there is just
  one is `OnlyFacing`.
- `MapsAreExact` and `RectsAreExact` follow from `FlagsAreSound`: whichever
  path `map`, `mapVector` or `mapRect` takes by the flags, it computes what the
  general path would.
- `InversesAreExact` (`InverseExact`). The flags alone are not enough for the quick path that
  inverts by transposing, so the invariant is `Sound(q)` with `Rigid(q)`: what is
  flagged a rotation, moved or not, has orthonormal rows. A product keeps that
  (`TimesOrthonormal`), and what `rotate` multiplies by has it, by Rodrigues' formula
  (`RotationOrthonormal`) and by a quaternion (`QuaternionOrthonormal`); both halve
  what is first shown to be even (`RodriguesEven`, `QuaternionEven`). The
  slow path divides the adjugate by the determinant: a row set against its own
  cofactors gives the determinant, against another row's nothing (`LaplaceRows`,
  `AdjugateAt`, `TimesAdjugate`). `NormalOf` is the same for `normalMatrix` and
  the upper 3x3 part.

The assumptions say what makes the model's integers a faithful stand-in for the code's
reals: a turn's sine and cosine fit its axis (`TurnsAssumption`,
`QuaternionsAssumption`), the quotients of the projections are integers
(`QuotientsAssumption`), and `lookAt`'s view is along an axis, so that its
normalised vectors are integers (`EyesAssumption`). Rectangles have no negative
sizes (`ValuesAssumption`): a matrix that only moves would keep a negative one,
where the general path gives the rectangle its corners span.

**`GpuQuery_proofs`** (for any devices, blocks, queries, requests, queue length)

- `PartsOfRequest`, `RoomForAll` and `NothingLeft` follow from one invariant,
  `Inv`, about the numbers of requests. A device's results (`Done`), the request
  it is at (`Doing`) and its queue (`ToDo`) hold ascending numbers, one after the
  other; together they are the requests the device still owes the host (`Due`):
  those in the host's own queue, but for the loops of `requestQuery` and
  `getResult` the host is in the middle of. A device that has refused a request
  may hold fewer (`HasRefused`), never others. The least number a device holds is
  therefore the one the host asks for; and as the host's own queue is bounded like
  each of a device's, there is room in those (`CountedIds`: ascending
  numbers are as many as their places). Outside a batch the host's queue is empty,
  and with it the devices'. `RT_STOP` has no number: it is the last in
  its queue, and only while the host waits for that device to end (`StopSent`).
- `AnswersAreExact` takes what each result says through the queues. `KnownInv`: the
  requests that the host still has are told apart by their numbers. `AnswerInv`: what
  a device is to do, does or has done is for one of these, and a result with the
  number of a request is `Dealt` of it, if the device's memory could be relied on.
  That rests on `MemoryInv`: while all a device served was of one dataset and kept
  the blocks in place, `lastKeys` and `lastRanges` tell the truth about
  `memory`. `PartsInv` carries it into the host's answer. That the parts then make up
  the answer is `DealtMakesAll`: a device's blocks are those of its share that the
  query meets; the host counts what is before a share (`CountsBefore`) and cuts
  the list of hits there, and `Cuts` joins the pieces again, by induction on the
  number of devices (`AllNat`, which takes the induction from the
  well-foundedness of the naturals, as a set and not an operator is its parameter).
- `TypeCorrect`: `TypeOK` needs the same invariants, as the bounds on what is
  in the queues come from the counting above (`Bounds`, `ToIssue`).

**`DataStoreArena_proofs`** (for any columns, input files, sizes of cells and blocks,
and any number of deaths)

- `TypeCorrect`, `BlocksInside`, `DiskIsComplete` and `OthersAreWhole` follow from one
  invariant, `Inv`. `Named`: the settings on the disk are those of the first blocks,
  without a gap, and each names its block's own file. `AllFit`: what was saved fits
  a block, so what is restored does. `SaveInv`: the file being written holds a
  beginning of its block. `Mirrored`: the blocks `persist()` is through with would
  be restored as they are in memory. `TornInv`: a block that would be restored
  without some of its cells has a file that is open, or was when the process died.
  `Mirrored` and `TornInv` rest on `NamesApart`: no two blocks share a file, because
  a block's number within its column grows along the chain; otherwise writing
  one block could spoil what was saved of another.
  `ArenaAssumption` says that a cell fits a block, that a file's cells are numbered
  column by column, and that `Zero` is not the value of a cell.
- `RowsSurvive`: `LoadedRowsSurvive`. `RowsInv` adds four parts to `Inv`. `Chained`: in
  memory and on the disk alike, each block of a column starts where the
  blocks before it end, and a cell is at its id's distance from its block's start,
  or was lost. `Extended`: a block that was saved before has kept its first id
  and has lost none, so that replacing its settings never forgets rows: this is what makes
  a death between two `SaveEntry`s harmless. `LoadInv`: what was inserted is there, with
  all before it. `Durable`: the rows of files loaded to their end are in the
  settings. The ids of a file's cells grow by one in each column (`Dense`, part
  of `ArenaAssumption`), which is how `loadCSVData` numbers them.
- `RowsAtTheirIds`: `Chained` in the terms `getTuples` needs: for each id there is one
  place.
- `TuplesAreTheirIds`: `TuplesMatchIds`. `WalkFinds` is about `getTuples` alone: if the
  chain's blocks share out the ids asked for, which ascend, the walk never leaves the
  chain, and its result has each one's cell in the order asked. That the walk is
  total rests on `InOrder`, the elements of a finite set of numbers from the least
  on (`InOrderAt`: each has its place, and the places ascend), by counting the elements
  below.

**`PolygonStore_proofs`** (for any polygons, sizes of blocks and of the grid, buffers, and
deaths; extends `DataStoreArena_proofs`)

- `StepsOfTheArena`: `PolygonSpec => Spec`, so all the theorems of the arena hold
  beneath a grid. A death while the grid is written is for the arena one of an idle process.
- `PolygonTypeCorrect` and `IdsStayNamed` (`IdsNameAPolygon`). `GridInv` says that all a
  grid's files hold, or are to hold, are ids of polygons on the disk (`Stored`), and that 0,
  which reading past the end of a torn file gives, is one. `StoredStays`: no
  step takes an id off the disk, as a group of settings is only replaced by one
  that says more (`EntriesWiden`). When a grid is read, the process is idle, and has
  exactly the polygons whose ids are stored (`PolygonsThere`, from `ColumnIds` and `WalkFinds`).
  `FlattenType`: the file joins the cells of the grid and nothing else.
- `PolygonsComeBack` (`PolygonsAsLoaded`). The columns for the counts, the xs and the ys are
  persisted one after the other, so a death leaves them at different lengths. `SourceInv`
  says what holds all the same: each cell in memory or on the disk is a
  cell of some file whose columns `persist()` began to write, at its place there, and
  no block reaches beyond the longest of them. As each file begins as the others do
  (`PrefixAt`), a column as long as the fullest file's is that file's column. The points
  are then cut up again by the counts: `Sums` says where each polygon begins,
  `FlattenPlaces` that its points are there in the joined sequence, and `TotalIs` that
  `getPolygons` arrives at the same sums (`IdlePolygons`). `PolygonAssumption` has
  the three columns differ, as `loadPolyData` names them.
- `PolygonsUnmixed` (`PolygonsNeverMixed`), about the time between a death and the load
  that mends what it left. `getPolygons` then reads past the ends of columns, which
  nothing in the code prevents; what it reads there is `Unread`. The theorem says that this
  is all that goes wrong: the counts that are there are those of the fullest begun
  file's first polygons (`IdleCorners`), so the sums lead to their points in both
  other columns, and each coordinate is that corner's or missing (`AxisIsOrUnread`). It
  rests, as the one before it, on no block's file having been open at the death (`torn`).
- `GridAnswersRight` (`GridAnswersAsBruteForce`), in three parts. *Which points a polygon goes
  around*: `containsPoint` counts the edges left of a point that go up and those that
  go down (`Winding`). Between two heights, an edge adds to that what its
  beginning has and its end has not (`EdgeBalance`), which around the polygon is
  nothing (`WindingKept`), so the number stays the same on the way to a cell's border unless an
  edge or a corner is met on it. A point in a polygon is thus within its bounds
  (`WithinBounds`), and a polygon without edge or corner in a cell that has the point goes around the
  cell's corners, too: it is listed there (`ListedWhereItIs`), whichever of the
  three tests of `polygonRectIntersection` finds it. `Side` keeps the place of a point beside an
  edge free of division. *The cell of a point*: the truncated quotient of a point within
  bounds is among the cells from that of the lower bound to the one after that of the upper
  (`CellOnAxis`, `ListedInItsCell`), and what `getRegion` picks from an ascending list of
  numbers ascends (`PickedAscends`), so that two answers with the same numbers are the same
  answer (`AscendingSame`). *The grid over its life*: `WholeInv` says that a grid
  in the making, in files that were written whole or read from them is the one that is built of
  the first polygons of a file: reading undoes writing (`RoundTrip`; a cell begins where the
  sizes of those before it add up to), and polygons of an idle process that can be read at
  all are a file's first ones (`LegibleBegin`), also when a death left fewer. `PolygonAssumption` says when integers
  can stand for the coordinates: the bounds of a file's polygons, and of any first ones that a
  death may leave, have an extent (`width` and `height` are divided by) that is
  a multiple of the grid's size.

**`GroupBy_proofs`** (for any data, grid, polygons, number of threads, and order of their steps)

- `TypeCorrect`, `BinsAreCounts` and `FunctionCounts`. `BinsAccountForTuples` is
  inductive with the types and `WithinRuns` (a thread is within its run or past its
  end): the runs are intervals one after the other (`Runs`), so that a `Merge` adds the
  number of a set of tuples to that of another, disjoint one. When all
  threads are done, what was dealt out is what was gone past (`AllPast`). `Density`
  walks over the cells in another order than the bins; `RowAndPlace` shows the change
  of order to be one to one (`OneQuotient`: a number is q * n + r, r < n, in one way).

**`IndexedStore_proofs`** (for any rows, leaf size, keys, and number of builds)

- `StoreTypeCorrect`, `RestartReadsRows` and `IndexOfTheInput`. `StoreInv`: both the block in
  memory and the saved one are permutations of the rows (`Kept`); the keys file
  has rows only, and each of them when no call is left (`FileRows`, from
  `KdIndex_proofs`' `FileInv`, which holds again from each new build on); and
  `OrderInv`, why a restarted process reads its rows: only a process that has sorted its
  block can leave another order on the disk.
- `AnswersOfTheInput`: `AnswersAreOfTheInput`, with `TreeInv`, the half of `CutInv` that
  depends on the number of records and not on their order, and so outlives a restart.
  `Hits` of `KdIndex_proofs` says that a search finds places of the keys file before its
  filling; what is there is a row.

Assumptions are those of the modules' `ASSUME`s, which TLC evaluates on each run.
`KdAssumption` says that the index stored with a record is its row, as
`loadCSVData` writes it.

## Only model-checked

- Liveness (`EveryRequestDelivered`, `HostReturns`, and the fairness that `ImplementsFifo`
  asks for beyond `FifoImplemented`): fairness is out of the prover's reach.

## Not modelled

- *Arena*: parsing of the input files, the accessors for strings, the end of the
  8 GB (never tested by the code), failed writes. Settings files torn in
  themselves: `QSettings` replaces them atomically.
- *Index*: deaths in the middle of `createStingIndex`; `createKdTree`, which repeats it
  on a mapped file and has no caller; `buildGrid` from points, which has no
  caller either; square cells in metres (`usingGeo` is always set).
- *Group-by*: the singletons of `DataManager`; the `count` variable that OpenMP threads
  increment without a lock and that is only printed; `createDistanceFunction`;
  the smoothing that is compiled out.
- *GPU service*: ranges or blocks that take several rounds through a device's
  memory, the prefix sums inside the kernels, CUDA errors (they end the program).
- *Matrix*: rounding, `qFuzzyCompare`, streaming. `Camera` beside it is a set
  of transcendental projections for the batch program, and has no other
  caller; neither have the colour maps and the OpenGL helpers.
- *Stubs and scripts*: `FunctionCache` holds no state. Telang, SaTScan, the taxi
  preprocessing and the sanity scripts are one-shot computations around
  external programs and real-valued statistics; the two loops in them
  that have an invariant are in the plan.

## Plan

The order is that of importance: first what all queries of the shipped program
depend on, then what is concurrent but not built by default, then the batch
programs beside it.

1. *(done)* `RequestQueue` over `BoundedFifo`; `KdIndex`; `DataStoreArena`;
   `IndexedStore`; `GroupBy` over a grid; their proofs.
2. *(done)* `GpuQuery`, with its theorems.
3. *(done)* `GridIndex` and `PolygonStore`; `GroupBy` over polygons;
   `Matrix4x4` and `MatrixCalls` with their theorem; `PositionsFit`; the
   theorems of `DataStoreArena`.
4. *(done)* Proofs of `LoadedRowsSurvive`, of `GroupBy`, of `MatrixCalls`, of `AnswersExact`, of the tree search (`SearchSound`), of
   `IndexedStore` with its answers (`AnswersAreOfTheInput`), of `TuplesMatchIds`, and of
   `PolygonStore` as steps of `DataStoreArena`, with `IdsNameAPolygon`; of
   `InverseExact`, of `PolygonsAsLoaded`, of `PolygonsNeverMixed` and of `GridAnswersAsBruteForce`: all safety
   properties of the passing runs are theorems.
5. `Clustering` (`HAC.java`: the clusters stay a partition into connected cells,
   each merge is of neighbours, the loop ends) and `IterativeScan`
   (`iterative_SaTScan_h.py`: counts never negative, no case removed twice, the
   loop ends), with the statistic external.
