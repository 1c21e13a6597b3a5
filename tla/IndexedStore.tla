---------------------------- MODULE IndexedStore ----------------------------
(***************************************************************************)
(* A dataset through the life of its index: DataManager and               *)
(* GenerateScalarFiles::load with the arena (DataStoreArena) below and the *)
(* k-d tree (KdIndex) beside it.                                           *)
(*                                                                         *)
(* The two meet in one piece of memory.  createStingIndex asks getData for *)
(* the block of the spacetime column and buildKdTree sorts its records in  *)
(* that place; getTuples reads the same block by position, as it reads the *)
(* blocks of the other columns, which nobody sorts.  trips is that block;  *)
(* the steps of KdIndex are the building, in the process that loaded the   *)
(* dataset.  The whole of a block stands for the column: with more blocks  *)
(* each is indexed for itself.                                             *)
(***************************************************************************)
EXTENDS KdIndex

CONSTANT MaxBuilds   \* bound of the model: calls of createStingIndex

ASSUME StoreAssumption == MaxBuilds \in Nat \ {0}

VARIABLES
  rows,      \* history: the dataset as it was loaded
  saved,     \* the block's file on disk
  builds,    \* calls of createStingIndex so far
  sorted,    \* history: has this process built the index?
  leaked     \* history: did a process save blocks after building an index?

storeVars == <<vars, rows, saved, builds, sorted, leaked>>

-----------------------------------------------------------------------------
\* The first process has loaded the dataset, and so persisted it, and calls
\* createStingIndex.
StoreInit ==
  /\ Init
  /\ rows = trips
  /\ saved = trips
  /\ builds = 1
  /\ sorted = TRUE
  /\ leaked = FALSE

Build ==
  /\ WriteLeaf \/ SplitNode
  /\ UNCHANGED <<rows, saved, builds, sorted, leaked>>

\* load() is done with this dataset and loads another one (or this one again:
\* its ids are all there, so nothing is inserted); persist() writes all blocks.
LoadAnother ==
  /\ Built
  /\ saved' = trips
  /\ leaked' = (leaked \/ sorted)
  /\ UNCHANGED <<vars, rows, builds, sorted>>

\* createStingIndex is called again and writes the index files anew.
BuildAgain ==
  /\ Built /\ builds < MaxBuilds
  /\ calls' = <<[first |-> 1, n |-> Len(trips), depth |-> 0, node |-> 0]>>
  /\ nodes' = <<>>
  /\ freeNode' = 1
  /\ keysFile' = <<>>
  /\ builds' = builds + 1
  /\ sorted' = TRUE
  /\ UNCHANGED <<trips, rows, saved, leaked>>

\* (Mutated: the file found under the block's name is the index's.)
RestartFromIndex ==
  /\ Built
  /\ trips' = keysFile
  /\ sorted' = FALSE
  /\ UNCHANGED <<calls, nodes, freeNode, keysFile, rows, saved, builds, leaked>>

\* (Mutated: the block's memory is a mapping of its file.)
RestartMapped ==
  /\ Built
  /\ sorted' = FALSE
  /\ UNCHANGED <<vars, rows, saved, builds, leaked>>

\* The process ends; the next one restores the block and finds the index files.
Restart ==
  /\ Built
  /\ trips' = saved
  /\ sorted' = FALSE
  /\ UNCHANGED <<calls, nodes, freeNode, keysFile, rows, saved, builds, leaked>>

StoreNext ==
  \/ Build
  \/ LoadAnother
  \/ BuildAgain
  \/ Restart

StoreSpec == StoreInit /\ [][StoreNext]_storeVars

-----------------------------------------------------------------------------
\* executeGroupbyQuery: the ids of the query's answer, and for each its tuple
\* from the spacetime column; the tuples of other columns have the same place.
Tuple(id) == trips[id + 1]
TuplesMatch(q) ==
  \A k \in DOMAIN querySting(q) :
    Tuple(querySting(q)[k]) = rows[querySting(q)[k] + 1]

\* The same of the place and time of a tuple only, whatever index it carries.
PlacesMatch(q) ==
  \A k \in DOMAIN querySting(q) :
    Tuple(querySting(q)[k]).key = rows[querySting(q)[k] + 1].key

\* The types of the variables.
StoreTypeOK ==
  /\ TypeOK
  /\ rows \in Blocks
  /\ saved \in Seq(Trips)
  /\ builds \in 1..MaxBuilds
  /\ sorted \in BOOLEAN /\ leaked \in BOOLEAN

\* Whatever order a block is in, in memory and on disk, when it is indexed,
\* and over restarts and further builds, an id that a query answers is that
\* of a row that matched when it was loaded: a record carries its index along.
AnswersAreOfTheInput ==
  Built => \A q \in Query :
    Range(querySting(q)) \subseteq {id \in 0..(Len(rows) - 1) : isMatched(q, rows[id + 1])}

\* A process that finds the index built, by one that saved nothing after it,
\* gets for each id of an answer the place and time that were loaded with it,
\* and so the right value of the other columns.
RestartedProcessReadsItsRows ==
  Built /\ ~sorted /\ ~leaked => \A q \in Query : TuplesMatch(q)

\* "An ID is created for each tuple." (DataStore.hpp): in every process, the
\* one that built the index included, the place and time fetched with an id of
\* an answer are those that were loaded with it.
EveryProcessReadsItsRows ==
  Built => \A q \in Query : PlacesMatch(q)

=============================================================================
