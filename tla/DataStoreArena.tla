--------------------------- MODULE DataStoreArena ---------------------------
(***************************************************************************)
(* DataLayer/DataStoreArena.cpp: the column store.  A column is a chain of *)
(* fixed-size blocks cut one after the other from one anonymous mapping;   *)
(* loading a file appends its rows, then persist() writes one file and one *)
(* group of settings per block; the constructor rebuilds the blocks from   *)
(* the settings.                                                           *)
(*                                                                         *)
(* The process can die between any two of these steps.  What it wrote to a *)
(* file or synced to the settings stays (the machine does not fail with    *)
(* it), its memory is gone, and the next process starts from the settings. *)
(*                                                                         *)
(* Values are abstracted to the file and the row they were read from, byte *)
(* counts to small numbers, and a block file to the cells it holds.        *)
(***************************************************************************)
EXTENDS Integers, Sequences, SequencesExt, FiniteSets, TLC, Order

CONSTANTS
  Columns,     \* "dataset.column" names
  Files,       \* the input files
  Rows,        \* Rows[f]: the cells file f inserts, in order
  TypeSize,    \* TypeSize[c]: bytes of one cell of column c
  BlockSize,   \* bytes of a block, BLOCK_SIZE
  NoColumn,    \* the column of a block restored from settings never written
  Zero,        \* what fresh mapped memory reads as
  MaxCrashes   \* bound of the model: deaths of the process while it persists

\* The ids of a column's cells grow by one, from 0, in each file.
Dense(cells) ==
  \A k \in DOMAIN cells :
    cells[k].id = Cardinality({j \in 1..(k - 1) : cells[j].col = cells[k].col})

ASSUME ArenaAssumption ==
  /\ \A f \in Files : Rows[f] \in Seq([col : Columns, id : Nat]) /\ Dense(Rows[f])
  /\ Files # {}
  /\ BlockSize \in Nat
  /\ \A c \in Columns : TypeSize[c] \in 1..(BlockSize - 1)
  /\ NoColumn \notin Columns
  /\ Zero \notin [from : Files, id : Nat]
  /\ MaxCrashes \in Nat

\* loadCSVData: row by row, within a row column by column.
CsvRows(cols, n) ==
  [k \in 1..(n * Len(cols)) |->
    [col |-> cols[((k - 1) % Len(cols)) + 1], id |-> (k - 1) \div Len(cols)]]

\* loadPolyData: one column after the other, each with its own length.
PolyRows(cols, lens) ==
  FlattenSeq([i \in DOMAIN cols |->
    [k \in 1..lens[i] |-> [col |-> cols[i], id |-> k - 1]]])

VARIABLES
  blocks,    \* the Block objects in the order they were created
  files,     \* block files on disk: name -> cells
  size,      \* settings "storage/size"
  entries,   \* settings "block_<i>/...": index -> the block's group
  pc,        \* "down", "idle", "loading" or "saving"
  load,      \* the file being loaded and the next of its cells
  save,      \* persist(): the block it is at (0: before the first), file open?
  crashes,   \* deaths of the process so far while it persisted
  torn,      \* history: names of the files open when the process died
  loaded     \* history: the files whose loading came to its end

disk == <<files, size, entries>>
ghosts == <<crashes, torn, loaded>>
vars == <<blocks, disk, pc, load, save, ghosts>>

-----------------------------------------------------------------------------
\* (Mutated: every block of a column is written to the same file.)
FileNameOfColumn(bs, i) == <<bs[i].col, 0>>

\* Block files are named <dataset>.<column>_<data_index>; data_index counts
\* the earlier blocks of the column.
FileName(bs, i) ==
  <<bs[i].col, Cardinality({j \in 1..(i - 1) : bs[j].col = bs[i].col})>>

\* A file or a group of settings is put on the disk, or takes another's place.
Put(f, x, v) == [y \in DOMAIN f \cup {x} |-> IF y = x THEN v ELSE f[y]]

\* What ifstream::read finds in a file: nothing if it does not exist.
Content(name) == IF name \in DOMAIN files THEN files[name] ELSE <<>>

\* A block none of whose settings were written: every value reads as "" or 0,
\* so its one "row" has no bytes.
JunkBlock == [col |-> NoColumn, start |-> 0, end |-> 0, cells |-> <<>>]

\* restore(): a block per index below storage/size, filled from its file; a
\* file that is too short leaves the rest of the mapped memory as it is.
RestoredBlock(e) ==
  [col |-> e.col, start |-> e.start, end |-> e.end,
   cells |-> [k \in 1..e.len |->
                IF k \in DOMAIN Content(e.name) THEN Content(e.name)[k] ELSE Zero]]

RestoredBlocks ==
  [i \in 1..size |->
    IF i \in DOMAIN entries THEN RestoredBlock(entries[i]) ELSE JunkBlock]

Chain(bs, c) == {i \in DOMAIN bs : bs[i].col = c}

\* The number of rows a reader of the column can ask for.
RowsOf(bs, c) ==
  Cardinality(UNION {bs[i].start..bs[i].end : i \in Chain(bs, c)})

-----------------------------------------------------------------------------
\* Block::write appends whatever the id is, and keeps the smallest and the
\* largest id seen; a new block starts at UINT_MAX and ends at 0.
Written(b, id, value) ==
  [b EXCEPT !.start = IF @ < id THEN @ ELSE id,
            !.end = IF @ > id THEN @ ELSE id,
            !.cells = Append(@, value)]

FreshBlock(c, id, value) ==
  [col |-> c, start |-> id, end |-> id, cells |-> <<value>>]

\* (Mutated: the cell about to be written is left out of the test.)
HasRoomForNone(b) == Len(b.cells) * TypeSize[b.col] < BlockSize

HasRoom(b) == Len(b.cells) * TypeSize[b.col] + TypeSize[b.col] < BlockSize

\* The last block of a chain: the one without a data_next.
LastOf(bs, c) == CHOOSE i \in Chain(bs, c) : \A j \in Chain(bs, c) : j <= i

\* (Mutated: the id is not compared with the ids already there.)
InsertAgain(bs, cell, value) ==
  LET last == LastOf(bs, cell.col)
      fresh == FreshBlock(cell.col, cell.id, value)
  IN  IF Chain(bs, cell.col) = {} THEN Append(bs, fresh)
      ELSE IF HasRoom(bs[last])
           THEN [bs EXCEPT ![last] = Written(@, cell.id, value)]
           ELSE Append(bs, fresh)

\* insert(): into the last block of the chain, or into a new block when there
\* is none or it is full; an id that is not beyond the last one is ignored.
Insert(bs, cell, value) ==
  LET last == LastOf(bs, cell.col)
      fresh == FreshBlock(cell.col, cell.id, value)
  IN  IF Chain(bs, cell.col) = {} THEN Append(bs, fresh)
      ELSE IF cell.id <= bs[last].end THEN bs
      ELSE IF HasRoom(bs[last])
           THEN [bs EXCEPT ![last] = Written(@, cell.id, value)]
           ELSE Append(bs, fresh)

\* getTuples: the ids one after the other, each in the block at hand or in the
\* next one that holds it; no ids stand for every id from 0.  Walking off the
\* chain (end) ends the result, for given ids by dereferencing null.
getTuples(bs, c, ids) ==
  LET chain == InOrder(Chain(bs, c))
      end == Len(chain) + 1
      n == IF ids = <<>> THEN RowsOf(bs, c) ELSE Len(ids)
      Id(i) == IF ids = <<>> THEN i - 1 ELSE ids[i]
      Holding(i, k) == {l \in k..Len(chain) : Id(i) \in bs[chain[l]].start..bs[chain[l]].end}
      at[i \in 0..n] ==
        IF i = 0 THEN 1
        ELSE LET next == Holding(i, at[i - 1])
             IN  IF next = {} THEN end ELSE CHOOSE l \in next : \A m \in next : l <= m
  IN  [i \in 1..Cardinality({j \in 1..n : at[j] # end}) |->
         LET b == bs[chain[at[i]]] IN b.cells[Id(i) - b.start + 1]]

-----------------------------------------------------------------------------
NoLoad == [file |-> CHOOSE f \in Files : TRUE, next |-> 0]

Init ==
  /\ blocks = <<>>
  /\ files = <<>>
  /\ size = 0
  /\ entries = <<>>
  /\ pc = "down"
  /\ load = NoLoad
  /\ save = [at |-> 0, open |-> FALSE]
  /\ crashes = 0
  /\ torn = {}
  /\ loaded = {}

\* A process starts and constructs the arena.
Start ==
  /\ pc = "down"
  /\ blocks' = RestoredBlocks
  /\ pc' = "idle"
  /\ UNCHANGED <<disk, load, save, ghosts>>

\* loadCSVData or loadPolyData is called.
LoadFile(f) ==
  /\ pc = "idle"
  /\ pc' = "loading"
  /\ load' = [file |-> f, next |-> 1]
  /\ UNCHANGED <<blocks, disk, save, ghosts>>

InsertCell ==
  /\ pc = "loading" /\ load.next \in DOMAIN Rows[load.file]
  /\ LET cell == Rows[load.file][load.next]
     IN  blocks' = Insert(blocks, cell, [from |-> load.file, id |-> cell.id])
  /\ load' = [load EXCEPT !.next = @ + 1]
  /\ UNCHANGED <<disk, pc, save, ghosts>>

\* The input is read to its end: persist() begins.
BeginPersist ==
  /\ pc = "loading" /\ load.next \notin DOMAIN Rows[load.file]
  /\ pc' = "saving"
  /\ UNCHANGED <<blocks, disk, load, save, ghosts>>

\* (Mutated: the settings are cleared before they are written again.)
SaveSizeCleared ==
  /\ pc = "saving" /\ save.at = 0
  /\ size' = Len(blocks)
  /\ entries' = <<>>
  /\ save' = [save EXCEPT !.at = 1]
  /\ UNCHANGED <<blocks, files, pc, load, ghosts>>

\* (Mutated: the index of the last block is saved instead of their number.)
SaveLastIndex ==
  /\ pc = "saving" /\ save.at = 0
  /\ size' = IF blocks = <<>> THEN 0 ELSE Len(blocks) - 1
  /\ save' = [save EXCEPT !.at = 1]
  /\ UNCHANGED <<blocks, files, entries, pc, load, ghosts>>

\* setValue("/storage/size") and sync().
SaveSize ==
  /\ pc = "saving" /\ save.at = 0
  /\ size' = Len(blocks)
  /\ save' = [save EXCEPT !.at = 1]
  /\ UNCHANGED <<blocks, files, entries, pc, load, ghosts>>

SavingBlock == pc = "saving" /\ save.at \in DOMAIN blocks

\* Block::persist: std::ofstream opens, and truncates, the file ...
OpenFile ==
  /\ SavingBlock /\ ~save.open
  /\ files' = Put(files, FileName(blocks, save.at), <<>>)
  /\ save' = [save EXCEPT !.open = TRUE]
  /\ UNCHANGED <<blocks, size, entries, pc, load, ghosts>>

\* ... the rows go to it one after the other ...
WriteFile ==
  /\ SavingBlock /\ save.open
  /\ LET name == FileName(blocks, save.at)
         cells == blocks[save.at].cells
     IN  /\ Len(files[name]) < Len(cells)
         /\ files' = [files EXCEPT ![name] = Append(@, cells[Len(@) + 1])]
  /\ UNCHANGED <<blocks, size, entries, pc, load, save, ghosts>>

\* (Mutated: the settings do not wait for the rows.)
SaveEntryEarly ==
  /\ SavingBlock /\ save.open
  /\ LET b == blocks[save.at]
     IN  entries' = Put(entries, save.at,
                        [col |-> b.col, start |-> b.start, end |-> b.end,
                         len |-> Len(b.cells), name |-> FileName(blocks, save.at)])
  /\ save' = [at |-> save.at + 1, open |-> FALSE]
  /\ UNCHANGED <<blocks, files, size, pc, load, ghosts>>

\* ... then it is closed, and the block's settings are written and synced.
SaveEntry ==
  /\ SavingBlock /\ save.open
  /\ LET name == FileName(blocks, save.at)
         b == blocks[save.at]
     IN  /\ Len(files[name]) = Len(b.cells)
         /\ entries' = Put(entries, save.at,
                           [col |-> b.col, start |-> b.start, end |-> b.end,
                            len |-> Len(b.cells), name |-> name])
  /\ save' = [at |-> save.at + 1, open |-> FALSE]
  /\ UNCHANGED <<blocks, files, size, pc, load, ghosts>>

\* No block is left: loadCSVData returns.
EndPersist ==
  /\ pc = "saving" /\ save.at > Len(blocks)
  /\ pc' = "idle"
  /\ save' = [at |-> 0, open |-> FALSE]
  /\ loaded' = loaded \cup {load.file}
  /\ load' = NoLoad
  /\ UNCHANGED <<blocks, disk, crashes, torn>>

\* The process dies.
Crash ==
  /\ pc # "down"
  /\ pc = "saving" => crashes < MaxCrashes
  /\ crashes' = IF pc = "saving" THEN crashes + 1 ELSE crashes
  /\ torn' = IF SavingBlock /\ save.open
             THEN torn \cup {FileName(blocks, save.at)} ELSE torn
  /\ pc' = "down"
  /\ blocks' = <<>>
  /\ load' = NoLoad
  /\ save' = [at |-> 0, open |-> FALSE]
  /\ UNCHANGED <<disk, loaded>>

Next ==
  \/ Start
  \/ \E f \in Files : LoadFile(f)
  \/ InsertCell
  \/ BeginPersist
  \/ SaveSize
  \/ OpenFile
  \/ WriteFile
  \/ SaveEntry
  \/ EndPersist
  \/ Crash

Spec == Init /\ [][Next]_vars

-----------------------------------------------------------------------------
Values == [from : Files, id : Nat] \cup {Zero}

Blocks ==
  [col : Columns \cup {NoColumn}, start : Nat, end : Nat, cells : Seq(Values)]

FileNames == (Columns \cup {NoColumn}) \X Nat

\* The types of the variables.
TypeOK ==
  /\ blocks \in Seq(Blocks)
  /\ DOMAIN files \subseteq FileNames
  /\ \A name \in DOMAIN files : files[name] \in Seq(Values)
  /\ size \in Nat
  /\ DOMAIN entries \subseteq 1..size
  /\ \A i \in DOMAIN entries :
       entries[i] \in [col : Columns \cup {NoColumn}, start : Nat, end : Nat,
                       len : Nat, name : FileNames]
  /\ pc \in {"down", "idle", "loading", "saving"}
  /\ load \in [file : Files, next : Nat]
  /\ save \in [at : 0..(Len(blocks) + 1), open : BOOLEAN]
  /\ crashes \in 0..MaxCrashes
  /\ torn \subseteq FileNames
  /\ loaded \subseteq Files

\* A column's rows, asked for by ascending ids over however many blocks, or
\* all at once, come back in that order, one for each: the id of a tuple in
\* every column is the number of its line in the input, also after a crash
\* in the middle of persist() and a second loading (DataStore.hpp: "An ID is
\* created for each tuple.").  A cell may be Zero, see OnlyTornFilesLoseCells.
TuplesMatchIds ==
  pc = "idle" =>
  \A c \in Columns :
    LET ids == 0..(RowsOf(blocks, c) - 1)
    IN  \A some \in SUBSET ids :
          LET tuples == getTuples(blocks, c, InOrder(some))
              wanted == IF some = {} THEN ids ELSE some
          IN  /\ Len(tuples) = Cardinality(wanted)
              /\ \A k \in DOMAIN tuples :
                   tuples[k] # Zero => tuples[k].id = InOrder(wanted)[k]

\* No block grows into the memory of the next: its bytes stay below the size
\* it was created with, whichever mix of restore and insert filled it.
BlocksFit ==
  \A i \in DOMAIN blocks :
    blocks[i].col \in Columns =>
      Len(blocks[i].cells) * TypeSize[blocks[i].col] < BlockSize

\* When no load is under way, a process starting now would have the very
\* blocks of the running one: the settings and the files say all of it.
DiskMirrorsMemory == pc = "idle" => RestoredBlocks = blocks

\* What was loaded to its end stays loaded: whatever the process does after
\* that and wherever it dies, a restart finds an id for each row of the file.
\* (persist() rewrites every block and its settings on each load.)
LoadedRowsSurvive ==
  \A f \in loaded : \A k \in DOMAIN Rows[f] :
    Rows[f][k].id < RowsOf(RestoredBlocks, Rows[f][k].col)

\* Data are lost only in a block whose file was open when the process died,
\* and not in the blocks before or after it: each cell of the others is what
\* was read from an input.
OnlyTornFilesLoseCells ==
  \A i \in DOMAIN blocks :
    Zero \in Range(blocks[i].cells) => FileName(blocks, i) \in torn

=============================================================================
