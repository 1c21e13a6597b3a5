------------------------ MODULE DataStoreArena_proofs ------------------------
(***************************************************************************)
(* The arena and its persistence, for any columns, input files, sizes of   *)
(* blocks and deaths of the process: no block grows beyond its memory,     *)
(* the disk says all of an idle process's memory, and data are lost only   *)
(* in files that were open at a death.  Of the rows: a column's blocks     *)
(* share out its ids without a gap or an overlap, getTuples finds the rows *)
(* by them, and what was loaded to its end stays loaded, as the ids grow   *)
(* by one in each file (Dense).                                            *)
(***************************************************************************)
EXTENDS DataStoreArena, FiniteSetTheorems, WellFoundedInduction, TLAPS

\* Names of files depend on the columns of the blocks so far.
LEMMA SameName ==
  ASSUME NEW bs, NEW cs, NEW i \in Nat, i > 0,
         \A j \in 1..i : bs[j].col = cs[j].col
  PROVE  FileName(bs, i) = FileName(cs, i)
<1>1. i \in 1..i /\ \A j \in 1..(i - 1) : j \in 1..i
  OBVIOUS
<1>. QED
  BY <1>1 DEF FileName

\* The blocks of a column that come before a block are finitely many.
LEMMA Earlier ==
  ASSUME NEW bs, NEW c, NEW i \in Nat
  PROVE  LET s == {j \in 1..(i - 1) : bs[j].col = c}
         IN  IsFiniteSet(s) /\ Cardinality(s) \in Nat
<1>1. IsFiniteSet(1..(i - 1))
  <2>1. i - 1 \in Int /\ 1 \in Int
    OBVIOUS
  <2>. QED BY <2>1, FS_Interval
<1>2. {j \in 1..(i - 1) : bs[j].col = c} \subseteq 1..(i - 1)
  OBVIOUS
<1>3. IsFiniteSet({j \in 1..(i - 1) : bs[j].col = c})
  BY <1>1, <1>2, FS_Subset
<1>. QED
  BY <1>3, FS_CardinalityType

\* No two blocks have files of the same name.
LEMMA NamesApart ==
  ASSUME NEW bs, NEW i \in Nat, NEW k \in Nat, 0 < i, i < k
  PROVE  FileName(bs, i) # FileName(bs, k)
<1>. SUFFICES ASSUME bs[i].col = bs[k].col
              PROVE  Cardinality({j \in 1..(i - 1) : bs[j].col = bs[i].col})
                       # Cardinality({j \in 1..(k - 1) : bs[j].col = bs[k].col})
  BY DEF FileName
<1>. DEFINE a == {j \in 1..(i - 1) : bs[j].col = bs[i].col}
            b == {j \in 1..(k - 1) : bs[j].col = bs[k].col}
<1>1. a \subseteq b /\ i \in b /\ i \notin a
  OBVIOUS
<1>2. IsFiniteSet(b)
  BY Earlier
<1>. HIDE DEF a, b
<1>3. Cardinality(a) # Cardinality(b)
  BY <1>1, <1>2, FS_Subset
<1>. QED
  BY <1>3 DEF a, b

LEMMA NameType ==
  ASSUME NEW bs, NEW i \in Nat, bs[i].col \in Columns \cup {NoColumn}
  PROVE  FileName(bs, i) \in FileNames
<1>1. Cardinality({j \in 1..(i - 1) : bs[j].col = bs[i].col}) \in Nat
  BY Earlier
<1>. QED
  BY <1>1 DEF FileName, FileNames

\* A chain that is not empty has a last block.
LEMMA LastInChain ==
  ASSUME NEW bs \in Seq(Blocks), NEW c, Chain(bs, c) # {}
  PROVE  /\ LastOf(bs, c) \in DOMAIN bs /\ bs[LastOf(bs, c)].col = c
         /\ \A j \in Chain(bs, c) : j <= LastOf(bs, c)
<1>. DEFINE s == {Len(bs) - i : i \in Chain(bs, c)}
<1>1. Chain(bs, c) \subseteq 1..Len(bs) /\ Len(bs) \in Nat /\ DOMAIN bs = 1..Len(bs)
  BY DEF Chain
<1>2. s \in SUBSET Nat /\ s # {}
  BY <1>1
<1>. HIDE DEF s
<1>3. PICK n \in s : \A m \in s : n <= m
  <2>1. \E n \in s : \A m \in s : <<m, n>> \notin OpToRel(<, Nat)
    BY <1>2, WFMin, NatLessThanWellFounded
  <2>2. PICK n \in s : \A m \in s : <<m, n>> \notin OpToRel(<, Nat)
    BY <2>1
  <2>3. ASSUME NEW m \in s PROVE n <= m
    <3>1. m \in Nat /\ n \in Nat /\ <<m, n>> \notin OpToRel(<, Nat)
      BY <1>2, <2>2
    <3>2. ~(m < n)
      BY <3>1 DEF OpToRel
    <3>3. m \in Int /\ n \in Int
      BY <1>2
    <3>. QED BY <3>2, <3>3
  <2>. QED BY <2>3
<1>4. PICK i \in Chain(bs, c) : n = Len(bs) - i
  BY DEF s
<1>5. \A j \in Chain(bs, c) : j <= i
  <2>. SUFFICES ASSUME NEW j \in Chain(bs, c) PROVE j <= i
    OBVIOUS
  <2>1. Len(bs) - j \in s
    BY DEF s
  <2>. QED BY <2>1, <1>1, <1>3, <1>4
<1>6. LastOf(bs, c) \in Chain(bs, c) /\ \A j \in Chain(bs, c) : j <= LastOf(bs, c)
  BY <1>5 DEF LastOf
<1>. QED
  BY <1>6 DEF Chain

\* What insert() does to the blocks, if anything.
LEMMA InsertCases ==
  ASSUME NEW bs \in Seq(Blocks), NEW cell, NEW value
  PROVE  \/ Insert(bs, cell, value) = bs
         \/ Insert(bs, cell, value) = Append(bs, FreshBlock(cell.col, cell.id, value))
         \/ \E l \in DOMAIN bs :
              /\ bs[l].col = cell.col /\ HasRoom(bs[l])
              /\ Insert(bs, cell, value)
                   = [bs EXCEPT ![l] = Written(bs[l], cell.id, value)]
BY LastInChain DEF Insert

-----------------------------------------------------------------------------
\* RestoredBlock and RestoredBlocks, with the disk as a parameter.
Held(fs, name) == IF name \in DOMAIN fs THEN fs[name] ELSE <<>>

Restored(e, fs) ==
  [col |-> e.col, start |-> e.start, end |-> e.end,
   cells |-> [k \in 1..e.len |->
                IF k \in DOMAIN Held(fs, e.name) THEN Held(fs, e.name)[k] ELSE Zero]]

RestoredOf(n, es, fs) ==
  [i \in 1..n |-> IF i \in DOMAIN es THEN Restored(es[i], fs) ELSE JunkBlock]

Entry ==
  [col : Columns \cup {NoColumn}, start : Nat, end : Nat, len : Nat, name : FileNames]

\* The groups of settings are those of the first blocks, and each names its
\* block's file.
Named ==
  /\ \A i \in DOMAIN entries : 1..i \subseteq DOMAIN entries
  /\ \A i \in DOMAIN entries : entries[i].name = FileName(entries, i)
  /\ pc # "down" => /\ size <= Len(blocks)
                    /\ \A i \in DOMAIN entries : blocks[i].col = entries[i].col

\* What was saved fits a block, too.
AllFit ==
  /\ BlocksFit
  /\ \A i \in DOMAIN entries :
       entries[i].col \in Columns => entries[i].len * TypeSize[entries[i].col] < BlockSize

\* An open file holds a beginning of its block.
SaveInv ==
  /\ pc # "saving" => save.at = 0 /\ ~save.open
  /\ save.at > 0 => size = Len(blocks)
  /\ save.open =>
       LET name == FileName(blocks, save.at)
       IN  /\ save.at \in DOMAIN blocks /\ name \in DOMAIN files
           /\ Len(files[name]) <= Len(blocks[save.at].cells)
           /\ \A k \in DOMAIN files[name] : files[name][k] = blocks[save.at].cells[k]

\* The blocks persist() is through with are on the disk.
Mirrored ==
  /\ pc = "idle" => RestoredOf(size, entries, files) = blocks
  /\ pc = "saving" => \A i \in 1..(save.at - 1) :
                        i \in DOMAIN entries /\ Restored(entries[i], files) = blocks[i]

Whole(b) == \A k \in DOMAIN b.cells : b.cells[k] # Zero

Open(name) == save.open /\ name = FileName(blocks, save.at)

\* A block that would be restored without some of its cells has a file that is
\* open, or was when the process died.
TornInv ==
  /\ \A i \in DOMAIN blocks : Whole(blocks[i]) \/ FileName(blocks, i) \in torn
  /\ \A i \in DOMAIN entries :
       Whole(Restored(entries[i], files)) \/ entries[i].name \in torn \/ Open(entries[i].name)

Inv == TypeOK /\ Named /\ AllFit /\ SaveInv /\ Mirrored /\ TornInv

LEMMA RestoredIs ==
  /\ \A e : RestoredBlock(e) = Restored(e, files)
  /\ RestoredBlocks = RestoredOf(size, entries, files)
<1>1. \A name : Content(name) = Held(files, name)
  BY DEF Content, Held
<1>2. \A e : RestoredBlock(e) = Restored(e, files)
  BY <1>1 DEF RestoredBlock, Restored
<1>. QED
  BY <1>2 DEF RestoredBlocks, RestoredOf

\* Whatever is on the disk, restoring a group of settings gives a block.
LEMMA RestoredType ==
  ASSUME NEW e \in Entry, NEW fs, \A name \in DOMAIN fs : fs[name] \in Seq(Values)
  PROVE  /\ Restored(e, fs) \in Blocks
         /\ Restored(e, fs).col = e.col /\ Len(Restored(e, fs).cells) = e.len
<1>1. Held(fs, e.name) \in Seq(Values)
  <2>1. <<>> \in Seq(Values)
    OBVIOUS
  <2>. QED BY <2>1 DEF Held
<1>2. Zero \in Values /\ e.len \in Nat
  BY DEF Values, Entry
<1>. DEFINE cells == [k \in 1..e.len |->
                        IF k \in DOMAIN Held(fs, e.name) THEN Held(fs, e.name)[k] ELSE Zero]
<1>3. cells \in Seq(Values) /\ Len(cells) = e.len
  <2>1. \A k \in 1..e.len : cells[k] \in Values
    BY <1>1, <1>2
  <2>2. cells \in [1..e.len -> Values]
    BY <2>1
  <2>. HIDE DEF cells
  <2>. QED BY <2>2, <1>2
<1>. HIDE DEF cells
<1>4. Restored(e, fs) = [col |-> e.col, start |-> e.start, end |-> e.end, cells |-> cells]
  BY DEF Restored, cells
<1>. QED
  BY <1>3, <1>4 DEF Blocks, Entry

\* A group of settings whose file is not touched restores what it did.
LEMMA RestoredSame ==
  ASSUME NEW e, NEW fs, NEW gs, Held(fs, e.name) = Held(gs, e.name)
  PROVE  Restored(e, fs) = Restored(e, gs)
BY DEF Restored

\* The types, as the proof uses them.
LEMMA Types ==
  ASSUME TypeOK
  PROVE  /\ blocks \in Seq(Blocks) /\ Len(blocks) \in Nat /\ DOMAIN blocks = 1..Len(blocks)
         /\ \A i \in DOMAIN blocks :
              /\ blocks[i] \in Blocks
              /\ blocks[i].cells \in Seq(Values) /\ Len(blocks[i].cells) \in Nat
              /\ blocks[i].col \in Columns \cup {NoColumn}
              /\ DOMAIN blocks[i].cells = 1..Len(blocks[i].cells)
         /\ \A name \in DOMAIN files : files[name] \in Seq(Values)
         /\ size \in Nat
         /\ \A i \in DOMAIN entries : i \in 1..size /\ i \in Nat /\ i > 0 /\ entries[i] \in Entry
         /\ save.at \in Nat /\ save.open \in BOOLEAN /\ save \in [at : Nat, open : BOOLEAN]
<1>1. /\ blocks \in Seq(Blocks) /\ Len(blocks) \in Nat /\ DOMAIN blocks = 1..Len(blocks)
      /\ \A i \in DOMAIN blocks : blocks[i] \in Blocks
  BY DEF TypeOK
<1>2. \A b \in Blocks : /\ b.cells \in Seq(Values) /\ Len(b.cells) \in Nat
                        /\ b.col \in Columns \cup {NoColumn}
                        /\ DOMAIN b.cells = 1..Len(b.cells)
  BY DEF Blocks
<1>3. save.at \in Nat /\ save.open \in BOOLEAN /\ save \in [at : Nat, open : BOOLEAN]
  BY <1>1 DEF TypeOK
<1>4. \A i \in DOMAIN entries : i \in 1..size /\ i \in Nat /\ i > 0 /\ entries[i] \in Entry
  BY DEF TypeOK, Entry
<1>. QED
  BY <1>1, <1>2, <1>3, <1>4 DEF TypeOK

\* A group of settings names its block's file.
LEMMA EntryName ==
  ASSUME TypeOK, Named, pc # "down", NEW i \in DOMAIN entries
  PROVE  i \in DOMAIN blocks /\ entries[i].name = FileName(blocks, i)
<1>1. i \in Nat /\ i > 0 /\ i \in 1..size /\ size \in Nat /\ size <= Len(blocks)
      /\ DOMAIN blocks = 1..Len(blocks) /\ Len(blocks) \in Nat
  BY Types DEF Named
<1>2. \A j \in 1..i : entries[j].col = blocks[j].col
  BY DEF Named
<1>3. FileName(entries, i) = FileName(blocks, i)
  BY <1>1, <1>2, SameName
<1>. QED
  BY <1>1, <1>3 DEF Named

-----------------------------------------------------------------------------
\* A block's bytes, cell by cell.
LEMMA OneMore ==
  ASSUME NEW n \in Nat, NEW t \in Nat
  PROVE  (n + 1) * t = n * t + t /\ n * t \in Nat
OBVIOUS

\* From one list of blocks to another: columns stay, no block loses a cell,
\* and what is new is whole and fits.
Grown(bs, new) ==
  /\ new \in Seq(Blocks) /\ Len(new) \in Nat /\ Len(new) >= Len(bs)
  /\ \A i \in 1..Len(bs) :
       /\ new[i].col = bs[i].col
       /\ Whole(bs[i]) => Whole(new[i])
  /\ \A i \in 1..Len(new) : i \notin 1..Len(bs) => Whole(new[i])
  /\ \A i \in 1..Len(new) :
       \/ i \in 1..Len(bs) /\ new[i] = bs[i]
       \/ new[i].col \in Columns
            => Len(new[i].cells) * TypeSize[new[i].col] < BlockSize

\* insert() adds a cell that was read from an input to a block with room for
\* it, or a block: columns and files of the blocks stay what they were.
LEMMA InsertKeeps ==
  ASSUME NEW bs \in Seq(Blocks), NEW cell \in [col : Columns, id : Nat],
         NEW value \in [from : Files, id : Nat]
  PROVE  Grown(bs, Insert(bs, cell, value))
<1>. DEFINE new == Insert(bs, cell, value)
            fresh == FreshBlock(cell.col, cell.id, value)
<1>1. /\ Len(bs) \in Nat /\ DOMAIN bs = 1..Len(bs) /\ \A i \in DOMAIN bs : bs[i] \in Blocks
      /\ cell.col \in Columns /\ cell.id \in Nat /\ value \in Values /\ value # Zero
      /\ BlockSize \in Nat /\ TypeSize[cell.col] \in 1..(BlockSize - 1)
  BY ArenaAssumption DEF Values
<1>2. \/ new = bs
      \/ new = Append(bs, fresh)
      \/ \E l \in DOMAIN bs : /\ bs[l].col = cell.col /\ HasRoom(bs[l])
                              /\ new = [bs EXCEPT ![l] = Written(bs[l], cell.id, value)]
  BY InsertCases
<1>. HIDE DEF new
<1>3. CASE new = bs
  BY <1>1, <1>3 DEF new, Grown
<1>4. CASE new = Append(bs, fresh)
  <2>1. fresh.col = cell.col /\ fresh.cells = <<value>> /\ fresh \in Blocks
    BY <1>1 DEF FreshBlock, Blocks
  <2>2. Whole(fresh)
    BY <1>1, <2>1 DEF Whole
  <2>3. Len(fresh.cells) * TypeSize[fresh.col] < BlockSize
    BY <1>1, <2>1
  <2>. HIDE DEF fresh
  <2>4. /\ new \in Seq(Blocks) /\ Len(new) = Len(bs) + 1 /\ new[Len(bs) + 1] = fresh
        /\ \A i \in 1..Len(bs) : new[i] = bs[i]
    BY <1>1, <1>4, <2>1
  <2>. QED BY <1>1, <2>2, <2>3, <2>4 DEF new, Grown
<1>5. ASSUME NEW l \in DOMAIN bs, bs[l].col = cell.col, HasRoom(bs[l]),
             new = [bs EXCEPT ![l] = Written(bs[l], cell.id, value)]
      PROVE  Grown(bs, new)
  <2>. DEFINE b == Written(bs[l], cell.id, value)
              cells == bs[l].cells
  <2>1. /\ bs[l] \in Blocks /\ cells \in Seq(Values) /\ Len(cells) \in Nat
        /\ bs[l].start \in Nat /\ bs[l].end \in Nat
    BY <1>1 DEF Blocks
  <2>2. Append(cells, value) \in Seq(Values)
    BY <1>1, <2>1
  <2>3. PICK first \in Nat, last \in Nat :
          /\ first = IF bs[l].start < cell.id THEN bs[l].start ELSE cell.id
          /\ last = IF bs[l].end > cell.id THEN bs[l].end ELSE cell.id
    BY <1>1, <2>1
  <2>4. b \in Blocks /\ b.col = bs[l].col /\ b.cells = Append(cells, value)
    <3>1. b = [bs[l] EXCEPT !.start = first, !.end = last, !.cells = Append(cells, value)]
      BY <2>3 DEF Written
    <3>. HIDE DEF b, cells
    <3>. QED BY <2>1, <2>2, <3>1 DEF Blocks
  <2>5. Whole(bs[l]) => Whole(b)
    BY <1>1, <2>1, <2>4 DEF Whole
  <2>6. Len(b.cells) * TypeSize[b.col] < BlockSize
    <3>1. Len(cells) * TypeSize[cell.col] + TypeSize[cell.col] < BlockSize
      BY <1>5 DEF HasRoom
    <3>2. Len(b.cells) = Len(cells) + 1 /\ b.col = cell.col /\ TypeSize[cell.col] \in Nat
      BY <1>1, <1>5, <2>1, <2>4
    <3>3. (Len(cells) + 1) * TypeSize[cell.col]
            = Len(cells) * TypeSize[cell.col] + TypeSize[cell.col]
      BY <2>1, <3>2, OneMore
    <3>. QED BY <3>1, <3>2, <3>3
  <2>. HIDE DEF b
  <2>7. /\ new \in Seq(Blocks) /\ Len(new) = Len(bs) /\ new[l] = b
        /\ \A i \in 1..Len(bs) : i # l => new[i] = bs[i]
    BY <1>1, <1>5, <2>4 DEF b
  <2>8. ASSUME NEW i \in 1..Len(bs)
        PROVE  /\ new[i].col = bs[i].col /\ (Whole(bs[i]) => Whole(new[i]))
               /\ \/ new[i] = bs[i]
                  \/ Len(new[i].cells) * TypeSize[new[i].col] < BlockSize
    <3>1. CASE i = l
      BY <3>1, <2>4, <2>5, <2>6, <2>7
    <3>2. CASE i # l
      BY <3>2, <2>7
    <3>. QED BY <3>1, <3>2
  <2>9. Len(new) \in Nat /\ Len(new) >= Len(bs) /\ 1..Len(new) = 1..Len(bs)
    BY <1>1, <2>7
  <2>. QED BY <2>7, <2>8, <2>9 DEF Grown
<1>. QED
  BY <1>2, <1>3, <1>4, <1>5 DEF new

-----------------------------------------------------------------------------
LEMMA InvAtFirst ==
  ASSUME Init
  PROVE  Inv
<1>1. /\ blocks = <<>> /\ files = <<>> /\ size = 0 /\ entries = <<>> /\ pc = "down"
      /\ load = NoLoad /\ save = [at |-> 0, open |-> FALSE]
      /\ crashes = 0 /\ torn = {} /\ loaded = {}
  BY DEF Init
<1>2. /\ DOMAIN blocks = {} /\ DOMAIN files = {} /\ DOMAIN entries = {} /\ Len(blocks) = 0
      /\ blocks \in Seq(Blocks)
  BY <1>1
<1>3. NoLoad \in [file : Files, next : Nat]
  BY ArenaAssumption DEF NoLoad
<1>4. TypeOK
  BY <1>1, <1>2, <1>3, ArenaAssumption DEF TypeOK
<1>. QED
  BY <1>1, <1>2, <1>4 DEF Inv, Named, AllFit, BlocksFit, SaveInv, Mirrored, TornInv

\* A process starts with the blocks the disk says.
LEMMA StartKeeps ==
  ASSUME Inv, Start
  PROVE  Inv'
<1>1. /\ blocks' = RestoredOf(size, entries, files) /\ pc = "down" /\ pc' = "idle"
      /\ UNCHANGED <<files, size, entries, load, save, ghosts>>
      /\ TypeOK /\ Named /\ SaveInv
  BY RestoredIs DEF Start, disk, Inv
<1>2. /\ size \in Nat /\ save.at = 0 /\ ~save.open /\ save \in [at : Nat, open : BOOLEAN]
      /\ \A i \in DOMAIN entries : i \in 1..size /\ i \in Nat /\ i > 0 /\ entries[i] \in Entry
      /\ \A name \in DOMAIN files : files[name] \in Seq(Values)
  BY <1>1, Types DEF SaveInv
<1>3. JunkBlock \in Blocks /\ JunkBlock.col \notin Columns /\ JunkBlock.cells = <<>>
  BY ArenaAssumption DEF JunkBlock, Blocks
<1>4. /\ DOMAIN blocks' = 1..size
      /\ \A i \in 1..size :
           blocks'[i] = IF i \in DOMAIN entries THEN Restored(entries[i], files) ELSE JunkBlock
  BY <1>1 DEF RestoredOf
<1>5. \A i \in DOMAIN entries : /\ blocks'[i] = Restored(entries[i], files)
                                /\ blocks'[i] \in Blocks /\ blocks'[i].col = entries[i].col
                                /\ Len(blocks'[i].cells) = entries[i].len
  BY <1>2, <1>4, RestoredType
<1>6. \A i \in 1..size : blocks'[i] \in Blocks
  BY <1>3, <1>4, <1>5
<1>7. blocks' \in Seq(Blocks) /\ Len(blocks') = size
  <2>1. blocks' \in [1..size -> Blocks]
    BY <1>1, <1>4, <1>6 DEF RestoredOf
  <2>. QED BY <2>1, <1>2
<1>8. TypeOK'
  <2>1. save \in [at : 0..(Len(blocks') + 1), open : BOOLEAN]
    BY <1>2, <1>7
  <2>. QED BY <2>1, <1>1, <1>7 DEF TypeOK, ghosts
<1>9. Named'
  BY <1>1, <1>2, <1>5, <1>7 DEF Named
<1>10. AllFit'
  <2>1. \A i \in DOMAIN entries :
          entries[i].col \in Columns => entries[i].len * TypeSize[entries[i].col] < BlockSize
    BY DEF Inv, AllFit
  <2>2. ASSUME NEW i \in 1..size, blocks'[i].col \in Columns
        PROVE  Len(blocks'[i].cells) * TypeSize[blocks'[i].col] < BlockSize
    <3>1. i \in DOMAIN entries
      BY <2>2, <1>3, <1>4
    <3>2. blocks'[i].col = entries[i].col /\ Len(blocks'[i].cells) = entries[i].len
      BY <3>1, <1>5
    <3>. QED BY <3>1, <3>2, <2>1, <2>2
  <2>. QED BY <2>1, <2>2, <1>1, <1>4 DEF AllFit, BlocksFit
<1>11. SaveInv' /\ Mirrored'
  BY <1>1, <1>2 DEF SaveInv, Mirrored
<1>12. TornInv'
  <2>1. \A i \in DOMAIN entries :
          Whole(Restored(entries[i], files)) \/ entries[i].name \in torn
    BY <1>2 DEF Inv, TornInv, Open
  <2>2. ASSUME NEW i \in 1..size PROVE Whole(blocks'[i]) \/ FileName(blocks', i) \in torn
    <3>1. CASE i \in DOMAIN entries
      <4>1. \A j \in 1..i : blocks'[j].col = entries[j].col
        BY <3>1, <1>1, <1>5 DEF Named
      <4>2. FileName(blocks', i) = FileName(entries, i)
        BY <3>1, <4>1, <1>2, SameName
      <4>. QED BY <3>1, <4>2, <2>1, <1>1, <1>5 DEF Named
    <3>2. CASE i \notin DOMAIN entries
      BY <3>2, <1>3, <1>4 DEF Whole
    <3>. QED BY <3>1, <3>2
  <2>. QED BY <2>1, <2>2, <1>1, <1>4 DEF TornInv, ghosts
<1>. QED
  BY <1>8, <1>9, <1>10, <1>11, <1>12 DEF Inv

\* A load begins, or its input is read to its end.
LEMMA BeginKeeps ==
  ASSUME Inv, (\E f \in Files : LoadFile(f)) \/ BeginPersist
  PROVE  Inv'
<1>1. /\ UNCHANGED <<blocks, files, size, entries, save, crashes, torn, loaded>>
      /\ pc # "down" /\ pc # "saving" /\ pc' \in {"loading", "saving"}
      /\ load' \in [file : Files, next : Nat]
  BY DEF Inv, TypeOK, LoadFile, BeginPersist, disk, ghosts
<1>2. save.at = 0 /\ ~save.open
  BY <1>1 DEF Inv, SaveInv
<1>3. TypeOK'
  BY <1>1 DEF Inv, TypeOK
<1>4. Named' /\ AllFit' /\ SaveInv' /\ TornInv'
  BY <1>1, <1>2 DEF Inv, Named, AllFit, BlocksFit, SaveInv, TornInv, Open
<1>5. Mirrored'
  BY <1>1, <1>2 DEF Mirrored
<1>. QED
  BY <1>3, <1>4, <1>5 DEF Inv

\* A cell is inserted.
LEMMA InsertCellKeeps ==
  ASSUME Inv, InsertCell
  PROVE  Inv'
<1>. DEFINE cell == Rows[load.file][load.next]
            value == [from |-> load.file, id |-> cell.id]
<1>1. /\ pc = "loading" /\ load.next \in DOMAIN Rows[load.file]
      /\ blocks' = Insert(blocks, cell, value)
      /\ load' = [load EXCEPT !.next = @ + 1]
      /\ UNCHANGED <<files, size, entries, pc, save, crashes, torn, loaded>>
      /\ TypeOK /\ Named /\ SaveInv
  BY DEF InsertCell, disk, ghosts, Inv
<1>2. /\ load.file \in Files /\ load.next \in Nat
      /\ cell \in [col : Columns, id : Nat] /\ value \in [from : Files, id : Nat]
      /\ load' \in [file : Files, next : Nat]
  <2>1. load \in [file : Files, next : Nat]
    BY <1>1 DEF TypeOK
  <2>2. Rows[load.file] \in Seq([col : Columns, id : Nat])
    BY <2>1, ArenaAssumption
  <2>3. cell \in [col : Columns, id : Nat]
    <3>1. \A S : \A q \in Seq(S) : \A k \in DOMAIN q : q[k] \in S
      OBVIOUS
    <3>. QED BY <2>2, <3>1, <1>1
  <2>. HIDE DEF cell
  <2>. QED BY <2>1, <2>3, <1>1
<1>. HIDE DEF cell, value
<1>3. /\ blocks \in Seq(Blocks) /\ Len(blocks) \in Nat /\ DOMAIN blocks = 1..Len(blocks)
      /\ save \in [at : Nat, open : BOOLEAN] /\ save.at = 0 /\ ~save.open /\ size \in Nat
      /\ \A i \in DOMAIN entries : i \in 1..size
  BY <1>1, Types DEF SaveInv
<1>4. /\ blocks' \in Seq(Blocks) /\ Len(blocks') \in Nat /\ Len(blocks') >= Len(blocks)
      /\ \A i \in 1..Len(blocks) :
           /\ blocks'[i].col = blocks[i].col
           /\ Whole(blocks[i]) => Whole(blocks'[i])
      /\ \A i \in 1..Len(blocks') : i \notin 1..Len(blocks) => Whole(blocks'[i])
      /\ \A i \in 1..Len(blocks') :
           \/ i \in 1..Len(blocks) /\ blocks'[i] = blocks[i]
           \/ blocks'[i].col \in Columns
                => Len(blocks'[i].cells) * TypeSize[blocks'[i].col] < BlockSize
  <2>1. Grown(blocks, blocks')
    BY <1>1, <1>2, <1>3, InsertKeeps
  <2>. QED BY <2>1 DEF Grown
<1>5. DOMAIN blocks' = 1..Len(blocks')
  BY <1>4
<1>6. TypeOK'
  <2>1. save \in [at : 0..(Len(blocks') + 1), open : BOOLEAN]
    BY <1>3, <1>4
  <2>. QED BY <2>1, <1>1, <1>2, <1>4 DEF TypeOK
<1>7. Named'
  <2>1. size <= Len(blocks)
    BY <1>1 DEF Named
  <2>2. size <= Len(blocks') /\ \A i \in DOMAIN entries : blocks'[i].col = entries[i].col
    BY <2>1, <1>1, <1>3, <1>4 DEF Named
  <2>. QED BY <2>2, <1>1 DEF Named
<1>8. AllFit'
  BY <1>1, <1>3, <1>4, <1>5 DEF Inv, AllFit, BlocksFit
<1>9. SaveInv' /\ Mirrored'
  BY <1>1, <1>3 DEF SaveInv, Mirrored
<1>10. TornInv'
  <2>1. ASSUME NEW i \in DOMAIN blocks' PROVE Whole(blocks'[i]) \/ FileName(blocks', i) \in torn
    <3>1. CASE i \in 1..Len(blocks)
      <4>1. FileName(blocks', i) = FileName(blocks, i)
        <5>1. \A j \in 1..i : blocks'[j].col = blocks[j].col
          BY <3>1, <1>3, <1>4
        <5>. QED BY <3>1, <5>1, <1>3, SameName
      <4>. QED BY <3>1, <4>1, <1>3, <1>4 DEF Inv, TornInv
    <3>2. CASE i \notin 1..Len(blocks)
      BY <3>2, <1>4, <1>5
    <3>. QED BY <3>1, <3>2
  <2>2. \A i \in DOMAIN entries : Whole(Restored(entries[i], files)) \/ entries[i].name \in torn
    BY <1>3 DEF Inv, TornInv, Open
  <2>. QED BY <2>1, <2>2, <1>1 DEF TornInv
<1>. QED
  BY <1>6, <1>7, <1>8, <1>9, <1>10 DEF Inv

-----------------------------------------------------------------------------
\* The steps of persist().  The file they write is no other block's.
LEMMA NamesDiffer ==
  ASSUME TypeOK, NEW i \in DOMAIN blocks, NEW k \in DOMAIN blocks, i # k
  PROVE  FileName(blocks, i) # FileName(blocks, k)
<1>1. i \in Nat /\ k \in Nat /\ 0 < i /\ 0 < k /\ (i < k \/ k < i)
  BY Types
<1>. QED
  BY <1>1, NamesApart

\* What an action of persist() that writes to the file of the block it is at
\* leaves alone.
LEMMA OtherFiles ==
  ASSUME Inv, SavingBlock,
         \A name : name # FileName(blocks, save.at) => Held(files', name) = Held(files, name),
         DOMAIN files' \subseteq FileNames,
         \A name \in DOMAIN files' : files'[name] \in Seq(Values),
         save' = [save EXCEPT !.open = TRUE],
         UNCHANGED <<blocks, size, entries, pc, load, ghosts>>
  PROVE  TypeOK' /\ Named' /\ AllFit' /\ Mirrored' /\ TornInv'
<1>. DEFINE name == FileName(blocks, save.at)
<1>1. /\ TypeOK /\ Named /\ Mirrored /\ TornInv /\ pc = "saving" /\ save.at \in DOMAIN blocks
      /\ save'.at = save.at /\ save'.open
  BY DEF Inv, SavingBlock, TypeOK
<1>2. TypeOK'
  <2>1. save' \in [at : 0..(Len(blocks) + 1), open : BOOLEAN]
    BY <1>1 DEF TypeOK
  <2>. QED BY <2>1, <1>1 DEF TypeOK, ghosts
<1>3. Named' /\ AllFit'
  BY DEF Inv, Named, AllFit, BlocksFit
<1>4. \A i \in DOMAIN entries :
        entries[i].name # name => Restored(entries[i], files') = Restored(entries[i], files)
  BY RestoredSame
<1>5. Mirrored'
  <2>1. ASSUME NEW i \in 1..(save.at - 1)
        PROVE  i \in DOMAIN entries /\ Restored(entries[i], files') = blocks[i]
    <3>1. i \in DOMAIN entries /\ Restored(entries[i], files) = blocks[i]
      BY <1>1 DEF Mirrored
    <3>2. i \in DOMAIN blocks /\ i # save.at /\ entries[i].name = FileName(blocks, i)
      BY <3>1, <1>1, EntryName, Types
    <3>3. entries[i].name # name
      BY <3>2, <1>1, NamesDiffer
    <3>. QED BY <3>1, <3>3, <1>4
  <2>. QED BY <2>1, <1>1 DEF Mirrored
<1>6. TornInv'
  <2>1. ASSUME NEW i \in DOMAIN entries
        PROVE  \/ Whole(Restored(entries[i], files')) \/ entries[i].name \in torn
               \/ entries[i].name = name
    BY <1>1, <1>4 DEF TornInv, Open
  <2>2. \A i \in DOMAIN blocks : Whole(blocks[i]) \/ FileName(blocks, i) \in torn
    BY <1>1 DEF TornInv
  <2>. QED BY <2>1, <2>2, <1>1 DEF TornInv, Open, ghosts
<1>. QED
  BY <1>2, <1>3, <1>5, <1>6

LEMMA OpenFileKeeps ==
  ASSUME Inv, OpenFile
  PROVE  Inv'
<1>. DEFINE name == FileName(blocks, save.at)
<1>1. /\ SavingBlock /\ TypeOK /\ SaveInv /\ files' = Put(files, name, <<>>)
      /\ save' = [save EXCEPT !.open = TRUE]
      /\ UNCHANGED <<blocks, size, entries, pc, load, ghosts>>
      /\ pc = "saving" /\ save.at \in DOMAIN blocks
  BY DEF OpenFile, Inv, SavingBlock
<1>2. name \in FileNames
  BY <1>1, NameType, Types
<1>. HIDE DEF name
<1>3. /\ DOMAIN files' = DOMAIN files \cup {name} /\ files'[name] = <<>>
      /\ \A n \in DOMAIN files : n # name => files'[n] = files[n]
  BY <1>1 DEF Put
<1>4. /\ \A n : n # name => Held(files', n) = Held(files, n)
      /\ DOMAIN files' \subseteq FileNames
      /\ \A n \in DOMAIN files' : files'[n] \in Seq(Values)
  <2>1. <<>> \in Seq(Values)
    OBVIOUS
  <2>. QED BY <2>1, <1>1, <1>2, <1>3 DEF TypeOK, Held
<1>5. SaveInv'
  <2>1. /\ save'.at = save.at /\ save'.open /\ save.at > 0 => size = Len(blocks)
        /\ name = FileName(blocks', save'.at)
    BY <1>1 DEF SaveInv, TypeOK, name
  <2>2. Len(files'[name]) <= Len(blocks[save.at].cells) /\ DOMAIN files'[name] = {}
    BY <1>1, <1>3, Types
  <2>. QED BY <2>1, <2>2, <1>1, <1>3 DEF SaveInv
<1>. QED
  BY <1>1, <1>4, <1>5, OtherFiles DEF Inv, name

LEMMA WriteFileKeeps ==
  ASSUME Inv, WriteFile
  PROVE  Inv'
<1>. DEFINE name == FileName(blocks, save.at)
            cells == blocks[save.at].cells
            f == files[name]
<1>1. /\ SavingBlock /\ TypeOK /\ SaveInv /\ Len(f) < Len(cells)
      /\ files' = [files EXCEPT ![name] = Append(f, cells[Len(f) + 1])]
      /\ UNCHANGED <<blocks, size, entries, pc, load, save, ghosts>>
      /\ pc = "saving" /\ save.at \in DOMAIN blocks /\ save.open
  BY DEF WriteFile, Inv, SavingBlock
<1>2. /\ name \in DOMAIN files /\ \A k \in DOMAIN f : f[k] = cells[k]
      /\ save.at > 0 => size = Len(blocks)
  BY <1>1 DEF SaveInv
<1>3. f \in Seq(Values) /\ cells \in Seq(Values)
  BY <1>1, <1>2, Types
<1>. HIDE DEF name, cells, f
<1>4. /\ Append(f, cells[Len(f) + 1]) \in Seq(Values)
      /\ Len(Append(f, cells[Len(f) + 1])) <= Len(cells)
      /\ \A k \in DOMAIN Append(f, cells[Len(f) + 1]) : Append(f, cells[Len(f) + 1])[k] = cells[k]
  BY <1>1, <1>2, <1>3
<1>5. /\ DOMAIN files' = DOMAIN files /\ files'[name] = Append(f, cells[Len(f) + 1])
      /\ \A n \in DOMAIN files : n # name => files'[n] = files[n]
  BY <1>1, <1>2
<1>6. /\ \A n : n # name => Held(files', n) = Held(files, n)
      /\ DOMAIN files' \subseteq FileNames
      /\ \A n \in DOMAIN files' : files'[n] \in Seq(Values)
  BY <1>1, <1>4, <1>5 DEF TypeOK, Held
<1>7. SaveInv'
  BY <1>1, <1>2, <1>4, <1>5 DEF SaveInv, name, cells
<1>8. save' = [save EXCEPT !.open = TRUE]
  BY <1>1 DEF TypeOK
<1>. QED
  BY <1>1, <1>6, <1>7, <1>8, OtherFiles DEF Inv, name

LEMMA SaveEntryKeeps ==
  ASSUME Inv, SaveEntry
  PROVE  Inv'
<1>. DEFINE at == save.at
            name == FileName(blocks, at)
            b == blocks[at]
            e == [col |-> b.col, start |-> b.start, end |-> b.end,
                  len |-> Len(b.cells), name |-> name]
<1>1. /\ TypeOK /\ Named /\ AllFit /\ SaveInv /\ Mirrored /\ TornInv
      /\ Len(files[name]) = Len(b.cells)
      /\ entries' = Put(entries, at, e)
      /\ save' = [at |-> at + 1, open |-> FALSE]
      /\ UNCHANGED <<blocks, files, size, pc, load, crashes, torn, loaded>>
      /\ pc = "saving" /\ at \in DOMAIN blocks /\ save.open
  BY DEF SaveEntry, Inv, SavingBlock, ghosts
<1>2. /\ b \in Blocks /\ b.cells \in Seq(Values) /\ DOMAIN blocks = 1..Len(blocks)
      /\ Len(blocks) \in Nat /\ at \in Nat /\ at > 0 /\ size = Len(blocks)
      /\ DOMAIN b.cells = 1..Len(b.cells) /\ Len(b.cells) \in Nat
      /\ \A i \in DOMAIN entries : i \in 1..size
  BY <1>1, Types DEF SaveInv
<1>3. name \in DOMAIN files /\ files[name] \in Seq(Values)
      /\ \A k \in DOMAIN files[name] : files[name][k] = b.cells[k]
  BY <1>1, Types DEF SaveInv
<1>4. name \in FileNames
  BY <1>1, NameType, Types
<1>. HIDE DEF name
<1>5. e \in Entry /\ e.col = b.col /\ e.len = Len(b.cells) /\ e.name = name
  BY <1>2, <1>4 DEF Entry, Blocks
<1>6. Restored(e, files) = b
  <2>1. Held(files, name) = files[name] /\ DOMAIN files[name] = 1..Len(b.cells)
    BY <1>1, <1>3 DEF Held
  <2>2. b.cells = [k \in 1..Len(b.cells) |-> files[name][k]]
    <3>1. \A q \in Seq(Values) : q = [k \in 1..Len(q) |-> q[k]]
      OBVIOUS
    <3>2. b.cells = [k \in 1..Len(b.cells) |-> b.cells[k]]
      BY <3>1, <1>2
    <3>3. \A k \in 1..Len(b.cells) : files[name][k] = b.cells[k]
      BY <2>1, <1>3
    <3>. HIDE DEF b
    <3>4. [k \in 1..Len(b.cells) |-> b.cells[k]] = [k \in 1..Len(b.cells) |-> files[name][k]]
      BY <3>3
    <3>. QED BY <3>2, <3>4
  <2>3. Restored(e, files) = [col |-> b.col, start |-> b.start, end |-> b.end,
                              cells |-> [k \in 1..Len(b.cells) |-> files[name][k]]]
    BY <2>1 DEF Restored
  <2>4. b = [col |-> b.col, start |-> b.start, end |-> b.end, cells |-> b.cells]
    BY <1>2 DEF Blocks
  <2>. HIDE DEF b, e
  <2>. QED BY <2>2, <2>3, <2>4
<1>. HIDE DEF e
<1>7. /\ DOMAIN entries' = DOMAIN entries \cup {at} /\ entries'[at] = e
      /\ \A i \in DOMAIN entries : i # at => entries'[i] = entries[i]
  BY <1>1 DEF Put
<1>8. \A i \in DOMAIN entries' : i \in 1..size /\ i \in DOMAIN blocks /\ entries'[i] \in Entry
  <2>1. \A i \in DOMAIN entries : entries[i] \in Entry
    BY <1>1, Types
  <2>. QED BY <2>1, <1>1, <1>2, <1>5, <1>7
<1>9. TypeOK'
  <2>1. save' \in [at : 0..(Len(blocks) + 1), open : BOOLEAN]
    BY <1>1, <1>2
  <2>. QED BY <2>1, <1>1, <1>8 DEF TypeOK, Entry
<1>10. \A i \in DOMAIN entries' :
         /\ 1..i \subseteq DOMAIN entries'
         /\ entries'[i].col = blocks[i].col /\ entries'[i].name = FileName(blocks, i)
  <2>1. 1..at \subseteq DOMAIN entries'
    <3>1. \A i \in 1..(at - 1) : i \in DOMAIN entries
      BY <1>1 DEF Mirrored
    <3>. QED BY <3>1, <1>2, <1>7
  <2>2. \A i \in DOMAIN entries : /\ 1..i \subseteq DOMAIN entries
                                  /\ entries[i].col = blocks[i].col
                                  /\ entries[i].name = FileName(blocks, i)
    BY <1>1, EntryName DEF Named
  <2>. QED BY <2>1, <2>2, <1>5, <1>7 DEF name
<1>11. Named'
  <2>1. ASSUME NEW i \in DOMAIN entries' PROVE entries'[i].name = FileName(entries', i)
    <3>1. \A j \in 1..i : entries'[j].col = blocks[j].col
      BY <1>10
    <3>2. i \in Nat /\ i > 0
      BY <1>2, <1>8
    <3>3. FileName(entries', i) = FileName(blocks, i)
      BY <3>1, <3>2, SameName
    <3>. QED BY <3>3, <1>10
  <2>. QED BY <2>1, <1>1, <1>2, <1>10 DEF Named
<1>12. AllFit'
  <2>1. b.col \in Columns => Len(b.cells) * TypeSize[b.col] < BlockSize
    BY <1>1 DEF AllFit, BlocksFit
  <2>2. \A i \in DOMAIN entries' :
          entries'[i].col \in Columns => entries'[i].len * TypeSize[entries'[i].col] < BlockSize
    BY <2>1, <1>1, <1>5, <1>7 DEF AllFit
  <2>. QED BY <2>2, <1>1 DEF AllFit, BlocksFit
<1>13. SaveInv' /\ pc' # "idle"
  BY <1>1, <1>2 DEF SaveInv
<1>14. Mirrored'
  <2>1. \A i \in 1..(save'.at - 1) :
          i \in DOMAIN entries' /\ Restored(entries'[i], files) = blocks[i]
    <3>1. save'.at = at + 1
      BY <1>1
    <3>2. \A i \in 1..(save'.at - 1) : i = at \/ i \in 1..(at - 1)
      BY <3>1, <1>2
    <3>3. \A i \in 1..(at - 1) : /\ i # at /\ i \in DOMAIN entries
                                 /\ Restored(entries[i], files) = blocks[i]
      BY <1>1, <1>2 DEF Mirrored
    <3>. QED BY <3>2, <3>3, <1>6, <1>7
  <2>. QED BY <2>1, <1>1, <1>13 DEF Mirrored
<1>15. TornInv'
  <2>1. Whole(b) \/ name \in torn
    BY <1>1 DEF TornInv, name
  <2>2. ASSUME NEW i \in DOMAIN entries, i # at
        PROVE  Whole(Restored(entries[i], files)) \/ entries[i].name \in torn
    <3>1. i \in DOMAIN blocks /\ entries[i].name = FileName(blocks, i)
      BY <1>1, EntryName
    <3>2. ~Open(entries[i].name)
      BY <3>1, <2>2, <1>1, NamesDiffer DEF Open
    <3>. QED BY <3>2, <1>1 DEF TornInv
  <2>3. \A i \in DOMAIN entries' :
          Whole(Restored(entries'[i], files)) \/ entries'[i].name \in torn
    BY <2>1, <2>2, <1>5, <1>6, <1>7
  <2>. QED BY <2>3, <1>1 DEF TornInv
<1>. QED
  BY <1>9, <1>11, <1>12, <1>13, <1>14, <1>15 DEF Inv

LEMMA SaveSizeKeeps ==
  ASSUME Inv, SaveSize
  PROVE  Inv'
<1>1. /\ TypeOK /\ Named /\ AllFit /\ SaveInv /\ TornInv
      /\ pc = "saving" /\ save.at = 0 /\ size' = Len(blocks)
      /\ save' = [save EXCEPT !.at = 1]
      /\ UNCHANGED <<blocks, files, entries, pc, load, crashes, torn, loaded>>
  BY DEF SaveSize, ghosts, Inv
<1>2. /\ size \in Nat /\ size <= Len(blocks) /\ Len(blocks) \in Nat
      /\ DOMAIN blocks = 1..Len(blocks) /\ save \in [at : Nat, open : BOOLEAN]
      /\ \A i \in DOMAIN entries : i \in 1..size
  BY <1>1, Types DEF Named
<1>3. ~save.open /\ save' \in [at : Nat, open : BOOLEAN] /\ save'.at = 1 /\ ~save'.open
  BY <1>1, <1>2 DEF SaveInv
<1>4. TypeOK'
  <2>1. save' \in [at : 0..(Len(blocks) + 1), open : BOOLEAN]
    BY <1>2, <1>3
  <2>2. DOMAIN entries \subseteq 1..Len(blocks)
    BY <1>2
  <2>. QED BY <2>1, <2>2, <1>1, <1>2 DEF TypeOK
<1>5. Named' /\ AllFit' /\ SaveInv' /\ Mirrored'
  BY <1>1, <1>2, <1>3 DEF Named, AllFit, BlocksFit, SaveInv, Mirrored
<1>6. TornInv'
  BY <1>1, <1>3 DEF TornInv, Open
<1>. QED
  BY <1>4, <1>5, <1>6 DEF Inv

\* Every block is saved: the disk mirrors the memory.
LEMMA EndPersistKeeps ==
  ASSUME Inv, EndPersist
  PROVE  Inv'
<1>1. /\ TypeOK /\ Named /\ AllFit /\ SaveInv /\ Mirrored /\ TornInv
      /\ pc = "saving" /\ save.at > Len(blocks) /\ pc' = "idle"
      /\ save' = [at |-> 0, open |-> FALSE]
      /\ loaded' = loaded \cup {load.file} /\ load' = NoLoad
      /\ UNCHANGED <<blocks, files, size, entries, crashes, torn>>
  BY DEF EndPersist, disk, Inv
<1>2. /\ Len(blocks) \in Nat /\ DOMAIN blocks = 1..Len(blocks) /\ save.at \in Nat
      /\ blocks \in Seq(Blocks)
  BY <1>1, Types
<1>3. size = Len(blocks) /\ save.at \notin DOMAIN blocks /\ ~save.open
  BY <1>1, <1>2 DEF SaveInv
<1>4. TypeOK'
  <2>1. load.file \in Files /\ NoLoad \in [file : Files, next : Nat]
    BY <1>1, ArenaAssumption DEF TypeOK, NoLoad
  <2>2. save' \in [at : 0..(Len(blocks) + 1), open : BOOLEAN]
    BY <1>1, <1>2
  <2>. QED BY <2>1, <2>2, <1>1 DEF TypeOK
<1>5. Named' /\ AllFit' /\ SaveInv'
  BY <1>1 DEF Named, AllFit, BlocksFit, SaveInv
<1>6. Mirrored'
  <2>1. \A i \in 1..Len(blocks) : i \in DOMAIN entries /\ Restored(entries[i], files) = blocks[i]
    <3>1. \A i \in 1..Len(blocks) : i \in 1..(save.at - 1)
      BY <1>1, <1>2
    <3>. QED BY <3>1, <1>1 DEF Mirrored
  <2>2. RestoredOf(size, entries, files) = [i \in 1..Len(blocks) |-> blocks[i]]
    BY <2>1, <1>3 DEF RestoredOf
  <2>3. \A q \in Seq(Blocks) : q = [i \in 1..Len(q) |-> q[i]]
    OBVIOUS
  <2>4. RestoredOf(size, entries, files) = blocks
    BY <2>2, <2>3, <1>2
  <2>. QED BY <2>4, <1>1 DEF Mirrored
<1>7. TornInv'
  BY <1>1, <1>3 DEF TornInv, Open
<1>. QED
  BY <1>4, <1>5, <1>6, <1>7 DEF Inv

\* The process dies: the file that was open counts as torn from now on.
LEMMA CrashKeeps ==
  ASSUME Inv, Crash
  PROVE  Inv'
<1>1. /\ TypeOK /\ Named /\ AllFit /\ SaveInv /\ TornInv
      /\ pc' = "down" /\ blocks' = <<>> /\ load' = NoLoad
      /\ save' = [at |-> 0, open |-> FALSE]
      /\ torn' = IF SavingBlock /\ save.open
                 THEN torn \cup {FileName(blocks, save.at)} ELSE torn
      /\ UNCHANGED <<files, size, entries, loaded>>
  BY DEF Crash, disk, Inv
<1>2. crashes' \in 0..MaxCrashes
  <2>1. /\ crashes \in 0..MaxCrashes /\ MaxCrashes \in Nat
        /\ pc = "saving" => crashes < MaxCrashes
        /\ crashes' = IF pc = "saving" THEN crashes + 1 ELSE crashes
    BY ArenaAssumption, <1>1 DEF Crash, TypeOK
  <2>. QED BY <2>1
<1>3. Len(blocks') = 0 /\ DOMAIN blocks' = {} /\ blocks' \in Seq(Blocks)
  BY <1>1
<1>4. SavingBlock => FileName(blocks, save.at) \in FileNames
  BY <1>1, NameType, Types DEF SavingBlock
<1>5. TypeOK'
  <2>1. NoLoad \in [file : Files, next : Nat]
    BY ArenaAssumption DEF NoLoad
  <2>2. save' \in [at : 0..(Len(blocks') + 1), open : BOOLEAN]
    BY <1>1, <1>3
  <2>3. torn' \subseteq FileNames
    BY <1>1, <1>4 DEF TypeOK
  <2>. QED BY <2>1, <2>2, <2>3, <1>1, <1>2, <1>3 DEF TypeOK
<1>6. Named' /\ AllFit' /\ SaveInv' /\ Mirrored'
  BY <1>1, <1>3 DEF Named, AllFit, BlocksFit, SaveInv, Mirrored
<1>7. TornInv'
  <2>1. torn \subseteq torn' /\ (save.open => FileName(blocks, save.at) \in torn')
    BY <1>1 DEF SaveInv, SavingBlock
  <2>2. \A i \in DOMAIN entries :
          Whole(Restored(entries[i], files)) \/ entries[i].name \in torn'
    BY <2>1, <1>1 DEF TornInv, Open
  <2>. QED BY <2>2, <1>1, <1>3 DEF TornInv
<1>. QED
  BY <1>5, <1>6, <1>7 DEF Inv

LEMMA StutterKeeps ==
  ASSUME Inv, UNCHANGED vars
  PROVE  Inv'
<1>1. TypeOK' /\ Named' /\ AllFit'
  BY DEF Inv, TypeOK, Named, AllFit, BlocksFit, vars, disk, ghosts
<1>2. SaveInv' /\ Mirrored' /\ TornInv'
  BY DEF Inv, SaveInv, Mirrored, TornInv, Open, vars, disk, ghosts
<1>. QED
  BY <1>1, <1>2 DEF Inv

-----------------------------------------------------------------------------
LEMMA Invariance == Spec => []Inv
<1>1. Init => Inv
  BY InvAtFirst
<1>2. Inv /\ [Next]_vars => Inv'
  BY StartKeeps, BeginKeeps, InsertCellKeeps, SaveSizeKeeps, OpenFileKeeps,
     WriteFileKeeps, SaveEntryKeeps, EndPersistKeeps, CrashKeeps, StutterKeeps DEF Next
<1>. QED
  BY <1>1, <1>2, PTL DEF Spec

\* The arena's variables keep their types, wherever the process dies: what is
\* on the disk can always be restored.
THEOREM TypeCorrect == Spec => []TypeOK
<1>1. Inv => TypeOK
  BY DEF Inv
<1>. QED
  BY <1>1, Invariance, PTL

\* insert() and restore() fill a block with fewer bytes than it was cut from
\* the mapping with, for any sizes of cells and blocks and any mix of loads
\* and restarts: no column writes into the block after its own.
THEOREM BlocksInside == Spec => []BlocksFit
<1>1. Inv => BlocksFit
  BY DEF Inv, AllFit
<1>. QED
  BY <1>1, Invariance, PTL

\* When loadCSVData or loadPolyData returns, and when the constructor does,
\* the settings and block files say all there is in memory: persist() leaves
\* no block out and no two blocks share a file.
THEOREM DiskIsComplete == Spec => []DiskMirrorsMemory
<1>1. Inv => DiskMirrorsMemory
  BY RestoredIs DEF Inv, Mirrored, DiskMirrorsMemory
<1>. QED
  BY <1>1, Invariance, PTL

\* However often the process dies, and wherever: a block of which cells are
\* missing after a restart is one whose file was open, and so truncated, at
\* one of the deaths.
THEOREM OthersAreWhole == Spec => []OnlyTornFilesLoseCells
<1>1. Inv => OnlyTornFilesLoseCells
  <2>. SUFFICES ASSUME Inv, NEW i \in DOMAIN blocks, Zero \in Range(blocks[i].cells)
                PROVE  FileName(blocks, i) \in torn
    BY DEF OnlyTornFilesLoseCells
  <2>1. ~Whole(blocks[i])
    BY DEF Range, Whole
  <2>. QED BY <2>1 DEF Inv, TornInv
<1>. QED
  BY <1>1, Invariance, PTL

-----------------------------------------------------------------------------
(***************************************************************************)
(* Of the rows of a column.  bs is blocks or entries, which agree in their *)
(* fields col, start and end.                                              *)
(***************************************************************************)

Holds(b, c, n) == b.col = c /\ n \in b.start..b.end

\* One of the blocks in s is column c's and has the id n.
Seen(bs, s, c, n) == \E j \in s : Holds(bs[j], c, n)

\* A block begins where the chain before it ends, the first one at 0.
Follows(bs, i) ==
  bs[i].col \in Columns =>
    /\ bs[i].start <= bs[i].end
    /\ \A j \in 1..(i - 1) : bs[j].col = bs[i].col => bs[j].end < bs[i].start
    /\ \A n \in 0..bs[i].end : Seen(bs, 1..i, bs[i].col, n)

\* A cell is found at its id's distance from the first id, or was lost.
InPlace(b) ==
  b.col \in Columns =>
    /\ Len(b.cells) = b.end - b.start + 1
    /\ \A k \in DOMAIN b.cells : b.cells[k] = Zero \/ b.cells[k].id = b.start + k - 1

Chained ==
  /\ \A i \in DOMAIN blocks : Follows(blocks, i) /\ InPlace(blocks[i])
  /\ \A i \in DOMAIN entries : Follows(entries, i) /\ InPlace(Restored(entries[i], files))

\* A block that was saved before has kept its first id and lost none.
Extended ==
  pc # "down" =>
    \A i \in DOMAIN entries :
      /\ blocks[i].start = entries[i].start
      /\ entries[i].end <= blocks[i].end

\* The cells inserted so far, and all of their columns before them, are there.
Reached(f, k) ==
  \A n \in 0..Rows[f][k].id : Seen(blocks, DOMAIN blocks, Rows[f][k].col, n)

LoadInv ==
  /\ pc = "loading" => load.next >= 1
  /\ pc = "loading" => \A k \in DOMAIN Rows[load.file] : k < load.next => Reached(load.file, k)
  /\ pc = "saving" => \A k \in DOMAIN Rows[load.file] : Reached(load.file, k)

\* The rows of the files loaded to their end are in the settings.
Durable ==
  \A f \in loaded : \A k \in DOMAIN Rows[f] : \A n \in 0..Rows[f][k].id :
    Seen(entries, DOMAIN entries, Rows[f][k].col, n)

RowsInv == Inv /\ Chained /\ Extended /\ LoadInv /\ Durable

-----------------------------------------------------------------------------
\* What is in a block of the first list is in that block of the second.
Wider(new, bs) ==
  \A i \in DOMAIN bs :
    /\ i \in DOMAIN new
    /\ new[i].col = bs[i].col /\ new[i].start = bs[i].start
    /\ bs[i].end <= new[i].end

Bounded(bs) ==
  \A i \in DOMAIN bs : i \in Nat /\ i > 0 /\ bs[i].start \in Nat /\ bs[i].end \in Nat

LEMMA BlocksBounded ==
  ASSUME NEW bs \in Seq(Blocks)
  PROVE  Bounded(bs) /\ Len(bs) \in Nat /\ DOMAIN bs = 1..Len(bs)
<1>1. /\ Len(bs) \in Nat /\ DOMAIN bs = 1..Len(bs)
      /\ \A i \in DOMAIN bs : bs[i] \in Blocks
  OBVIOUS
<1>2. \A b \in Blocks : b.start \in Nat /\ b.end \in Nat
  BY DEF Blocks
<1>. QED
  BY <1>1, <1>2 DEF Bounded

LEMMA SeenWider ==
  ASSUME NEW bs, NEW new, Bounded(bs), Bounded(new), Wider(new, bs),
         NEW s, NEW t, s \subseteq DOMAIN bs, s \subseteq t,
         NEW c, NEW n \in Nat, Seen(bs, s, c, n)
  PROVE  Seen(new, t, c, n)
<1>1. PICK j \in s : bs[j].col = c /\ n \in bs[j].start..bs[j].end
  BY DEF Seen, Holds
<1>2. /\ j \in DOMAIN bs /\ j \in DOMAIN new /\ j \in t
      /\ new[j].col = bs[j].col /\ new[j].start = bs[j].start /\ bs[j].end <= new[j].end
      /\ bs[j].start \in Nat /\ bs[j].end \in Nat /\ new[j].end \in Nat
  BY <1>1 DEF Wider, Bounded
<1>3. n \in new[j].start..new[j].end
  BY <1>1, <1>2
<1>. QED
  BY <1>1, <1>2, <1>3 DEF Seen, Holds

\* The place of a block in its chain depends on the blocks before it.
LEMMA FollowsSame ==
  ASSUME NEW bs, NEW cs, NEW i \in Nat, i > 0, Follows(bs, i),
         \A j \in 1..i : /\ cs[j].col = bs[j].col
                         /\ cs[j].start = bs[j].start /\ cs[j].end = bs[j].end
  PROVE  Follows(cs, i)
<1>1. i \in 1..i /\ \A j \in 1..(i - 1) : j \in 1..i
  OBVIOUS
<1>2. \A c, n : Seen(bs, 1..i, c, n) => Seen(cs, 1..i, c, n)
  BY DEF Seen, Holds
<1>. QED
  BY <1>1, <1>2 DEF Follows

\* The id after the last one of a chain is the only one that can be written.
LEMMA NextId ==
  ASSUME NEW bs \in Seq(Blocks), \A i \in DOMAIN bs : Follows(bs, i),
         NEW c \in Columns, NEW id \in Nat,
         \A n \in 0..(id - 1) : Seen(bs, DOMAIN bs, c, n)
  PROVE  /\ Chain(bs, c) = {} => id = 0
         /\ Chain(bs, c) # {} /\ id > bs[LastOf(bs, c)].end
              => id = bs[LastOf(bs, c)].end + 1
<1>1. /\ Len(bs) \in Nat /\ DOMAIN bs = 1..Len(bs)
      /\ \A i \in DOMAIN bs : bs[i].start \in Nat /\ bs[i].end \in Nat
  BY BlocksBounded DEF Bounded
<1>2. ASSUME Chain(bs, c) = {} PROVE id = 0
  <2>1. ~Seen(bs, DOMAIN bs, c, 0)
    BY <1>2 DEF Seen, Holds, Chain
  <2>. QED BY <2>1
<1>3. ASSUME Chain(bs, c) # {}, id > bs[LastOf(bs, c)].end
      PROVE  id = bs[LastOf(bs, c)].end + 1
  <2>. DEFINE l == LastOf(bs, c)
  <2>1. l \in DOMAIN bs /\ bs[l].col = c /\ \A j \in Chain(bs, c) : j <= l
    BY <1>3, LastInChain
  <2>. HIDE DEF l
  <2>2. SUFFICES ASSUME id # bs[l].end + 1 PROVE FALSE
    BY DEF l
  <2>3. id - 1 \in 0..(id - 1) /\ id - 1 > bs[l].end
    BY <1>1, <1>3, <2>1, <2>2 DEF l
  <2>4. PICK j \in DOMAIN bs : bs[j].col = c /\ id - 1 \in bs[j].start..bs[j].end
    BY <2>3 DEF Seen, Holds
  <2>5. j <= l /\ j # l
    BY <1>1, <2>1, <2>3, <2>4 DEF Chain
  <2>6. j \in 1..(l - 1)
    BY <1>1, <2>1, <2>4, <2>5
  <2>7. bs[l].start <= bs[l].end /\ bs[j].end < bs[l].start
    BY <2>1, <2>4, <2>6 DEF Follows
  <2>. QED BY <1>1, <2>1, <2>3, <2>4, <2>7
<1>. QED
  BY <1>2, <1>3

\* A block that takes the id after its last one.
LEMMA WrittenInPlace ==
  ASSUME NEW b \in Blocks, b.col \in Columns, b.start <= b.end, InPlace(b),
         NEW value \in [from : Files, id : Nat], value.id = b.end + 1
  PROVE  LET w == Written(b, value.id, value)
         IN  w.col = b.col /\ w.start = b.start /\ w.end = value.id /\ InPlace(w)
<1>. DEFINE w == Written(b, value.id, value)
            cells == b.cells
<1>1. /\ b.start \in Nat /\ b.end \in Nat /\ cells \in Seq(Values)
      /\ Len(cells) = b.end - b.start + 1
      /\ \A k \in DOMAIN cells : cells[k] = Zero \/ cells[k].id = b.start + k - 1
      /\ value \in Values
  BY DEF Blocks, InPlace, Values
<1>2. w.col = b.col /\ w.start = b.start /\ w.end = value.id /\ w.cells = Append(cells, value)
  <2>1. b.start < value.id /\ ~(b.end > value.id)
    BY <1>1
  <2>2. w = [b EXCEPT !.start = b.start, !.end = value.id, !.cells = Append(cells, value)]
    BY <2>1 DEF Written
  <2>. HIDE DEF w, cells
  <2>. QED BY <2>2 DEF Blocks
<1>3. /\ Len(Append(cells, value)) = Len(cells) + 1
      /\ DOMAIN Append(cells, value) = 1..(Len(cells) + 1)
      /\ Append(cells, value)[Len(cells) + 1] = value
      /\ \A k \in 1..Len(cells) : k \in DOMAIN cells /\ Append(cells, value)[k] = cells[k]
  BY <1>1
<1>. HIDE DEF w, cells
<1>4. InPlace(w)
  <2>1. Len(w.cells) = w.end - w.start + 1
    BY <1>1, <1>2, <1>3
  <2>2. ASSUME NEW k \in DOMAIN w.cells
        PROVE  w.cells[k] = Zero \/ w.cells[k].id = w.start + k - 1
    <3>1. CASE k = Len(cells) + 1
      BY <3>1, <1>1, <1>2, <1>3
    <3>2. CASE k # Len(cells) + 1
      <4>1. k \in 1..Len(cells)
        BY <3>2, <1>1, <1>2, <1>3
      <4>. QED BY <4>1, <1>1, <1>2, <1>3
    <3>. QED BY <3>1, <3>2
  <2>. QED BY <2>1, <2>2 DEF InPlace
<1>. QED
  BY <1>2, <1>4 DEF w

\* insert() of the next cell of a column.
LEMMA InsertChains ==
  ASSUME NEW bs \in Seq(Blocks), \A i \in DOMAIN bs : Follows(bs, i) /\ InPlace(bs[i]),
         NEW cell \in [col : Columns, id : Nat],
         NEW value \in [from : Files, id : Nat], value.id = cell.id,
         \A n \in 0..(cell.id - 1) : Seen(bs, DOMAIN bs, cell.col, n)
  PROVE  LET new == Insert(bs, cell, value)
         IN  /\ Wider(new, bs)
             /\ \A i \in DOMAIN new : Follows(new, i) /\ InPlace(new[i])
             /\ \A n \in 0..cell.id : Seen(new, DOMAIN new, cell.col, n)
<1>. DEFINE new == Insert(bs, cell, value)
            fresh == FreshBlock(cell.col, cell.id, value)
            c == cell.col
            l == LastOf(bs, c)
<1>1. /\ Bounded(bs) /\ Len(bs) \in Nat /\ DOMAIN bs = 1..Len(bs)
      /\ \A i \in DOMAIN bs : /\ i \in Nat /\ i > 0 /\ bs[i] \in Blocks
                              /\ bs[i].start \in Nat /\ bs[i].end \in Nat
      /\ c \in Columns /\ cell.id \in Nat
  BY BlocksBounded DEF Bounded
<1>2. Chain(bs, c) # {} =>
        /\ l \in DOMAIN bs /\ bs[l].col = c /\ \A j \in Chain(bs, c) : j <= l
  BY LastInChain
<1>3. /\ Chain(bs, c) = {} => cell.id = 0
      /\ Chain(bs, c) # {} /\ cell.id > bs[l].end => cell.id = bs[l].end + 1
  BY <1>1, NextId
<1>4. \/ /\ Chain(bs, c) # {} /\ cell.id <= bs[l].end
         /\ new = bs
      \/ /\ Chain(bs, c) = {} \/ cell.id = bs[l].end + 1
         /\ new = Append(bs, fresh)
      \/ /\ Chain(bs, c) # {} /\ cell.id = bs[l].end + 1
         /\ new = [bs EXCEPT ![l] = Written(bs[l], cell.id, value)]
  <2>1. CASE Chain(bs, c) = {}
    BY <2>1 DEF Insert
  <2>2. CASE Chain(bs, c) # {} /\ cell.id <= bs[l].end
    BY <2>2 DEF Insert
  <2>3. CASE Chain(bs, c) # {} /\ ~(cell.id <= bs[l].end)
    <3>1. cell.id = bs[l].end + 1
      BY <1>1, <1>2, <1>3, <2>3
    <3>. QED BY <2>3, <3>1 DEF Insert
  <2>. QED BY <2>1, <2>2, <2>3
<1>. HIDE DEF new, c, l
<1>5. CASE Chain(bs, c) # {} /\ cell.id <= bs[l].end /\ new = bs
  <2>1. Wider(new, bs)
    BY <1>1, <1>5 DEF Wider
  <2>2. \A n \in 0..cell.id : n \in 0..bs[l].end
    BY <1>1, <1>2, <1>5
  <2>3. \A n \in 0..cell.id : Seen(bs, 1..l, c, n)
    BY <1>1, <1>2, <1>5, <2>2 DEF Follows
  <2>4. \A n : Seen(bs, 1..l, c, n) => Seen(bs, DOMAIN bs, c, n)
    BY <1>1, <1>2, <1>5 DEF Seen
  <2>. QED BY <1>5, <2>1, <2>3, <2>4 DEF new, c
<1>6. CASE /\ Chain(bs, c) = {} \/ cell.id = bs[l].end + 1
           /\ new = Append(bs, fresh)
  <2>1. /\ fresh.col = c /\ fresh.start = cell.id /\ fresh.end = cell.id
        /\ fresh.cells = <<value>>
    BY DEF FreshBlock, c
  <2>. HIDE DEF fresh
  <2>2. /\ DOMAIN new = 1..(Len(bs) + 1) /\ new[Len(bs) + 1] = fresh
        /\ \A i \in 1..Len(bs) : new[i] = bs[i]
    BY <1>1, <1>6
  <2>3. Wider(new, bs) /\ Bounded(new)
    BY <1>1, <2>1, <2>2 DEF Wider, Bounded
  <2>4. ASSUME NEW n \in 0..cell.id PROVE Seen(new, 1..(Len(bs) + 1), c, n)
    <3>1. CASE n = cell.id
      <4>1. Len(bs) + 1 \in 1..(Len(bs) + 1) /\ n \in cell.id..cell.id
        BY <1>1, <3>1
      <4>. QED BY <4>1, <2>1, <2>2 DEF Seen, Holds
    <3>2. CASE n # cell.id
      <4>1. Seen(bs, DOMAIN bs, c, n)
        BY <3>2, <1>1 DEF c
      <4>. QED BY <4>1, <1>1, <2>2 DEF Seen, Holds
    <3>. QED BY <3>1, <3>2
  <2>5. \A j \in 1..Len(bs) : bs[j].col = c => bs[j].end < cell.id
    <3>. SUFFICES ASSUME NEW j \in 1..Len(bs), bs[j].col = c PROVE bs[j].end < cell.id
      OBVIOUS
    <3>1. j \in Chain(bs, c) /\ j \in DOMAIN bs
      BY <1>1 DEF Chain
    <3>2. l \in DOMAIN bs /\ bs[l].col = c /\ j <= l /\ cell.id = bs[l].end + 1
      BY <1>2, <1>6, <3>1
    <3>3. CASE j = l
      BY <3>3, <3>2, <1>1
    <3>4. CASE j # l
      <4>1. j \in 1..(l - 1)
        BY <3>2, <3>4, <1>1
      <4>2. bs[l].start <= bs[l].end /\ bs[j].end < bs[l].start
        BY <1>1, <3>2, <4>1 DEF Follows
      <4>. QED BY <4>2, <3>1, <3>2, <1>1
    <3>. QED BY <3>3, <3>4
  <2>6. Follows(new, Len(bs) + 1)
    <3>1. \A j \in 1..(Len(bs) + 1 - 1) : j \in 1..Len(bs)
      BY <1>1
    <3>. QED BY <3>1, <1>1, <2>1, <2>2, <2>4, <2>5 DEF Follows
  <2>7. InPlace(fresh)
    BY <1>1, <2>1 DEF InPlace
  <2>8. \A i \in 1..Len(bs) : Follows(new, i)
    <3>1. \A i \in 1..Len(bs) : \A j \in 1..i : new[j] = bs[j]
      BY <1>1, <2>2
    <3>. QED BY <3>1, <1>1, FollowsSame
  <2>. QED BY <1>1, <2>2, <2>3, <2>4, <2>6, <2>7, <2>8 DEF new, c
<1>7. CASE /\ Chain(bs, c) # {} /\ cell.id = bs[l].end + 1
           /\ new = [bs EXCEPT ![l] = Written(bs[l], cell.id, value)]
  <2>1. l \in DOMAIN bs /\ bs[l].col = c /\ \A j \in Chain(bs, c) : j <= l
    BY <1>2, <1>7
  <2>2. bs[l].start <= bs[l].end
    BY <1>1, <2>1 DEF Follows
  <2>3. /\ DOMAIN new = DOMAIN bs /\ new[l] = Written(bs[l], cell.id, value)
        /\ \A i \in DOMAIN bs : i # l => new[i] = bs[i]
    BY <1>7, <2>1
  <2>4. /\ new[l].col = c /\ new[l].start = bs[l].start /\ new[l].end = cell.id
        /\ InPlace(new[l])
    BY <1>1, <1>7, <2>1, <2>2, <2>3, WrittenInPlace
  <2>5. Wider(new, bs) /\ Bounded(new)
    BY <1>1, <1>7, <2>1, <2>3, <2>4 DEF Wider, Bounded
  <2>6. ASSUME NEW n \in 0..cell.id PROVE Seen(new, 1..l, c, n)
    <3>1. CASE n = cell.id
      <4>1. l \in 1..l /\ n \in new[l].start..new[l].end
        BY <1>1, <1>7, <2>1, <2>2, <2>4, <3>1
      <4>. QED BY <4>1, <2>4 DEF Seen, Holds
    <3>2. CASE n # cell.id
      <4>1. n \in Nat /\ Seen(bs, DOMAIN bs, c, n)
        BY <3>2, <1>1 DEF c
      <4>2. Seen(bs, 1..l, c, n)
        <5>1. PICK j \in DOMAIN bs : Holds(bs[j], c, n)
          BY <4>1 DEF Seen
        <5>2. j <= l /\ j \in 1..Len(bs)
          BY <5>1, <2>1, <1>1 DEF Chain, Holds
        <5>3. j \in 1..l
          BY <5>2, <2>1, <1>1
        <5>. QED BY <5>1, <5>3 DEF Seen
      <4>3. 1..l \subseteq DOMAIN bs
        BY <1>1, <2>1
      <4>. QED BY <4>1, <4>2, <4>3, <1>1, <2>5, SeenWider
    <3>. QED BY <3>1, <3>2
  <2>7. ASSUME NEW i \in DOMAIN bs PROVE Follows(new, i)
    <3>1. i \in Nat /\ 1..i \subseteq DOMAIN bs /\ 1..(i - 1) \subseteq DOMAIN bs /\ Follows(bs, i)
      BY <1>1
    <3>2. CASE i = l
      <4>1. \A j \in 1..(l - 1) : j # l /\ new[j] = bs[j]
        BY <3>1, <3>2, <2>3, <1>1
      <4>2. \A j \in 1..(l - 1) : bs[j].col = c => bs[j].end < bs[l].start
        BY <3>1, <3>2, <2>1, <1>1 DEF Follows
      <4>3. new[l].start <= new[l].end
        BY <1>1, <1>7, <2>1, <2>2, <2>4
      <4>. QED BY <3>2, <4>1, <4>2, <4>3, <2>4, <2>6 DEF Follows
    <3>3. CASE i # l /\ bs[i].col = c
      <4>1. i \in Chain(bs, c) /\ i < l
        BY <1>1, <2>1, <3>3 DEF Chain
      <4>2. \A j \in 1..i : j # l /\ new[j] = bs[j]
        BY <3>1, <4>1, <2>1, <2>3, <1>1
      <4>. QED BY <3>1, <4>2, <1>1, FollowsSame
    <3>4. CASE i # l /\ bs[i].col # c
      <4>1. new[i] = bs[i]
        BY <3>4, <2>3
      <4>2. \A j \in 1..(i - 1) : new[j].col = bs[i].col => new[j] = bs[j]
        BY <3>1, <3>4, <2>3, <2>4
      <4>3. \A n \in Nat : Seen(bs, 1..i, bs[i].col, n) => Seen(new, 1..i, bs[i].col, n)
        BY <3>1, <1>1, <2>5, SeenWider
      <4>4. \A n \in 0..bs[i].end : n \in Nat
        BY <1>1
      <4>. QED BY <3>1, <4>1, <4>2, <4>3, <4>4 DEF Follows
    <3>. QED BY <3>2, <3>3, <3>4
  <2>8. \A i \in DOMAIN bs : InPlace(new[i])
    BY <2>3, <2>4
  <2>9. \A n : Seen(new, 1..l, c, n) => Seen(new, DOMAIN new, c, n)
    <3>1. 1..l \subseteq DOMAIN new
      BY <1>1, <2>1, <2>3
    <3>. QED BY <3>1 DEF Seen
  <2>. QED BY <2>3, <2>5, <2>6, <2>7, <2>8, <2>9 DEF new, c
<1>. QED
  BY <1>4, <1>5, <1>6, <1>7 DEF new

-----------------------------------------------------------------------------
LEMMA CellType ==
  ASSUME NEW f \in Files
  PROVE  /\ Rows[f] \in Seq([col : Columns, id : Nat]) /\ Len(Rows[f]) \in Nat
         /\ DOMAIN Rows[f] = 1..Len(Rows[f])
         /\ \A k \in DOMAIN Rows[f] : /\ Rows[f][k] \in [col : Columns, id : Nat]
                                      /\ Rows[f][k].col \in Columns /\ Rows[f][k].id \in Nat
<1>1. Rows[f] \in Seq([col : Columns, id : Nat])
  BY ArenaAssumption
<1>2. \A k \in DOMAIN Rows[f] : Rows[f][k] \in [col : Columns, id : Nat]
  <2>1. \A S : \A q \in Seq(S) : \A k \in DOMAIN q : q[k] \in S
    OBVIOUS
  <2>. QED BY <1>1, <2>1
<1>. QED
  BY <1>1, <1>2

LEMMA Latest ==
  ASSUME NEW n \in Nat, NEW s \in SUBSET (1..n), s # {}
  PROVE  \E m \in s : \A j \in s : j <= m
<1>. DEFINE t == {n - i : i \in s}
<1>1. t \in SUBSET Nat /\ t # {}
  <2>1. \A i \in s : n - i \in Nat
    OBVIOUS
  <2>. QED BY <2>1
<1>. HIDE DEF t
<1>2. PICK d \in t : \A m \in t : <<m, d>> \notin OpToRel(<, Nat)
  BY <1>1, WFMin, NatLessThanWellFounded
<1>3. \A m \in t : m \in Nat /\ d \in Nat /\ ~(m < d)
  BY <1>1, <1>2 DEF OpToRel
<1>4. PICK i \in s : d = n - i
  BY DEF t
<1>5. \A j \in s : n - j \in t
  BY DEF t
<1>6. \A j \in s : j <= i
  BY <1>3, <1>4, <1>5
<1>. QED
  BY <1>6

\* A cell comes after the one with the id before its own.
LEMMA CellBefore ==
  ASSUME NEW f \in Files, NEW k \in DOMAIN Rows[f], Rows[f][k].id > 0
  PROVE  \E j \in DOMAIN Rows[f] :
           j < k /\ Rows[f][j].col = Rows[f][k].col /\ Rows[f][j].id = Rows[f][k].id - 1
<1>. DEFINE c == Rows[f][k].col
            s == {j \in 1..(k - 1) : Rows[f][j].col = c}
<1>1. /\ Len(Rows[f]) \in Nat /\ DOMAIN Rows[f] = 1..Len(Rows[f]) /\ k \in Nat /\ k > 0
      /\ \A j \in DOMAIN Rows[f] :
           Rows[f][j].id = Cardinality({i \in 1..(j - 1) : Rows[f][i].col = Rows[f][j].col})
  <2>1. Dense(Rows[f])
    BY ArenaAssumption
  <2>2. \A j \in DOMAIN Rows[f] :
          Rows[f][j].id = Cardinality({i \in 1..(j - 1) : Rows[f][i].col = Rows[f][j].col})
    BY <2>1 DEF Dense
  <2>3. Len(Rows[f]) \in Nat /\ DOMAIN Rows[f] = 1..Len(Rows[f])
    BY CellType
  <2>4. k \in Nat /\ k > 0
    BY <2>3
  <2>. QED BY <2>2, <2>3, <2>4
<1>2. IsFiniteSet(s) /\ Cardinality(s) \in Nat /\ Cardinality(s) = Rows[f][k].id
  <2>1. Cardinality(s) = Rows[f][k].id
    BY <1>1
  <2>2. k \in Nat
    BY <1>1
  <2>3. IsFiniteSet(s) /\ Cardinality(s) \in Nat
    BY <2>2, Earlier
  <2>. QED BY <2>1, <2>3
<1>3. s # {} /\ s \subseteq 1..(k - 1) /\ k - 1 \in Nat
  BY <1>1, <1>2, FS_EmptySet
<1>4. PICK m \in s : \A j \in s : j <= m
  <2>. HIDE DEF s
  <2>. QED BY <1>3, Latest
<1>5. m \in DOMAIN Rows[f] /\ m < k /\ Rows[f][m].col = c
  BY <1>1, <1>3
<1>6. {i \in 1..(m - 1) : Rows[f][i].col = c} = s \ {m}
  <2>1. \A i \in s : i # m => i \in 1..(m - 1)
    BY <1>1, <1>4
  <2>2. \A i \in 1..(m - 1) : i \in 1..(k - 1) /\ i # m
    BY <1>1, <1>5
  <2>. QED BY <2>1, <2>2
<1>7. Cardinality(s \ {m}) = Cardinality(s) - 1
  <2>. HIDE DEF s
  <2>. QED BY <1>2, FS_RemoveElement
<1>8. Rows[f][m].id = Rows[f][k].id - 1
  <2>1. Rows[f][m].id = Cardinality({i \in 1..(m - 1) : Rows[f][i].col = c})
    BY <1>1, <1>5
  <2>. QED BY <1>2, <1>6, <1>7, <2>1
<1>. QED
  BY <1>5, <1>8

-----------------------------------------------------------------------------
LEMMA RowsInvAtFirst ==
  ASSUME Init
  PROVE  RowsInv
<1>1. DOMAIN blocks = {} /\ DOMAIN entries = {} /\ pc = "down" /\ loaded = {}
  BY DEF Init
<1>. QED
  BY <1>1, InvAtFirst DEF RowsInv, Chained, Extended, LoadInv, Durable

\* A process starts with the blocks the disk says.
LEMMA StartKeepsRows ==
  ASSUME RowsInv, Start, Inv'
  PROVE  RowsInv'
<1>1. /\ blocks' = RestoredOf(size, entries, files) /\ pc' = "idle"
      /\ UNCHANGED <<files, size, entries, loaded>>
      /\ TypeOK /\ Named /\ Chained /\ Durable
  BY RestoredIs DEF Start, disk, ghosts, RowsInv, Inv
<1>2. \A i \in DOMAIN entries : i \in 1..size /\ i \in Nat /\ i > 0 /\ 1..i \subseteq DOMAIN entries
  BY <1>1, Types DEF Named
<1>3. /\ DOMAIN blocks' = 1..size
      /\ \A i \in DOMAIN entries : /\ blocks'[i] = Restored(entries[i], files)
                                   /\ blocks'[i].col = entries[i].col
                                   /\ blocks'[i].start = entries[i].start
                                   /\ blocks'[i].end = entries[i].end
      /\ \A i \in 1..size : i \notin DOMAIN entries => blocks'[i].col = NoColumn
  BY <1>1, <1>2 DEF RestoredOf, Restored, JunkBlock
<1>4. ASSUME NEW i \in DOMAIN blocks' PROVE Follows(blocks', i) /\ InPlace(blocks'[i])
  <2>1. CASE i \in DOMAIN entries
    <3>1. Follows(blocks', i)
      <4>1. i \in Nat /\ i > 0 /\ Follows(entries, i)
        BY <2>1, <1>1, <1>2 DEF Chained
      <4>2. \A j \in 1..i : /\ blocks'[j].col = entries[j].col
                            /\ blocks'[j].start = entries[j].start
                            /\ blocks'[j].end = entries[j].end
        BY <2>1, <1>2, <1>3
      <4>. QED BY <4>1, <4>2, FollowsSame
    <3>. QED BY <2>1, <3>1, <1>1, <1>3 DEF Chained
  <2>2. CASE i \notin DOMAIN entries
    BY <2>2, <1>3, ArenaAssumption DEF Follows, InPlace
  <2>. QED BY <2>1, <2>2
<1>5. Chained'
  BY <1>1, <1>4 DEF Chained
<1>6. Extended'
  <2>1. \A i \in DOMAIN entries : entries[i].end \in Nat
    BY <1>1, Types DEF Entry
  <2>. QED BY <2>1, <1>1, <1>3 DEF Extended
<1>7. LoadInv' /\ Durable'
  BY <1>1 DEF LoadInv, Durable
<1>. QED
  BY <1>5, <1>6, <1>7 DEF RowsInv

LEMMA BeginKeepsRows ==
  ASSUME RowsInv, (\E f \in Files : LoadFile(f)) \/ BeginPersist, Inv'
  PROVE  RowsInv'
<1>1. /\ UNCHANGED <<blocks, files, size, entries, loaded>> /\ pc # "down"
      /\ Chained /\ Extended /\ Durable /\ LoadInv /\ TypeOK
  BY DEF LoadFile, BeginPersist, disk, ghosts, RowsInv, Inv
<1>2. Chained' /\ Extended' /\ Durable'
  BY <1>1 DEF Chained, Extended, Durable
<1>3. CASE \E f \in Files : LoadFile(f)
  <2>1. PICK f \in Files : pc' = "loading" /\ load' = [file |-> f, next |-> 1]
    BY <1>3 DEF LoadFile
  <2>2. \A k \in DOMAIN Rows[f] : ~(k < 1)
    BY CellType
  <2>. QED BY <1>1, <1>2, <2>1, <2>2 DEF RowsInv, LoadInv
<1>4. CASE BeginPersist
  <2>1. /\ pc = "loading" /\ pc' = "saving" /\ load' = load
        /\ load.next \notin DOMAIN Rows[load.file]
    BY <1>4 DEF BeginPersist
  <2>2. load.next >= 1 /\ load.next \in Nat /\ load.file \in Files
    BY <1>1, <2>1 DEF LoadInv, TypeOK
  <2>3. \A k \in DOMAIN Rows[load.file] : k < load.next
    BY <2>1, <2>2, CellType
  <2>4. \A k \in DOMAIN Rows[load.file] : Reached(load.file, k)
    BY <1>1, <2>1, <2>3 DEF LoadInv
  <2>. QED BY <1>1, <1>2, <2>1, <2>4 DEF RowsInv, LoadInv, Reached
<1>. QED
  BY <1>3, <1>4

\* A cell is inserted: it is the next of its column or was there before.
LEMMA InsertCellKeepsRows ==
  ASSUME RowsInv, InsertCell, Inv'
  PROVE  RowsInv'
<1>. DEFINE f == load.file
            cell == Rows[load.file][load.next]
            value == [from |-> load.file, id |-> cell.id]
<1>1. /\ pc = "loading" /\ load.next \in DOMAIN Rows[f]
      /\ blocks' = Insert(blocks, cell, value)
      /\ load' = [load EXCEPT !.next = @ + 1]
      /\ UNCHANGED <<files, size, entries, pc, loaded>>
      /\ TypeOK /\ Named /\ Chained /\ Extended /\ LoadInv /\ Durable
  BY DEF InsertCell, disk, ghosts, RowsInv, Inv
<1>2. /\ f \in Files /\ load.next \in Nat /\ cell \in [col : Columns, id : Nat]
      /\ value \in [from : Files, id : Nat] /\ value.id = cell.id
      /\ load'.file = f /\ load'.next = load.next + 1
  <2>1. load \in [file : Files, next : Nat]
    BY <1>1 DEF TypeOK
  <2>2. cell \in [col : Columns, id : Nat]
    BY <2>1, <1>1, CellType
  <2>. HIDE DEF cell
  <2>. QED BY <2>1, <2>2, <1>1
<1>3. Bounded(blocks) /\ Bounded(blocks') /\ blocks \in Seq(Blocks)
  BY BlocksBounded DEF RowsInv, Inv, TypeOK
<1>4. \A n \in 0..(cell.id - 1) : Seen(blocks, DOMAIN blocks, cell.col, n)
  <2>. SUFFICES ASSUME NEW n \in 0..(cell.id - 1)
                PROVE  Seen(blocks, DOMAIN blocks, cell.col, n)
    OBVIOUS
  <2>1. cell.id \in Nat /\ cell.id > 0
    BY <1>2
  <2>2. PICK j \in DOMAIN Rows[f] :
          j < load.next /\ Rows[f][j].col = cell.col /\ Rows[f][j].id = cell.id - 1
    BY <2>1, <1>1, <1>2, CellBefore
  <2>. QED BY <2>2, <1>1 DEF LoadInv, Reached
<1>. HIDE DEF cell, value
<1>5. /\ Wider(blocks', blocks)
      /\ \A i \in DOMAIN blocks' : Follows(blocks', i) /\ InPlace(blocks'[i])
      /\ \A n \in 0..cell.id : Seen(blocks', DOMAIN blocks', cell.col, n)
  BY <1>1, <1>2, <1>3, <1>4, InsertChains DEF Chained
<1>6. Chained'
  BY <1>1, <1>5 DEF Chained
<1>7. Extended'
  <2>1. \A i \in DOMAIN entries : i \in DOMAIN blocks /\ entries[i].end \in Nat
    BY <1>1, EntryName, Types DEF Entry
  <2>2. \A i \in DOMAIN entries : /\ blocks'[i].start = entries[i].start
                                  /\ entries[i].end <= blocks'[i].end
    BY <2>1, <1>1, <1>3, <1>5 DEF Extended, Wider, Bounded
  <2>. QED BY <2>2, <1>1 DEF Extended
<1>8. LoadInv'
  <2>1. ASSUME NEW k \in DOMAIN Rows[f], k < load.next + 1
        PROVE  \A n \in 0..Rows[f][k].id : Seen(blocks', DOMAIN blocks', Rows[f][k].col, n)
    <3>1. CASE k = load.next
      BY <3>1, <1>5 DEF cell
    <3>2. CASE k # load.next
      <4>1. k < load.next
        BY <3>2, <2>1, <1>2, CellType
      <4>2. \A n \in 0..Rows[f][k].id : Seen(blocks, DOMAIN blocks, Rows[f][k].col, n)
        BY <4>1, <1>1 DEF LoadInv, Reached
      <4>3. DOMAIN blocks \subseteq DOMAIN blocks' /\ \A n \in 0..Rows[f][k].id : n \in Nat
        BY <1>5 DEF Wider
      <4>. QED BY <4>2, <4>3, <1>3, <1>5, SeenWider
    <3>. QED BY <3>1, <3>2
  <2>. QED BY <2>1, <1>1, <1>2 DEF LoadInv, Reached
<1>9. Durable'
  BY <1>1 DEF Durable
<1>. QED
  BY <1>6, <1>7, <1>8, <1>9 DEF RowsInv

\* The file of the block persist() is at holds a beginning of its cells, so a
\* group of settings that names it still restores what was in the block.
LEMMA FileStepKeepsRows ==
  ASSUME RowsInv, SavingBlock, Inv',
         \A name : name # FileName(blocks, save.at) => Held(files', name) = Held(files, name),
         save' = [save EXCEPT !.open = TRUE],
         UNCHANGED <<blocks, size, entries, pc, load, loaded>>
  PROVE  RowsInv'
<1>. DEFINE at == save.at
            name == FileName(blocks, at)
<1>1. /\ TypeOK /\ Named /\ Chained /\ Extended /\ LoadInv /\ Durable
      /\ pc = "saving" /\ at \in DOMAIN blocks /\ save'.at = at /\ save'.open
  BY DEF RowsInv, Inv, SavingBlock, TypeOK
<1>2. /\ Held(files', name) = files'[name] /\ files'[name] \in Seq(Values)
      /\ \A k \in DOMAIN files'[name] : files'[name][k] = blocks[at].cells[k]
      /\ Len(files'[name]) <= Len(blocks[at].cells)
  <2>1. SaveInv' /\ TypeOK'
    BY DEF Inv
  <2>2. /\ name \in DOMAIN files'
        /\ \A k \in DOMAIN files'[name] : files'[name][k] = blocks[at].cells[k]
        /\ Len(files'[name]) <= Len(blocks[at].cells)
    BY <2>1, <1>1 DEF SaveInv
  <2>. QED BY <2>1, <2>2 DEF Held, TypeOK
<1>3. ASSUME NEW i \in DOMAIN entries PROVE InPlace(Restored(entries[i], files'))
  <2>1. i \in DOMAIN blocks /\ entries[i].name = FileName(blocks, i) /\ entries[i] \in Entry
    BY <1>1, EntryName, Types
  <2>2. InPlace(Restored(entries[i], files))
    BY <1>1 DEF Chained
  <2>3. CASE i # at
    <3>1. entries[i].name # name
      BY <2>1, <2>3, <1>1, NamesDiffer
    <3>2. Restored(entries[i], files') = Restored(entries[i], files)
      BY <3>1, RestoredSame
    <3>. QED BY <3>2, <2>2
  <2>4. CASE i = at
    <3>. DEFINE e == entries[at]
                r == Restored(e, files)
                s == Restored(e, files')
    <3>1. /\ Len(r.cells) = e.len /\ Len(s.cells) = e.len /\ s.cells \in Seq(Values)
          /\ s.col = e.col /\ r.col = e.col /\ s.start = e.start /\ r.start = e.start
          /\ s.end = e.end /\ r.end = e.end
      <4>1. /\ \A n \in DOMAIN files : files[n] \in Seq(Values)
            /\ \A n \in DOMAIN files' : files'[n] \in Seq(Values)
        BY DEF RowsInv, Inv, TypeOK
      <4>2. /\ Len(r.cells) = e.len /\ Len(s.cells) = e.len /\ s.cells \in Seq(Values)
        BY <2>1, <2>4, <4>1, RestoredType DEF Blocks
      <4>. QED BY <4>2 DEF Restored
    <3>2. \A k \in DOMAIN s.cells : s.cells[k] = Zero \/ s.cells[k] = blocks[at].cells[k]
      <4>1. s.cells = [k \in 1..e.len |->
                         IF k \in DOMAIN files'[name] THEN files'[name][k] ELSE Zero]
        BY <1>2, <2>1, <2>4 DEF Restored
      <4>. HIDE DEF s, e, name
      <4>. QED BY <4>1, <1>2
    <3>3. /\ blocks[at].col = e.col /\ blocks[at].start = e.start /\ e.end <= blocks[at].end
          /\ InPlace(blocks[at])
      BY <1>1, <2>4 DEF Named, Extended, Chained
    <3>4. /\ blocks[at].end \in Nat /\ e.end \in Nat /\ e.start \in Nat /\ e.len \in Nat
      BY <1>1, <2>1, <2>4, BlocksBounded DEF Entry, Bounded, TypeOK
    <3>. HIDE DEF e, s, r
    <3>5. ASSUME e.col \in Columns
          PROVE  /\ e.len = e.end - e.start + 1
                 /\ \A k \in 1..e.len : s.cells[k] = Zero \/ s.cells[k].id = e.start + k - 1
      <4>1. e.len = e.end - e.start + 1
        BY <2>2, <2>4, <3>1, <3>5 DEF InPlace, e, r
      <4>2. /\ Len(blocks[at].cells) = blocks[at].end - e.start + 1
            /\ DOMAIN blocks[at].cells = 1..Len(blocks[at].cells)
        BY <3>3, <3>5, <1>1, Types DEF InPlace
      <4>3. \A k \in 1..e.len : k \in DOMAIN blocks[at].cells
        BY <3>3, <3>4, <4>1, <4>2
      <4>4. \A k \in 1..e.len : k \in DOMAIN s.cells
        BY <3>1
      <4>. QED BY <4>1, <4>3, <4>4, <3>2, <3>3, <3>5 DEF InPlace
    <3>6. DOMAIN s.cells = 1..e.len
      BY <3>1
    <3>7. InPlace(s)
      BY <3>1, <3>5, <3>6 DEF InPlace
    <3>. QED BY <3>7, <2>4 DEF s, e
  <2>. QED BY <2>3, <2>4
<1>4. Chained'
  BY <1>1, <1>3 DEF Chained
<1>5. Extended' /\ LoadInv' /\ Durable'
  BY <1>1 DEF Extended, LoadInv, Durable, Reached
<1>. QED
  BY <1>4, <1>5 DEF RowsInv

LEMMA OpenFileKeepsRows ==
  ASSUME RowsInv, OpenFile, Inv'
  PROVE  RowsInv'
<1>. DEFINE name == FileName(blocks, save.at)
<1>1. /\ SavingBlock /\ files' = Put(files, name, <<>>) /\ save' = [save EXCEPT !.open = TRUE]
      /\ UNCHANGED <<blocks, size, entries, pc, load, loaded>>
  BY DEF OpenFile, ghosts
<1>2. \A n : n # name => Held(files', n) = Held(files, n)
  <2>. HIDE DEF name
  <2>. QED BY <1>1 DEF Put, Held
<1>. QED
  BY <1>1, <1>2, FileStepKeepsRows

LEMMA WriteFileKeepsRows ==
  ASSUME RowsInv, WriteFile, Inv'
  PROVE  RowsInv'
<1>. DEFINE name == FileName(blocks, save.at)
<1>1. /\ SavingBlock /\ save.open
      /\ files' = [files EXCEPT ![name] = Append(@, blocks[save.at].cells[Len(@) + 1])]
      /\ UNCHANGED <<blocks, size, entries, pc, load, save, loaded>>
  BY DEF WriteFile, ghosts
<1>2. save' = [save EXCEPT !.open = TRUE]
  BY <1>1 DEF RowsInv, Inv, TypeOK
<1>3. \A n : n # name => Held(files', n) = Held(files, n)
  <2>. HIDE DEF name
  <2>. QED BY <1>1 DEF Held
<1>. QED
  BY <1>1, <1>2, <1>3, FileStepKeepsRows

\* A group of settings takes the place of one that says no more than it.
LEMMA EntriesWiden ==
  ASSUME RowsInv, SaveEntry, Inv'
  PROVE  /\ DOMAIN entries' = DOMAIN entries \cup {save.at}
         /\ \A i \in DOMAIN entries : i # save.at => entries'[i] = entries[i]
         /\ Bounded(blocks) /\ Bounded(entries) /\ Bounded(entries')
         /\ \A i \in 1..save.at :
              /\ i \in DOMAIN entries' /\ Restored(entries'[i], files) = blocks[i]
              /\ entries'[i].col = blocks[i].col
              /\ entries'[i].start = blocks[i].start /\ entries'[i].end = blocks[i].end
         /\ Wider(entries', entries)
<1>. DEFINE at == save.at
            b == blocks[at]
<1>1. /\ TypeOK /\ Named /\ Mirrored /\ Chained /\ Extended /\ LoadInv /\ Durable
      /\ pc = "saving" /\ at \in DOMAIN blocks
      /\ save'.at = at + 1
      /\ UNCHANGED <<blocks, files, size, pc, load, loaded>>
  BY DEF SaveEntry, RowsInv, Inv, SavingBlock, ghosts
<1>2. /\ DOMAIN entries' = DOMAIN entries \cup {at}
      /\ \A i \in DOMAIN entries : i # at => entries'[i] = entries[i]
  BY DEF SaveEntry, Put
<1>3. /\ Mirrored' /\ Named' /\ Bounded(blocks) /\ Bounded(entries) /\ Bounded(entries')
      /\ at \in Nat /\ at > 0
  <2>1. \A e \in Entry : e.start \in Nat /\ e.end \in Nat
    BY DEF Entry
  <2>2. Bounded(entries)
    BY <2>1, <1>1, Types DEF Bounded
  <2>3. Bounded(entries')
    <3>1. \A i \in DOMAIN entries' : i \in Nat /\ i > 0 /\ entries'[i] \in Entry
      <4>1. TypeOK'
        BY DEF Inv
      <4>. QED BY <4>1 DEF TypeOK, Entry
    <3>. QED BY <2>1, <3>1 DEF Bounded
  <2>4. Bounded(blocks)
    BY <1>1, BlocksBounded DEF TypeOK
  <2>. QED BY <2>2, <2>3, <2>4, <1>1 DEF Inv, Bounded
<1>4. \A i \in 1..at : /\ i \in DOMAIN entries' /\ Restored(entries'[i], files) = blocks[i]
                       /\ entries'[i].col = blocks[i].col
                       /\ entries'[i].start = blocks[i].start /\ entries'[i].end = blocks[i].end
  <2>1. \A i \in 1..at : i \in DOMAIN entries' /\ Restored(entries'[i], files) = blocks[i]
    BY <1>1, <1>3 DEF Mirrored
  <2>2. \A e : /\ Restored(e, files).col = e.col /\ Restored(e, files).start = e.start
               /\ Restored(e, files).end = e.end
    BY DEF Restored
  <2>. QED BY <2>1, <2>2
<1>5. Wider(entries', entries)
  <2>1. at \in 1..at
    BY <1>3
  <2>2. at \in DOMAIN entries =>
          b.col = entries[at].col /\ b.start = entries[at].start /\ entries[at].end <= b.end
    BY <1>1 DEF Named, Extended
  <2>3. \A i \in DOMAIN entries : entries[i].end <= entries[i].end
    BY <1>3 DEF Bounded
  <2>. QED BY <1>2, <1>4, <2>1, <2>2, <2>3 DEF Wider
<1>. QED
  BY <1>2, <1>3, <1>4, <1>5

LEMMA SaveEntryKeepsRows ==
  ASSUME RowsInv, SaveEntry, Inv'
  PROVE  RowsInv'
<1>. DEFINE at == save.at
            b == blocks[at]
<1>1. /\ TypeOK /\ Named /\ Mirrored /\ Chained /\ Extended /\ LoadInv /\ Durable
      /\ pc = "saving" /\ at \in DOMAIN blocks
      /\ save'.at = at + 1
      /\ UNCHANGED <<blocks, files, size, pc, load, loaded>>
  BY DEF SaveEntry, RowsInv, Inv, SavingBlock, ghosts
<1>2. /\ DOMAIN entries' = DOMAIN entries \cup {at}
      /\ \A i \in DOMAIN entries : i # at => entries'[i] = entries[i]
  BY EntriesWiden
<1>3. /\ Mirrored' /\ Named' /\ Bounded(blocks) /\ Bounded(entries) /\ Bounded(entries')
      /\ at \in Nat /\ at > 0
  BY <1>1, EntriesWiden DEF Inv, Bounded
<1>4. \A i \in 1..at : /\ i \in DOMAIN entries' /\ Restored(entries'[i], files) = blocks[i]
                       /\ entries'[i].col = blocks[i].col
                       /\ entries'[i].start = blocks[i].start /\ entries'[i].end = blocks[i].end
  BY EntriesWiden
<1>5. Wider(entries', entries)
  BY EntriesWiden
<1>6. ASSUME NEW i \in DOMAIN entries' PROVE Follows(entries', i)
  <2>1. i \in Nat /\ i > 0 /\ 1..i \subseteq DOMAIN entries'
    BY <1>3 DEF Bounded, Named
  <2>2. CASE i <= at
    <3>1. i \in DOMAIN blocks /\ \A j \in 1..i : j \in 1..at
      BY <2>1, <2>2, <1>1, <1>3, Types
    <3>. QED BY <2>1, <3>1, <1>1, <1>4, FollowsSame DEF Chained
  <2>3. CASE i > at
    <3>1. i \in DOMAIN entries /\ i # at /\ entries'[i] = entries[i] /\ i \in DOMAIN blocks
      BY <2>3, <1>1, <1>2, <1>3, EntryName
    <3>2. 1..i \subseteq DOMAIN entries /\ Follows(entries, i) /\ Follows(blocks, i)
      BY <3>1, <1>1 DEF Named, Chained
    <3>3. blocks[i].col = entries[i].col /\ blocks[i].start = entries[i].start
      BY <3>1, <1>1 DEF Named, Extended
    <3>. SUFFICES ASSUME entries[i].col \in Columns PROVE Follows(entries', i)
      BY <3>1 DEF Follows
    <3>4. \A j \in 1..(i - 1) :
            entries'[j].col = entries[i].col => entries'[j].end < entries[i].start
      <4>. SUFFICES ASSUME NEW j \in 1..(i - 1), entries'[j].col = entries[i].col
                    PROVE  entries'[j].end < entries[i].start
        OBVIOUS
      <4>1. CASE j = at
        BY <4>1, <1>4, <3>2, <3>3, <1>3 DEF Follows
      <4>2. CASE j # at
        <5>1. j \in DOMAIN entries
          BY <3>2, <2>1
        <5>. QED BY <4>2, <5>1, <3>2, <1>2 DEF Follows
      <4>. QED BY <4>1, <4>2
    <3>5. \A n \in Nat : Seen(entries, 1..i, entries[i].col, n)
                           => Seen(entries', 1..i, entries[i].col, n)
      BY <3>2, <1>3, <1>5, SeenWider
    <3>6. \A n \in 0..entries[i].end : n \in Nat
      BY <3>1, <1>3 DEF Bounded
    <3>. QED BY <3>1, <3>2, <3>4, <3>5, <3>6 DEF Follows
  <2>. QED BY <2>1, <2>2, <2>3, <1>3
<1>7. ASSUME NEW i \in DOMAIN entries' PROVE InPlace(Restored(entries'[i], files))
  <2>1. CASE i = at
    <3>1. Restored(entries'[i], files) = blocks[at]
      BY <2>1, <1>3, <1>4
    <3>. QED BY <3>1, <1>1 DEF Chained
  <2>2. CASE i # at
    BY <2>2, <1>1, <1>2 DEF Chained
  <2>. QED BY <2>1, <2>2
<1>8. Chained'
  BY <1>1, <1>6, <1>7 DEF Chained
<1>9. Extended'
  <2>1. ASSUME NEW i \in DOMAIN entries'
        PROVE  blocks[i].start = entries'[i].start /\ entries'[i].end <= blocks[i].end
    <3>1. CASE i = at
      BY <3>1, <1>1, <1>3, <1>4 DEF Bounded
    <3>2. CASE i # at
      BY <3>2, <1>1, <1>2 DEF Extended
    <3>. QED BY <3>1, <3>2
  <2>. QED BY <2>1, <1>1 DEF Extended
<1>10. LoadInv'
  BY <1>1 DEF LoadInv, Reached
<1>11. Durable'
  <2>1. ASSUME NEW f \in loaded, NEW k \in DOMAIN Rows[f], NEW n \in 0..Rows[f][k].id
        PROVE  Seen(entries', DOMAIN entries', Rows[f][k].col, n)
    <3>1. Seen(entries, DOMAIN entries, Rows[f][k].col, n)
      BY <1>1 DEF Durable
    <3>2. DOMAIN entries \subseteq DOMAIN entries' /\ n \in Nat
      BY <1>2
    <3>. QED BY <3>1, <3>2, <1>3, <1>5, SeenWider
  <2>. QED BY <2>1, <1>1 DEF Durable
<1>. QED
  BY <1>8, <1>9, <1>10, <1>11 DEF RowsInv

LEMMA SaveSizeKeepsRows ==
  ASSUME RowsInv, SaveSize, Inv'
  PROVE  RowsInv'
BY DEF SaveSize, ghosts, RowsInv, Chained, Extended, LoadInv, Reached, Durable

\* The load is over: its rows are in the blocks, and the blocks on the disk.
LEMMA EndPersistKeepsRows ==
  ASSUME RowsInv, EndPersist, Inv'
  PROVE  RowsInv'
<1>1. /\ TypeOK /\ Mirrored /\ Chained /\ Extended /\ LoadInv /\ Durable
      /\ pc = "saving" /\ save.at > Len(blocks) /\ pc' = "idle"
      /\ loaded' = loaded \cup {load.file} /\ load.file \in Files
      /\ UNCHANGED <<blocks, files, size, entries>>
  BY DEF EndPersist, disk, RowsInv, Inv, TypeOK
<1>2. \A i \in DOMAIN blocks :
        /\ i \in DOMAIN entries /\ entries[i].col = blocks[i].col
        /\ entries[i].start = blocks[i].start /\ entries[i].end = blocks[i].end
  <2>1. \A i \in DOMAIN blocks : i \in 1..(save.at - 1)
    BY <1>1, Types
  <2>2. \A i \in DOMAIN blocks : i \in DOMAIN entries /\ Restored(entries[i], files) = blocks[i]
    BY <2>1, <1>1 DEF Mirrored
  <2>3. \A e : /\ Restored(e, files).col = e.col /\ Restored(e, files).start = e.start
               /\ Restored(e, files).end = e.end
    BY DEF Restored
  <2>. QED BY <2>2, <2>3
<1>3. \A c, n : Seen(blocks, DOMAIN blocks, c, n) => Seen(entries, DOMAIN entries, c, n)
  BY <1>2 DEF Seen, Holds
<1>4. Durable'
  <2>1. \A k \in DOMAIN Rows[load.file] : \A n \in 0..Rows[load.file][k].id :
          Seen(entries, DOMAIN entries, Rows[load.file][k].col, n)
    BY <1>1, <1>3 DEF LoadInv, Reached
  <2>. QED BY <2>1, <1>1 DEF Durable
<1>5. Chained' /\ Extended' /\ LoadInv'
  BY <1>1 DEF Chained, Extended, LoadInv
<1>. QED
  BY <1>4, <1>5 DEF RowsInv

LEMMA CrashKeepsRows ==
  ASSUME RowsInv, Crash, Inv'
  PROVE  RowsInv'
<1>1. /\ pc' = "down" /\ blocks' = <<>> /\ UNCHANGED <<files, size, entries, loaded>>
      /\ Chained /\ Durable
  BY DEF Crash, disk, RowsInv
<1>2. DOMAIN blocks' = {}
  BY <1>1
<1>. QED
  BY <1>1, <1>2 DEF RowsInv, Chained, Extended, LoadInv, Durable

LEMMA StutterKeepsRows ==
  ASSUME RowsInv, UNCHANGED vars, Inv'
  PROVE  RowsInv'
BY DEF vars, disk, ghosts, RowsInv, Chained, Extended, LoadInv, Reached, Durable

LEMMA RowsInvariance == Spec => []RowsInv
<1>1. Init => RowsInv
  BY RowsInvAtFirst
<1>2. RowsInv /\ [Next]_vars /\ Inv' => RowsInv'
  BY StartKeepsRows, BeginKeepsRows, InsertCellKeepsRows, SaveSizeKeepsRows,
     OpenFileKeepsRows, WriteFileKeepsRows, SaveEntryKeepsRows, EndPersistKeepsRows,
     CrashKeepsRows, StutterKeepsRows DEF Next
<1>. QED
  BY <1>1, <1>2, Invariance, PTL DEF Spec

-----------------------------------------------------------------------------
\* There are finitely many ids in a column's blocks.
LEMMA RowsFinite ==
  ASSUME NEW bs, NEW c, NEW m \in Nat, DOMAIN bs = 1..m,
         \A i \in DOMAIN bs : bs[i].start \in Nat /\ bs[i].end \in Nat
  PROVE  IsFiniteSet(UNION {bs[i].start..bs[i].end : i \in Chain(bs, c)})
<1>. DEFINE ch == Chain(bs, c)
            ranges == {bs[i].start..bs[i].end : i \in ch}
            f == [i \in ch |-> bs[i].start..bs[i].end]
<1>1. IsFiniteSet(ch)
  <2>1. IsFiniteSet(1..m)
    BY FS_Interval
  <2>2. ch \subseteq 1..m
    BY DEF Chain
  <2>. HIDE DEF ch
  <2>. QED BY <2>1, <2>2, FS_Subset
<1>2. f \in Surjection(ch, ranges)
  <2>. HIDE DEF ch
  <2>. QED BY DEF Surjection
<1>3. IsFiniteSet(ranges)
  <2>. HIDE DEF ch, ranges, f
  <2>. QED BY <1>1, <1>2, FS_Surjection
<1>4. \A T \in ranges : IsFiniteSet(T)
  <2>1. \A i \in ch : bs[i].start \in Int /\ bs[i].end \in Int
    BY DEF Chain
  <2>2. \A i \in ch : IsFiniteSet(bs[i].start..bs[i].end)
    BY <2>1, FS_Interval
  <2>. HIDE DEF ch
  <2>. QED BY <2>2
<1>5. IsFiniteSet(UNION ranges)
  <2>. HIDE DEF ranges
  <2>. QED BY <1>3, <1>4, FS_UNION
<1>. QED
  BY <1>5

\* What was loaded to its end stays loaded, for any columns, input files and
\* sizes, and any later loads, deaths and restarts: persist() rewrites every
\* block and its settings on each load, and no group of settings ever says
\* less than the one it replaces.
THEOREM RowsSurvive == Spec => []LoadedRowsSurvive
<1>1. RowsInv => LoadedRowsSurvive
  <2>. SUFFICES ASSUME RowsInv, NEW f \in loaded, NEW k \in DOMAIN Rows[f]
                PROVE  Rows[f][k].id < RowsOf(RestoredBlocks, Rows[f][k].col)
    BY DEF LoadedRowsSurvive
  <2>. DEFINE bs == RestoredBlocks
              c == Rows[f][k].col
              id == Rows[f][k].id
              ids == UNION {bs[i].start..bs[i].end : i \in Chain(bs, c)}
  <2>1. TypeOK /\ Durable /\ f \in Files /\ c \in Columns /\ id \in Nat
    BY CellType DEF RowsInv, Inv, TypeOK
  <2>2. /\ DOMAIN bs = 1..size
        /\ \A i \in DOMAIN entries : /\ bs[i].col = entries[i].col
                                     /\ bs[i].start = entries[i].start
                                     /\ bs[i].end = entries[i].end
        /\ \A i \in 1..size : i \notin DOMAIN entries => bs[i].start = 0 /\ bs[i].end = 0
    <3>1. bs = RestoredOf(size, entries, files) /\ \A i \in DOMAIN entries : i \in 1..size
      BY <2>1, RestoredIs, Types
    <3>. QED BY <3>1 DEF RestoredOf, Restored, JunkBlock
  <2>3. \A i \in DOMAIN bs : bs[i].start \in Nat /\ bs[i].end \in Nat
    <3>1. \A i \in DOMAIN entries : entries[i].start \in Nat /\ entries[i].end \in Nat
      BY <2>1, Types DEF Entry
    <3>. QED BY <3>1, <2>2
  <2>4. size \in Nat /\ DOMAIN entries \subseteq 1..size
    BY <2>1 DEF TypeOK
  <2>. HIDE DEF bs
  <2>5. IsFiniteSet(ids)
    BY <2>2, <2>3, <2>4, RowsFinite
  <2>6. 0..id \subseteq ids
    <3>. SUFFICES ASSUME NEW n \in 0..id PROVE n \in ids
      OBVIOUS
    <3>1. PICK i \in DOMAIN entries : Holds(entries[i], c, n)
      BY <2>1 DEF Durable, Seen
    <3>2. i \in Chain(bs, c) /\ n \in bs[i].start..bs[i].end
      BY <3>1, <2>2, <2>4 DEF Chain, Holds
    <3>. QED BY <3>2
  <2>7. Cardinality(0..id) = id + 1 /\ Cardinality(0..id) <= Cardinality(ids)
    <3>1. 0 \in Int /\ id \in Int /\ ~(0 > id) /\ id - 0 + 1 = id + 1
      BY <2>1
    <3>2. Cardinality(0..id) = id + 1
      BY <3>1, FS_Interval
    <3>. HIDE DEF ids
    <3>. QED BY <3>2, <2>5, <2>6, FS_Subset
  <2>8. Cardinality(ids) \in Nat
    <3>. HIDE DEF ids
    <3>. QED BY <2>5, FS_CardinalityType
  <2>9. RowsOf(bs, c) = Cardinality(ids)
    BY DEF RowsOf
  <2>. HIDE DEF ids, c, id
  <2>10. id < RowsOf(bs, c)
    BY <2>1, <2>7, <2>8, <2>9
  <2>. QED BY <2>10 DEF bs, c, id
<1>. QED
  BY <1>1, RowsInvariance, PTL

\* The blocks of a column, in the order they were created, share out its ids
\* from 0 on without a gap or an overlap, and a cell is at its id's distance
\* from its block's first id: what getTuples finds there is the row with that
\* id or, in a torn file, nothing.
RowsInPlace ==
  \A i \in DOMAIN blocks : Follows(blocks, i) /\ InPlace(blocks[i])

\* Wherever the process dies and whatever is loaded again after it, a running
\* process has each row in the place of its id, which is what getTuples walks
\* over.
THEOREM RowsAtTheirIds == Spec => []RowsInPlace
<1>1. RowsInv => RowsInPlace
  BY DEF RowsInv, Chained, RowsInPlace
<1>. QED
  BY <1>1, RowsInvariance, PTL

-----------------------------------------------------------------------------
(* The order of numbers. *)

\* Of a set of natural numbers, one is the least.
LEMMA LeastOf ==
  ASSUME NEW T \in SUBSET Nat, T # {}
  PROVE  \E x \in T : \A y \in T : x <= y
<1>1. PICK x \in T : \A y \in T : <<y, x>> \notin OpToRel(<, Nat)
  BY WFMin, NatLessThanWellFounded
<1>2. \A y \in T : ~(y < x)
  BY <1>1 DEF OpToRel
<1>. QED
  BY <1>2

\* Induction, for a set of natural numbers.
LEMMA AllNat ==
  ASSUME NEW T, 0 \in T, \A n \in Nat : n \in T => n + 1 \in T
  PROVE  Nat \subseteq T
<1> DEFINE B == Nat \ T
<1>1. SUFFICES ASSUME B # {} PROVE FALSE
  OBVIOUS
<1>2. PICK x \in B : \A y \in B : x <= y
  BY <1>1, LeastOf
<1>3. x # 0 /\ x - 1 \in Nat /\ x - 1 \notin B
  BY <1>2
<1>4. (x - 1) + 1 \in T
  BY <1>3
<1>. QED
  BY <1>4, <1>2

Below(S, x) == {y \in S : y < x}

\* The elements in order: each once, the k-th with k - 1 below it.
LEMMA InOrderAt ==
  ASSUME NEW S \in SUBSET Nat, IsFiniteSet(S)
  PROVE  /\ Cardinality(S) \in Nat
         /\ Len(InOrder(S)) = Cardinality(S) /\ DOMAIN InOrder(S) = 1..Cardinality(S)
         /\ \A k \in 1..Cardinality(S) :
              InOrder(S)[k] \in S /\ Cardinality(Below(S, InOrder(S)[k])) = k - 1
         /\ \A k, l \in 1..Cardinality(S) : k < l => InOrder(S)[k] < InOrder(S)[l]
         /\ \A x \in S : \E k \in 1..Cardinality(S) : InOrder(S)[k] = x
<1>. DEFINE n == Cardinality(S)
            Rank(x) == Cardinality(Below(S, x))
            s == InOrder(S)
            f == [x \in S |-> Rank(x) + 1]
<1>1. n \in Nat
  BY FS_CardinalityType
<1>2. \A x \in S : Rank(x) \in Nat /\ Rank(x) + 1 <= n
  <2>. TAKE x \in S
  <2>1. /\ IsFiniteSet(Below(S, x)) /\ x \notin Below(S, x)
        /\ Below(S, x) \cup {x} \subseteq S
    BY FS_Subset DEF Below
  <2>2. Rank(x) \in Nat
    BY <2>1, FS_CardinalityType
  <2>3. Cardinality(Below(S, x) \cup {x}) = Rank(x) + 1
    BY <2>1, FS_AddElement
  <2>4. Cardinality(Below(S, x) \cup {x}) <= n
    BY <2>1, FS_Subset
  <2>. QED BY <2>2, <2>3, <2>4
<1>3. ASSUME NEW x \in S, NEW y \in S, x < y PROVE Rank(x) < Rank(y)
  <2>1. /\ IsFiniteSet(Below(S, x)) /\ IsFiniteSet(Below(S, y)) /\ x \notin Below(S, x)
        /\ Below(S, x) \cup {x} \subseteq Below(S, y)
    <3>1. (\A z \in S : z < x => z < y) /\ ~(x < x)
      BY <1>3
    <3>2. Below(S, x) \cup {x} \subseteq Below(S, y) /\ x \notin Below(S, x)
      BY <1>3, <3>1 DEF Below
    <3>3. Below(S, x) \subseteq S /\ Below(S, y) \subseteq S
      BY DEF Below
    <3>. QED BY <3>2, <3>3, FS_Subset
  <2>2. Cardinality(Below(S, x) \cup {x}) = Rank(x) + 1
    BY <2>1, FS_AddElement
  <2>3. Cardinality(Below(S, x) \cup {x}) <= Rank(y)
    BY <2>1, FS_Subset
  <2>. QED BY <2>2, <2>3, <1>2
<1>. HIDE DEF n, Rank
<1>4. \A x, y \in S : Rank(x) = Rank(y) => x = y
  <2>. TAKE x, y \in S
  <2>1. x < y \/ y < x \/ x = y
    OBVIOUS
  <2>2. Rank(x) \in Nat /\ Rank(y) \in Nat
    BY <1>2
  <2>. QED BY <2>1, <2>2, <1>3
<1>5. f \in Injection(S, 1..n)
  <2>1. \A x \in S : Rank(x) + 1 \in 1..n
    BY <1>1, <1>2
  <2>2. \A x, y \in S : Rank(x) + 1 = Rank(y) + 1 => x = y
    BY <1>2, <1>4
  <2>3. /\ DOMAIN f = S /\ f = [x \in S |-> f[x]]
        /\ \A x \in S : f[x] = Rank(x) + 1
    OBVIOUS
  <2>. HIDE DEF f
  <2>4. f \in [S -> 1..n] /\ \A x, y \in S : f[x] = f[y] => x = y
    BY <2>1, <2>2, <2>3
  <2>. QED BY <2>3, <2>4 DEF Injection, IsInjective
<1>6. f \in Surjection(S, 1..n)
  <2>1. IsFiniteSet(1..n) /\ Cardinality(1..n) = n
    BY <1>1, FS_Interval
  <2>. HIDE DEF f
  <2>. QED BY <2>1, <1>5, FS_Injection DEF n
<1>7. \A k \in 1..n : s[k] \in S /\ Rank(s[k]) = k - 1
  <2>. TAKE k \in 1..n
  <2>1. PICK x \in S : f[x] = k
    BY <1>6 DEF Surjection
  <2>2. Rank(x) = k - 1
    BY <2>1, <1>2
  <2>3. s[k] = CHOOSE y \in S : Rank(y) = k - 1
    BY DEF InOrder, n, Rank, Below
  <2>. QED BY <2>2, <2>3
<1>8. Len(s) = n /\ DOMAIN s = 1..n
  BY <1>1 DEF InOrder, n
<1>. HIDE DEF s
<1>9. ASSUME NEW k \in 1..n, NEW l \in 1..n, k < l PROVE s[k] < s[l]
  <2>1. s[k] \in S /\ s[l] \in S /\ Rank(s[k]) < Rank(s[l])
    BY <1>7, <1>9
  <2>2. s[k] < s[l] \/ s[l] < s[k] \/ s[k] = s[l]
    <3>1. s[k] \in Nat /\ s[l] \in Nat
      BY <2>1
    <3>. QED BY <3>1
  <2>3. Rank(s[k]) \in Nat /\ Rank(s[l]) \in Nat
    BY <2>1, <1>2
  <2>4. s[l] < s[k] => Rank(s[l]) < Rank(s[k])
    BY <2>1, <1>3
  <2>. QED BY <2>1, <2>2, <2>3, <2>4
<1>10. ASSUME NEW x \in S PROVE \E k \in 1..n : s[k] = x
  <2>1. Rank(x) + 1 \in 1..n /\ Rank(x) \in Nat
    BY <1>1, <1>2
  <2>2. s[Rank(x) + 1] \in S /\ Rank(s[Rank(x) + 1]) = Rank(x)
    BY <2>1, <1>7
  <2>. QED BY <2>1, <2>2, <1>4
<1>. QED
  BY <1>1, <1>7, <1>8, <1>9, <1>10 DEF n, Rank, s

\* The first numbers are their own order.
LEMMA InOrderFromZero ==
  ASSUME NEW N \in Nat
  PROVE  \A k \in 1..N : InOrder(0..(N - 1))[k] = k - 1
<1>. DEFINE S == 0..(N - 1)
<1>1. IsFiniteSet(S) /\ Cardinality(S) = N /\ S \subseteq Nat
  <2>1. 0 \in Int /\ N - 1 \in Int /\ (0 > N - 1 <=> N = 0) /\ (N - 1) - 0 + 1 = N
    OBVIOUS
  <2>. QED BY <2>1, FS_Interval
<1>2. \A x \in S : Below(S, x) = 0..(x - 1) /\ Cardinality(0..(x - 1)) = x
  <2>. TAKE x \in S
  <2>1. Below(S, x) = 0..(x - 1)
    BY DEF Below
  <2>2. 0 \in Int /\ x - 1 \in Int /\ (0 > x - 1 <=> x = 0) /\ (x - 1) - 0 + 1 = x
    OBVIOUS
  <2>. QED BY <2>1, <2>2, FS_Interval
<1>. HIDE DEF S
<1>. SUFFICES ASSUME NEW k \in 1..N PROVE InOrder(S)[k] = k - 1
  BY DEF S
<1>3. InOrder(S)[k] \in S /\ Cardinality(Below(S, InOrder(S)[k])) = k - 1
  BY <1>1, InOrderAt
<1>. QED
  BY <1>2, <1>3

-----------------------------------------------------------------------------
(* The walk along a chain. *)

\* The i-th id getTuples looks for.
Asked(ids, i) == IF ids = <<>> THEN i - 1 ELSE ids[i]

\* n ids that the column has, from the least on.
Served(bs, c, ids, n) ==
  /\ n = IF ids = <<>> THEN RowsOf(bs, c) ELSE Len(ids)
  /\ \A i \in 1..n : Asked(ids, i) \in Nat /\ Seen(bs, DOMAIN bs, c, Asked(ids, i))
  /\ \A i, j \in 1..n : i < j => Asked(ids, i) < Asked(ids, j)

\* The i-th tuple is the cell at the i-th id's place in the block that has it.
Answered(bs, c, ids, n, tuples) ==
  /\ Len(tuples) = n /\ DOMAIN tuples = 1..n
  /\ \A i \in 1..n : \E b \in DOMAIN bs :
       /\ Holds(bs[b], c, Asked(ids, i))
       /\ tuples[i] = bs[b].cells[Asked(ids, i) - bs[b].start + 1]

LEMMA WalkFinds ==
  ASSUME NEW bs \in Seq(Blocks), \A i \in DOMAIN bs : Follows(bs, i), NEW c \in Columns,
         NEW ids, NEW n \in Nat, Served(bs, c, ids, n)
  PROVE  Answered(bs, c, ids, n, getTuples(bs, c, ids))
<1>0. /\ n = IF ids = <<>> THEN RowsOf(bs, c) ELSE Len(ids)
      /\ \A i \in 1..n : Asked(ids, i) \in Nat /\ Seen(bs, DOMAIN bs, c, Asked(ids, i))
      /\ \A i, j \in 1..n : i < j => Asked(ids, i) < Asked(ids, j)
  BY DEF Served
<1>. DEFINE chain == InOrder(Chain(bs, c))
            m == Len(chain)
            has(i, l) == Asked(ids, i) \in bs[chain[l]].start..bs[chain[l]].end
            Holding(i, k) == {l \in k..m : has(i, l)}
            G(g) == [i \in 0..n |->
                      IF i = 0 THEN 1
                      ELSE LET next == Holding(i, g[i - 1])
                           IN  IF next = {} THEN m + 1
                               ELSE CHOOSE l \in next : \A k \in next : l <= k]
            at == CHOOSE g : g = G(g)
            found == {j \in 1..n : at[j] # m + 1}
<1>1. getTuples(bs, c, ids)
        = [i \in 1..Cardinality(found) |->
             bs[chain[at[i]]].cells[Asked(ids, i) - bs[chain[at[i]]].start + 1]]
  BY <1>0 DEF getTuples, Asked
<1>2. /\ m \in Nat
      /\ \A k \in 1..m : /\ chain[k] \in Chain(bs, c) /\ chain[k] \in DOMAIN bs
                         /\ bs[chain[k]].start \in Nat /\ bs[chain[k]].end \in Nat
      /\ \A k, l \in 1..m : k < l => bs[chain[k]].end < bs[chain[l]].start
      /\ \A b \in Chain(bs, c) : \E k \in 1..m : chain[k] = b
  <2>1. /\ Len(bs) \in Nat /\ DOMAIN bs = 1..Len(bs) /\ Chain(bs, c) \subseteq 1..Len(bs)
        /\ \A b \in Chain(bs, c) : bs[b].col = c /\ bs[b].start \in Nat /\ bs[b].end \in Nat
    BY BlocksBounded DEF Bounded, Chain
  <2>2. IsFiniteSet(Chain(bs, c)) /\ Chain(bs, c) \in SUBSET Nat
    <3>1. IsFiniteSet(1..Len(bs))
      BY <2>1, FS_Interval
    <3>. QED BY <2>1, <3>1, FS_Subset
  <2>3. /\ m \in Nat
        /\ \A k \in 1..m : chain[k] \in Chain(bs, c)
        /\ \A k, l \in 1..m : k < l => chain[k] < chain[l]
        /\ \A b \in Chain(bs, c) : \E k \in 1..m : chain[k] = b
    BY <2>2, InOrderAt
  <2>. HIDE DEF chain, m
  <2>4. ASSUME NEW k \in 1..m, NEW l \in 1..m, k < l
        PROVE  bs[chain[k]].end < bs[chain[l]].start
    <3>1. /\ chain[k] \in 1..(chain[l] - 1) /\ chain[l] \in DOMAIN bs
          /\ bs[chain[k]].col = c /\ bs[chain[l]].col = c
      <4>1. chain[k] \in Chain(bs, c) /\ chain[l] \in Chain(bs, c) /\ chain[k] < chain[l]
        BY <2>3, <2>4
      <4>. QED BY <2>1, <4>1
    <3>. QED BY <3>1 DEF Follows
  <2>. QED BY <2>1, <2>3, <2>4
<1>3. ASSUME NEW i \in 1..n
      PROVE  \E k \in 1..m : has(i, k)
  <2>1. PICK b \in DOMAIN bs : Holds(bs[b], c, Asked(ids, i))
    BY <1>0 DEF Seen
  <2>2. b \in Chain(bs, c) /\ Asked(ids, i) \in bs[b].start..bs[b].end
    BY <2>1 DEF Holds, Chain
  <2>. HIDE DEF chain, m
  <2>. QED BY <2>2, <1>2
<1>. DEFINE P(i) == CHOOSE k \in 1..m : has(i, k)
            F == [i \in 0..n |-> IF i = 0 THEN 1 ELSE P(i)]
<1>4. \A i \in 1..n : P(i) \in 1..m /\ has(i, P(i))
  <2>. HIDE DEF has, m
  <2>. QED BY <1>3
<1>5. \A i, j \in 1..n, k, l \in 1..m : has(i, k) /\ has(j, l) /\ l < k => Asked(ids, j) < Asked(ids, i)
  <2>. TAKE i, j \in 1..n, k, l \in 1..m
  <2>. HAVE has(i, k) /\ has(j, l) /\ l < k
  <2>1. /\ bs[chain[l]].end < bs[chain[k]].start
        /\ bs[chain[k]].start \in Nat /\ bs[chain[l]].end \in Nat
    <3>. HIDE DEF chain, m, has
    <3>. QED BY <1>2
  <2>2. /\ Asked(ids, i) \in Nat /\ Asked(ids, j) \in Nat
        /\ Asked(ids, j) <= bs[chain[l]].end /\ bs[chain[k]].start <= Asked(ids, i)
    BY <1>0
  <2>. HIDE DEF chain, m, has
  <2>. QED BY <2>1, <2>2
<1>. HIDE DEF has, P
<1>6. \A i \in 1..n, k \in 1..m : has(i, k) => k = P(i)
  <2>. TAKE i \in 1..n, k \in 1..m
  <2>. HAVE has(i, k)
  <2>1. ~(k < P(i)) /\ ~(P(i) < k)
    <3>. HIDE DEF m
    <3>1. P(i) \in 1..m /\ has(i, P(i)) /\ Asked(ids, i) \in Nat /\ ~(Asked(ids, i) < Asked(ids, i))
      BY <1>0, <1>4
    <3>. QED BY <3>1, <1>5
  <2>2. k \in Int /\ P(i) \in Int
    BY <1>4
  <2>. QED BY <2>1, <2>2
<1>. HIDE DEF chain, m
<1>7. \A i \in 1..n : F[i - 1] \in Nat /\ F[i - 1] >= 1 /\ F[i - 1] <= P(i)
  <2>. TAKE i \in 1..n
  <2>1. CASE i = 1
    BY <2>1, <1>4
  <2>2. CASE i # 1
    <3>1. i - 1 \in 1..n /\ i - 1 < i /\ i - 1 # 0 /\ i - 1 \in 0..n
      BY <2>2
    <3>2. F[i - 1] = P(i - 1) /\ P(i - 1) \in 1..m /\ P(i) \in 1..m
      BY <3>1, <1>4
    <3>3. Asked(ids, i - 1) < Asked(ids, i)
      BY <1>0, <3>1
    <3>4. ~(P(i) < P(i - 1))
      <4>. SUFFICES ASSUME P(i) < P(i - 1) PROVE FALSE
        OBVIOUS
      <4>1. Asked(ids, i) < Asked(ids, i - 1)
        BY <3>1, <1>4, <1>5
      <4>2. Asked(ids, i) \in Nat /\ Asked(ids, i - 1) \in Nat
        BY <1>0, <3>1
      <4>. QED BY <4>1, <4>2, <3>3
    <3>. QED BY <1>2, <3>2, <3>4
  <2>. QED BY <2>1, <2>2
<1>8. \A i \in 1..n : Holding(i, F[i - 1]) = {P(i)}
  <2>. TAKE i \in 1..n
  <2>1. F[i - 1] \in Nat /\ F[i - 1] >= 1 /\ F[i - 1] <= P(i) /\ P(i) \in 1..m /\ has(i, P(i))
    BY <1>4, <1>7
  <2>. HIDE DEF F
  <2>2. \A l \in F[i - 1]..m : l \in 1..m
    BY <2>1, <1>2
  <2>3. P(i) \in F[i - 1]..m
    BY <2>1, <1>2
  <2>. QED BY <2>1, <2>2, <2>3, <1>6
<1>9. F = G(F)
  <2>1. \A i \in 0..n : F[i] = G(F)[i]
    <3>. TAKE i \in 0..n
    <3>1. CASE i = 0
      BY <3>1
    <3>2. CASE i # 0
      <4>1. i \in 1..n
        BY <3>2
      <4>2. Holding(i, F[i - 1]) = {P(i)}
        BY <4>1, <1>8
      <4>3. (CHOOSE l \in {P(i)} : \A k \in {P(i)} : l <= k) = P(i)
        <5>1. P(i) <= P(i)
          BY <4>1, <1>4
        <5>. QED BY <5>1
      <4>4. F[i] = P(i)
        BY <3>2
      <4>. HIDE DEF F, Holding
      <4>. QED BY <3>2, <4>2, <4>3, <4>4
    <3>. QED BY <3>1, <3>2
  <2>. QED BY <2>1
<1>10. at = G(at)
  <2>. HIDE DEF F, G
  <2>. QED BY <1>9
<1>11. at[0] = 1 /\ \A i \in 1..n : at[i - 1] = F[i - 1] => at[i] = F[i]
  <2>1. at[0] = 1
    <3>. HIDE DEF at, Holding
    <3>. QED BY <1>10
  <2>2. ASSUME NEW i \in 1..n, at[i - 1] = F[i - 1] PROVE at[i] = F[i]
    <3>1. i \in 0..n /\ i # 0
      OBVIOUS
    <3>2. at[i] = G(F)[i]
      <4>. HIDE DEF at, Holding, F
      <4>. QED BY <1>10, <3>1, <2>2
    <3>. QED BY <3>1, <3>2, <1>9
  <2>. QED BY <2>1, <2>2
<1>. DEFINE T == {i \in Nat : i <= n => at[i] = F[i]}
<1>12. Nat \subseteq T
  <2>. HIDE DEF at, G
  <2>1. 0 \in T
    BY <1>11
  <2>2. ASSUME NEW i \in Nat, i \in T PROVE i + 1 \in T
    <3>. SUFFICES ASSUME i + 1 <= n PROVE at[i + 1] = F[i + 1]
      OBVIOUS
    <3>1. i + 1 \in 1..n /\ (i + 1) - 1 = i /\ i <= n
      OBVIOUS
    <3>2. at[i] = F[i]
      BY <2>2, <3>1
    <3>. HIDE DEF F
    <3>. QED BY <3>1, <3>2, <1>11
  <2>. HIDE DEF T
  <2>. QED BY <2>1, <2>2, AllNat
<1>. HIDE DEF at, G
<1>13. \A i \in 1..n : at[i] = P(i) /\ at[i] \in 1..m /\ has(i, at[i])
  <2>. TAKE i \in 1..n
  <2>1. i \in Nat /\ i <= n /\ i \in 0..n /\ i # 0
    OBVIOUS
  <2>2. at[i] = F[i]
    BY <2>1, <1>12
  <2>. QED BY <2>1, <2>2, <1>4
<1>14. found = 1..n /\ Cardinality(found) = n
  <2>1. \A j \in 1..n : at[j] # m + 1
    BY <1>2, <1>13
  <2>2. found = 1..n
    BY <2>1
  <2>3. 1 \in Int /\ n \in Int /\ (1 > n <=> n = 0) /\ n - 1 + 1 = n
    OBVIOUS
  <2>4. Cardinality(1..n) = n
    BY <2>3, FS_Interval
  <2>. QED BY <2>2, <2>4
<1>. HIDE DEF found
<1>15. ASSUME NEW i \in 1..n
       PROVE  /\ chain[at[i]] \in DOMAIN bs /\ Holds(bs[chain[at[i]]], c, Asked(ids, i))
  <2>1. at[i] \in 1..m /\ chain[at[i]] \in Chain(bs, c)
    BY <1>2, <1>13
  <2>. QED BY <2>1, <1>13 DEF Chain, Holds, has
<1>16. \A i \in 1..n :
         getTuples(bs, c, ids)[i]
           = bs[chain[at[i]]].cells[Asked(ids, i) - bs[chain[at[i]]].start + 1]
  BY <1>1, <1>14
<1>17. Len(getTuples(bs, c, ids)) = n /\ DOMAIN getTuples(bs, c, ids) = 1..n
  BY <1>1, <1>14
<1>. QED
  BY <1>15, <1>16, <1>17 DEF Answered

\* A column has the ids from 0 to the end of its last block, as many as
\* getTuples says it has rows.
LEMMA ColumnIds ==
  ASSUME NEW bs \in Seq(Blocks), \A i \in DOMAIN bs : Follows(bs, i), NEW c \in Columns
  PROVE  /\ RowsOf(bs, c) \in Nat
         /\ \A n \in 0..(RowsOf(bs, c) - 1) : Seen(bs, DOMAIN bs, c, n)
         /\ \A n : Seen(bs, DOMAIN bs, c, n) => n \in 0..(RowsOf(bs, c) - 1)
<1>. DEFINE ids == UNION {bs[i].start..bs[i].end : i \in Chain(bs, c)}
<1>1. RowsOf(bs, c) = Cardinality(ids)
  BY DEF RowsOf
<1>2. CASE Chain(bs, c) = {}
  <2>1. ids = {}
    BY <1>2
  <2>2. RowsOf(bs, c) = 0
    BY <1>1, <2>1, FS_EmptySet
  <2>3. \A n : ~Seen(bs, DOMAIN bs, c, n)
    BY <1>2 DEF Seen, Holds, Chain
  <2>. QED BY <2>2, <2>3
<1>3. CASE Chain(bs, c) # {}
  <2>. DEFINE l == LastOf(bs, c)
  <2>1. l \in DOMAIN bs /\ bs[l].col = c /\ \A j \in Chain(bs, c) : j <= l
    BY <1>3, LastInChain
  <2>. HIDE DEF l
  <2>2. /\ \A i \in DOMAIN bs : i \in Nat /\ i > 0 /\ bs[i].start \in Nat /\ bs[i].end \in Nat
        /\ DOMAIN bs = 1..Len(bs) /\ Len(bs) \in Nat
    BY BlocksBounded DEF Bounded
  <2>3. \A n \in 0..bs[l].end : Seen(bs, 1..l, c, n)
    BY <2>1 DEF Follows
  <2>4. \A i \in 1..l : i \in DOMAIN bs
    BY <2>1, <2>2
  <2>5. \A n \in 0..bs[l].end : Seen(bs, DOMAIN bs, c, n)
    BY <2>3, <2>4 DEF Seen
  <2>6. ASSUME NEW i \in Chain(bs, c) PROVE bs[i].end <= bs[l].end
    <3>1. i \in DOMAIN bs /\ bs[i].col = c /\ i <= l
      BY <2>1 DEF Chain
    <3>2. CASE i = l
      BY <2>2, <3>1, <3>2
    <3>3. CASE i # l
      <4>1. i \in 1..(l - 1)
        BY <2>1, <2>2, <3>1, <3>3
      <4>2. bs[i].end < bs[l].start /\ bs[l].start <= bs[l].end
        BY <2>1, <3>1, <4>1 DEF Follows
      <4>. QED BY <2>1, <2>2, <3>1, <4>2
    <3>. QED BY <3>2, <3>3
  <2>10. ASSUME NEW n, Seen(bs, DOMAIN bs, c, n) PROVE n \in ids
    <3>1. PICK i \in DOMAIN bs : Holds(bs[i], c, n)
      BY <2>10 DEF Seen
    <3>. QED BY <3>1 DEF Holds, Chain
  <2>7. ids = 0..bs[l].end
    <3>1. ASSUME NEW n \in ids PROVE n \in 0..bs[l].end
      <4>1. PICK i \in Chain(bs, c) : n \in bs[i].start..bs[i].end
        OBVIOUS
      <4>2. i \in DOMAIN bs /\ bs[i].end <= bs[l].end
        BY <2>6 DEF Chain
      <4>. QED BY <4>1, <4>2, <2>1, <2>2
    <3>2. ASSUME NEW n \in 0..bs[l].end PROVE n \in ids
      <4>1. PICK i \in DOMAIN bs : Holds(bs[i], c, n)
        BY <2>5 DEF Seen
      <4>. QED BY <4>1 DEF Holds, Chain
    <3>. QED BY <3>1, <3>2
  <2>. HIDE DEF ids
  <2>8. Cardinality(0..bs[l].end) = bs[l].end + 1
    <3>1. 0 \in Int /\ bs[l].end \in Int /\ ~(0 > bs[l].end) /\ bs[l].end - 0 + 1 = bs[l].end + 1
      BY <2>1, <2>2
    <3>. QED BY <3>1, FS_Interval
  <2>9. RowsOf(bs, c) = bs[l].end + 1 /\ bs[l].end \in Nat
    BY <1>1, <2>1, <2>2, <2>7, <2>8
  <2>11. 0..bs[l].end = 0..(RowsOf(bs, c) - 1)
    BY <2>9
  <2>. QED BY <2>5, <2>7, <2>9, <2>10, <2>11
<1>. QED
  BY <1>2, <1>3

\* A column's rows come back by their ids, for any columns, input files, sizes
\* of blocks and deaths of the process: the walk finds the block of each id,
\* as the blocks share the ids out, and the cell in its place there.
THEOREM TuplesAreTheirIds == Spec => []TuplesMatchIds
<1>1. RowsInv => TuplesMatchIds
  <2>. SUFFICES ASSUME RowsInv, NEW c \in Columns, NEW some \in SUBSET (0..(RowsOf(blocks, c) - 1))
                PROVE  LET ids == 0..(RowsOf(blocks, c) - 1)
                           tuples == getTuples(blocks, c, InOrder(some))
                           wanted == IF some = {} THEN ids ELSE some
                       IN  /\ Len(tuples) = Cardinality(wanted)
                           /\ \A k \in DOMAIN tuples :
                                tuples[k] # Zero => tuples[k].id = InOrder(wanted)[k]
    BY DEF TuplesMatchIds
  <2>. DEFINE N == RowsOf(blocks, c)
              wanted == IF some = {} THEN 0..(N - 1) ELSE some
              given == InOrder(some)
              n == Cardinality(wanted)
              tuples == getTuples(blocks, c, given)
  <2>1. /\ blocks \in Seq(Blocks)
        /\ \A i \in DOMAIN blocks : Follows(blocks, i) /\ InPlace(blocks[i])
    BY DEF RowsInv, Inv, TypeOK, Chained
  <2>2. N \in Nat /\ \A k \in 0..(N - 1) : Seen(blocks, DOMAIN blocks, c, k)
    BY <2>1, ColumnIds
  <2>. HIDE DEF N
  <2>3. /\ IsFiniteSet(0..(N - 1)) /\ Cardinality(0..(N - 1)) = N
        /\ IsFiniteSet(some) /\ some \in SUBSET Nat
    <3>1. 0 \in Int /\ N - 1 \in Int /\ (0 > N - 1 <=> N = 0) /\ (N - 1) - 0 + 1 = N
      BY <2>2
    <3>2. IsFiniteSet(0..(N - 1)) /\ Cardinality(0..(N - 1)) = N
      BY <3>1, FS_Interval
    <3>3. some \subseteq 0..(N - 1) /\ some \in SUBSET Nat
      <4>1. some \subseteq 0..(N - 1)
        BY DEF N
      <4>. QED BY <4>1
    <3>4. IsFiniteSet(some)
      BY <3>2, <3>3, FS_Subset
    <3>. QED BY <3>2, <3>3, <3>4
  <2>4. /\ Cardinality(some) \in Nat
        /\ Len(given) = Cardinality(some) /\ DOMAIN given = 1..Cardinality(some)
        /\ \A k \in 1..Cardinality(some) : given[k] \in some
        /\ \A k, l \in 1..Cardinality(some) : k < l => given[k] < given[l]
    BY <2>3, InOrderAt
  <2>5. given = <<>> <=> some = {}
    <3>1. some = {} <=> Cardinality(some) = 0
      BY <2>3, FS_EmptySet
    <3>2. Cardinality(some) = 0 => given = <<>>
      BY DEF InOrder
    <3>3. given = <<>> => Len(given) = 0
      OBVIOUS
    <3>. HIDE DEF given
    <3>. QED BY <3>1, <3>2, <3>3, <2>4
  <2>6. /\ n \in Nat /\ n = IF given = <<>> THEN N ELSE Len(given)
        /\ \A i \in 1..n : Asked(given, i) = InOrder(wanted)[i] /\ Asked(given, i) \in 0..(N - 1)
        /\ \A i, j \in 1..n : i < j => Asked(given, i) < Asked(given, j)
    <3>1. CASE some = {}
      <4>1. /\ wanted = 0..(N - 1) /\ n = N /\ given = <<>>
            /\ \A i \in 1..N : InOrder(0..(N - 1))[i] = i - 1
        BY <3>1, <2>2, <2>3, <2>5, InOrderFromZero
      <4>. HIDE DEF wanted, n, given
      <4>. QED BY <4>1, <2>2 DEF Asked
    <3>2. CASE some # {}
      <4>1. wanted = some /\ n = Cardinality(some) /\ given # <<>> /\ given = InOrder(some)
        BY <3>2, <2>5
      <4>2. some \subseteq 0..(N - 1)
        BY DEF N
      <4>. HIDE DEF wanted, n, given
      <4>. QED BY <4>1, <4>2, <2>4 DEF Asked
    <3>. QED BY <3>1, <3>2
  <2>. HIDE DEF wanted, given, n
  <2>7. \A i \in 1..n : Asked(given, i) \in Nat /\ Seen(blocks, DOMAIN blocks, c, Asked(given, i))
    BY <2>2, <2>6
  <2>8. /\ Len(tuples) = n /\ DOMAIN tuples = 1..n
        /\ \A i \in 1..n : \E b \in DOMAIN blocks :
             /\ Holds(blocks[b], c, Asked(given, i))
             /\ tuples[i] = blocks[b].cells[Asked(given, i) - blocks[b].start + 1]
    <3>1. Served(blocks, c, given, n)
      BY <2>6, <2>7 DEF Served, N
    <3>2. \A i \in DOMAIN blocks : Follows(blocks, i)
      BY <2>1
    <3>3. n \in Nat
      BY <2>6
    <3>. HIDE DEF tuples
    <3>4. Answered(blocks, c, given, n, tuples)
      BY <2>1, <3>1, <3>2, <3>3, WalkFinds DEF tuples
    <3>. QED BY <3>4 DEF Answered
  <2>. HIDE DEF tuples
  <2>9. ASSUME NEW k \in 1..n, tuples[k] # Zero PROVE tuples[k].id = InOrder(wanted)[k]
    <3>. DEFINE id == Asked(given, k)
    <3>1. PICK b \in DOMAIN blocks : /\ Holds(blocks[b], c, id)
                                     /\ tuples[k] = blocks[b].cells[id - blocks[b].start + 1]
      BY <2>8
    <3>2. id \in Nat /\ id = InOrder(wanted)[k]
      BY <2>6, <2>7
    <3>. HIDE DEF id
    <3>3. /\ blocks[b].start \in Nat /\ blocks[b].end \in Nat /\ blocks[b].cells \in Seq(Values)
          /\ Len(blocks[b].cells) \in Nat /\ DOMAIN blocks[b].cells = 1..Len(blocks[b].cells)
      <4>1. blocks[b] \in Blocks
        BY <2>1
      <4>2. \A x \in Blocks : x.start \in Nat /\ x.end \in Nat /\ x.cells \in Seq(Values)
        BY DEF Blocks
      <4>. QED BY <4>1, <4>2
    <3>4. /\ blocks[b].col \in Columns /\ blocks[b].start <= id /\ id <= blocks[b].end
      BY <3>1, <3>2, <3>3 DEF Holds
    <3>5. /\ Len(blocks[b].cells) = blocks[b].end - blocks[b].start + 1
          /\ \A j \in DOMAIN blocks[b].cells :
               blocks[b].cells[j] = Zero \/ blocks[b].cells[j].id = blocks[b].start + j - 1
      BY <2>1, <3>4 DEF InPlace
    <3>6. /\ id - blocks[b].start + 1 \in 1..Len(blocks[b].cells)
          /\ blocks[b].start + (id - blocks[b].start + 1) - 1 = id
      BY <3>2, <3>3, <3>4, <3>5
    <3>. QED BY <2>9, <3>1, <3>2, <3>3, <3>5, <3>6
  <2>. QED BY <2>8, <2>9 DEF tuples, wanted, given, n, N
<1>. QED
  BY <1>1, RowsInvariance, PTL

=============================================================================
