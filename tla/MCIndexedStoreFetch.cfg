CONSTANTS
  MaxRecords = 2
  Size = 1
  Keys = {0, 1, 2}
  Lengths = {3}
  MaxBuilds = 1
  Blocks <- MCDistinctBlocks
SPECIFICATION StoreSpec
INVARIANT EveryProcessReadsItsRows
