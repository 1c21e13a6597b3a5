CONSTANTS
  MaxRecords = 2
  Size = 1
  Keys = {0, 1, 2}
  Lengths = {1, 3, 4}
  MaxBuilds = 2
  Blocks <- MCBlocks
SPECIFICATION StoreSpec
INVARIANTS
  StoreTypeOK
  AnswersAreOfTheInput
  RestartedProcessReadsItsRows
