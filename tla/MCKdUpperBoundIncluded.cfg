CONSTANTS
  MaxRecords = 2
  Size = 2
  Keys = {0, 1}
  MaxLen = 5
  Blocks <- MCBlocks
SPECIFICATION Spec
INVARIANT UpperBoundIncluded
