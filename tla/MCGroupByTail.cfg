CONSTANTS
  NumThreads = 2
  LatRes = 2
  LonRes = 3
  Unit = 2
  Filters <- MCFilters
  Answers <- MCAnswers
  PolyCt = 3
  FilterBy <- MCFilterBy
  PolyAnswers <- MCPolyAnswers
SPECIFICATION Spec
INVARIANT EveryRowCounted
