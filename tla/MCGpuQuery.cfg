CONSTANTS
  NumDevices = 2
  NumBlocks = 5
  Queries <- MCQueries
  Hits <- MCHits
  Base <- MCBase
  Room <- MCRoom
  Types = {"RT_CPU", "RT_CUDA", "RT_CUDA_IM", "RT_CUDA_PARTIAL", "RT_CUDA_PARTIAL_IM"}
  QueueSize = 2
  MaxBatch = 3
  BlockRecords = 2
  MaxRequests = 3
  MaxStarts = 1
SPECIFICATION FairSpec
INVARIANTS
  TypeOK
  PartsAreOfTheRequest
  AnswersExact
  DevicesHaveRoom
  NothingLeftBehind
PROPERTIES
  HostReturns
\* Too long a batch or a refused request leaves the host waiting for good.
CHECK_DEADLOCK FALSE
