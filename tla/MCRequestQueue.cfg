CONSTANTS
  p1 = p1
  p2 = p2
  c1 = c1
  k1 = k1
  Pushers <- MCPushers
  Poppers <- MCPoppers
  Takers <- MCTakers
  States = {"RS_DONE"}
  MaxSize = 2
  MaxPushes = 2
SPECIFICATION FairSpec
INVARIANTS
  TypeOK
  NoLostPushWakeup
  NoLostPopWakeup
PROPERTIES
  ImplementsFifo
  EveryRequestDelivered
