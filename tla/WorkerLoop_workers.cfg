CONSTANTS
  Orders = {o1, o2, o3}
  Workers = {w1, w2}
  NoOrder = NoOrder
  MaxRetries = 1
  Limit <- SomeFaults
SPECIFICATION FairSpec
INVARIANTS TypeOK FailuresNeedFinishedOrders UnmarkedNeedsError
PROPERTY EveryOrderSettles
CHECK_DEADLOCK FALSE
