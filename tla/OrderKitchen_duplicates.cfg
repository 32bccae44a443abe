CONSTANTS
  Orders = {o1}
  Deliveries = {d1, d2, d3, d4}
  Readers = {}
  NoOrder = NoOrder
  Concurrency = 2
  MaxRetries = 1
  Limit <- Redelivered
SPECIFICATION FairSpec
INVARIANT NoOrderDropped
PROPERTIES KeepsLoosePromise DeliveredOrderSettles
CHECK_DEADLOCK FALSE
