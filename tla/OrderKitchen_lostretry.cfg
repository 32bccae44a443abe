CONSTANTS
  Orders = {o1}
  Deliveries = {d1, d2}
  Readers = {p1}
  NoOrder = NoOrder
  Concurrency = 2
  MaxRetries = 1
  Limit <- LostRetry
SPECIFICATION Spec
INVARIANT FailedIsNotLost
