CONSTANTS
  Orders = {o1}
  Deliveries = {d1, d2}
  Readers = {p1}
  NoOrder = NoOrder
  Concurrency = 2
  MaxRetries = 1
  Limit <- LostPublish
SPECIFICATION FairSpec
PROPERTY CommittedOrderSettles
