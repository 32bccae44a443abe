CONSTANTS
  Orders = {o1}
  Deliveries = {d1, d2}
  Readers = {p1}
  NoOrder = NoOrder
  Concurrency = 2
  MaxRetries = 1
  Limit <- OneDelivery
SPECIFICATION FairSpec
INVARIANTS TypeOK SingleHandler CacheNeverAhead TombstoneMeansSettled NoOrderDropped
PROPERTIES LegalTransitions KeepsPromise DeliveredOrderSettles CacheSettles
