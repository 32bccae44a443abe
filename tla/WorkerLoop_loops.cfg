CONSTANTS
  Orders = {o1, o2, o3}
  Workers = {w1}
  NoOrder = NoOrder
  MaxRetries = 1
  Limit <- NoFaults
SPECIFICATION Spec
INVARIANT FailedMeansUnprocessable
CHECK_DEADLOCK FALSE
