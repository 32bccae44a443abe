---------------------------- MODULE WorkerLoopMC ----------------------------
(* TLC's instances of WorkerLoop and what the documentation says of it.    *)
EXTENDS WorkerLoop

SomeFaults == [crash |-> 1, error |-> 2, broker |-> 1]
NoFaults == [crash |-> 0, error |-> 0, broker |-> 0]

\* "The DLQ handler sets it to FAILED if the worker cannot process it"
\* (models/order.py): with the database up and nothing going wrong no order
\* becomes FAILED.
FailedMeansUnprocessable ==
  (\A k \in FaultKinds : used[k] = 0) => In("FAILED") = {}

=============================================================================
