--------------------------- MODULE OrderKitchenMC ---------------------------
(* Instances of OrderKitchen for TLC: fault budgets.                       *)
EXTENDS OrderKitchen

Budget(crash, duplicate, dbErrors, cacheErrors, broker) ==
  [k \in FaultKinds |->
     CASE k = "crash"     -> crash
       [] k = "duplicate" -> duplicate
       [] k = "db"        -> dbErrors
       [] k = "cache"     -> cacheErrors
       [] k = "broker"    -> broker]

\* One live delivery per order; database errors up to the point where
\* on_failure's own write is lost as well.
OneDelivery == Budget(1, 0, 3, 1, 1)

\* The broker delivers a message twice, or a worker dies between publishing a
\* retry and acknowledging its own message.
Redelivered == Budget(0, 1, 1, 0, 0)

OnlyRedelivered == Budget(0, 1, 0, 0, 0)
LostPublish     == Budget(1, 0, 0, 0, 1)
LostRetry       == Budget(0, 0, 1, 0, 1)

-----------------------------------------------------------------------------
(* Statements of the repository that the code does not keep.               *)

\* "Any other transition - including READY -> anything, FAILED -> anything,
\* and backwards transitions - raises ValueError": a status once READY or
\* FAILED never changes (order_service.py:311-312).
TerminalIsFinal ==
  [][\A o \in Orders : db[o] \in Terminal => db'[o] = db[o]]_db

\* "If Celery is unavailable, this raises - the order is already in PENDING
\* state in Postgres and can be requeued manually or picked up on worker
\* restart" (order_service.py:191-192): a committed order gets cooked.
CommittedOrderSettles ==
  \A o \in Orders : (db[o] = "PENDING") ~> (db[o] \in Terminal)

\* "Prevents silent failures - a failed order ends up in FAILED state, not lost"
\* (foundations.md:53-54): once its task is with the broker, an order is READY
\* or FAILED, or somebody still has it in hand.
FailedIsNotLost ==
  \A o \in Orders :
    api[o] \in {"enqueued", "accepted"} =>
      db[o] \in Terminal \/ \E d \in Active : job[d].order = o

=============================================================================
