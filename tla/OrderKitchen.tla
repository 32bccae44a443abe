---------------------------- MODULE OrderKitchen ----------------------------
(* The life of an order across the API, Postgres, the Celery broker, the   *)
(* kitchen workers and the Redis status cache:                             *)
(*   order_service.create_order, update_order_status, get_order_status     *)
(*   tasks/kitchen.py  process_order, KitchenTask.on_failure, order_failed *)
(*   core/cache.py     the order:status:{id} entries                       *)
(*   core/celery_app.py late acknowledgement, rejection on worker loss     *)
(* Every await is a step of its own.  A kitchen task is followed from the  *)
(* delivery of its message: a delivery is queued, taken by a worker, run   *)
(* to its acknowledgement, and may be put back by a crash.                 *)
EXTENDS Naturals, FiniteSets, OrderStatus

CONSTANTS
  Orders,       \* orders customers may place
  Deliveries,   \* slots for messages of kitchen.orders that are not yet acknowledged
  Readers,      \* callers of get_order_status
  NoOrder,      \* the order of an empty slot
  Concurrency,  \* worker processes
  MaxRetries,   \* max_retries of process_order (1 in the code)
  Limit         \* how many faults of each kind a behaviour may have

\* "crash": the loss of a process; "duplicate": the broker comes to hold a message
\* twice; "db", "cache": an error of Postgres or Redis; "broker": a publish whose
\* call raises.
FaultKinds == {"crash", "duplicate", "db", "cache", "broker"}

ASSUME NoOrderAssumption == NoOrder \notin Orders
ASSUME NumbersAssumption == /\ MaxRetries \in Nat
                            /\ Concurrency \in Nat \ {0}
ASSUME LimitAssumption == Limit \in [FaultKinds -> Nat]

VARIABLES
  db,      \* orders.status in Postgres, None when there is no row
  cache,   \* order:status:{id} in Redis
  api,     \* how far POST /orders has got for each order
  job,     \* the deliveries of kitchen.process_order
  reader,  \* the polls in progress, and the answer last given
  dlq,     \* orders whose tombstone waits in kitchen.dlq
  buried,  \* orders for which a tombstone was ever dispatched (history)
  used     \* faults so far, of each kind (bounded by Limit)

vars == <<db, cache, api, job, reader, dlq, buried, used>>

ApiSteps == {"new", "committed", "enqueued", "accepted", "error"}

\* Where a delivery is: in the queue, or at the next await of its worker.
JobSteps == {"free", "queued", "guard", "select", "commit", "del", "setex",
             "reload", "prep", "raise", "tombstone", "ack", "ackRetry"}

Job == [pc : JobSteps,
        order : Orders \cup {NoOrder},
        retries : 0..MaxRetries,  \* request.retries of the message
        target : MaybeStatus,   \* new_status of the update_order_status call
        wrote : BOOLEAN,        \* the session still holds the Order it made PREPARING
        held : BOOLEAN]         \* the worker holds the unacknowledged message

Reader == [pc : {"idle", "miss", "fill"},
           order : Orders \cup {NoOrder},
           status : MaybeStatus]

TypeOK ==
  /\ db \in [Orders -> MaybeStatus]
  /\ cache \in [Orders -> MaybeStatus]
  /\ api \in [Orders -> ApiSteps]
  /\ job \in [Deliveries -> Job]
  /\ reader \in [Readers -> Reader]
  /\ dlq \subseteq Orders
  /\ buried \subseteq Orders
  /\ used \in [FaultKinds -> Nat]
  /\ \A k \in FaultKinds : used[k] <= Limit[k]
  /\ \A d \in Deliveries : job[d].pc = "free" \/ job[d].order \in Orders
  /\ \A p \in Readers : \/ reader[p].order \in Orders
                        \/ reader[p].pc = "idle" /\ reader[p].status = None

FreeSlot == [pc |-> "free", order |-> NoOrder, retries |-> 0,
             target |-> None, wrote |-> FALSE, held |-> FALSE]

\* A message of kitchen.orders waiting for a worker.
Message(o, r) == [FreeSlot EXCEPT !.pc = "queued", !.order = o, !.retries = r]

Init ==
  /\ db = [o \in Orders |-> None]
  /\ cache = [o \in Orders |-> None]
  /\ api = [o \in Orders |-> "new"]
  /\ job = [d \in Deliveries |-> FreeSlot]
  /\ reader = [p \in Readers |-> [pc |-> "idle", order |-> NoOrder, status |-> None]]
  /\ dlq = {}
  /\ buried = {}
  /\ used = [k \in FaultKinds |-> 0]

Fault(k) == /\ used[k] < Limit[k]
            /\ used' = [used EXCEPT ![k] = @ + 1]

NoFault == UNCHANGED used

Running == {d \in Deliveries : job[d].pc \notin {"free", "queued"}}

Free == {d \in Deliveries : job[d].pc = "free"}

-----------------------------------------------------------------------------
(* POST /orders: create_order                                              *)

\* Order and items are committed as PENDING.  (A rejected request raises
\* before anything is written: it changes nothing here.)
Place(o) ==
  /\ api[o] = "new"
  /\ db' = [db EXCEPT ![o] = "PENDING"]
  /\ api' = [api EXCEPT ![o] = "committed"]
  /\ NoFault
  /\ UNCHANGED <<cache, job, reader, dlq, buried>>

\* The commit raises; the row may be there all the same when only the reply
\* was lost.
PlaceFails(o) ==
  /\ api[o] = "new"
  /\ Fault("db")
  /\ \E s \in {None, "PENDING"} : db' = [db EXCEPT ![o] = s]
  /\ api' = [api EXCEPT ![o] = "error"]
  /\ UNCHANGED <<cache, job, reader, dlq, buried>>

\* process_order.delay(order.id), after the commit.
Enqueue(o) ==
  /\ api[o] = "committed"
  /\ \E d \in Free : job' = [job EXCEPT ![d] = Message(o, 0)]
  /\ api' = [api EXCEPT ![o] = "enqueued"]
  /\ NoFault
  /\ UNCHANGED <<db, cache, reader, dlq, buried>>

\* delay raises; the message may have reached the broker.
EnqueueFails(o) ==
  /\ api[o] = "committed"
  /\ Fault("broker")
  /\ \/ \E d \in Free : job' = [job EXCEPT ![d] = Message(o, 0)]
     \/ UNCHANGED job
  /\ api' = [api EXCEPT ![o] = "error"]
  /\ UNCHANGED <<db, cache, reader, dlq, buried>>

\* The order is reloaded for the 201; that read may fail and give a 500.
Respond(o) ==
  /\ api[o] = "enqueued"
  /\ \/ NoFault /\ api' = [api EXCEPT ![o] = "accepted"]
     \/ Fault("db") /\ api' = [api EXCEPT ![o] = "error"]
  /\ UNCHANGED <<db, cache, job, reader, dlq, buried>>

\* The API process dies with the request in hand.
ApiCrash(o) ==
  /\ api[o] \in {"committed", "enqueued"}
  /\ Fault("crash")
  /\ api' = [api EXCEPT ![o] = "error"]
  /\ UNCHANGED <<db, cache, job, reader, dlq, buried>>

-----------------------------------------------------------------------------
(* The broker and the worker pool                                          *)

\* A worker process takes the message; it is acknowledged only at the end.
Receive(d) ==
  /\ job[d].pc = "queued"
  /\ Cardinality(Running) < Concurrency
  /\ job' = [job EXCEPT ![d].pc = "guard", ![d].held = TRUE]
  /\ NoFault
  /\ UNCHANGED <<db, cache, api, reader, dlq, buried>>

\* Mutant: acks_late off, the message died with its worker.
CrashLosesMessage(d) ==
  /\ d \in Running
  /\ Fault("crash")
  /\ job' = [job EXCEPT ![d] = FreeSlot]
  /\ UNCHANGED <<db, cache, api, reader, dlq, buried>>

\* The worker process is lost.  A message it held is put back with the same
\* retry count; if its retry was already published there are now two, and the
\* loss counts as a duplicate.
Crash(d) ==
  LET again == job[d].held /\ job[d].pc = "ackRetry"
  IN
  /\ d \in Running
  /\ Fault(IF again THEN "duplicate" ELSE "crash")
  /\ job' = [job EXCEPT ![d] = IF job[d].held
                                 THEN Message(job[d].order, job[d].retries)
                                 ELSE FreeSlot]
  /\ UNCHANGED <<db, cache, api, reader, dlq, buried>>

\* The broker gives the message of a live worker to another one: the
\* connection was lost, or the visibility timeout ran out.
Redeliver(d) ==
  /\ d \in Running
  /\ job[d].held
  /\ Fault("duplicate")
  /\ \E e \in Free :
       job' = [job EXCEPT ![d].held = FALSE,
                          ![e] = Message(job[d].order, job[d].retries)]
  /\ UNCHANGED <<db, cache, api, reader, dlq, buried>>

\* The worker consumes kitchen.dlq too (it is started without -Q);
\* order_failed logs the tombstone and it is gone.
LogTombstone(o) ==
  /\ o \in dlq
  /\ dlq' = dlq \ {o}
  /\ NoFault
  /\ UNCHANGED <<db, cache, api, job, reader, buried>>

-----------------------------------------------------------------------------
(* update_order_status, called with job[d].target                          *)

\* Where an exception takes the task: on_failure swallows it and goes on to
\* the tombstone, process_order raises it to retry.
Excepted(d) == IF job[d].target = "FAILED" THEN "tombstone" ELSE "raise"

Raises(d) == [job EXCEPT ![d].pc = Excepted(d), ![d].wrote = FALSE]

\* What SELECT Order yields: the committed status, or the one of the Order
\* still in the session's identity map, which the SELECT does not refresh.
Visible(d) == {db[job[d].order]} \cup (IF job[d].wrote THEN {"PREPARING"} ELSE {})

\* The row is read without a lock and the transition is checked on what was read.
SelectOrder(d) ==
  /\ job[d].pc = "select"
  /\ \E s \in Visible(d) :
       job' = IF CanBecome(s, job[d].target)
                THEN [job EXCEPT ![d].pc = "commit"]
                ELSE Raises(d)
  /\ NoFault
  /\ UNCHANGED <<db, cache, api, reader, dlq, buried>>

\* Mutant: the status is assigned and cached but the session never committed.
CommitForgotten(d) ==
  /\ job[d].pc = "commit"
  /\ job' = [job EXCEPT ![d].pc = "del", ![d].wrote = (job[d].target = "PREPARING")]
  /\ NoFault
  /\ UNCHANGED <<db, cache, api, reader, dlq, buried>>

\* The new status is written, whatever the row holds by now.
Commit(d) ==
  /\ job[d].pc = "commit"
  /\ db' = [db EXCEPT ![job[d].order] = job[d].target]
  /\ job' = [job EXCEPT ![d].pc = "del", ![d].wrote = (job[d].target = "PREPARING")]
  /\ NoFault
  /\ UNCHANGED <<cache, api, reader, dlq, buried>>

\* Mutant: the error of the commit is swallowed and the cache refreshed.
CommitErrorSwallowed(d) ==
  /\ job[d].pc = "commit"
  /\ Fault("db")
  /\ \/ db' = [db EXCEPT ![job[d].order] = job[d].target]
     \/ UNCHANGED db
  /\ job' = [job EXCEPT ![d].pc = "del", ![d].wrote = (job[d].target = "PREPARING")]
  /\ UNCHANGED <<cache, api, reader, dlq, buried>>

\* The commit raises; the row may have been written.
CommitFails(d) ==
  /\ job[d].pc = "commit"
  /\ Fault("db")
  /\ \/ db' = [db EXCEPT ![job[d].order] = job[d].target]
     \/ UNCHANGED db
  /\ job' = Raises(d)
  /\ UNCHANGED <<cache, api, reader, dlq, buried>>

\* invalidate_order_status_cache: a Redis error is swallowed.
DropCache(d) ==
  /\ job[d].pc = "del"
  /\ \/ NoFault /\ cache' = [cache EXCEPT ![job[d].order] = None]
     \/ Fault("cache") /\ UNCHANGED cache
  /\ job' = [job EXCEPT ![d].pc = "setex"]
  /\ UNCHANGED <<db, api, reader, dlq, buried>>

\* set_cached_order_status: a Redis error is swallowed.
FillCache(d) ==
  /\ job[d].pc = "setex"
  /\ \/ NoFault /\ cache' = [cache EXCEPT ![job[d].order] = job[d].target]
     \/ Fault("cache") /\ UNCHANGED cache
  /\ job' = [job EXCEPT ![d].pc = "reload"]
  /\ UNCHANGED <<db, api, reader, dlq, buried>>

\* Where the caller of update_order_status goes on.
Returned(d) == CASE job[d].target = "PREPARING" -> "prep"
                 [] job[d].target = "FAILED"    -> "tombstone"
                 [] OTHER                       -> "ack"

\* The order is read again for the result, which no caller uses.
Reload(d) ==
  /\ job[d].pc = "reload"
  /\ job' = [job EXCEPT ![d].pc = Returned(d)]
  /\ NoFault
  /\ UNCHANGED <<db, cache, api, reader, dlq, buried>>

\* Any of the task's reads may raise.
ReadFails(d) ==
  /\ job[d].pc \in {"guard", "select", "reload"}
  /\ Fault("db")
  /\ job' = Raises(d)
  /\ UNCHANGED <<db, cache, api, reader, dlq, buried>>

-----------------------------------------------------------------------------
(* process_order and KitchenTask.on_failure                                *)

\* Mutant: the guard takes PREPARING for the work of somebody else.
AfterGuardSkipsPreparing(s) ==
  CASE s = None      -> "raise"
    [] s = "PENDING" -> "select"
    [] OTHER         -> "ack"

AfterGuard(s) == CASE s = None      -> "raise"
                   [] s = "READY"   -> "ack"
                   [] s = "PENDING" -> "select"
                   [] OTHER         -> "prep"

\* The idempotency guard: what is left to do is decided from one read.
ReadGuard(d) ==
  /\ job[d].pc = "guard"
  /\ job' = [job EXCEPT ![d].pc = AfterGuard(db[job[d].order]),
                        ![d].target = "PREPARING"]
  /\ NoFault
  /\ UNCHANGED <<db, cache, api, reader, dlq, buried>>

\* The prep time passes; next comes update_order_status(READY).
Prepare(d) ==
  /\ job[d].pc = "prep"
  /\ job' = [job EXCEPT ![d].pc = "select", ![d].target = "READY"]
  /\ NoFault
  /\ UNCHANGED <<db, cache, api, reader, dlq, buried>>

\* Mutant: the message is given back to the queue as well as retried.
RetryRequeuesToo(d) ==
  /\ job[d].pc = "raise"
  /\ job[d].retries < MaxRetries
  /\ \E e \in Free :
       job' = [job EXCEPT ![d] = Message(job[d].order, job[d].retries),
                          ![e] = Message(job[d].order, job[d].retries + 1)]
  /\ NoFault
  /\ UNCHANGED <<db, cache, api, reader, dlq, buried>>

\* Mutant: one retry too many.
RetryOnceMore(d) ==
  /\ job[d].pc = "raise"
  /\ job[d].retries <= MaxRetries
  /\ \E e \in Free :
       job' = [job EXCEPT ![d].pc = "ackRetry",
                          ![e] = Message(job[d].order, job[d].retries + 1)]
  /\ NoFault
  /\ UNCHANGED <<db, cache, api, reader, dlq, buried>>

\* self.retry: a new message is published, the old one still to be acknowledged.
Retry(d) ==
  /\ job[d].pc = "raise"
  /\ job[d].retries < MaxRetries
  /\ \E e \in Free :
       job' = [job EXCEPT ![d].pc = "ackRetry",
                          ![e] = Message(job[d].order, job[d].retries + 1)]
  /\ NoFault
  /\ UNCHANGED <<db, cache, api, reader, dlq, buried>>

\* Publishing the retry fails: Celery rejects the message without requeueing
\* it and never calls on_failure.  The retry may have reached the broker.
RetryFails(d) ==
  /\ job[d].pc = "raise"
  /\ job[d].retries < MaxRetries
  /\ Fault("broker")
  /\ \/ \E e \in Free :
          job' = [job EXCEPT ![d] = FreeSlot,
                             ![e] = Message(job[d].order, job[d].retries + 1)]
     \/ job' = [job EXCEPT ![d] = FreeSlot]
  /\ UNCHANGED <<db, cache, api, reader, dlq, buried>>

\* Mutant: on_failure dispatches the tombstone and leaves the status alone.
OnFailureWithoutUpdate(d) ==
  /\ job[d].pc = "raise"
  /\ job[d].retries >= MaxRetries
  /\ job' = [job EXCEPT ![d].pc = "tombstone", ![d].target = "FAILED"]
  /\ NoFault
  /\ UNCHANGED <<db, cache, api, reader, dlq, buried>>

\* The retries are exhausted: on_failure starts with update_order_status(FAILED).
OnFailure(d) ==
  /\ job[d].pc = "raise"
  /\ job[d].retries >= MaxRetries
  /\ job' = [job EXCEPT ![d].pc = "select", ![d].target = "FAILED"]
  /\ NoFault
  /\ UNCHANGED <<db, cache, api, reader, dlq, buried>>

\* on_failure dispatches the tombstone, whatever became of the write.
Tombstone(d) ==
  /\ job[d].pc = "tombstone"
  /\ \/ /\ NoFault
        /\ dlq' = dlq \cup {job[d].order}
        /\ buried' = buried \cup {job[d].order}
     \/ Fault("broker") /\ UNCHANGED <<dlq, buried>>
  /\ job' = [job EXCEPT ![d].pc = "ack"]
  /\ UNCHANGED <<db, cache, api, reader>>

Acknowledge(d) ==
  /\ job[d].pc \in {"ack", "ackRetry"}
  /\ job' = [job EXCEPT ![d] = FreeSlot]
  /\ NoFault
  /\ UNCHANGED <<db, cache, api, reader, dlq, buried>>

-----------------------------------------------------------------------------
(* get_order_status and the entries of Redis                               *)

\* Cache hit: the cached status is the answer.
PollHit(p, o) ==
  /\ reader[p].pc = "idle"
  /\ cache[o] # None
  /\ reader' = [reader EXCEPT ![p].order = o, ![p].status = cache[o]]
  /\ NoFault
  /\ UNCHANGED <<db, cache, api, job, dlq, buried>>

\* Cache miss, or a Redis error that get_cached_order_status turns into one.
PollMiss(p, o) ==
  /\ reader[p].pc = "idle"
  /\ \/ NoFault /\ cache[o] = None
     \/ Fault("cache")
  /\ reader' = [reader EXCEPT ![p] = [pc |-> "miss", order |-> o, status |-> None]]
  /\ UNCHANGED <<db, cache, api, job, dlq, buried>>

\* SELECT status: no row is the answer None, a status is cached first.
PollRead(p) ==
  /\ reader[p].pc = "miss"
  /\ LET s == db[reader[p].order]
     IN reader' = [reader EXCEPT ![p].pc = IF s = None THEN "idle" ELSE "fill",
                                 ![p].status = s]
  /\ NoFault
  /\ UNCHANGED <<db, cache, api, job, dlq, buried>>

PollReadFails(p) ==
  /\ reader[p].pc = "miss"
  /\ Fault("db")
  /\ reader' = [reader EXCEPT ![p].pc = "idle"]
  /\ UNCHANGED <<db, cache, api, job, dlq, buried>>

\* The status read before is cached, then returned.
PollFill(p) ==
  /\ reader[p].pc = "fill"
  /\ \/ NoFault /\ cache' = [cache EXCEPT ![reader[p].order] = reader[p].status]
     \/ Fault("cache") /\ UNCHANGED cache
  /\ reader' = [reader EXCEPT ![p].pc = "idle"]
  /\ UNCHANGED <<db, api, job, dlq, buried>>

\* Mutant: SET without a time to live, nothing ever expires.
ExpireNever(o) ==
  /\ cache[o] \notin MaybeStatus
  /\ cache' = [cache EXCEPT ![o] = None]
  /\ NoFault
  /\ UNCHANGED <<db, api, job, reader, dlq, buried>>

\* SETEX ... 60: every entry goes within a minute.
Expire(o) ==
  /\ cache[o] # None
  /\ cache' = [cache EXCEPT ![o] = None]
  /\ NoFault
  /\ UNCHANGED <<db, api, job, reader, dlq, buried>>

-----------------------------------------------------------------------------

ApiStep(o) == Enqueue(o) \/ EnqueueFails(o) \/ Respond(o)

\* A step of update_order_status on behalf of delivery d.
UpdateStep(d) ==
  \/ SelectOrder(d) \/ Commit(d) \/ CommitFails(d)
  \/ DropCache(d) \/ FillCache(d) \/ Reload(d) \/ ReadFails(d)

TaskStep(d) ==
  \/ ReadGuard(d) \/ Prepare(d) \/ Retry(d) \/ RetryFails(d)
  \/ OnFailure(d) \/ Tombstone(d) \/ Acknowledge(d)

PollStep(p) == PollRead(p) \/ PollReadFails(p) \/ PollFill(p)

Next ==
  \/ \E o \in Orders : \/ Place(o) \/ PlaceFails(o) \/ ApiStep(o) \/ ApiCrash(o)
                       \/ LogTombstone(o) \/ Expire(o)
  \/ \E d \in Deliveries : \/ Receive(d) \/ UpdateStep(d) \/ TaskStep(d)
                           \/ Crash(d) \/ Redeliver(d)
  \/ \E p \in Readers : PollStep(p)
  \/ \E p \in Readers, o \in Orders : PollHit(p, o) \/ PollMiss(p, o)

Spec == Init /\ [][Next]_vars

\* What keeps running by itself: requests already being served, workers as
\* long as there are messages, and the clock of Redis.  Nobody has to place an
\* order or to poll, and no fault has to happen.
Fairness ==
  /\ \A o \in Orders : WF_vars(ApiStep(o)) /\ WF_vars(Expire(o))
  /\ \A d \in Deliveries : WF_vars(Receive(d)) /\ WF_vars(UpdateStep(d) \/ TaskStep(d))
  /\ \A p \in Readers : WF_vars(PollStep(p))

FairSpec == Spec /\ Fairness

-----------------------------------------------------------------------------
(* Safety                                                                  *)

\* The broker has not yet given any message to a second worker.
Calm == used["duplicate"] = 0

\* Until a message is delivered twice, every change of orders.status is the
\* insertion of a PENDING order or a transition of the table: two handlers of
\* one order never interleave so that one overwrites what the other has committed.
LegalTransitions ==
  [][Calm => \A o \in Orders :
       db'[o] # db[o] => \/ db[o] = None /\ db'[o] = "PENDING"
                         \/ CanBecome(db[o], db'[o])]_db

\* Deliveries that may still write: all but those whose retry has taken over.
Active == {d \in Deliveries : job[d].pc \notin {"free", "ackRetry"}}

\* No two live deliveries work on the same order, across crashes, retries and
\* lost publish replies.
SingleHandler ==
  \A d, e \in Active : job[d].order = job[e].order => d = e

\* Neither the cache entry nor any poller's answer is ahead of Postgres: it is
\* the order's status or one the order has left along legal transitions.
CacheNeverAhead ==
  /\ \A o \in Orders : cache[o] = None \/ Reaches(cache[o], db[o])
  /\ \A p \in Readers :
       reader[p].status = None \/ Reaches(reader[p].status, db[reader[p].order])

\* A tombstone for an order that is not in a terminal state takes as many
\* database errors as there are attempts, and one more in on_failure's own
\* write: fewer never leave the two records apart.
TombstoneMeansSettled ==
  \A o \in buried :
    db[o] \in Terminal \/ used["db"] >= MaxRetries + 2

\* An order whose enqueueing succeeded is settled or still has a delivery
\* working on it, unless a publish was lost, every attempt and on_failure's write
\* failed on the database, or a worker was lost whose message somebody else had
\* been given.  Crashes alone, or redeliveries alone, never drop it.
NoOrderDropped ==
  \A o \in Orders :
    api[o] \in {"enqueued", "accepted"} =>
      \/ db[o] \in Terminal
      \/ \E d \in Active : job[d].order = o
      \/ used["broker"] > 0
      \/ used["db"] >= MaxRetries + 2
      \/ used["duplicate"] > 0 /\ used["crash"] > 0

-----------------------------------------------------------------------------
(* Liveness                                                                *)

\* A delivery for an order leads to the order being READY or FAILED for good,
\* unless a publish was lost or every attempt and on_failure's own write failed.
DeliveredOrderSettles ==
  \A o \in Orders :
    (\E d \in Deliveries : job[d].order = o) ~>
      \/ [](db[o] \in Terminal)
      \/ used["broker"] > 0
      \/ used["db"] >= MaxRetries + 2

\* Stale entries die out: from some point on the cache agrees with Postgres
\* or is silent, although fills may be late and Redis calls may fail.
CacheSettles ==
  \A o \in Orders : <>[](cache[o] \in {None, db[o]})

-----------------------------------------------------------------------------
(* The promise                                                             *)

Promise ==
  INSTANCE OrderLifecycle WITH status <- db, board <- cache, Transitions <- ValidTransitions

\* The system keeps the promise of OrderLifecycle.
KeepsPromise == Promise!Spec

\* What a delivery may write: it never puts an order back to PENDING.
Written == {"PREPARING", "READY", "FAILED"}

\* A late second handler may write any of these over another.
LooseTransitions == ValidTransitions \cup (Written \X Written)

LoosePromise ==
  INSTANCE OrderLifecycle WITH status <- db, board <- cache, Transitions <- LooseTransitions

\* Even when messages are delivered twice, an order is never PENDING again, does
\* not go from PENDING straight to READY, and is not shown as started before it is.
KeepsLoosePromise == LoosePromise!Spec

=============================================================================
