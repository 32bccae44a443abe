# Formal models of the sushi shop

TLA+ models of the ordering, kitchen, menu and assistant code of this repository,
the TLC runs that check them and TLAPS proofs of their main properties. Paths
below are relative to the repository's root (`src/services/...`, `DECISIONS.md`).

## 1. The system

Customers and staff talk to a FastAPI application (any number of replicas behind
nginx). It keeps its data in Postgres, caches menu and order status in Redis, and
hands every order to a Celery worker through a broker that is also Redis. A
LangGraph assistant is built but not yet wired to its chat route.

| component | state | operations | talks to |
|---|---|---|---|
| Order service, `src/services/order_service.py` | `orders.status` in Postgres | `create_order`, `update_order_status`, `get_order_status`, reads | Postgres, Celery (`delay`), status cache |
| Kitchen worker, `src/tasks/kitchen.py` | the session of the running task, `request.retries` | `process_order`, `KitchenTask.on_failure`, `order_failed` | order service, broker |
| Task queue, `src/core/celery_app.py` | queues `kitchen.orders`, `kitchen.dlq` | deliver, redeliver, acknowledge | worker pool |
| Caches, `src/core/cache.py` | `order:status:{id}` (60 s), `menu:all` (settings) | GET, SETEX, DEL; every error swallowed | Redis |
| Menu, `src/services/meal_service.py` | table `meals` | `create_meal`, `list_meals`, searches | Postgres, menu cache |
| Ingredients, `src/services/ingredient_service.py` | stock quantities | `create_ingredient`, `update_stock`, reads | Postgres, menu cache |
| Assistant, `src/agents/graph.py`, `state.py`, `tools.py` | one `AgentState` per turn | seven nodes, four routers | LLM, tools (stubs) |
| Circuit breaker, `src/agents/circuit_breaker.py` | failure count, open/closed | `call`, `reset` | nobody yet |
| Containers: `docker-compose.yml`, `entrypoint.sh`, `alembic/` | the schema in Postgres, what each container does | `alembic upgrade head`, exec, `make up` | Postgres, nginx |
| Connection pool of a worker process, `src/core/database.py` | connections bound to event loops | check-out with pre-ping, check-in | worker, Postgres |
| Start-up: imports from `src/main.py` and from the worker's command | `sys.modules` | module bodies | Python |
| Schemas, settings, ORM models, nginx, hooks | none that changes | validation, declarations | - |

What is hard, and what correct means:

- **Orders.** Four programs share the status of an order: the request that creates
  it, the worker that cooks it, a second worker that got the same message, and
  pollers. Every `await` lets the others in; a worker may die at any of them;
  messages come at least once; the update is a read, a check and an unlocked
  write, followed by two Redis calls that are not part of the transaction.
  Correct: the status follows the state machine, each order is cooked or
  declared failed, no poller is ever told a status the order has not reached,
  and the dead letter queue agrees with the database.
- **Menu.** Writes invalidate after their commit, listings fill after their read:
  correct is that each stale entry has a known cause and dies out.
- **Assistant.** LLM and tools fail anywhere. Correct: every turn ends, the
  apology comes exactly when there is nothing to offer, and the offer follows the answer
  of the stock check. Only the first meal found is checked; when it is in stock all meals
  found are offered, the later ones unchecked (`graph.py:168-169`).
- **Stock.** `update_stock` replaces the quantity and its callers read, add and send
  the total: correct is that nothing is counted that was not delivered, and that only
  overlapping entries lose any.
- **Event loops.** Each task of a worker process runs in an event loop of its own, over
  a pool that lives as long as the process. Correct: an order fails only for a reason of
  its own (the code does not achieve this), every order settles or has its tombstone
  unless one of its messages was never published.
- **Start of the stack.** Every container of the image migrates the same database at
  the same time. Correct: nobody serves on half a schema, and whoever gives up has a reason.
- **Start-up.** Modules import each other's names. Correct: no import fails.

The full list, each hazard at its line and with the properties that watch it, is
`hazards` in `PROJECT.json`.

## 2. The modules

| module | what it is | code |
|---|---|---|
| `OrderStatus` | the statuses and the transition table | `_VALID_TRANSITIONS`, `OrderStatus` |
| `OrderLifecycle` | the promise: an authoritative status and a board that may lag but never lead, over a given state machine | abstract |
| `OrderKitchen` | the core: API, broker, workers, on_failure, cache, pollers; implements `OrderLifecycle` | `order_service.py`, `kitchen.py`, `cache.py`, `celery_app.py` |
| `WorkerLoop` | the worker's processes over many tasks: event loops, pool, retries, on_failure | `kitchen.py`, `database.py`, `celery_app.py` |
| `MenuCache` | menu writes and listings around `menu:all`; stock entries | `meal_service.py`, `ingredient_service.py`, `cache.py` |
| `AgentGraph` | one turn of the assistant | `agents/graph.py`, `agents/state.py`, `agents/tools.py` |
| `Deployment` | `make up`: concurrent migrations, entrypoint, nginx | `entrypoint.sh`, `docker-compose.yml`, `alembic/` |
| `ModuleLoading` | the imports of both processes | module bodies of six files |
| `...MC` | fault budgets, small sets, and the statements of docs and comments that the code contradicts | |
| `...Proofs`, `OrderKitchenRedelivery`, `WorkerLoopBalance` | theorems and proofs | |

### OrderKitchen

`db` is the status column, `cache` the Redis entries, `api` the progress of
`POST /orders` per order, `reader` the pollers in `get_order_status`, `dlq` the
tombstones waiting. `job` holds the deliveries of `kitchen.process_order`: a slot is
free, queued, or at the next await of its worker. `pc` names that await:
`guard` (the SELECT of the idempotency guard), `select`, `commit`, `del`, `setex`,
`reload` (the awaits of `update_order_status` with `target` as `new_status`), `prep`
(the sleep), `raise` (the `except` of `process_order`), `tombstone` (the second part
of `on_failure`), `ack`/`ackRetry`.

Decisions that matter:

- `update_order_status` is modelled once and entered three times (PREPARING,
  READY, FAILED); `Returned` and `Excepted` say where each caller continues.
- The session is created with `expire_on_commit=False`, so the second
  `update_order_status` of a task may see the `Order` object its first call left
  in the identity map instead of the row: `Visible` allows both, for whether the
  object is still alive at that point depends on the garbage collector.
- A commit that raises may or may not have written; a publish that raises may or
  may not have reached the broker.
- A crash returns the message with the same retry count, because it is only
  acknowledged at the end. If the worker dies after publishing the retry, two
  messages exist: this counts as a duplicate, as does `Redeliver`, and is no fault of
  kind `crash`. The run `duplicates` has both.
- If publishing the retry fails Celery rejects the message without requeueing and
  without `on_failure`.
- The worker's command in `docker-compose.yml` has no `-Q`, so it also consumes
  `kitchen.dlq`: `LogTombstone`.
- A rejected request (unknown or unavailable meal) writes nothing and is no step.
- Of the faults of a kind a behaviour has at most `Limit[kind]`. The proofs leave
  `Limit` open.

### WorkerLoop

A task of a process takes its first connection in `start`; `stale[w]` says that the
process's pool holds a connection an earlier event loop left there. A body that ends well
returns its connection (`LeavesConnection`); the next check-out in another loop raises at
the pre-ping and the pool drops the connection (`StaleConnection`, `DropsConnection`).
After an error it is either kept or gone (`MayLeaveConnection`). `on_failure` runs in a
loop of its own and meets whatever the failed attempt left; `OnFailure` is its write of
FAILED, `Tombstone` the send_task after it. An error may come after a commit as well as
before it (`Break`, `OnFailure`): the reply is lost, or the reload raises.

Each of the three publishes may go wrong, with or without the message in the broker:
that of `create_order` after its commit (`Place`, then `Publish` or `PublishFails`; `unsent`
are the orders in between), that of a retry (`RetryFails`: Celery rejects the old message
without `on_failure`) and that of the tombstone, which `on_failure` swallows. `lost`
remembers for which orders one did.

The steps between the awaits, the caches (their client has the same lifetime, but its errors
are swallowed) and duplicate deliveries, by a crash between the publish of a retry and
the acknowledgement or by the broker, are `OrderKitchen`'s business; there an exception of a
stale connection is one of the database faults.

### MenuCache, AgentGraph, Deployment, ModuleLoading

`MenuCache`: a write goes commit, refresh, DEL; a listing goes GET, SELECT, SETEX.
A meal is its name. `late` remembers that a listing has stored an outdated menu. The
stock is that of one ingredient: a client reads it (`ReadStock`), its PATCH loads the row
(`LoadStock`), replaces and commits (`CommitStock`; SQLAlchemy writes the column only when
the new value differs from the loaded one, `Replaced`). Each entry adds one unit, so that
`received` counts what the stock should be; `crossed` remembers that two entries overlapped.

`AgentGraph`: one action per node; the action merges the node's update and takes
the edge. Tools are constants (`Found`, `Stock`, `Substitutes`) because
`tools.py` declares signatures final and bodies stubs: `turn` takes everything the
signatures allow, `noresponse` only what the stubs return. A message is who spoke and the
tool calls it carries. All tools are bound to the LLM in every node, so any reply may call
them; the nodes call the tools themselves and never append a result, and both providers
refuse a transcript with a call that has none: from then on every LLM call raises
(`Unanswered`, `LlmRaises`; the providers are external). `ExtractSearchQuery` is
`_extract_search_query`; its two formats of a tool call are one.

`Deployment`: `schema` is what is committed, `made[c]` what the open transaction of a
container has created. Under READ COMMITTED a container sees the committed objects and its
own; `CREATE` of an object another transaction is creating waits (it is not enabled) and
fails once that transaction has committed. `doubled` leaves open whether the installed
SQLAlchemy lets `sa.Enum(..., create_type=False)` create the enum a second time. A
container whose migration fails exits (`set -e`); nothing restarts it but the next
`make up`. nginx starts when every replica is healthy and not at all when one has exited.

`ModuleLoading`: the top-level statements of six modules in source order, and Python's
import rule (a module is in `sys.modules` before its body has run). Only imports
inside the repository that lead to the kitchen task are kept.

The start-up run shows that neither process gets past its imports at this commit.
The other modules read the bodies of the functions as they would run once that
cycle is broken (for instance by importing `process_order` inside `create_order`)
and the worker's container runs its command.

## 3. The runs

Passing runs:

| run | instance and bounds | what it shows |
|---|---|---|
| `safety` | 1 order, 2 slots, 1 poller, 2 workers, 1 retry; 1 crash, 3 database, 1 Redis, 1 broker fault, fair | all safety properties, the refinement, delivered orders and their cache entries settle |
| `duplicates` | 1 order, 4 slots, 1 redelivery or crash after the publish of a retry, 1 database fault, fair | although two deliveries run no order is dropped, the looser promise is kept and delivered orders settle |
| `workers` | 3 orders, 2 processes, 1 retry; 1 crash, 2 errors, 1 publish that goes wrong, fair | failures are paid for by finished orders, a lost FAILED write by an error; every order settles or is buried unless one of its own publishes went wrong |
| `menu` | 2 meals, 2 writers, 1 listing, 2 deliveries, 1 fault of each kind, fair | stale menus and short stock are explained, stale menus die out |
| `turn` | lists of up to 2 meals, six shapes of reply, every answer and exception, fair | apology, offers, search query, termination |
| `stack` | 2 API replicas and the worker, 1 crash, 1 further `make up`, three initial schemas, fair | no server on a partial schema, exits explained, the stack settles |

Bounds and why they suffice. Three database errors are `MaxRetries + 2`: one for each
attempt and one for `on_failure`'s own write, so the weakest case of
`TombstoneMeansSettled`, `NoOrderDropped` and `DeliveredOrderSettles` is reached. Two
slots hold a message and the retry it has published; `duplicates` has four, for two copies
with a retry each. Two workers are what an interleaving needs. In `workers` two orders
must be finished before a third can fail without a cause of its own, so three orders and
a retry are the least; two errors reach the weight of 2 in `FailuresNeedFinishedOrders`
(with 1 the run fails); one publish that goes wrong is enough for it to hit any of the three
places, and leaves two orders that have to settle. One listing is enough for `late`: two take longer and find
the same. Two deliveries are what crossing needs. Three containers let one win, one
wait and one come late. No run uses symmetry. Deadlock is checked where a behaviour
cannot stop (`safety` and `menu`: a poller or a listing can always start); the others
stop when every order is done, the turn has ended or the stack is up.

Runs that find a statement of the repository violated:

| run | statement | counterexample |
|---|---|---|
| `startup` | `celery_app.py:14-15`, the kitchen task is "imported at application start" | `order_service.py:37` and `kitchen.py:70` import each other: ImportError from either entry point |
| `loops` | `models/order.py:50-51`, FAILED "if the worker cannot process it" | two finished orders leave connections of closed loops, a third order spends both attempts on them and is FAILED; no fault |
| `terminal` | `order_service.py:311-312`, READY and FAILED admit no transition | two copies read the same status, one finishes, the other writes PREPARING over READY |
| `lostpublish` | `order_service.py:191-192`, `DECISIONS.md:266`, a committed order can be picked up later | the publish is lost; nothing looks for PENDING orders |
| `lostretry` | `foundations.md:53-54`, a failed order "ends up in `FAILED` state, not lost" | an attempt raises, and so does the publish of its retry: the message is rejected, `on_failure` is not called, the order stays PENDING |
| `noresponse` | `DECISIONS.md:462`, the customer always receives a response | the LLM calls `search_meals` as its prompt asks; the call is never answered, so present_options and confirm_and_dispatch raise, and their fixed edges lead to END |

Three more statements that do not hold, without a run of their own: `Dockerfile:71` says
that the worker "overrides this entirely via `command:`", but compose's `command:` replaces
CMD and not ENTRYPOINT, and the script ignores its arguments, so the worker's container
ends as one more uvicorn (`StampAndCommit`) and no Celery worker runs;
`ARCHITECTURE.md:350` says that the order is FAILED before its tombstone is sent, but
`on_failure` sends it whatever became of the write (`TombstoneMeansSettled` is what
holds); `cache.py:100-101` says that after a write GET /meals rebuilds from Postgres, but a
listing that read before the write may store after it (`late` in `StaleMenuExplained`).

`terminal` needs a redelivery, and so `LegalTransitions` asks for the table only while
`Calm` holds, that is until the broker first delivers a message twice. What redelivery
leaves of the promise is `KeepsLoosePromise`, `OrderLifecycle` over `LooseTransitions`: a
second handler may put PREPARING, READY or FAILED over any of the three, but no order
becomes PENDING again, none goes from PENDING to READY, and nobody is shown a PENDING
order as started. With a redelivery and a crash together the second copy may die right
after it has overwritten READY: its message is no longer its own, nobody puts it back, and
the order stays PREPARING. Hence the last disjunct of `NoOrderDropped`, and hence
`duplicates` has no fault of kind `crash` and `safety` no duplicate: neither run can use
that excuse. The crash that leaves a retry and its predecessor in the queue is in
`duplicates`; it drops nothing by itself, both messages are whole. The excuse
`used["broker"] > 0` of `NoOrderDropped` and `DeliveredOrderSettles` is what `lostpublish`
and `lostretry` show to be needed.

**Fairness.** In `OrderKitchen` and `MenuCache`, weak fairness of each request being served, of each worker's current task,
of each queued message's receipt, and of the expiry of each Redis entry. The code
justifies it: nothing in a task waits for another one, the pool takes the next message
whenever a process is free, and SETEX has a finite time to live. No request has to
come, nobody has to poll, and no fault is fair. The disjunctions under one WF
(`UpdateStep \/ TaskStep`) include failing steps, so a step may fail as long as
the budget lasts. Weak fairness of
`Expire` asks that no entry stays for ever. SETEX starts the clock again, but an entry
that is there is rewritten only by the few updates of its order or by a poll that read
before or met a Redis error: a hit never writes, so the clock runs out.
`WorkerLoop` asks only that the workers as a whole go on, and that `create_order` goes on
to its publish unless that fails; `Deployment` that each container
and compose go on, not that the operator comes back; `AgentGraph` that the turn goes on.

## 4. The proofs

Checked with tlapm for every set of orders, slots, pollers and replicas, every number of
workers and retries, and every fault budget.

| theorem | statement | holds |
|---|---|---|
| `OrderKitchenProofs!TypeCorrect` | `TypeOK` | always |
| `OneHandler` | `SingleHandler` | while `Calm` |
| `CacheBehind` | `CacheNeverAhead` | while `Calm` |
| `TombstoneAgrees` | `TombstoneMeansSettled` | while `Calm` |
| `OnlyLegalTransitions` | `LegalTransitions` | always (the property speaks of `Calm` steps) |
| `Refinement` | `KeepsPromise`: `OrderKitchen` implements `OrderLifecycle` | if `NoDuplicates` |
| `OrderKitchenRedelivery!NoneDropped` | `NoOrderDropped` | always |
| `LooseRefinement` | `KeepsLoosePromise`: it implements `OrderLifecycle` over the looser state machine | always |
| `MenuCacheProofs!TypeCorrect`, `StaleMenus`, `StockAddsUp` | `TypeOK`, `StaleMenuExplained`, `StockExplained` | always |
| `AgentGraphProofs!TypeCorrect`, `ApologyIffStuck`, `CheckedOffers`, `SearchIsAsked` | the four invariants of a turn | always |
| `WorkerLoopProofs!TypeCorrect`, `LostWritesArePaid` | `TypeOK`, `UnmarkedNeedsError` | always |
| `WorkerLoopBalance!FailuresArePaid` | `FailuresNeedFinishedOrders` | always |
| `DeploymentProofs!TypeCorrect`, `ServersFindSchema`, `ExitsExplained` | `TypeOK`, `ServesOnlyCurrentSchema`, `ExitExplained` | always |

"While `Calm`" means `Spec => [](Calm => ...)` with `Calm == used["duplicate"] = 0`: up to
the first time the broker gives a message to a second worker or a worker dies between
publishing a retry and acknowledging. `NoDuplicates == Limit["duplicate"] = 0` says that
this never happens; a refinement, being about whole behaviours, needs it. Both are a real
limit of the code: `terminal` shows an illegal transition after a redelivery. Crashes,
lost replies, lost publishes and Redis errors are all allowed.

The argument, while `Calm`. None of the invariants is inductive alone. A commit is legal only if
what was read is still what the row holds; that needs `SingleHandler`; that in turn needs
to know that an order whose request is not yet published has no delivery, and that a
worker at work holds its message. `IInv` therefore joins `HandlerInv`, `ApiInv` and
the stated properties. `HandlerInv` says for each live delivery, at each await, what the
row holds and how many database errors it has cost to get there (`AtStep`): at
`commit` the transition is still legal, at `raise` at least `retries + 1` errors have
happened unless the order is settled, at `tombstone` at least `MaxRetries + 2`. The
error count is what carries the bound of `TombstoneMeansSettled` through retries
and crashes. `ApiInv` relates the progress of the request to row and message.
The proof has one lemma for what each action does to its delivery (`...Moves`), one
for each action's effect on `AtStep`, and from `IInv` the two action results:
a step that changes `db` is an insertion or a legal transition, and every step maps to a
step of `OrderLifecycle` or stutters (a fill posts a status the order has reached,
an expiry or DEL takes it down).

With redeliveries several deliveries act on an order, and what one of them has read may be
outdated when it writes. `LooseInv` therefore says of each delivery only what no other one
can undo: a status is in `Written` for good once it is (`LooseAtStep`), and while an order
is PENDING each attempt that is over has cost an error (`CostAtStep`), for there is nobody
yet who could have made its step illegal. `CourseInv` says who carries an unsettled order
on: some delivery is `OnCourse`, one whose next steps are legal for the row as it is, or
whose retries or `on_failure` are still to come, and which has paid an error for each of
its attempts. A delivery falls off its course only when another one has moved the row,
and the one that moved it to PREPARING is then on course itself, because it goes
on to READY from there; a READY or FAILED needs nobody. So a step needs only the delivery
it belongs to: `Fine` states what that one must do for the rest to stand, with one lemma
for reads and one for writes. `NoOrderDropped` and the looser refinement follow.

`MenuCache` needs to know besides that what a listing holds was once in Postgres
(`ListingsReal`), and for the stock that no total under way exceeds the deliveries
entered before it, and that while nothing has crossed and no fault has happened at most one
entry is under way and the stock is `received` (`LInv`). `AgentGraph` needs `Path`, what
is known at each node, and `QInv`, that until the search has run the request is what the
last message says; that a non-empty set of positions has a first one comes from the
library's well-founded induction.

`WorkerLoop` needs a sum: the unmarked orders together with the attempts that have failed
and left a connection for `on_failure` to stumble over (`Charged`) are at most the errors
(`Paid`). A stale connection never adds to it, since the attempt that met it has dropped
it; an error adds one; a lost FAILED write keeps the charge for the order whose tombstone
is next, and the tombstone turns it into an unmarked order. That a
cooking order has left PENDING (`Cooking`) is what makes an illegal READY harmless: the
order is then settled.

`FailuresNeedFinishedOrders` is a balance over all orders at once (`Balance` in
`WorkerLoopBalance`): the attempts spent by open orders, all but one of those of FAILED
orders, and the connections still lying in the pools are together at most the finished
orders that have left their connection plus two for each error. A finished order leaves
one connection; an attempt lost to a stale connection takes one out of its pool; an error
may both cost an attempt and leave a connection; the last attempt of a FAILED order pays for the
connection its own `on_failure` leaves. `Spent` is a set of pairs of an order and an
attempt, so the proof needs no sum over orders: an action changes the part of one
order, and the library's theorems about cardinalities do the rest. It needs that an
order has one message or task (`Unique`) and none before its task is published
(`Unposted`), that an attempt at work has cleared the pool
(`Fresh`), and that FAILED comes after the last attempt only (`FailedLast`).

`Deployment` needs what a container at each step of the migration
can count on (`Progress`) and that the committed schema is never a part of itself
(`SchemaWhole`): nothing, an empty version table, or everything.

Only model-checked: liveness (`DeliveredOrderSettles`, `CacheSettles`, `MenuSettles`,
`TurnEnds`, `EveryOrderSettles`, `StackSettles`), which is out of the prover's reach. That
includes how an order with several handlers settles for good. Every other property of a
passing run is stated by a theorem.

## 5. Not modelled

- The circuit breaker: no node calls it at this commit, and what it would do is
  pybreaker's. The chat route: a fixed reply.
- Validation of meals in `create_order`, line items, prices, search: single requests that
  do not interact with the state above. A rejected request writes nothing.
- Real time: the synchronous LLM call and the synchronous publish inside async
  handlers (`graph.py:133`, `order_service.py:193`) block a replica's event loop.
- The image's contents: whether the health check's `wget` exists
  (`docker-compose.yml:66`, `Dockerfile:35`) decides whether any replica is ever healthy;
  the model takes a serving replica to be healthy.
- Schemas, settings, nginx's forwarding, the texts of the prompts, repository hooks.

## 6. Plan

Modelled: every component above but those of section 5. Proved: every property of the
passing runs that is not about liveness. What could be proved besides:

1. The cause of the failing start: that, whatever else is imported, the two modules that
   import each other's names cannot both load (`ModuleLoading` has a violation run only).
2. The safety half of the liveness arguments: the measures that fall with each step of an
   order, a turn or a container while no fault happens.
3. `OrderLifecycle` by itself: what a poller may conclude from two answers in a row.
