----------------------------- MODULE WorkerLoop -----------------------------
(* What the event loops of the kitchen worker do to its database           *)
(* connection.  Every task body and every on_failure runs in an            *)
(* asyncio.run of its own, that is in a new event loop, while the engine   *)
(* and its pool belong to the module and live as long as the process.  The *)
(* connection a loop leaves in the pool is bound to that loop; the next    *)
(* one to take it gets an exception from the pre-ping, and the pool drops  *)
(* it.  The messages are as in OrderKitchen (late acknowledgement, retries,  *)
(* publishes that fail), but no message is there twice: a crash between the *)
(* publish of a retry and the acknowledgement of its predecessor is         *)
(* OrderKitchen's.  The caches, whose errors are swallowed, are left out.   *)
EXTENDS Naturals, FiniteSets, OrderStatus

CONSTANTS
  Orders,      \* orders customers may place
  Workers,     \* processes of the kitchen worker
  NoOrder,     \* the order of an idle worker
  MaxRetries,  \* max_retries of process_order (1 in the code)
  Limit        \* how many faults of each kind a behaviour may have

\* "crash": of a process; "error": of the database or the kitchen's own code;
\* "broker": a publish whose call raises.
FaultKinds == {"crash", "error", "broker"}

ASSUME LoopNoOrderAssumption == NoOrder \notin Orders
ASSUME LoopRetriesAssumption == MaxRetries \in Nat
ASSUME LoopLimitAssumption == Limit \in [FaultKinds -> Nat]

VARIABLES
  status,  \* orders.status, None before the order is placed
  unsent,  \* orders committed whose task create_order has not yet published
  queue,   \* the messages of kitchen.orders
  task,    \* what each process works on
  stale,   \* the process's pool holds a connection of an earlier event loop
  buried,  \* orders whose tombstone was dispatched
  lost,    \* history: orders of which a publish has failed
  used     \* faults so far, of each kind (bounded by Limit)

vars == <<status, unsent, queue, task, stale, buried, lost, used>>

posts == <<unsent, lost>>

Messages == [order : Orders, retries : 0..MaxRetries]

\* "start": asyncio.run begins; "cook": the order is PREPARING; "raised": the
\* body raised and its loop is closed; "bury": on_failure has tried to write
\* FAILED, the tombstone is next; "ack": all that is left is the ack.
Task == [pc : {"idle", "start", "cook", "raised", "bury", "ack"},
         order : Orders \cup {NoOrder},
         retries : 0..MaxRetries]

Idle == [pc |-> "idle", order |-> NoOrder, retries |-> 0]

TypeOK ==
  /\ status \in [Orders -> MaybeStatus]
  /\ unsent \subseteq Orders
  /\ queue \subseteq Messages
  /\ task \in [Workers -> Task]
  /\ \A w \in Workers : task[w] = Idle \/ task[w].order \in Orders
  /\ stale \in [Workers -> BOOLEAN]
  /\ buried \subseteq Orders
  /\ lost \subseteq Orders
  /\ used \in [FaultKinds -> Nat]
  /\ \A k \in FaultKinds : used[k] <= Limit[k]

Init ==
  /\ status = [o \in Orders |-> None]
  /\ unsent = {}
  /\ queue = {}
  /\ task = [w \in Workers |-> Idle]
  /\ stale = [w \in Workers |-> FALSE]
  /\ buried = {}
  /\ lost = {}
  /\ used = [k \in FaultKinds |-> 0]

Fault(k) == /\ used[k] < Limit[k]
            /\ used' = [used EXCEPT ![k] = @ + 1]

NoFault == UNCHANGED used

\* A publish of a task of o goes wrong: the call raises, or its process dies
\* first.
PublishBreaks(o) == Fault("broker") /\ lost' = lost \cup {o}

\* ... and the broker may have the message all the same.
Posts(m) == queue' = queue \cup {m}
MayPost(m) == Posts(m) \/ UNCHANGED queue

Goto(w, pc) == task' = [task EXCEPT ![w].pc = pc]

\* The loop of w closes and its connection goes back to the pool.
LeavesConnection(w) == stale' = [stale EXCEPT ![w] = TRUE]

\* The loop of w closes after an error: the connection is kept, or was lost or
\* never made.
MayLeaveConnection(w) == \E b \in BOOLEAN : stale' = [stale EXCEPT ![w] = b]

\* w took the connection of a closed loop: RuntimeError, and the pool drops it.
DropsConnection(w) == stale' = [stale EXCEPT ![w] = FALSE]

-----------------------------------------------------------------------------

\* create_order commits the order.
Place(o) ==
  /\ status[o] = None
  /\ status' = [status EXCEPT ![o] = "PENDING"]
  /\ unsent' = unsent \cup {o}
  /\ NoFault
  /\ UNCHANGED <<queue, task, stale, buried, lost>>

\* After the commit: process_order.delay(order.id).
Publish(o) ==
  /\ o \in unsent
  /\ unsent' = unsent \ {o}
  /\ Posts([order |-> o, retries |-> 0])
  /\ NoFault
  /\ UNCHANGED <<status, task, stale, buried, lost>>

PublishFails(o) ==
  /\ o \in unsent
  /\ unsent' = unsent \ {o}
  /\ MayPost([order |-> o, retries |-> 0])
  /\ PublishBreaks(o)
  /\ UNCHANGED <<status, task, stale, buried>>

\* A free process takes a message; it is acknowledged at the end only.
Receive(w, m) ==
  /\ task[w] = Idle
  /\ m \in queue
  /\ queue' = queue \ {m}
  /\ task' = [task EXCEPT ![w] = [pc |-> "start", order |-> m.order, retries |-> m.retries]]
  /\ NoFault
  /\ UNCHANGED <<status, stale, buried, posts>>

\* Mutant: the pool gives out the connection of the closed loop again and again.
StaleConnectionKept(w) ==
  /\ task[w].pc = "start"
  /\ stale[w]
  /\ Goto(w, "raised")
  /\ NoFault
  /\ UNCHANGED <<status, queue, stale, buried, posts>>

\* The first SELECT of the body checks out a connection and gets a stale one.
StaleConnection(w) ==
  /\ task[w].pc = "start"
  /\ stale[w]
  /\ Goto(w, "raised")
  /\ DropsConnection(w)
  /\ NoFault
  /\ UNCHANGED <<status, queue, buried, posts>>

\* With a new connection the guard is read: a READY order needs nothing, a
\* PENDING one becomes PREPARING, any other goes on to the preparation.
Begin(w) ==
  LET o == task[w].order
  IN
  /\ task[w].pc = "start"
  /\ ~stale[w]
  /\ \/ /\ status[o] = "READY"
        /\ Goto(w, "ack")
        /\ LeavesConnection(w)
        /\ UNCHANGED status
     \/ /\ status[o] # "READY"
        /\ status' = IF status[o] = "PENDING" THEN [status EXCEPT ![o] = "PREPARING"] ELSE status
        /\ Goto(w, "cook")
        /\ UNCHANGED stale
  /\ NoFault
  /\ UNCHANGED <<queue, buried, posts>>

\* update_order_status(READY): an illegal transition raises ValueError.
Serve(w) ==
  LET o == task[w].order
  IN
  /\ task[w].pc = "cook"
  /\ \/ /\ CanBecome(status[o], "READY")
        /\ status' = [status EXCEPT ![o] = "READY"]
        /\ Goto(w, "ack")
     \/ /\ ~CanBecome(status[o], "READY")
        /\ Goto(w, "raised")
        /\ UNCHANGED status
  /\ LeavesConnection(w)
  /\ NoFault
  /\ UNCHANGED <<queue, buried, posts>>

\* The body raises for a reason of its own: at the latest when the order is
\* reloaded after the READY commit, or when that commit's reply is lost.
Break(w) ==
  LET o == task[w].order
  IN
  /\ \/ task[w].pc = "start" /\ ~stale[w] /\ UNCHANGED status
     \/ task[w].pc = "cook" /\ UNCHANGED status
     \/ task[w].pc = "cook" /\ CanBecome(status[o], "READY") /\ status' = [status EXCEPT ![o] = "READY"]
  /\ Fault("error")
  /\ Goto(w, "raised")
  /\ MayLeaveConnection(w)
  /\ UNCHANGED <<queue, buried, posts>>

\* Mutant: the retries are not counted against max_retries.
RetryForEver(w) ==
  /\ task[w].pc = "raised"
  /\ queue' = queue \cup {[order |-> task[w].order, retries |-> task[w].retries + 1]}
  /\ task' = [task EXCEPT ![w] = Idle]
  /\ NoFault
  /\ UNCHANGED <<status, stale, buried, posts>>

\* The message of w's next attempt.
NextAttempt(w) == [order |-> task[w].order, retries |-> task[w].retries + 1]

\* self.retry: the next attempt is published and this message acknowledged.
Retry(w) ==
  /\ task[w].pc = "raised"
  /\ task[w].retries < MaxRetries
  /\ Posts(NextAttempt(w))
  /\ task' = [task EXCEPT ![w] = Idle]
  /\ NoFault
  /\ UNCHANGED <<status, stale, buried, posts>>

\* ... or the publish raises: Celery rejects the message, without on_failure.
RetryFails(w) ==
  /\ task[w].pc = "raised"
  /\ task[w].retries < MaxRetries
  /\ MayPost(NextAttempt(w))
  /\ PublishBreaks(task[w].order)
  /\ task' = [task EXCEPT ![w] = Idle]
  /\ UNCHANGED <<status, unsent, stale, buried>>

\* What on_failure's session makes of status s: an illegal transition is
\* swallowed.
MarkedFailed(s) == IF CanBecome(s, "FAILED") THEN "FAILED" ELSE s

\* Mutant: on_failure runs after any failed attempt.
OnAnyFailure(w) ==
  /\ task[w].pc = "raised"
  /\ ~stale[w]
  /\ status' = [status EXCEPT ![task[w].order] = MarkedFailed(@)]
  /\ LeavesConnection(w)
  /\ Goto(w, "bury")
  /\ NoFault
  /\ UNCHANGED <<queue, buried, posts>>

\* on_failure, step 1: the FAILED write in an event loop of its own, which meets
\* the connection the failed attempt left behind.  Any exception is swallowed;
\* one after the commit leaves the order FAILED.
OnFailure(w) ==
  LET o == task[w].order
  IN
  /\ task[w].pc = "raised"
  /\ task[w].retries = MaxRetries
  /\ \/ stale[w] /\ DropsConnection(w) /\ NoFault /\ UNCHANGED status
     \/ /\ ~stale[w]
        /\ status' = [status EXCEPT ![o] = MarkedFailed(@)]
        /\ LeavesConnection(w)
        /\ NoFault
     \/ /\ ~stale[w]
        /\ status' = [status EXCEPT ![o] = MarkedFailed(@)] \/ UNCHANGED status
        /\ MayLeaveConnection(w)
        /\ Fault("error")
  /\ Goto(w, "bury")
  /\ UNCHANGED <<queue, buried, posts>>

\* on_failure, step 2: the tombstone is sent, or send_task raises, which is
\* swallowed too.
Tombstone(w) ==
  LET o == task[w].order
  IN
  /\ task[w].pc = "bury"
  /\ \/ buried' = buried \cup {o} /\ NoFault /\ UNCHANGED lost
     \/ buried' \in {buried, buried \cup {o}} /\ PublishBreaks(o)
  /\ Goto(w, "ack")
  /\ UNCHANGED <<status, unsent, queue, stale>>

\* The message is acknowledged.
Ack(w) ==
  /\ task[w].pc = "ack"
  /\ task' = [task EXCEPT ![w] = Idle]
  /\ NoFault
  /\ UNCHANGED <<status, queue, stale, buried, posts>>

\* Mutant: acknowledged on receipt, the message dies with the process.
CrashLosesTask(w) ==
  /\ task[w] # Idle
  /\ Fault("crash")
  /\ task' = [task EXCEPT ![w] = Idle]
  /\ DropsConnection(w)
  /\ UNCHANGED <<status, queue, buried, posts>>

\* The process is lost with its pool; its message goes back to the queue.
Crash(w) ==
  /\ task[w] # Idle
  /\ Fault("crash")
  /\ queue' = queue \cup {[order |-> task[w].order, retries |-> task[w].retries]}
  /\ task' = [task EXCEPT ![w] = Idle]
  /\ DropsConnection(w)
  /\ UNCHANGED <<status, buried, posts>>

-----------------------------------------------------------------------------

WorkerStep(w) ==
  \/ \E m \in queue : Receive(w, m)
  \/ StaleConnection(w) \/ Begin(w) \/ Serve(w)
  \/ Retry(w) \/ OnFailure(w) \/ Tombstone(w) \/ Ack(w)

Next ==
  \/ \E o \in Orders : Place(o) \/ Publish(o) \/ PublishFails(o)
  \/ \E w \in Workers : WorkerStep(w) \/ RetryFails(w) \/ Break(w) \/ Crash(w)

Spec == Init /\ [][Next]_vars

\* create_order goes on after its commit and the worker keeps working; nobody
\* has to order and nothing has to fail.
FairSpec ==
  /\ Spec
  /\ WF_vars(\E o \in Orders : Publish(o))
  /\ WF_vars(\E w \in Workers : WorkerStep(w))

-----------------------------------------------------------------------------

In(s) == {o \in Orders : status[o] = s}

Unmarked == {o \in buried : status[o] \in {"PENDING", "PREPARING"}}

\* An order fails without a cause of its own only because others were finished
\* before it: every attempt lost to a stale connection uses up the connection
\* one earlier loop left behind.
FailuresNeedFinishedOrders ==
  MaxRetries * Cardinality(In("FAILED")) <= Cardinality(In("READY")) + 2 * used["error"]

\* on_failure may lose the FAILED write to a stale connection, but only after an
\* attempt that broke on its own: an attempt that met a stale connection itself
\* has cleared the pool for it.
UnmarkedNeedsError == Cardinality(Unmarked) <= used["error"]

\* Every order placed ends READY or FAILED, or at least has its tombstone,
\* unless a publish of its own went wrong: the task's, a retry's or the
\* tombstone's.
EveryOrderSettles ==
  \A o \in Orders :
    status[o] = "PENDING" ~> (status[o] \in {"READY", "FAILED"} \/ o \in buried \cup lost)

=============================================================================
