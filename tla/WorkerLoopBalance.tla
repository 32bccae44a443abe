------------------------- MODULE WorkerLoopBalance -------------------------
(* The books behind FailuresNeedFinishedOrders.  An attempt is lost to a   *)
(* stale connection only where an earlier event loop has left one, and a   *)
(* loop leaves one behind when an order is finished, when an error broke   *)
(* its body, or when on_failure has written FAILED.  What has been spent   *)
(* (attempts of open orders, and all but one attempt of each FAILED order) *)
(* and what still lies in the pools never exceeds what came in (finished   *)
(* orders, and two for an error).                                          *)
EXTENDS WorkerLoopProofs

LastTry == MaxRetries + 1

\* What works on an order, a message or a task: how many attempts it has spent,
\* and whether the connection of its closed loop still lies in the pool.
MessageUnit(m) == [tried |-> m.retries, kept |-> "no"]

KeptAt(pc, s) ==
  CASE s /\ pc = "raised" -> "raised"
    [] s /\ pc \in {"bury", "ack"} -> "ack"
    [] OTHER -> "no"

TaskUnit(t, s) ==
  [tried |-> IF t.pc = "raised" THEN t.retries + 1 ELSE t.retries,
   kept  |-> KeptAt(t.pc, s)]

UnitsIn(o, q, t, s) ==
  {MessageUnit(m) : m \in {n \in q : n.order = o}}
    \cup {TaskUnit(t[w], s[w]) : w \in {v \in Workers : t[v].order = o}}

Units(o) == UnitsIn(o, queue, task, stale)
UnitsNext(o) == UnitsIn(o, queue', task', stale')

\* The attempts an order in status s has used up with U at work on it.  A FAILED
\* order counts all but one, and that one too while a message of it is about
\* whose on_failure has left no connection.
DueOf(s, U) ==
  {k \in 1..LastTry : \/ s = "FAILED" /\ (k <= MaxRetries \/ \E u \in U : u.kept = "no")
                      \/ s \in Open /\ \E u \in U : k <= u.tried}

\* The loop that finished the order, or saw it finished, has left its connection.
ReturnedOf(s, U) == s = "READY" /\ \A u \in U : u.kept = "ack"

Spent == {p \in Orders \X (1..LastTry) : p[2] \in DueOf(status[p[1]], Units(p[1]))}
Returned == {o \in Orders : ReturnedOf(status[o], Units(o))}
Stale == {w \in Workers : stale[w]}
Placed == {o \in Orders : status[o] # None}

Balance ==
  /\ IsFiniteSet(Spent) /\ IsFiniteSet(Stale) /\ IsFiniteSet(Placed)
  /\ Cardinality(Spent) + Cardinality(Stale) <= Cardinality(Returned) + 2 * used["error"]

\* One message or task for each order.
UniqueIn(q, t) ==
  /\ \A m, n \in q : m.order = n.order => m = n
  /\ \A m \in q, v \in Workers : t[v].order # m.order
  /\ \A v, w \in Workers : t[v] # Idle /\ t[v].order = t[w].order => v = w

Unique == UniqueIn(queue, task)

\* An order whose task is not published yet has not been touched.
Unposted ==
  \A o \in unsent :
    /\ status[o] = "PENDING"
    /\ \A m \in queue : m.order # o
    /\ \A w \in Workers : task[w].order # o

\* Begin drops a stale connection or starts with none.
Fresh == \A w \in Workers :
  task[w].pc = "cook" => ~stale[w] /\ status[task[w].order] \in {"PREPARING", "FAILED"}

\* FAILED is written after the last attempt only.
FailedLast ==
  /\ \A m \in queue : status[m.order] = "FAILED" => m.retries = MaxRetries
  /\ \A w \in Workers :
       task[w] # Idle /\ status[task[w].order] = "FAILED" => task[w].retries = MaxRetries

BInv == Unique /\ Unposted /\ Fresh /\ FailedLast /\ Balance

-----------------------------------------------------------------------------
(* Counting                                                                *)

\* T has at most i elements more than S.
Grew(S, T, i) == IsFiniteSet(T) /\ Cardinality(T) <= Cardinality(S) + i

LEMMA GrowSame ==
  ASSUME NEW S, IsFiniteSet(S), NEW T, T \subseteq S
  PROVE  Grew(S, T, 0)
<1>1. IsFiniteSet(T) /\ Cardinality(T) <= Cardinality(S)
  BY FS_Subset
<1>2. Cardinality(S) \in Nat
  BY FS_CardinalityType
<1>3. QED
  BY <1>1, <1>2 DEF Grew

LEMMA GrowOne ==
  ASSUME NEW S, IsFiniteSet(S), NEW x, NEW T, T \subseteq S \cup {x}
  PROVE  Grew(S, T, 1)
<1> DEFINE U == S \cup {x}
<1>1. IsFiniteSet(U) /\ Cardinality(S) \in Nat /\ Cardinality(U) <= Cardinality(S) + 1
  BY OneMore
<1>2. IsFiniteSet(T) /\ Cardinality(T) <= Cardinality(U)
  BY <1>1, FS_Subset
<1>3. Cardinality(T) \in Nat /\ Cardinality(U) \in Nat
  BY <1>1, <1>2, FS_CardinalityType
<1> HIDE DEF U
<1>4. QED
  BY <1>1, <1>2, <1>3 DEF Grew

LEMMA GrowLess ==
  ASSUME NEW S, IsFiniteSet(S), NEW x \in S, NEW T, T \subseteq S \ {x}
  PROVE  Grew(S, T, -1)
<1> DEFINE U == S \ {x}
<1>1. IsFiniteSet(U) /\ Cardinality(U) = Cardinality(S) - 1
  BY FS_RemoveElement
<1>2. IsFiniteSet(T) /\ Cardinality(T) <= Cardinality(U)
  BY <1>1, FS_Subset
<1>3. Cardinality(T) \in Nat /\ Cardinality(U) \in Nat /\ Cardinality(S) \in Nat
  BY <1>1, <1>2, FS_CardinalityType
<1> HIDE DEF U
<1>4. QED
  BY <1>1, <1>2, <1>3 DEF Grew

\* What a step of one process does to the connections in the pools.
StaleGain(w, b) == IF b = stale[w] THEN 0 ELSE IF b THEN 1 ELSE -1

LEMMA StaleGrows ==
  ASSUME TypeOK, IsFiniteSet(Stale), NEW w \in Workers, NEW b \in BOOLEAN,
         stale' = [stale EXCEPT ![w] = b]
  PROVE  Grew(Stale, Stale', StaleGain(w, b)) /\ StaleGain(w, b) \in Int
<1>1. stale'[w] = b /\ \A v \in Workers : v # w => stale'[v] = stale[v]
  BY DEF TypeOK
<1>2. stale[w] \in BOOLEAN
  BY DEF TypeOK
<1>3. CASE b = stale[w]
  <2>1. Stale' \subseteq Stale
    BY <1>1, <1>3 DEF Stale
  <2>2. Grew(Stale, Stale', 0)
    BY <2>1, GrowSame
  <2>3. QED
    BY <1>3, <2>2 DEF StaleGain
<1>4. CASE b # stale[w] /\ b = TRUE
  <2>1. Stale' \subseteq Stale \cup {w}
    BY <1>1 DEF Stale
  <2>2. Grew(Stale, Stale', 1)
    BY <2>1, GrowOne
  <2>3. QED
    BY <1>4, <2>2 DEF StaleGain
<1>5. CASE b # stale[w] /\ b = FALSE
  <2>1. w \in Stale /\ Stale' \subseteq Stale \ {w}
    BY <1>1, <1>2, <1>5 DEF Stale
  <2>2. Grew(Stale, Stale', -1)
    BY <2>1, GrowLess
  <2>3. QED
    BY <1>5, <2>2 DEF StaleGain
<1>6. QED
  BY <1>3, <1>4, <1>5

-----------------------------------------------------------------------------
(* Who works on an order                                                   *)

LEMMA AloneTask ==
  ASSUME NEW q, NEW t, NEW s, UniqueIn(q, t), NEW w \in Workers, t[w] # Idle
  PROVE  UnitsIn(t[w].order, q, t, s) = {TaskUnit(t[w], s[w])}
<1>1. {n \in q : n.order = t[w].order} = {}
  BY DEF UniqueIn
<1>2. {v \in Workers : t[v].order = t[w].order} = {w}
  BY DEF UniqueIn
<1>3. QED
  BY <1>1, <1>2 DEF UnitsIn

IsOnly(u, U) == U = {u}

LEMMA AloneMessage ==
  ASSUME NEW q, NEW t, NEW s, UniqueIn(q, t), NEW m, m \in q, NEW o, m.order = o
  PROVE  IsOnly(MessageUnit(m), UnitsIn(o, q, t, s))
<1>1. {n \in q : n.order = o} = {m}
  BY DEF UniqueIn
<1>2. {v \in Workers : t[v].order = o} = {}
  BY DEF UniqueIn
<1>3. QED
  BY <1>1, <1>2 DEF UnitsIn, IsOnly

LEMMA Elsewhere ==
  ASSUME NEW p, NEW q, NEW t, NEW s, NEW q2, NEW t2, NEW s2,
         \A m \in q \cup q2 : m.order = p => m \in q /\ m \in q2,
         \A v \in Workers : t[v].order = p \/ t2[v].order = p => t2[v] = t[v] /\ s2[v] = s[v]
  PROVE  UnitsIn(p, q2, t2, s2) = UnitsIn(p, q, t, s)
<1>1. {n \in q2 : n.order = p} = {n \in q : n.order = p}
  OBVIOUS
<1>2. {v \in Workers : t2[v].order = p} = {v \in Workers : t[v].order = p}
  OBVIOUS
<1>3. \A v \in {v \in Workers : t[v].order = p} : t2[v] = t[v] /\ s2[v] = s[v]
  OBVIOUS
<1>4. QED
  BY <1>1, <1>2, <1>3 DEF UnitsIn

\* Only o, which w works on, is touched.
OnlyAt(o) == \A p \in Orders : p # o => status'[p] = status[p] /\ UnitsNext(p) = Units(p)

OwnTask(w, o, t, b) ==
  /\ task' = [task EXCEPT ![w] = t] /\ stale' = [stale EXCEPT ![w] = b]
  /\ \A p \in Orders : p # o => status'[p] = status[p]

LEMMA TaskFacts ==
  ASSUME TypeOK, NEW w \in Workers
  PROVE  /\ task[w] \in Task /\ (task[w] = Idle \/ task[w].order \in Orders)
         /\ Idle.order = NoOrder /\ Idle.pc = "idle" /\ Idle.order \notin Orders
         /\ \A t, b : task' = [task EXCEPT ![w] = t] /\ stale' = [stale EXCEPT ![w] = b] =>
              /\ task'[w] = t /\ stale'[w] = b
              /\ \A v \in Workers : v # w => task'[v] = task[v] /\ stale'[v] = stale[v]
BY LoopNoOrderAssumption DEF TypeOK, Idle

\* w goes on with its order.
LEMMA GoesOn ==
  ASSUME TypeOK, Unique, NEW w \in Workers, task[w] # Idle, NEW o \in Orders, o = task[w].order,
         NEW t, t # Idle, t.order = o, NEW b, OwnTask(w, o, t, b), queue' = queue
  PROVE  /\ Unique' /\ OnlyAt(o)
         /\ Units(o) = {TaskUnit(task[w], stale[w])} /\ UnitsNext(o) = {TaskUnit(t, b)}
<1>1. /\ task'[w] = t /\ stale'[w] = b
      /\ \A v \in Workers : v # w => task'[v] = task[v] /\ stale'[v] = stale[v]
  BY TaskFacts DEF OwnTask
<1>2. UniqueIn(queue', task')
  BY <1>1 DEF Unique, UniqueIn
<1>3. ASSUME NEW p \in Orders, p # o
      PROVE  UnitsIn(p, queue', task', stale') = UnitsIn(p, queue, task, stale)
  <2>1. \A v \in Workers : task[v].order = p \/ task'[v].order = p =>
           task'[v] = task[v] /\ stale'[v] = stale[v]
    BY <1>1, <1>3
  <2>2. QED
    BY <2>1, Elsewhere
<1>4. UnitsIn(o, queue, task, stale) = {TaskUnit(task[w], stale[w])}
  BY AloneTask DEF Unique
<1>5. UnitsIn(o, queue', task', stale') = {TaskUnit(t, b)}
  <2>1. task'[w] # Idle /\ task'[w].order = o
    BY <1>1
  <2>2. UnitsIn(task'[w].order, queue', task', stale') = {TaskUnit(task'[w], stale'[w])}
    BY <1>2, <2>1, AloneTask
  <2>3. QED
    BY <1>1, <2>1, <2>2
<1>6. QED
  BY <1>2, <1>3, <1>4, <1>5 DEF Unique, OnlyAt, OwnTask, Units, UnitsNext

\* w gives its order back to the queue as the message m.
LEMMA GoesBack ==
  ASSUME TypeOK, Unique, NEW w \in Workers, task[w] # Idle, NEW o \in Orders, o = task[w].order,
         NEW b, OwnTask(w, o, Idle, b), NEW m, m.order = o, queue' = queue \cup {m}
  PROVE  /\ Unique' /\ OnlyAt(o)
         /\ Units(o) = {TaskUnit(task[w], stale[w])} /\ UnitsNext(o) = {MessageUnit(m)}
<1>1. /\ task'[w] = Idle /\ stale'[w] = b /\ Idle.order \notin Orders
      /\ \A v \in Workers : v # w => task'[v] = task[v] /\ stale'[v] = stale[v]
  BY TaskFacts DEF OwnTask
<1>2. \A n \in queue' : n \in queue \/ n = m
  OBVIOUS
<1>3. \A n \in queue : n.order \in Orders /\ n.order # o
  BY DEF TypeOK, Messages, Unique, UniqueIn
<1>4. \A v \in Workers : v # w => task'[v].order # o
  BY <1>1 DEF Unique, UniqueIn
<1>5. UniqueIn(queue', task')
  <2>1. \A n, k \in queue' : n.order = k.order => n = k
    BY <1>2, <1>3 DEF Unique, UniqueIn
  <2>2. \A n \in queue', v \in Workers : task'[v].order # n.order
    BY <1>1, <1>2, <1>3, <1>4 DEF Unique, UniqueIn
  <2>3. ASSUME NEW u \in Workers, NEW v \in Workers, task'[u] # Idle, task'[u].order = task'[v].order
        PROVE  u = v
    <3>1. u # w /\ task'[u] = task[u] /\ task[u].order \in Orders
      BY <1>1, <2>3, TaskFacts
    <3>2. v # w /\ task'[v] = task[v]
      BY <1>1, <2>3, <3>1
    <3>3. QED
      BY <2>3, <3>1, <3>2 DEF Unique, UniqueIn
  <2>4. QED
    BY <2>1, <2>2, <2>3 DEF UniqueIn
<1>6. ASSUME NEW p \in Orders, p # o
      PROVE  UnitsIn(p, queue', task', stale') = UnitsIn(p, queue, task, stale)
  <2>1. \A v \in Workers : task[v].order = p \/ task'[v].order = p =>
           task'[v] = task[v] /\ stale'[v] = stale[v]
    BY <1>1, <1>6
  <2>2. \A n \in queue \cup queue' : n.order = p => n \in queue /\ n \in queue'
    BY <1>6
  <2>3. QED
    BY <2>1, <2>2, Elsewhere
<1>7. UnitsIn(o, queue, task, stale) = {TaskUnit(task[w], stale[w])}
  BY AloneTask DEF Unique
<1>8. UnitsIn(o, queue', task', stale') = {MessageUnit(m)}
  <2>1. m \in queue'
    OBVIOUS
  <2>2. IsOnly(MessageUnit(m), UnitsIn(o, queue', task', stale'))
    BY <1>5, <2>1, AloneMessage
  <2>3. QED
    BY <2>2 DEF IsOnly
<1>9. QED
  BY <1>5, <1>6, <1>7, <1>8 DEF Unique, OnlyAt, OwnTask, Units, UnitsNext

\* w is done with its order.
LEMMA GoesAway ==
  ASSUME TypeOK, Unique, NEW w \in Workers, task[w] # Idle, NEW o \in Orders, o = task[w].order,
         NEW b, OwnTask(w, o, Idle, b), queue' = queue
  PROVE  /\ Unique' /\ OnlyAt(o)
         /\ Units(o) = {TaskUnit(task[w], stale[w])} /\ UnitsNext(o) = {}
<1>1. /\ task'[w] = Idle /\ stale'[w] = b /\ Idle.order \notin Orders
      /\ \A v \in Workers : v # w => task'[v] = task[v] /\ stale'[v] = stale[v]
  BY TaskFacts DEF OwnTask
<1>2. \A n \in queue : n.order \in Orders /\ n.order # o
  BY DEF TypeOK, Messages, Unique, UniqueIn
<1>3. \A v \in Workers : task'[v].order # o
  BY <1>1 DEF Unique, UniqueIn
<1>4. UniqueIn(queue', task')
  <2>1. \A n \in queue, v \in Workers : task'[v].order # n.order
    BY <1>1, <1>2 DEF Unique, UniqueIn
  <2>2. ASSUME NEW u \in Workers, NEW v \in Workers, task'[u] # Idle, task'[u].order = task'[v].order
        PROVE  u = v
    <3>1. u # w /\ task'[u] = task[u] /\ task[u].order \in Orders
      BY <1>1, <2>2, TaskFacts
    <3>2. v # w /\ task'[v] = task[v]
      BY <1>1, <2>2, <3>1
    <3>3. QED
      BY <2>2, <3>1, <3>2 DEF Unique, UniqueIn
  <2>3. QED
    BY <2>1, <2>2 DEF Unique, UniqueIn
<1>5. ASSUME NEW p \in Orders, p # o
      PROVE  UnitsIn(p, queue', task', stale') = UnitsIn(p, queue, task, stale)
  <2>1. \A v \in Workers : task[v].order = p \/ task'[v].order = p =>
           task'[v] = task[v] /\ stale'[v] = stale[v]
    BY <1>1, <1>5
  <2>2. QED
    BY <2>1, Elsewhere
<1>6. UnitsIn(o, queue, task, stale) = {TaskUnit(task[w], stale[w])}
  BY AloneTask DEF Unique
<1>7. UnitsIn(o, queue', task', stale') = {}
  <2>1. {n \in queue' : n.order = o} = {} /\ {v \in Workers : task'[v].order = o} = {}
    BY <1>2, <1>3
  <2>2. QED
    BY <2>1 DEF UnitsIn
<1>8. QED
  BY <1>4, <1>5, <1>6, <1>7 DEF Unique, OnlyAt, OwnTask, Units, UnitsNext

\* An idle process takes the message m.
LEMMA IsTaken ==
  ASSUME TypeOK, Unique, NEW w \in Workers, task[w] = Idle, NEW m \in queue,
         NEW t, t # Idle, t.order = m.order, NEW b, OwnTask(w, m.order, t, b),
         queue' = queue \ {m}
  PROVE  /\ Unique' /\ OnlyAt(m.order)
         /\ Units(m.order) = {MessageUnit(m)} /\ UnitsNext(m.order) = {TaskUnit(t, b)}
<1>1. /\ task'[w] = t /\ stale'[w] = b /\ Idle.order \notin Orders
      /\ \A v \in Workers : v # w => task'[v] = task[v] /\ stale'[v] = stale[v]
  BY TaskFacts DEF OwnTask
<1>2. m.order \in Orders /\ \A n \in queue : n.order \in Orders
  BY DEF TypeOK, Messages
<1>3. UniqueIn(queue', task')
  <2>1. \A n \in queue', v \in Workers : task'[v].order # n.order
    BY <1>1 DEF Unique, UniqueIn
  <2>2. ASSUME NEW u \in Workers, NEW v \in Workers, task'[u] # Idle, task'[u].order = task'[v].order
        PROVE  u = v
    <3>1. \A x \in Workers : x # w => task'[x].order # m.order /\ task'[x] = task[x]
      BY <1>1 DEF Unique, UniqueIn
    <3>2. task'[w].order = m.order
      BY <1>1
    <3>3. CASE u = w \/ v = w
      BY <2>2, <3>1, <3>2, <3>3
    <3>4. CASE u # w /\ v # w
      BY <2>2, <3>1, <3>4 DEF Unique, UniqueIn
    <3>5. QED
      BY <3>3, <3>4
  <2>3. QED
    BY <2>1, <2>2 DEF Unique, UniqueIn
<1>4. ASSUME NEW p \in Orders, p # m.order
      PROVE  UnitsIn(p, queue', task', stale') = UnitsIn(p, queue, task, stale)
  <2>1. \A v \in Workers : task[v].order = p \/ task'[v].order = p =>
           task'[v] = task[v] /\ stale'[v] = stale[v]
    BY <1>1, <1>4
  <2>2. \A n \in queue \cup queue' : n.order = p => n \in queue /\ n \in queue'
    BY <1>4
  <2>3. QED
    BY <2>1, <2>2, Elsewhere
<1>5. UnitsIn(m.order, queue, task, stale) = {MessageUnit(m)}
  <2>1. IsOnly(MessageUnit(m), UnitsIn(m.order, queue, task, stale))
    BY AloneMessage DEF Unique
  <2>2. QED
    BY <2>1 DEF IsOnly
<1>6. UnitsIn(m.order, queue', task', stale') = {TaskUnit(t, b)}
  <2>1. task'[w] # Idle /\ task'[w].order = m.order
    BY <1>1
  <2>2. UnitsIn(task'[w].order, queue', task', stale') = {TaskUnit(task'[w], stale'[w])}
    BY <1>3, <2>1, AloneTask
  <2>3. QED
    BY <1>1, <2>1, <2>2
<1>7. QED
  BY <1>3, <1>4, <1>5, <1>6 DEF Unique, OnlyAt, OwnTask, Units, UnitsNext

-----------------------------------------------------------------------------
(* What an order has spent                                                 *)

LEMMA Due ==
  /\ \A s : \A U : DueOf(s, U) \subseteq 1..LastTry
  /\ \A s \in {None, "PENDING", "PREPARING", "READY"} : DueOf(s, {}) = {}
  /\ \A s \in {None, "READY"} : \A U : DueOf(s, U) = {}
  /\ \A u : u.kept = "no" => DueOf("FAILED", {u}) = 1..LastTry
  /\ \A u : u.kept # "no" => DueOf("FAILED", {u}) = 1..MaxRetries
  /\ DueOf("FAILED", {}) = 1..MaxRetries
<1> USE LoopRetriesAssumption DEF LastTry
<1>1. \A s : \A U : DueOf(s, U) \subseteq 1..LastTry
  BY DEF DueOf
<1>2. /\ \A s \in {None, "PENDING", "PREPARING", "READY"} : DueOf(s, {}) = {}
      /\ \A s \in {None, "READY"} : \A U : DueOf(s, U) = {}
  BY Statuses DEF DueOf, Open
<1>3. \A u : u.kept = "no" => DueOf("FAILED", {u}) = 1..LastTry
  BY DEF DueOf, Open
<1>4. \A u : u.kept # "no" => DueOf("FAILED", {u}) = 1..MaxRetries
  BY DEF DueOf, Open
<1>5. DueOf("FAILED", {}) = 1..MaxRetries
  BY DEF DueOf, Open
<1>6. QED
  BY <1>1, <1>2, <1>3, <1>4, <1>5

DueNow(o) == DueOf(status[o], Units(o))
DueNext(o) == DueOf(status'[o], UnitsNext(o))

\* The step costs o at most a attempts ...
Costs(o, a) ==
  \/ a = 0 /\ DueNext(o) \subseteq DueNow(o)
  \/ a = 1 /\ \E k : DueNext(o) \subseteq DueNow(o) \cup {k}
  \/ a = -1 /\ \E k \in DueNow(o) : DueNext(o) \subseteq DueNow(o) \ {k}

\* ... and the finished orders grow by r.
Yields(o, r) ==
  \/ r = 0 /\ (ReturnedOf(status[o], Units(o)) => ReturnedOf(status'[o], UnitsNext(o)))
  \/ r = 1 /\ ~ReturnedOf(status[o], Units(o)) /\ ReturnedOf(status'[o], UnitsNext(o))
  \/ r = -1

LEMMA SpentGrows ==
  ASSUME IsFiniteSet(Spent), NEW o \in Orders, OnlyAt(o), NEW a, Costs(o, a)
  PROVE  Grew(Spent, Spent', a)
<1>1. Spent = {p \in Orders \X (1..LastTry) : p[2] \in DueNow(p[1])}
  BY DEF Spent, DueNow
<1>2. Spent' = {p \in Orders \X (1..LastTry) : p[2] \in DueNext(p[1])}
  BY DEF Spent, DueNext, Units, UnitsNext
<1>3. \A p \in Orders : p # o => DueNext(p) = DueNow(p)
  BY DEF OnlyAt, DueNow, DueNext
<1>4. \A p \in Spent' : p \in Spent \/ (p[1] = o /\ p[2] \in DueNext(o) /\ p = <<o, p[2]>>)
  BY <1>1, <1>2, <1>3
<1>5. CASE a = 0 /\ DueNext(o) \subseteq DueNow(o)
  <2>1. Spent' \subseteq Spent
    BY <1>1, <1>2, <1>3, <1>5
  <2>2. QED
    BY <1>5, <2>1, GrowSame
<1>6. ASSUME a = 1, NEW k, DueNext(o) \subseteq DueNow(o) \cup {k}
      PROVE  Grew(Spent, Spent', a)
  <2>1. Spent' \subseteq Spent \cup {<<o, k>>}
    BY <1>1, <1>2, <1>4, <1>6
  <2>2. QED
    BY <1>6, <2>1, GrowOne
<1>7. ASSUME a = -1, NEW k \in DueNow(o), DueNext(o) \subseteq DueNow(o) \ {k}
      PROVE  Grew(Spent, Spent', a)
  <2>1. k \in 1..LastTry
    BY <1>7, Due DEF DueNow
  <2>2. <<o, k>> \in Spent
    BY <1>1, <1>7, <2>1
  <2>3. <<o, k>> \notin Spent'
    BY <1>2, <1>7
  <2>4. Spent' \subseteq Spent
    BY <1>1, <1>2, <1>3, <1>7
  <2>5. Spent' \subseteq Spent \ {<<o, k>>}
    BY <2>3, <2>4
  <2>6. QED
    BY <1>7, <2>2, <2>5, GrowLess
<1>8. QED
  BY <1>5, <1>6, <1>7 DEF Costs

LEMMA ReturnedFinite ==
  ASSUME IsFiniteSet(Placed)
  PROVE  IsFiniteSet(Returned) /\ Cardinality(Returned) \in Nat
<1>1. Returned \subseteq Placed
  BY Statuses DEF Returned, ReturnedOf, Placed
<1>2. QED
  BY <1>1, FS_Subset, FS_CardinalityType

LEMMA ReturnedGrows ==
  ASSUME IsFiniteSet(Placed), IsFiniteSet(Placed'), NEW o \in Orders, OnlyAt(o),
         NEW r, Yields(o, r)
  PROVE  Cardinality(Returned') \in Nat /\ Cardinality(Returned') >= Cardinality(Returned) + r
<1>1. IsFiniteSet(Returned) /\ Cardinality(Returned) \in Nat
  BY ReturnedFinite
<1>2. IsFiniteSet(Returned') /\ Cardinality(Returned') \in Nat
  <2>1. Returned' \subseteq Placed'
    BY Statuses DEF Returned, ReturnedOf, Placed
  <2>2. QED
    BY <2>1, FS_Subset, FS_CardinalityType
<1>3. /\ Returned = {p \in Orders : ReturnedOf(status[p], Units(p))}
      /\ Returned' = {p \in Orders : ReturnedOf(status'[p], UnitsNext(p))}
  BY DEF Returned, Units, UnitsNext
<1>4. \A p \in Orders : p # o => (p \in Returned' <=> p \in Returned)
  BY <1>3 DEF OnlyAt
<1>5. CASE r = 0 /\ (o \in Returned => o \in Returned')
  <2>1. Returned \subseteq Returned'
    BY <1>3, <1>4, <1>5
  <2>2. Grew(Returned', Returned, 0)
    BY <1>2, <2>1, GrowSame
  <2>3. QED
    BY <1>1, <1>2, <1>5, <2>2 DEF Grew
<1>6. CASE r = 1 /\ o \notin Returned /\ o \in Returned'
  <2>1. Returned \subseteq Returned' \ {o}
    BY <1>3, <1>4, <1>6
  <2>2. Grew(Returned', Returned, -1)
    BY <1>2, <1>6, <2>1, GrowLess
  <2>3. QED
    BY <1>1, <1>2, <1>6, <2>2 DEF Grew
<1>7. CASE r = -1
  <2>1. Returned \subseteq Returned' \cup {o}
    BY <1>3, <1>4
  <2>2. Grew(Returned', Returned, 1)
    BY <1>2, <2>1, GrowOne
  <2>3. QED
    BY <1>1, <1>2, <1>7, <2>2 DEF Grew
<1>8. QED
  BY <1>3, <1>5, <1>6, <1>7 DEF Yields

\* What a step costs o, and the s connections it leaves, is covered by what it
\* yields and the e errors it spends ...
Affords(o, s, e) ==
  \E a \in Int, r \in Int : Costs(o, a) /\ Yields(o, r) /\ a + s <= r + 2 * e

\* ... and then the balance is kept.
LEMMA Keeping ==
  ASSUME TypeOK, Balance, NEW o \in Orders, OnlyAt(o), status' \in [Orders -> MaybeStatus],
         NEW s \in Int, Grew(Stale, Stale', s),
         NEW e \in Nat, used'["error"] = used["error"] + e,
         Affords(o, s, e)
  PROVE  Balance'
<1>0. PICK a \in Int, r \in Int : Costs(o, a) /\ Yields(o, r) /\ a + s <= r + 2 * e
  BY DEF Affords
<1>1. IsFiniteSet(Placed')
  <2>1. Placed' \subseteq Placed \cup {o}
    BY DEF Placed, OnlyAt
  <2>2. Grew(Placed, Placed', 1)
    BY <2>1, GrowOne DEF Balance
  <2>3. QED
    BY <2>2 DEF Grew
<1>2. Grew(Spent, Spent', a)
  BY <1>0, SpentGrows DEF Balance
<1>3. Cardinality(Returned') \in Nat /\ Cardinality(Returned') >= Cardinality(Returned) + r
  BY <1>0, <1>1, ReturnedGrows DEF Balance
<1>4. /\ Cardinality(Spent) \in Nat /\ Cardinality(Stale) \in Nat /\ Cardinality(Returned) \in Nat
      /\ used["error"] \in Nat
  BY FS_CardinalityType, ReturnedFinite, Errors DEF Balance
<1>5. Cardinality(Spent') \in Nat /\ Cardinality(Stale') \in Nat
  BY <1>2, FS_CardinalityType DEF Grew
<1>6. Cardinality(Spent') + Cardinality(Stale') <= Cardinality(Returned') + 2 * used'["error"]
  BY <1>0, <1>2, <1>3, <1>4, <1>5 DEF Grew, Balance
<1>7. QED
  BY <1>1, <1>2, <1>6 DEF Balance, Grew

-----------------------------------------------------------------------------
(* The cost of a step, by the status of its order                          *)

LEMMA UnitFields ==
  /\ \A m : MessageUnit(m).tried = m.retries /\ MessageUnit(m).kept = "no"
  /\ \A t, s : /\ t.pc # "raised" => TaskUnit(t, s).tried = t.retries
               /\ t.pc = "raised" => TaskUnit(t, s).tried = t.retries + 1
               /\ ~s \/ t.pc \notin {"raised", "bury", "ack"} => TaskUnit(t, s).kept = "no"
               /\ s /\ t.pc = "raised" => TaskUnit(t, s).kept = "raised"
               /\ s /\ t.pc \in {"bury", "ack"} => TaskUnit(t, s).kept = "ack"
BY DEF MessageUnit, TaskUnit, KeptAt

LEMMA OpenCosts ==
  ASSUME NEW o \in Orders, status[o] \in Open, status'[o] \in Open,
         NEW u, NEW v, Units(o) = {u}, UnitsNext(o) = {v}, u.tried \in Nat, v.tried \in Nat
  PROVE  /\ Yields(o, 0)
         /\ v.tried <= u.tried => Costs(o, 0)
         /\ v.tried <= u.tried + 1 => Costs(o, 1)
<1>1. Yields(o, 0)
  BY DEF Yields, ReturnedOf, Open
<1>2. /\ \A k : k \in DueNow(o) <=> k \in 1..LastTry /\ k <= u.tried
      /\ \A k : k \in DueNext(o) <=> k \in 1..LastTry /\ k <= v.tried
  BY DEF DueNow, DueNext, DueOf, Open
<1>3. ASSUME v.tried <= u.tried PROVE Costs(o, 0)
  <2>1. DueNext(o) \subseteq DueNow(o)
    BY <1>2, <1>3, LoopRetriesAssumption DEF LastTry
  <2>2. QED
    BY <2>1 DEF Costs
<1>4. ASSUME v.tried <= u.tried + 1 PROVE Costs(o, 1)
  <2>1. DueNext(o) \subseteq DueNow(o) \cup {u.tried + 1}
    BY <1>2, <1>4, LoopRetriesAssumption DEF LastTry
  <2>2. QED
    BY <2>1 DEF Costs
<1>5. QED
  BY <1>1, <1>3, <1>4

LEMMA ReadyCosts ==
  ASSUME NEW o \in Orders, status[o] = "READY", status'[o] = "READY",
         NEW u, NEW v, Units(o) = {u}, UnitsNext(o) = {v}
  PROVE  /\ Costs(o, 0) /\ Yields(o, -1)
         /\ u.kept # "ack" \/ v.kept = "ack" => Yields(o, 0)
         /\ u.kept # "ack" /\ v.kept = "ack" => Yields(o, 1)
<1>1. Costs(o, 0)
  BY Due DEF Costs, DueNow, DueNext
<1>2. /\ ReturnedOf(status[o], Units(o)) <=> u.kept = "ack"
      /\ ReturnedOf(status'[o], UnitsNext(o)) <=> v.kept = "ack"
  BY DEF ReturnedOf
<1>3. QED
  BY <1>1, <1>2 DEF Yields

LEMMA FailedCosts ==
  ASSUME NEW o \in Orders, status[o] = "FAILED", status'[o] = "FAILED",
         NEW u, NEW v, Units(o) = {u}, UnitsNext(o) = {v}
  PROVE  /\ Yields(o, 0) /\ Costs(o, 1)
         /\ u.kept = "no" \/ v.kept # "no" => Costs(o, 0)
         /\ u.kept = "no" /\ v.kept # "no" => Costs(o, -1)
<1>1. Yields(o, 0)
  BY DEF Yields, ReturnedOf
<1>2. /\ u.kept = "no" => DueNow(o) = 1..LastTry
      /\ u.kept # "no" => DueNow(o) = 1..MaxRetries
      /\ v.kept = "no" => DueNext(o) = 1..LastTry
      /\ v.kept # "no" => DueNext(o) = 1..MaxRetries
  BY Due DEF DueNow, DueNext
<1>3. /\ 1..LastTry \subseteq 1..MaxRetries \cup {LastTry} /\ 1..MaxRetries \subseteq 1..LastTry
      /\ 1..MaxRetries \subseteq 1..LastTry \ {LastTry} /\ LastTry \in 1..LastTry
  BY LoopRetriesAssumption DEF LastTry
<1>4. DueNow(o) \in {1..LastTry, 1..MaxRetries} /\ DueNext(o) \in {1..LastTry, 1..MaxRetries}
  BY <1>2
<1>5. Costs(o, 1)
  <2>1. DueNext(o) \subseteq DueNow(o) \cup {LastTry}
    BY <1>3, <1>4
  <2>2. QED
    BY <2>1 DEF Costs
<1>6. ASSUME u.kept = "no" \/ v.kept # "no" PROVE Costs(o, 0)
  <2>1. DueNext(o) \subseteq DueNow(o)
    BY <1>2, <1>3, <1>4, <1>6
  <2>2. QED
    BY <2>1 DEF Costs
<1>7. ASSUME u.kept = "no", v.kept # "no" PROVE Costs(o, -1)
  <2>1. LastTry \in DueNow(o) /\ DueNext(o) \subseteq DueNow(o) \ {LastTry}
    BY <1>2, <1>3, <1>7
  <2>2. QED
    BY <2>1 DEF Costs
<1>8. QED
  BY <1>1, <1>5, <1>6, <1>7

\* A step that leaves the status and costs nothing in any.
LEMMA NoCost ==
  ASSUME TypeOK, NEW o \in Orders, status[o] # None,
         status'[o] = status[o] \/ (status[o] \in Open /\ status'[o] \in Open),
         NEW u, NEW v, Units(o) = {u}, UnitsNext(o) = {v}, u.tried \in Nat, v.tried \in Nat,
         v.tried <= u.tried, v.kept = u.kept \/ (u.kept = "no" /\ v.kept # "ack")
  PROVE  Costs(o, 0) /\ Yields(o, 0)
<1>1. status[o] \in {"PENDING", "PREPARING", "READY", "FAILED"}
  BY Statuses DEF TypeOK
<1>2. CASE status[o] \in Open /\ status'[o] \in Open
  BY <1>2, OpenCosts
<1>3. CASE status[o] = "READY" /\ status'[o] = "READY"
  BY <1>3, ReadyCosts
<1>4. CASE status[o] = "FAILED" /\ status'[o] = "FAILED"
  BY <1>4, FailedCosts
<1>5. QED
  BY <1>1, <1>2, <1>3, <1>4 DEF Open

-----------------------------------------------------------------------------
(* The other clauses                                                       *)

LEMMA Apart ==
  ASSUME Unique, NEW w \in Workers, task[w] # Idle
  PROVE  /\ \A v \in Workers : v # w => task[v].order # task[w].order
         /\ \A n \in queue : n.order # task[w].order
BY DEF Unique, UniqueIn

\* w's step keeps the other clauses if it does for w and its order.
LEMMA OwnRest ==
  ASSUME TypeOK, Unposted, Fresh, FailedLast, unsent' = unsent, NEW w \in Workers, NEW o \in Orders,
         NEW t, NEW b, OwnTask(w, o, t, b),
         \A v \in Workers : v # w /\ task[v] # Idle => task[v].order # o,
         t.pc = "cook" => ~b /\ t.order = o /\ status'[o] \in {"PREPARING", "FAILED"},
         t # Idle => t.order = o /\ (status'[o] = "FAILED" => t.retries = MaxRetries),
         \A n \in queue' : \/ n \in queue /\ n.order # o
                           \/ n.order = o /\ (status'[o] = "FAILED" => n.retries = MaxRetries)
  PROVE  Fresh' /\ FailedLast' /\ (o \notin unsent => Unposted')
<1>1. /\ task'[w] = t /\ stale'[w] = b
      /\ \A v \in Workers : v # w => task'[v] = task[v] /\ stale'[v] = stale[v]
  BY TaskFacts DEF OwnTask
<1>2. \A p \in Orders : p # o => status'[p] = status[p]
  BY DEF OwnTask
<1>3. \A v \in Workers : v # w /\ task[v] # Idle =>
        task[v].order \in Orders /\ status'[task[v].order] = status[task[v].order]
  BY <1>2, TaskFacts
<1>4. ASSUME NEW v \in Workers, task'[v].pc = "cook"
      PROVE  ~stale'[v] /\ status'[task'[v].order] \in {"PREPARING", "FAILED"}
  <2>1. CASE v = w
    BY <1>1, <1>4, <2>1
  <2>2. CASE v # w
    <3>1. task'[v] = task[v] /\ stale'[v] = stale[v] /\ task[v].pc = "cook"
      BY <1>1, <1>4, <2>2
    <3>2. task[v] # Idle
      BY <3>1, TaskFacts
    <3>3. QED
      BY <1>3, <2>2, <3>1, <3>2 DEF Fresh
  <2>3. QED
    BY <2>1, <2>2
<1>5. ASSUME NEW v \in Workers, task'[v] # Idle, status'[task'[v].order] = "FAILED"
      PROVE  task'[v].retries = MaxRetries
  <2>1. CASE v = w
    BY <1>1, <1>5, <2>1
  <2>2. CASE v # w
    BY <1>1, <1>3, <1>5, <2>2 DEF FailedLast
  <2>3. QED
    BY <2>1, <2>2
<1>6. ASSUME NEW n \in queue', status'[n.order] = "FAILED"
      PROVE  n.retries = MaxRetries
  <2>1. CASE n \in queue /\ n.order # o
    <3>1. n.order \in Orders
      BY <2>1 DEF TypeOK, Messages
    <3>2. QED
      BY <1>2, <1>6, <2>1, <3>1 DEF FailedLast
  <2>2. CASE n.order = o /\ (status'[o] = "FAILED" => n.retries = MaxRetries)
    BY <1>6, <2>2
  <2>3. QED
    BY <2>1, <2>2
<1>7. ASSUME o \notin unsent, NEW p \in unsent'
      PROVE  /\ status'[p] = "PENDING"
             /\ \A n \in queue' : n.order # p
             /\ \A v \in Workers : task'[v].order # p
  <2>1. p \in unsent /\ p \in Orders /\ p # o
    BY <1>7 DEF TypeOK
  <2>2. task'[w].order # p
    BY <1>1, <2>1, TaskFacts
  <2>3. \A v \in Workers : v # w => task'[v].order # p
    BY <1>1, <2>1 DEF Unposted
  <2>4. QED
    BY <1>2, <2>1, <2>2, <2>3 DEF Unposted
<1>8. QED
  BY <1>4, <1>5, <1>6, <1>7 DEF Fresh, FailedLast, Unposted

-----------------------------------------------------------------------------
(* Action by action                                                        *)

LEMMA PlaceBalance ==
  ASSUME IInv, BInv, NEW o \in Orders, Place(o)
  PROVE  BInv'
<1>1. /\ TypeOK /\ PlacedOnly /\ Unique /\ Unposted /\ Fresh /\ FailedLast /\ Balance
      /\ status[o] = None /\ status' = [status EXCEPT ![o] = "PENDING"]
      /\ unsent' = unsent \cup {o}
      /\ queue' = queue /\ task' = task /\ stale' = stale /\ used' = used
  BY DEF IInv, BInv, Place, NoFault
<1>2. /\ \A n \in queue : n.order \in Orders /\ n.order # o
      /\ \A v \in Workers : task[v].order # o
  BY <1>1, TaskFacts DEF PlacedOnly, TypeOK, Messages
<1>3. /\ status'[o] = "PENDING" /\ status' \in [Orders -> MaybeStatus]
      /\ \A p \in Orders : p # o => status'[p] = status[p]
  BY <1>1, Statuses DEF TypeOK
<1>4. Unique' /\ OnlyAt(o)
  BY <1>1, <1>3 DEF Unique, UniqueIn, OnlyAt, Units, UnitsNext, UnitsIn
<1>5. Costs(o, 0) /\ Yields(o, 0)
  <2>1. {n \in queue' : n.order = o} = {} /\ {v \in Workers : task'[v].order = o} = {}
    BY <1>1, <1>2
  <2>2. UnitsNext(o) = {}
    BY <2>1 DEF UnitsNext, UnitsIn
  <2>3. DueNext(o) = {}
    BY <1>3, <2>2, Due DEF DueNext
  <2>4. QED
    BY <1>1, <2>3, Statuses DEF Costs, Yields, ReturnedOf
<1>6. Balance'
  <2>1. Grew(Stale, Stale', 0)
    BY <1>1, GrowSame DEF Balance, Stale
  <2>2. used'["error"] = used["error"] + 0
    BY <1>1, Errors
  <2>3. Affords(o, 0, 0)
    BY <1>5 DEF Affords
  <2>4. QED
    BY <1>1, <1>3, <1>4, <2>1, <2>2, <2>3, Keeping
<1>7. \A v \in Workers : task[v] # Idle => task[v].order \in Orders /\ task[v].order # o
  BY <1>1, <1>2, TaskFacts
<1>8. Fresh'
  <2>1. \A v \in Workers : task[v].pc = "cook" => task[v] # Idle
    BY <1>1, TaskFacts
  <2>2. QED
    BY <1>1, <1>3, <1>7, <2>1 DEF Fresh
<1>9. FailedLast'
  BY <1>1, <1>2, <1>3, <1>7 DEF FailedLast
<1>10. Unposted'
  BY <1>1, <1>2, <1>3 DEF Unposted, TypeOK
<1>11. QED
  BY <1>4, <1>6, <1>8, <1>9, <1>10 DEF BInv

\* The first message of o arrives.
LEMMA MessageComes ==
  ASSUME IInv, BInv, NEW o \in unsent, unsent' = unsent \ {o},
         NEW m, m = [order |-> o, retries |-> 0], queue' = queue \cup {m},
         status' = status, task' = task, stale' = stale, used'["error"] = used["error"]
  PROVE  BInv'
<1>1. /\ TypeOK /\ Unique /\ Unposted /\ Fresh /\ FailedLast /\ Balance
      /\ o \in Orders /\ status[o] = "PENDING"
  BY DEF IInv, BInv, TypeOK, Unposted
<1>2. /\ \A n \in queue : n.order # o
      /\ \A v \in Workers : task[v].order # o
  BY DEF BInv, Unposted
<1>3. m.order = o /\ m.retries = 0
  OBVIOUS
<1>4. \A n \in queue' : n \in queue \/ n = m
  OBVIOUS
<1>5. UniqueIn(queue', task')
  BY <1>1, <1>2, <1>3, <1>4 DEF Unique, UniqueIn
<1>6. ASSUME NEW p \in Orders, p # o
      PROVE  UnitsIn(p, queue', task', stale') = UnitsIn(p, queue, task, stale)
  <2>1. \A n \in queue \cup queue' : n.order = p => n \in queue /\ n \in queue'
    BY <1>3, <1>4, <1>6
  <2>2. QED
    BY <2>1, Elsewhere
<1>7. OnlyAt(o)
  BY <1>6 DEF OnlyAt, Units, UnitsNext
<1>8. IsOnly(MessageUnit(m), UnitsNext(o))
  BY <1>3, <1>5, AloneMessage DEF UnitsNext
<1>9. DueNext(o) = {}
  <2>1. UnitsNext(o) = {MessageUnit(m)} /\ MessageUnit(m).tried = 0
    BY <1>3, <1>8, UnitFields DEF IsOnly
  <2>2. QED
    BY <1>1, <2>1 DEF DueNext, DueOf
<1>10. Costs(o, 0) /\ Yields(o, 0)
  BY <1>1, <1>9 DEF Costs, Yields, ReturnedOf
<1>11. Balance'
  <2>1. Grew(Stale, Stale', 0)
    BY <1>1, GrowSame DEF Balance, Stale
  <2>2. used'["error"] = used["error"] + 0 /\ status' \in [Orders -> MaybeStatus]
    BY <1>1, Errors DEF TypeOK
  <2>3. Affords(o, 0, 0)
    BY <1>10 DEF Affords
  <2>4. QED
    BY <1>1, <1>7, <2>1, <2>2, <2>3, Keeping
<1>12. Fresh' /\ FailedLast'
  BY <1>1, <1>3, <1>4 DEF Fresh, FailedLast
<1>13. Unposted'
  BY <1>1, <1>3, <1>4 DEF Unposted
<1>14. QED
  BY <1>5, <1>11, <1>12, <1>13 DEF BInv, Unique

LEMMA PublishBalance ==
  ASSUME IInv, BInv, NEW o \in Orders, Publish(o) \/ PublishFails(o)
  PROVE  BInv'
<1> DEFINE m == [order |-> o, retries |-> 0]
<1>1. /\ o \in unsent /\ unsent' = unsent \ {o}
      /\ status' = status /\ task' = task /\ stale' = stale
  BY DEF Publish, PublishFails
<1>2. queue' = queue \cup {m} \/ queue' = queue
  BY DEF Publish, PublishFails, Posts, MayPost
<1>3. used'["error"] = used["error"]
  BY Errors DEF IInv, Publish, PublishFails, PublishBreaks
<1>4. CASE queue' = queue \cup {m}
  BY <1>1, <1>3, <1>4, MessageComes
<1>5. CASE queue' = queue
  <2>1. Unique' /\ Unposted' /\ Fresh' /\ FailedLast'
    BY <1>1, <1>5 DEF BInv, Unique, UniqueIn, Unposted, Fresh, FailedLast
  <2>2. Balance'
    BY <1>1, <1>3, <1>5 DEF BInv, Balance, Spent, Stale, Returned, Placed, Units, UnitsIn
  <2>3. QED
    BY <2>1, <2>2 DEF BInv
<1>6. QED
  BY <1>2, <1>4, <1>5

LEMMA ReceiveBalance ==
  ASSUME IInv, IInv', BInv, NEW w \in Workers, NEW m \in queue, Receive(w, m)
  PROVE  BInv'
<1> DEFINE t == [pc |-> "start", order |-> m.order, retries |-> m.retries]
<1>1. /\ TypeOK /\ PlacedOnly /\ Unique /\ Unposted /\ Fresh /\ FailedLast /\ Balance
      /\ unsent' = unsent /\ task[w] = Idle /\ queue' = queue \ {m} /\ task' = [task EXCEPT ![w] = t]
      /\ status' = status /\ stale' = stale /\ used' = used
  BY DEF IInv, BInv, Receive, NoFault, posts
<1>2. t.pc = "start" /\ t.order = m.order /\ t.retries = m.retries
  OBVIOUS
<1> HIDE DEF t
<1>3. m.order \in Orders /\ m.retries \in Nat /\ status[m.order] # None
  BY <1>1 DEF TypeOK, Messages, PlacedOnly
<1>4. PICK o \in Orders : o = m.order
  BY <1>3
<1>5. t # Idle
  BY <1>1, <1>2, TaskFacts
<1>6. stale' = [stale EXCEPT ![w] = stale[w]] /\ stale[w] \in BOOLEAN
  BY <1>1 DEF TypeOK
<1>7. OwnTask(w, o, t, stale[w])
  BY <1>1, <1>6 DEF OwnTask
<1>8. /\ Unique' /\ OnlyAt(o)
      /\ Units(o) = {MessageUnit(m)} /\ UnitsNext(o) = {TaskUnit(t, stale[w])}
  BY <1>1, <1>2, <1>4, <1>5, <1>7, IsTaken
<1>9. Costs(o, 0) /\ Yields(o, 0)
  <2>1. /\ MessageUnit(m).tried = m.retries /\ MessageUnit(m).kept = "no"
        /\ TaskUnit(t, stale[w]).tried = m.retries /\ TaskUnit(t, stale[w]).kept = "no"
    BY <1>2, UnitFields
  <2>2. QED
    BY <1>1, <1>3, <1>4, <1>8, <2>1, NoCost
<1>10. Balance'
  <2>1. Grew(Stale, Stale', 0)
    BY <1>1, GrowSame DEF Balance, Stale
  <2>2. used'["error"] = used["error"] + 0 /\ status' \in [Orders -> MaybeStatus]
    BY <1>1, Errors DEF TypeOK
  <2>3. Affords(o, 0, 0)
    BY <1>9 DEF Affords
  <2>4. QED
    BY <1>1, <1>8, <2>1, <2>2, <2>3, Keeping
<1>11. Fresh' /\ FailedLast' /\ Unposted'
  <2>1. \A v \in Workers : task[v].order # o
    BY <1>1, <1>4 DEF Unique, UniqueIn
  <2>2. \A n \in queue' : n \in queue /\ n.order # o
    BY <1>1, <1>4 DEF Unique, UniqueIn
  <2>3. status'[o] = "FAILED" => t.retries = MaxRetries
    BY <1>1, <1>2, <1>4 DEF FailedLast
  <2>4. o \notin unsent
    BY <1>1, <1>4 DEF Unposted
  <2>5. QED
    BY <1>1, <1>2, <1>4, <1>7, <2>1, <2>2, <2>3, <2>4, OwnRest
<1>12. QED
  BY <1>8, <1>10, <1>11 DEF BInv

\* w's task at o goes on to pc, in its pool there is a connection after that if b,
\* and e errors are spent.
MovesTo(w, o, pc, b, e) ==
  /\ task[w] # Idle /\ o = task[w].order /\ Goto(w, pc) /\ queue' = queue /\ unsent' = unsent
  /\ \A p \in Orders : p # o => status'[p] = status[p]
  /\ stale' = [stale EXCEPT ![w] = b]
  /\ pc = "cook" => ~b /\ status'[o] \in {"PREPARING", "FAILED"}
  /\ status'[o] = "FAILED" => task[w].retries = MaxRetries
  /\ used'["error"] = used["error"] + e

\* At o, u becomes v.
UnitMoves(w, o, pc, b, u, v) ==
  /\ Units(o) = {u} /\ UnitsNext(o) = {v} /\ u.tried \in Nat /\ v.tried \in Nat
  /\ u.tried = IF task[w].pc = "raised" THEN task[w].retries + 1 ELSE task[w].retries
  /\ u.kept = KeptAt(task[w].pc, stale[w])
  /\ v.tried = IF pc = "raised" THEN task[w].retries + 1 ELSE task[w].retries
  /\ v.kept = KeptAt(pc, b)

\* What such a step leaves to prove: what it costs and what it yields.
LEMMA GoingOn ==
  ASSUME IInv, IInv', BInv, NEW w \in Workers, NEW o \in Orders,
         NEW pc \in {"start", "cook", "raised", "bury", "ack"}, NEW b \in BOOLEAN, NEW e \in Nat,
         MovesTo(w, o, pc, b, e)
  PROVE  /\ \E u, v : UnitMoves(w, o, pc, b, u, v)
         /\ Affords(o, StaleGain(w, b), e) => BInv'
<1>1. /\ TypeOK /\ Unique /\ Unposted /\ Fresh /\ FailedLast /\ Balance /\ status' \in [Orders -> MaybeStatus]
      /\ task[w] # Idle /\ o = task[w].order /\ Goto(w, pc) /\ queue' = queue /\ unsent' = unsent
      /\ \A p \in Orders : p # o => status'[p] = status[p]
      /\ stale' = [stale EXCEPT ![w] = b]
      /\ pc = "cook" => ~b /\ status'[o] \in {"PREPARING", "FAILED"}
      /\ status'[o] = "FAILED" => task[w].retries = MaxRetries
      /\ used'["error"] = used["error"] + e
  BY DEF IInv, BInv, TypeOK, MovesTo
<1> DEFINE t == [task[w] EXCEPT !.pc = pc]
<1>2. task[w] \in Task /\ task[w].retries \in 0..MaxRetries
  BY <1>1, TaskStep
<1>3. task[w].retries \in Nat
  BY <1>2, LoopRetriesAssumption
<1>4. t.pc = pc /\ t.order = o /\ t.retries = task[w].retries
  BY <1>1, <1>2 DEF Task
<1>5. task' = [task EXCEPT ![w] = t]
  BY <1>1 DEF Goto, TypeOK
<1> HIDE DEF t
<1>6. t # Idle
  BY <1>1, <1>4, TaskFacts
<1>7. /\ TypeOK /\ Unique /\ task[w] # Idle /\ o = task[w].order /\ t # Idle /\ t.order = o
      /\ OwnTask(w, o, t, b) /\ queue' = queue
  BY <1>1, <1>4, <1>5, <1>6 DEF OwnTask
<1>8. /\ Unique' /\ OnlyAt(o)
      /\ Units(o) = {TaskUnit(task[w], stale[w])} /\ UnitsNext(o) = {TaskUnit(t, b)}
  BY <1>7, GoesOn
<1>9. Fresh' /\ FailedLast' /\ Unposted'
  <2>1. /\ \A v \in Workers : v # w => task[v].order # o
        /\ \A n \in queue : n.order # o
    BY <1>1, Apart
  <2>2. o \notin unsent
    BY <1>1 DEF Unposted
  <2>3. QED
    BY <1>1, <1>4, <1>6, <1>7, <2>1, <2>2, OwnRest
<1>10. Grew(Stale, Stale', StaleGain(w, b)) /\ StaleGain(w, b) \in Int
  BY <1>1, StaleGrows DEF Balance
<1>11. ASSUME Affords(o, StaleGain(w, b), e) PROVE BInv'
  <2>1. Balance'
    BY <1>1, <1>8, <1>10, <1>11, Keeping
  <2>2. QED
    BY <1>8, <1>9, <2>1 DEF BInv
<1> DEFINE u == TaskUnit(task[w], stale[w])
           v == TaskUnit(t, b)
<1>12. /\ u.tried = IF task[w].pc = "raised" THEN task[w].retries + 1 ELSE task[w].retries
       /\ u.kept = KeptAt(task[w].pc, stale[w])
       /\ v.tried = IF pc = "raised" THEN task[w].retries + 1 ELSE task[w].retries
       /\ v.kept = KeptAt(pc, b)
  BY <1>4 DEF TaskUnit
<1>13. u.tried \in Nat /\ v.tried \in Nat
  BY <1>3, <1>12
<1> HIDE DEF u, v
<1>14. Units(o) = {u} /\ UnitsNext(o) = {v}
  BY <1>8 DEF u, v
<1>15. UnitMoves(w, o, pc, b, u, v)
  BY <1>12, <1>13, <1>14 DEF UnitMoves
<1>16. QED
  BY <1>11, <1>15

LEMMA AtWork ==
  ASSUME IInv, BInv, NEW w \in Workers, task[w] # Idle \/ task[w].pc # "idle"
  PROVE  /\ \E o \in Orders : o = task[w].order
         /\ \A o \in Orders : o = task[w].order =>
              /\ status[o] \in {"PENDING", "PREPARING", "READY", "FAILED"} /\ status[o] # None
              /\ status[o] = "FAILED" => task[w].retries = MaxRetries
              /\ task[w].pc = "cook" => ~stale[w] /\ status[o] \in {"PREPARING", "FAILED"}
         /\ task[w] # Idle /\ stale[w] \in BOOLEAN
         /\ task[w].retries \in Nat /\ task[w].retries <= MaxRetries
<1>1. TypeOK /\ PlacedOnly /\ Fresh /\ FailedLast
  BY DEF IInv, BInv
<1>2. /\ task[w] # Idle /\ task[w].order \in Orders /\ status[task[w].order] # None
      /\ task[w].retries \in 0..MaxRetries
  BY <1>1, TaskStep DEF PlacedOnly
<1>3. status[task[w].order] \in MaybeStatus /\ stale[w] \in BOOLEAN
  BY <1>1, <1>2 DEF TypeOK
<1>4. task[w].retries \in Nat /\ task[w].retries <= MaxRetries
  BY <1>2, LoopRetriesAssumption
<1>5. QED
  BY <1>1, <1>2, <1>3, <1>4, Statuses DEF Fresh, FailedLast

LEMMA StaleConnectionBalance ==
  ASSUME IInv, IInv', BInv, NEW w \in Workers, StaleConnection(w)
  PROVE  BInv'
<1>1. /\ TypeOK /\ task[w].pc = "start" /\ stale[w] = TRUE
      /\ Goto(w, "raised") /\ stale' = [stale EXCEPT ![w] = FALSE]
      /\ queue' = queue /\ status' = status /\ unsent' = unsent /\ NoFault
  BY DEF IInv, TypeOK, StaleConnection, DropsConnection, posts
<1>2. PICK o \in Orders : o = task[w].order
  BY <1>1, AtWork
<1>3. MovesTo(w, o, "raised", FALSE, 0)
  <2>1. used'["error"] = used["error"] + 0
    BY <1>1, Errors
  <2>2. QED
    BY <1>1, <1>2, <2>1, AtWork DEF MovesTo
<1>4. PICK u, v : UnitMoves(w, o, "raised", FALSE, u, v)
  BY <1>3, GoingOn
<1>5. /\ Units(o) = {u} /\ UnitsNext(o) = {v} /\ u.tried \in Nat /\ v.tried \in Nat
      /\ v.tried = u.tried + 1 /\ u.kept = "no" /\ v.kept = "no"
  BY <1>1, <1>4 DEF UnitMoves, KeptAt
<1>6. StaleGain(w, FALSE) = -1
  BY <1>1 DEF StaleGain
<1>7. status'[o] = status[o] /\ status[o] \in {"PENDING", "PREPARING", "READY", "FAILED"}
  BY <1>1, <1>2, AtWork
<1>8. Affords(o, -1, 0)
  <2>1. CASE status[o] \in Open
    BY <1>5, <1>7, <2>1, OpenCosts DEF Affords
  <2>2. CASE status[o] = "READY"
    BY <1>5, <1>7, <2>2, ReadyCosts DEF Affords
  <2>3. CASE status[o] = "FAILED"
    BY <1>5, <1>7, <2>3, FailedCosts DEF Affords
  <2>4. QED
    BY <1>7, <2>1, <2>2, <2>3 DEF Open
<1>9. QED
  BY <1>3, <1>6, <1>8, GoingOn

LEMMA BeginBalance ==
  ASSUME IInv, IInv', BInv, NEW w \in Workers, Begin(w)
  PROVE  BInv'
<1>1. /\ TypeOK /\ task[w].pc = "start" /\ stale[w] = FALSE
      /\ queue' = queue /\ unsent' = unsent /\ NoFault
  BY DEF IInv, TypeOK, Begin, posts
<1>2. PICK o \in Orders : o = task[w].order
  BY <1>1, AtWork
<1>3. used'["error"] = used["error"] + 0
  BY <1>1, Errors
<1>4. CASE status[o] = "READY"
  <2>1. /\ Goto(w, "ack") /\ stale' = [stale EXCEPT ![w] = TRUE] /\ status' = status
    BY <1>2, <1>4 DEF Begin, LeavesConnection
  <2>2. MovesTo(w, o, "ack", TRUE, 0)
    BY <1>1, <1>2, <1>3, <1>4, <2>1, AtWork DEF MovesTo
  <2>3. PICK u, v : UnitMoves(w, o, "ack", TRUE, u, v)
    BY <2>2, GoingOn
  <2>4. Units(o) = {u} /\ UnitsNext(o) = {v} /\ u.kept = "no" /\ v.kept = "ack"
    BY <1>1, <2>3 DEF UnitMoves, KeptAt
  <2>5. Affords(o, 1, 0)
    BY <1>4, <2>1, <2>4, ReadyCosts DEF Affords
  <2>6. StaleGain(w, TRUE) = 1
    BY <1>1 DEF StaleGain
  <2>7. QED
    BY <2>2, <2>5, <2>6, GoingOn
<1>5. CASE status[o] # "READY"
  <2>1. /\ Goto(w, "cook") /\ stale' = stale
        /\ status' = IF status[o] = "PENDING" THEN [status EXCEPT ![o] = "PREPARING"] ELSE status
    BY <1>2, <1>5 DEF Begin
  <2>2. stale' = [stale EXCEPT ![w] = FALSE]
    BY <1>1, <2>1 DEF TypeOK
  <2>3. /\ \/ status[o] \in Open /\ status'[o] = "PREPARING"
           \/ status[o] = "FAILED" /\ status'[o] = "FAILED"
        /\ \A p \in Orders : p # o => status'[p] = status[p]
    <3>1. status[o] \in {"PENDING", "PREPARING", "FAILED"}
      BY <1>1, <1>2, <1>5, AtWork
    <3>2. QED
      BY <1>1, <2>1, <3>1 DEF TypeOK, Open
  <2>4. MovesTo(w, o, "cook", FALSE, 0)
    BY <1>1, <1>2, <1>3, <2>1, <2>2, <2>3, AtWork DEF MovesTo, Open
  <2>5. PICK u, v : UnitMoves(w, o, "cook", FALSE, u, v)
    BY <2>4, GoingOn
  <2>6. /\ Units(o) = {u} /\ UnitsNext(o) = {v} /\ u.tried \in Nat /\ v.tried \in Nat
        /\ v.tried = u.tried /\ u.kept = "no" /\ v.kept = "no"
    BY <1>1, <2>5 DEF UnitMoves, KeptAt
  <2>7. Affords(o, 0, 0)
    <3>1. CASE status[o] \in Open /\ status'[o] = "PREPARING"
      BY <2>6, <3>1, OpenCosts DEF Affords, Open
    <3>2. CASE status[o] = "FAILED" /\ status'[o] = "FAILED"
      BY <2>6, <3>2, FailedCosts DEF Affords
    <3>3. QED
      BY <2>3, <3>1, <3>2
  <2>8. StaleGain(w, FALSE) = 0
    BY <1>1 DEF StaleGain
  <2>9. Affords(o, StaleGain(w, FALSE), 0)
    BY <2>7, <2>8
  <2>10. QED
    BY <2>4, <2>9, GoingOn
<1>6. QED
  BY <1>4, <1>5

LEMMA ServeBalance ==
  ASSUME IInv, IInv', BInv, NEW w \in Workers, Serve(w)
  PROVE  BInv'
<1>1. /\ TypeOK /\ task[w].pc = "cook" /\ stale' = [stale EXCEPT ![w] = TRUE]
      /\ queue' = queue /\ unsent' = unsent /\ NoFault
  BY DEF IInv, Serve, LeavesConnection, posts
<1>2. PICK o \in Orders : o = task[w].order
  BY <1>1, AtWork
<1>3. /\ used'["error"] = used["error"] + 0 /\ stale[w] = FALSE
      /\ status[o] \in {"PREPARING", "FAILED"}
  BY <1>1, <1>2, Errors, AtWork
<1>4. StaleGain(w, TRUE) = 1
  BY <1>3 DEF StaleGain
<1>5. CanBecome(status[o], "READY") <=> status[o] = "PREPARING"
  BY DEF CanBecome, ValidTransitions
<1>6. CASE status[o] = "PREPARING"
  <2>1. Goto(w, "ack") /\ status' = [status EXCEPT ![o] = "READY"]
    BY <1>2, <1>5, <1>6 DEF Serve
  <2>2. status'[o] = "READY" /\ \A p \in Orders : p # o => status'[p] = status[p]
    BY <1>1, <2>1 DEF TypeOK
  <2>3. MovesTo(w, o, "ack", TRUE, 0)
    BY <1>1, <1>2, <1>3, <2>1, <2>2, AtWork DEF MovesTo
  <2>4. PICK u, v : UnitMoves(w, o, "ack", TRUE, u, v)
    BY <2>3, GoingOn
  <2>5. UnitsNext(o) = {v} /\ v.kept = "ack"
    BY <2>4 DEF UnitMoves, KeptAt
  <2>6. Costs(o, 0)
    BY <2>2, Due DEF Costs, DueNext
  <2>7. Yields(o, 1)
    BY <1>6, <2>2, <2>5 DEF Yields, ReturnedOf
  <2>8. Affords(o, 1, 0)
    BY <2>6, <2>7 DEF Affords
  <2>9. QED
    BY <1>4, <2>3, <2>8, GoingOn
<1>7. CASE status[o] = "FAILED"
  <2>1. Goto(w, "raised") /\ status' = status
    BY <1>2, <1>5, <1>7 DEF Serve
  <2>2. MovesTo(w, o, "raised", TRUE, 0)
    BY <1>1, <1>2, <1>3, <2>1, AtWork DEF MovesTo
  <2>3. PICK u, v : UnitMoves(w, o, "raised", TRUE, u, v)
    BY <2>2, GoingOn
  <2>4. Units(o) = {u} /\ UnitsNext(o) = {v} /\ u.kept = "no" /\ v.kept = "raised"
    BY <1>3, <2>3 DEF UnitMoves, KeptAt
  <2>5. Costs(o, -1) /\ Yields(o, 0)
    BY <1>7, <2>1, <2>4, FailedCosts
  <2>6. Affords(o, 1, 0)
    BY <2>5 DEF Affords
  <2>7. QED
    BY <1>4, <2>2, <2>6, GoingOn
<1>8. QED
  BY <1>3, <1>6, <1>7

LEMMA BreakBalance ==
  ASSUME IInv, IInv', BInv, NEW w \in Workers, Break(w)
  PROVE  BInv'
<1>1. /\ TypeOK /\ task[w].pc \in {"start", "cook"} /\ Goto(w, "raised")
      /\ queue' = queue /\ unsent' = unsent /\ Fault("error")
  BY DEF IInv, Break, posts
<1>2. PICK b \in BOOLEAN : stale' = [stale EXCEPT ![w] = b]
  BY DEF Break, MayLeaveConnection
<1>3. PICK o \in Orders : o = task[w].order
  BY <1>1, AtWork
<1>4. /\ used'["error"] = used["error"] + 1
      /\ status[o] \in {"PENDING", "PREPARING", "READY", "FAILED"}
  BY <1>1, <1>3, Errors, AtWork
<1>5. StaleGain(w, b) \in {-1, 0, 1}
  BY DEF StaleGain
<1>6. status' = status \/ (status[o] = "PREPARING" /\ status'[o] = "READY"
                           /\ \A p \in Orders : p # o => status'[p] = status[p])
  BY <1>1, <1>3 DEF Break, CanBecome, ValidTransitions, TypeOK
<1>7. MovesTo(w, o, "raised", b, 1)
  BY <1>1, <1>2, <1>3, <1>4, <1>6, AtWork DEF MovesTo
<1>8. PICK u, v : UnitMoves(w, o, "raised", b, u, v)
  BY <1>7, GoingOn
<1>9. /\ Units(o) = {u} /\ UnitsNext(o) = {v} /\ u.tried \in Nat /\ v.tried \in Nat
      /\ v.tried = u.tried + 1 /\ u.kept = "no"
  BY <1>1, <1>8 DEF UnitMoves, KeptAt
<1>10. \E a \in {0, 1} : Costs(o, a) /\ Yields(o, 0)
  <2>1. CASE status' = status /\ status[o] \in Open
    BY <1>9, <2>1, OpenCosts
  <2>2. CASE status' = status /\ status[o] = "READY"
    BY <1>9, <2>2, ReadyCosts
  <2>3. CASE status' = status /\ status[o] = "FAILED"
    BY <1>9, <2>3, FailedCosts
  <2>4. CASE status[o] = "PREPARING" /\ status'[o] = "READY"
    <3>1. Costs(o, 0)
      BY <2>4, Due DEF Costs, DueNext
    <3>2. Yields(o, 0)
      BY <2>4 DEF Yields, ReturnedOf
    <3>3. QED
      BY <3>1, <3>2
  <2>5. QED
    BY <1>4, <1>6, <2>1, <2>2, <2>3, <2>4 DEF Open
<1>11. Affords(o, StaleGain(w, b), 1)
  <2>1. PICK a \in {0, 1} : Costs(o, a) /\ Yields(o, 0)
    BY <1>10
  <2>2. a \in Int /\ a + StaleGain(w, b) <= 0 + 2 * 1
    BY <1>5
  <2>3. QED
    BY <2>1, <2>2 DEF Affords
<1>12. QED
  BY <1>7, <1>11, GoingOn

\* An order that is open or FAILED before and FAILED after on_failure's session
\* has spent at least as much before.
LEMMA MarkingCosts ==
  ASSUME TypeOK, NEW o \in Orders, status[o] \in {"PENDING", "PREPARING", "READY", "FAILED"},
         status'[o] = MarkedFailed(status[o]),
         NEW u, NEW v, Units(o) = {u}, UnitsNext(o) = {v}, u.tried = LastTry, u.kept = "no"
  PROVE  /\ Costs(o, 0) /\ Yields(o, 0)
         /\ v.kept = "ack" => Affords(o, 1, 0)
<1>1. MarkedFailed(status[o]) = IF status[o] = "READY" THEN "READY" ELSE "FAILED"
  BY DEF MarkedFailed, CanBecome, ValidTransitions
<1>2. CASE status[o] \in Open
  <2>1. DueNow(o) = 1..LastTry /\ status'[o] = "FAILED"
    BY <1>1, <1>2, LoopRetriesAssumption DEF DueNow, DueOf, LastTry, Open
  <2>2. DueNext(o) \subseteq 1..LastTry /\ (v.kept = "ack" => DueNext(o) = 1..MaxRetries)
    BY <2>1, Due DEF DueNext
  <2>3. LastTry \in 1..LastTry /\ 1..MaxRetries \subseteq (1..LastTry) \ {LastTry}
    BY LoopRetriesAssumption DEF LastTry
  <2>4. Yields(o, 0)
    BY <1>2 DEF Yields, ReturnedOf, Open
  <2>5. Costs(o, 0) /\ (v.kept = "ack" => Costs(o, -1))
    BY <2>1, <2>2, <2>3 DEF Costs
  <2>6. QED
    BY <2>4, <2>5 DEF Affords
<1>3. CASE status[o] = "READY"
  <2>1. status'[o] = "READY"
    BY <1>1, <1>3
  <2>2. Costs(o, 0) /\ Yields(o, 0) /\ (v.kept = "ack" => Yields(o, 1))
    BY <1>3, <2>1, ReadyCosts
  <2>3. QED
    BY <2>2 DEF Affords
<1>4. CASE status[o] = "FAILED"
  <2>1. status'[o] = "FAILED"
    BY <1>1, <1>4
  <2>2. Costs(o, 0) /\ Yields(o, 0) /\ (v.kept = "ack" => Costs(o, -1))
    BY <1>4, <2>1, FailedCosts
  <2>3. QED
    BY <2>2 DEF Affords
<1>5. QED
  BY <1>2, <1>3, <1>4 DEF Open

LEMMA OnFailureBalance ==
  ASSUME IInv, IInv', BInv, NEW w \in Workers, OnFailure(w)
  PROVE  BInv'
<1>1. /\ TypeOK /\ task[w].pc = "raised" /\ Goto(w, "bury") /\ queue' = queue
      /\ unsent' = unsent /\ task[w].retries = MaxRetries
  BY DEF IInv, OnFailure, posts
<1>2. PICK o \in Orders : o = task[w].order
  BY <1>1, AtWork
<1>3. /\ status[o] \in {"PENDING", "PREPARING", "READY", "FAILED"} /\ stale[w] \in BOOLEAN
  BY <1>1, <1>2, AtWork
<1>4. ASSUME NEW b \in BOOLEAN, NEW e \in Nat, MovesTo(w, o, "bury", b, e)
      PROVE  \E u, v :
               /\ Units(o) = {u} /\ UnitsNext(o) = {v} /\ u.tried \in Nat /\ v.tried \in Nat
               /\ u.tried = LastTry /\ v.tried <= u.tried
               /\ u.kept = IF stale[w] THEN "raised" ELSE "no"
               /\ v.kept = IF b THEN "ack" ELSE "no"
  <2>1. PICK u, v : UnitMoves(w, o, "bury", b, u, v)
    BY <1>4, GoingOn
  <2>2. /\ Units(o) = {u} /\ UnitsNext(o) = {v} /\ u.tried \in Nat /\ v.tried \in Nat
        /\ u.tried = LastTry /\ v.tried <= u.tried
        /\ u.kept = IF stale[w] THEN "raised" ELSE "no"
        /\ v.kept = IF b THEN "ack" ELSE "no"
    BY <1>1, <2>1, LoopRetriesAssumption DEF UnitMoves, KeptAt, LastTry
  <2>3. QED
    BY <2>2
<1>5. ASSUME status' = [status EXCEPT ![o] = MarkedFailed(@)]
      PROVE  /\ status'[o] = MarkedFailed(status[o])
             /\ \A p \in Orders : p # o => status'[p] = status[p]
  BY <1>1, <1>5 DEF TypeOK
<1>6. CASE stale[w] /\ DropsConnection(w) /\ NoFault /\ UNCHANGED status
  <2>1. MovesTo(w, o, "bury", FALSE, 0)
    BY <1>1, <1>2, <1>6, Errors, AtWork DEF MovesTo, DropsConnection
  <2>2. PICK u, v :
          /\ Units(o) = {u} /\ UnitsNext(o) = {v} /\ u.tried \in Nat /\ v.tried \in Nat
          /\ u.tried = LastTry /\ v.tried <= u.tried /\ u.kept = "raised" /\ v.kept = "no"
    BY <1>4, <1>6, <2>1
  <2>3. Affords(o, -1, 0)
    <3>1. CASE status[o] \in Open
      BY <1>6, <2>2, <3>1, OpenCosts DEF Affords
    <3>2. CASE status[o] = "READY"
      BY <1>6, <2>2, <3>2, ReadyCosts DEF Affords
    <3>3. CASE status[o] = "FAILED"
      BY <1>6, <2>2, <3>3, FailedCosts DEF Affords
    <3>4. QED
      BY <1>3, <3>1, <3>2, <3>3 DEF Open
  <2>4. Affords(o, StaleGain(w, FALSE), 0)
    BY <1>3, <1>6, <2>3 DEF StaleGain
  <2>5. QED
    BY <2>1, <2>4, GoingOn
<1>7. CASE /\ ~stale[w] /\ LeavesConnection(w) /\ NoFault
           /\ status' = [status EXCEPT ![o] = MarkedFailed(@)]
  <2>1. MovesTo(w, o, "bury", TRUE, 0)
    BY <1>1, <1>2, <1>5, <1>7, Errors, AtWork DEF MovesTo, LeavesConnection
  <2>2. PICK u, v :
          /\ Units(o) = {u} /\ UnitsNext(o) = {v} /\ u.tried = LastTry
          /\ u.kept = "no" /\ v.kept = "ack"
    BY <1>4, <1>7, <2>1
  <2>3. Affords(o, 1, 0)
    BY <1>1, <1>3, <1>5, <1>7, <2>2, MarkingCosts
  <2>4. Affords(o, StaleGain(w, TRUE), 0)
    BY <1>3, <1>7, <2>3 DEF StaleGain
  <2>5. QED
    BY <2>1, <2>4, GoingOn
<1>8. CASE /\ ~stale[w] /\ MayLeaveConnection(w) /\ Fault("error")
           /\ status' = [status EXCEPT ![o] = MarkedFailed(@)] \/ UNCHANGED status
  <2>1. PICK b \in BOOLEAN : stale' = [stale EXCEPT ![w] = b]
    BY <1>8 DEF MayLeaveConnection
  <2>2. MovesTo(w, o, "bury", b, 1)
    BY <1>1, <1>2, <1>5, <1>8, <2>1, Errors, AtWork DEF MovesTo
  <2>3. PICK u, v :
          /\ Units(o) = {u} /\ UnitsNext(o) = {v} /\ u.tried \in Nat /\ v.tried \in Nat
          /\ u.tried = LastTry /\ v.tried <= u.tried /\ u.kept = "no"
    BY <1>4, <1>8, <2>2
  <2>4. Costs(o, 0) /\ Yields(o, 0)
    <3>1. CASE status' = [status EXCEPT ![o] = MarkedFailed(@)]
      BY <1>1, <1>3, <1>5, <2>3, <3>1, MarkingCosts
    <3>2. CASE status' = status /\ status[o] \in Open
      BY <2>3, <3>2, OpenCosts
    <3>3. CASE status' = status /\ status[o] = "READY"
      BY <2>3, <3>3, ReadyCosts
    <3>4. CASE status' = status /\ status[o] = "FAILED"
      BY <2>3, <3>4, FailedCosts
    <3>5. QED
      BY <1>3, <1>8, <3>1, <3>2, <3>3, <3>4 DEF Open
  <2>5. StaleGain(w, b) \in Int /\ 0 + StaleGain(w, b) <= 0 + 2 * 1
    BY DEF StaleGain
  <2>6. Affords(o, StaleGain(w, b), 1)
    BY <2>4, <2>5 DEF Affords
  <2>7. QED
    BY <2>2, <2>6, GoingOn
<1>9. QED
  BY <1>2, <1>6, <1>7, <1>8 DEF OnFailure

\* The books do not know of tombstones.
LEMMA TombstoneBalance ==
  ASSUME IInv, IInv', BInv, NEW w \in Workers, Tombstone(w)
  PROVE  BInv'
<1>1. /\ TypeOK /\ task[w].pc = "bury" /\ Goto(w, "ack") /\ queue' = queue
      /\ unsent' = unsent /\ status' = status /\ stale' = stale
      /\ NoFault \/ Fault("broker")
  BY DEF IInv, Tombstone, PublishBreaks
<1>2. PICK o \in Orders : o = task[w].order
  BY <1>1, AtWork
<1>3. stale' = [stale EXCEPT ![w] = stale[w]] /\ stale[w] \in BOOLEAN
  BY <1>1 DEF TypeOK
<1>4. used'["error"] = used["error"] + 0
  BY <1>1, Errors
<1>5. MovesTo(w, o, "ack", stale[w], 0)
  BY <1>1, <1>2, <1>3, <1>4, AtWork DEF MovesTo
<1>6. PICK u, v : UnitMoves(w, o, "ack", stale[w], u, v)
  BY <1>3, <1>5, GoingOn
<1>7. /\ Units(o) = {u} /\ UnitsNext(o) = {v} /\ u.tried \in Nat /\ v.tried \in Nat
      /\ v.tried <= u.tried /\ v.kept = u.kept
  BY <1>1, <1>6 DEF UnitMoves, KeptAt
<1>8. status[o] # None /\ status'[o] = status[o]
  BY <1>1, <1>2, AtWork
<1>9. Costs(o, 0) /\ Yields(o, 0)
  BY <1>1, <1>7, <1>8, NoCost
<1>10. Affords(o, StaleGain(w, stale[w]), 0)
  BY <1>9 DEF Affords, StaleGain
<1>11. QED
  BY <1>3, <1>5, <1>10, GoingOn

\* w is done with o: its task is gone, and unless the message is acknowledged, it
\* is back in the queue with n retries.
HandsBack(w, o, b, n) ==
  /\ task[w] # Idle /\ o = task[w].order
  /\ task' = [task EXCEPT ![w] = Idle] /\ stale' = [stale EXCEPT ![w] = b]
  /\ queue' = queue \cup {[order |-> o, retries |-> n]} /\ unsent' = unsent
  /\ status' = status /\ used'["error"] = used["error"]
  /\ status[o] = "FAILED" => n = MaxRetries

UnitIsBack(w, o, n, u, v) ==
  /\ Units(o) = {u} /\ UnitsNext(o) = {v} /\ u = TaskUnit(task[w], stale[w])
  /\ v.tried = n /\ v.kept = "no"

LEMMA HandingBack ==
  ASSUME IInv, IInv', BInv, NEW w \in Workers, NEW o \in Orders, NEW b \in BOOLEAN,
         NEW n, n \in Nat, HandsBack(w, o, b, n)
  PROVE  /\ \E u, v : UnitIsBack(w, o, n, u, v)
         /\ Affords(o, StaleGain(w, b), 0) => BInv'
<1> DEFINE m == [order |-> o, retries |-> n]
<1>1. /\ TypeOK /\ Unique /\ Unposted /\ Fresh /\ FailedLast /\ Balance
      /\ task[w] # Idle /\ o = task[w].order /\ unsent' = unsent
      /\ task' = [task EXCEPT ![w] = Idle] /\ stale' = [stale EXCEPT ![w] = b]
      /\ queue' = queue \cup {m} /\ status' = status /\ used'["error"] = used["error"]
      /\ status[o] = "FAILED" => n = MaxRetries
  BY DEF IInv, BInv, HandsBack
<1>2. m.order = o /\ m.retries = n
  OBVIOUS
<1> HIDE DEF m
<1>3. OwnTask(w, o, Idle, b)
  BY <1>1 DEF OwnTask
<1>4. /\ Unique' /\ OnlyAt(o)
      /\ Units(o) = {TaskUnit(task[w], stale[w])} /\ UnitsNext(o) = {MessageUnit(m)}
  BY <1>1, <1>2, <1>3, GoesBack
<1>5. Fresh' /\ FailedLast' /\ Unposted'
  <2>1. /\ \A v \in Workers : v # w => task[v].order # o
        /\ \A k \in queue : k.order # o
    BY <1>1, Apart
  <2>2. \A k \in queue' : \/ k \in queue /\ k.order # o
                          \/ k.order = o /\ (status'[o] = "FAILED" => k.retries = MaxRetries)
    BY <1>1, <1>2, <2>1
  <2>3. Idle.pc # "cook"
    BY <1>1, TaskFacts
  <2>4. o \notin unsent
    BY <1>1 DEF Unposted
  <2>5. QED
    BY <1>1, <1>3, <2>1, <2>2, <2>3, <2>4, OwnRest
<1>6. ASSUME Affords(o, StaleGain(w, b), 0) PROVE BInv'
  <2>1. Grew(Stale, Stale', StaleGain(w, b)) /\ StaleGain(w, b) \in Int
    BY <1>1, StaleGrows DEF Balance
  <2>2. status' \in [Orders -> MaybeStatus] /\ used'["error"] = used["error"] + 0
    BY <1>1, Errors DEF TypeOK
  <2>3. Balance'
    BY <1>1, <1>4, <1>6, <2>1, <2>2, Keeping
  <2>4. QED
    BY <1>4, <1>5, <2>3 DEF BInv
<1> DEFINE u == TaskUnit(task[w], stale[w])
           v == MessageUnit(m)
<1>7. v.tried = n /\ v.kept = "no"
  BY <1>2, UnitFields
<1> HIDE DEF u, v
<1>8. Units(o) = {u} /\ UnitsNext(o) = {v} /\ u = TaskUnit(task[w], stale[w])
  BY <1>4 DEF u, v
<1>9. UnitIsBack(w, o, n, u, v)
  BY <1>7, <1>8 DEF UnitIsBack
<1>10. QED
  BY <1>6, <1>9

\* The message of the next attempt is published, and its call may raise.
LEMMA RetryBalance ==
  ASSUME IInv, IInv', BInv, NEW w \in Workers,
         Retry(w) \/ (RetryFails(w) /\ Posts(NextAttempt(w)))
  PROVE  BInv'
<1> DEFINE n == task[w].retries + 1
<1>1. /\ TypeOK /\ task[w].pc = "raised" /\ task[w].retries < MaxRetries
      /\ NoFault \/ Fault("broker")
      /\ queue' = queue \cup {[order |-> task[w].order, retries |-> n]}
      /\ task' = [task EXCEPT ![w] = Idle] /\ status' = status /\ stale' = stale
      /\ unsent' = unsent
  BY DEF IInv, Retry, RetryFails, PublishBreaks, Posts, NextAttempt, posts
<1>2. PICK o \in Orders : o = task[w].order
  BY <1>1, AtWork
<1>3. /\ status[o] \in {"PENDING", "PREPARING", "READY"} /\ stale[w] \in BOOLEAN /\ n \in Nat
  BY <1>1, <1>2, AtWork, LoopRetriesAssumption
<1>4. stale' = [stale EXCEPT ![w] = stale[w]]
  BY <1>1 DEF TypeOK
<1>5. HandsBack(w, o, stale[w], n)
  BY <1>1, <1>2, <1>3, <1>4, Errors, AtWork DEF HandsBack
<1>6. PICK u, v : UnitIsBack(w, o, n, u, v)
  BY <1>3, <1>5, HandingBack
<1>7. /\ Units(o) = {u} /\ UnitsNext(o) = {v} /\ u.tried = n /\ v.tried = n
      /\ u.kept # "ack" /\ v.kept = "no"
  BY <1>1, <1>6 DEF UnitIsBack, TaskUnit, KeptAt
<1>8. Costs(o, 0) /\ Yields(o, 0)
  <2>1. CASE status[o] \in Open
    BY <1>1, <1>3, <1>7, <2>1, OpenCosts
  <2>2. CASE status[o] = "READY"
    BY <1>1, <1>7, <2>2, ReadyCosts
  <2>3. QED
    BY <1>3, <2>1, <2>2 DEF Open
<1>9. StaleGain(w, stale[w]) = 0
  BY DEF StaleGain
<1>10. Affords(o, 0, 0)
  BY <1>8 DEF Affords
<1>11. QED
  BY <1>3, <1>5, <1>9, <1>10, HandingBack

LEMMA CrashBalance ==
  ASSUME IInv, IInv', BInv, NEW w \in Workers, Crash(w)
  PROVE  BInv'
<1>1. /\ TypeOK /\ task[w] # Idle /\ Fault("crash")
      /\ queue' = queue \cup {[order |-> task[w].order, retries |-> task[w].retries]}
      /\ task' = [task EXCEPT ![w] = Idle] /\ status' = status
      /\ stale' = [stale EXCEPT ![w] = FALSE] /\ unsent' = unsent
  BY DEF IInv, Crash, DropsConnection, posts
<1>2. PICK o \in Orders : o = task[w].order
  BY <1>1, AtWork
<1>3. /\ status[o] \in {"PENDING", "PREPARING", "READY", "FAILED"} /\ stale[w] \in BOOLEAN /\ task[w].retries \in Nat
  BY <1>1, <1>2, AtWork
<1>4. HandsBack(w, o, FALSE, task[w].retries)
  BY <1>1, <1>2, <1>3, Errors, AtWork DEF HandsBack
<1>5. PICK u, v : UnitIsBack(w, o, task[w].retries, u, v)
  BY <1>3, <1>4, HandingBack
<1>6. /\ Units(o) = {u} /\ UnitsNext(o) = {v}
      /\ u.tried \in Nat /\ v.tried \in Nat /\ v.tried <= u.tried /\ v.kept = "no"
      /\ ~stale[w] => u.kept = "no"
  BY <1>3, <1>5 DEF UnitIsBack, TaskUnit, KeptAt
<1>7. CASE stale[w]
  <2>1. Affords(o, -1, 0)
    <3>1. CASE status[o] \in Open
      BY <1>1, <1>6, <3>1, OpenCosts DEF Affords
    <3>2. CASE status[o] = "READY"
      BY <1>1, <1>6, <3>2, ReadyCosts DEF Affords
    <3>3. CASE status[o] = "FAILED"
      BY <1>1, <1>6, <3>3, FailedCosts DEF Affords
    <3>4. QED
      BY <1>3, <3>1, <3>2, <3>3 DEF Open
  <2>2. StaleGain(w, FALSE) = -1
    BY <1>3, <1>7 DEF StaleGain
  <2>3. QED
    BY <1>3, <1>4, <2>1, <2>2, HandingBack
<1>8. CASE ~stale[w]
  <2>1. Costs(o, 0) /\ Yields(o, 0)
    <3>1. CASE status[o] \in Open
      BY <1>1, <1>6, <3>1, OpenCosts
    <3>2. CASE status[o] = "READY"
      BY <1>1, <1>6, <1>8, <3>2, ReadyCosts
    <3>3. CASE status[o] = "FAILED"
      BY <1>1, <1>6, <1>8, <3>3, FailedCosts
    <3>4. QED
      BY <1>3, <3>1, <3>2, <3>3 DEF Open
  <2>2. StaleGain(w, FALSE) = 0
    BY <1>3, <1>8 DEF StaleGain
  <2>3. Affords(o, 0, 0)
    BY <2>1 DEF Affords
  <2>4. QED
    BY <1>3, <1>4, <2>2, <2>3, HandingBack
<1>9. QED
  BY <1>7, <1>8

\* The message is acknowledged, or rejected because its retry could not be published.
LEMMA AckBalance ==
  ASSUME IInv, IInv', BInv, NEW w \in Workers,
         Ack(w) \/ (RetryFails(w) /\ UNCHANGED queue)
  PROVE  BInv'
<1>1. /\ TypeOK /\ Unique /\ Unposted /\ Fresh /\ FailedLast /\ Balance
      /\ task[w].pc \in {"raised", "ack"} /\ (NoFault \/ Fault("broker"))
      /\ task' = [task EXCEPT ![w] = Idle]
      /\ queue' = queue /\ status' = status /\ stale' = stale /\ unsent' = unsent
  BY DEF IInv, BInv, Ack, RetryFails, PublishBreaks, posts
<1>2. PICK o \in Orders : o = task[w].order
  BY <1>1, AtWork
<1>3. /\ task[w] # Idle /\ stale[w] \in BOOLEAN /\ used'["error"] = used["error"] + 0
      /\ status[o] \in {"PENDING", "PREPARING", "READY", "FAILED"}
  BY <1>1, <1>2, Errors, AtWork
<1>4. OwnTask(w, o, Idle, stale[w])
  BY <1>1 DEF OwnTask, TypeOK
<1>5. /\ Unique' /\ OnlyAt(o)
      /\ Units(o) = {TaskUnit(task[w], stale[w])} /\ UnitsNext(o) = {}
  BY <1>1, <1>2, <1>3, <1>4, GoesAway
<1>6. Costs(o, 0) /\ Yields(o, 0)
  <2>1. CASE status[o] = "FAILED"
    <3>1. DueNext(o) = 1..MaxRetries
      BY <1>1, <1>5, <2>1, Due DEF DueNext
    <3>2. 1..MaxRetries \subseteq DueNow(o)
      BY <2>1, LoopRetriesAssumption DEF DueNow, DueOf, LastTry
    <3>3. QED
      BY <1>1, <2>1, <3>1, <3>2 DEF Costs, Yields, ReturnedOf
  <2>2. CASE status[o] # "FAILED"
    <3>1. DueNext(o) = {}
      BY <1>1, <1>3, <1>5, <2>2, Due DEF DueNext
    <3>2. ReturnedOf(status[o], Units(o)) => ReturnedOf(status'[o], UnitsNext(o))
      BY <1>1, <1>5 DEF ReturnedOf
    <3>3. QED
      BY <3>1, <3>2 DEF Costs, Yields
  <2>3. QED
    BY <2>1, <2>2
<1>7. Balance'
  <2>1. Grew(Stale, Stale', 0)
    BY <1>1, GrowSame DEF Balance, Stale
  <2>2. Affords(o, 0, 0)
    BY <1>6 DEF Affords
  <2>3. status' \in [Orders -> MaybeStatus]
    BY <1>1 DEF TypeOK
  <2>4. QED
    BY <1>1, <1>3, <1>5, <2>1, <2>2, <2>3, Keeping
<1>8. Fresh' /\ FailedLast' /\ Unposted'
  <2>1. /\ \A v \in Workers : v # w => task[v].order # o
        /\ \A n \in queue : n.order # o
    BY <1>1, <1>2, <1>3, Apart
  <2>2. Idle.pc # "cook"
    BY <1>1, TaskFacts
  <2>3. o \notin unsent
    BY <1>1, <1>2 DEF Unposted
  <2>4. QED
    BY <1>1, <1>4, <2>1, <2>2, <2>3, OwnRest
<1>9. QED
  BY <1>5, <1>7, <1>8 DEF BInv

LEMMA StepBalance ==
  ASSUME IInv, IInv', BInv, [Next]_vars
  PROVE  BInv'
<1>1. CASE UNCHANGED vars
  BY <1>1 DEF vars, BInv, Unique, UniqueIn, Unposted, Fresh, FailedLast, Balance, Spent, Stale, Returned, Placed,
              Units, UnitsIn
<1>2. CASE \E o \in Orders : Place(o) \/ Publish(o) \/ PublishFails(o)
  BY <1>2, PlaceBalance, PublishBalance
<1>3. CASE \E w \in Workers : WorkerStep(w) \/ RetryFails(w) \/ Break(w) \/ Crash(w)
  <2>1. PICK w \in Workers : WorkerStep(w) \/ RetryFails(w) \/ Break(w) \/ Crash(w)
    BY <1>3
  <2>2. CASE \E m \in queue : Receive(w, m)
    BY <2>2, ReceiveBalance
  <2>3. CASE Retry(w)
    BY <2>3, RetryBalance
  <2>4. CASE Ack(w)
    BY <2>4, AckBalance
  <2>5. CASE Crash(w)
    BY <2>5, CrashBalance
  <2>6. CASE StaleConnection(w)
    BY <2>6, StaleConnectionBalance
  <2>7. CASE Begin(w)
    BY <2>7, BeginBalance
  <2>8. CASE Serve(w)
    BY <2>8, ServeBalance
  <2>9. CASE Break(w)
    BY <2>9, BreakBalance
  <2>10. CASE OnFailure(w)
    BY <2>10, OnFailureBalance
  <2>11. CASE Tombstone(w)
    BY <2>11, TombstoneBalance
  <2>12. CASE RetryFails(w)
    BY <2>12, RetryBalance, AckBalance DEF RetryFails, MayPost
  <2>13. QED
    BY <2>1, <2>2, <2>3, <2>4, <2>5, <2>6, <2>7, <2>8, <2>9, <2>10, <2>11, <2>12 DEF WorkerStep
<1>4. QED
  BY <1>1, <1>2, <1>3 DEF Next

LEMMA InitBalance ==
  ASSUME Init
  PROVE  BInv
<1>1. /\ status = [o \in Orders |-> None] /\ queue = {} /\ task = [w \in Workers |-> Idle]
      /\ stale = [w \in Workers |-> FALSE] /\ used["error"] = 0 /\ unsent = {}
  BY DEF Init, FaultKinds
<1>2. Idle.pc = "idle" /\ Idle.order \notin Orders
  BY LoopNoOrderAssumption DEF Idle
<1>3. Unique /\ Unposted /\ Fresh /\ FailedLast
  BY <1>1, <1>2 DEF Unique, UniqueIn, Unposted, Fresh, FailedLast
<1>4. Stale = {} /\ Placed = {}
  BY <1>1 DEF Stale, Placed
<1>5. Spent = {}
  BY <1>1, Due DEF Spent
<1>6. Returned = {}
  BY <1>1, Statuses DEF Returned, ReturnedOf
<1>7. IsFiniteSet({}) /\ Cardinality({}) = 0
  BY FS_EmptySet
<1>8. Balance
  BY <1>1, <1>4, <1>5, <1>6, <1>7 DEF Balance
<1>9. QED
  BY <1>3, <1>8 DEF BInv

LEMMA Balanced == Spec => [](IInv /\ BInv)
<1>1. IInv /\ IInv' /\ BInv /\ [Next]_vars => BInv'
  BY StepBalance
<1>2. Init => BInv
  BY InitBalance
<1>3. QED
  BY <1>1, <1>2, Invariance, PTL DEF Spec

\* What the balance says of FAILED orders alone: each has spent MaxRetries attempts.
LEMMA FailedSpent ==
  ASSUME IInv, BInv
  PROVE  /\ IsFiniteSet(In("FAILED")) /\ IsFiniteSet(In("READY"))
         /\ MaxRetries * Cardinality(In("FAILED")) <= Cardinality(Spent)
         /\ Cardinality(Returned) <= Cardinality(In("READY"))
<1>1. IsFiniteSet(Spent) /\ IsFiniteSet(Placed)
  BY DEF BInv, Balance
<1>2. IsFiniteSet(In("FAILED")) /\ IsFiniteSet(In("READY"))
  <2>1. In("FAILED") \subseteq Placed /\ In("READY") \subseteq Placed
    BY Statuses DEF In, Placed
  <2>2. QED
    BY <1>1, <2>1, FS_Subset
<1>3. IsFiniteSet(1..MaxRetries) /\ Cardinality(1..MaxRetries) = MaxRetries
  <2>1. 1 \in Int /\ MaxRetries \in Int /\ MaxRetries \in Nat
    BY LoopRetriesAssumption
  <2>2. /\ IsFiniteSet(1..MaxRetries)
        /\ Cardinality(1..MaxRetries) = IF 1 > MaxRetries THEN 0 ELSE MaxRetries - 1 + 1
    BY <2>1, FS_Interval
  <2>3. QED
    BY <2>1, <2>2
<1> DEFINE F == In("FAILED") \X (1..MaxRetries)
<1>4. IsFiniteSet(F) /\ Cardinality(F) = Cardinality(In("FAILED")) * MaxRetries
  BY <1>2, <1>3, FS_Product
<1>5. F \subseteq Spent
  <2>1. SUFFICES ASSUME NEW o \in In("FAILED"), NEW k \in 1..MaxRetries
                 PROVE  <<o, k>> \in Spent
    BY DEF F
  <2>2. o \in Orders /\ status[o] = "FAILED" /\ k \in 1..LastTry /\ k <= MaxRetries
    BY LoopRetriesAssumption DEF In, LastTry
  <2>3. QED
    BY <2>2 DEF Spent, DueOf
<1> HIDE DEF F
<1>6. Cardinality(F) <= Cardinality(Spent)
  BY <1>1, <1>5, FS_Subset
<1>7. MaxRetries * Cardinality(In("FAILED")) = Cardinality(F)
  <2>1. Cardinality(In("FAILED")) \in Nat /\ MaxRetries \in Nat
    BY <1>2, FS_CardinalityType, LoopRetriesAssumption
  <2>2. QED
    BY <1>4, <2>1
<1>8. Returned \subseteq In("READY")
  BY DEF Returned, ReturnedOf, In
<1>9. Cardinality(Returned) <= Cardinality(In("READY"))
  BY <1>2, <1>8, FS_Subset
<1>10. QED
  BY <1>2, <1>6, <1>7, <1>9

\* process_order and the pool of its process: however many processes, orders and
\* retries there are, an order whose kitchen never broke fails only because as
\* many orders as it had retries were finished before it.
THEOREM FailuresArePaid == Spec => []FailuresNeedFinishedOrders
<1>1. ASSUME IInv, BInv
      PROVE  FailuresNeedFinishedOrders
  <2>1. /\ MaxRetries * Cardinality(In("FAILED")) <= Cardinality(Spent)
        /\ Cardinality(Returned) <= Cardinality(In("READY"))
        /\ Cardinality(In("FAILED")) \in Nat /\ Cardinality(In("READY")) \in Nat
    BY <1>1, FailedSpent, FS_CardinalityType
  <2>2. /\ Cardinality(Spent) + Cardinality(Stale) <= Cardinality(Returned) + 2 * used["error"]
        /\ Cardinality(Spent) \in Nat /\ Cardinality(Stale) \in Nat
        /\ Cardinality(Returned) \in Nat /\ used["error"] \in Nat
    BY <1>1, FS_CardinalityType, ReturnedFinite, Errors DEF BInv, Balance, IInv
  <2>3. MaxRetries * Cardinality(In("FAILED")) \in Nat
    BY <2>1, LoopRetriesAssumption
  <2>4. QED
    BY <2>1, <2>2, <2>3 DEF FailuresNeedFinishedOrders
<1>2. QED
  BY <1>1, Balanced, PTL

=============================================================================
