-------------------------- MODULE WorkerLoopProofs --------------------------
(* For any number of orders, processes, retries and faults: every FAILED   *)
(* write that on_failure loses to a connection of a closed event loop is   *)
(* paid for by an error of its own.                                        *)
EXTENDS WorkerLoop, FiniteSetTheorems, TLAPS

Open == {"PENDING", "PREPARING"}

\* Only orders that have been placed have messages, tasks and tombstones.
PlacedOnly ==
  /\ \A o \in unsent : status[o] # None
  /\ \A m \in queue : status[m.order] # None
  /\ \A w \in Workers : task[w] # Idle => status[task[w].order] # None
  /\ \A o \in buried : status[o] # None

\* A process that cooks has seen its order leave PENDING.
Cooking == \A w \in Workers : task[w].pc = "cook" => status[task[w].order] # "PENDING"

\* A task t over a pool s that leaves on_failure a connection to stumble over, or
\* whose on_failure has stumbled.
Owes(t, s) == \/ t.pc = "raised" /\ s
              \/ t.pc = "bury"

Charged == {w \in Workers : Owes(task[w], stale[w]) /\ status[task[w].order] \in Open}

\* Every order without its FAILED write, and every attempt about to lose one,
\* has cost an error.
Paid ==
  /\ IsFiniteSet(Unmarked) /\ IsFiniteSet(Charged)
  /\ Cardinality(Unmarked) + Cardinality(Charged) <= used["error"]

IInv == TypeOK /\ PlacedOnly /\ Cooking /\ Paid

-----------------------------------------------------------------------------
(* Types                                                                   *)

LEMMA Statuses ==
  /\ MaybeStatus = {None, "PENDING", "PREPARING", "READY", "FAILED"}
  /\ None \notin {"PENDING", "PREPARING", "READY", "FAILED"}
BY DEF MaybeStatus, Status, None

LEMMA TaskStep ==
  ASSUME TypeOK, NEW w \in Workers
  PROVE  /\ task[w] \in Task /\ task[w].retries \in 0..MaxRetries
         /\ task[w] # Idle => task[w].order \in Orders
         /\ task[w].pc # "idle" => task[w] # Idle
         /\ Idle \in Task /\ Idle.pc = "idle"
         /\ \A pc \in {"start", "cook", "raised", "bury", "ack"} : [task[w] EXCEPT !.pc = pc] \in Task
BY LoopRetriesAssumption DEF TypeOK, Task, Idle


LEMMA FaultCount ==
  ASSUME TypeOK, NEW k \in FaultKinds, Fault(k)
  PROVE  /\ used' \in [FaultKinds -> Nat] /\ \A j \in FaultKinds : used'[j] <= Limit[j]
         /\ used'["error"] = IF k = "error" THEN used["error"] + 1 ELSE used["error"]
         /\ used["error"] \in Nat
<1>1. used \in [FaultKinds -> Nat] /\ \A j \in FaultKinds : used[j] <= Limit[j]
  BY DEF TypeOK
<1>2. Limit \in [FaultKinds -> Nat]
  BY LoopLimitAssumption
<1>3. used[k] < Limit[k] /\ used' = [used EXCEPT ![k] = @ + 1]
  BY DEF Fault
<1>4. used' \in [FaultKinds -> Nat] /\ used'[k] = used[k] + 1
  BY <1>1, <1>3
<1>5. ASSUME NEW j \in FaultKinds
      PROVE  used'[j] <= Limit[j]
  BY <1>1, <1>2, <1>3, <1>4
<1>6. "error" \in FaultKinds
  BY DEF FaultKinds
<1>7. QED
  BY <1>1, <1>3, <1>4, <1>5, <1>6

\* No task of create_order is published.
NotSent == unsent' = unsent /\ lost' \subseteq Orders

LEMMA Kept ==
  ASSUME TypeOK, UNCHANGED posts \/ (unsent' = unsent /\ \E o \in Orders : lost' = lost \cup {o})
  PROVE  NotSent
BY DEF TypeOK, posts, NotSent

\* What one process does to its own task and pool, typed.
LEMMA OwnStep ==
  ASSUME TypeOK, NEW w \in Workers, NEW t \in Task, t = Idle \/ t.order \in Orders,
         task' = [task EXCEPT ![w] = t],
         NEW b \in BOOLEAN, stale' = [stale EXCEPT ![w] = b],
         queue' \subseteq Messages, buried' \subseteq Orders, NotSent,
         status' \in [Orders -> MaybeStatus],
         used' \in [FaultKinds -> Nat], \A k \in FaultKinds : used'[k] <= Limit[k]
  PROVE  TypeOK'
BY DEF TypeOK, NotSent

\* ... and what it does to Charged, if it opens no order again.
LEMMA OwnCharge ==
  ASSUME TypeOK, NEW w \in Workers, NEW t \in Task,
         task' = [task EXCEPT ![w] = t],
         NEW b \in BOOLEAN, stale' = [stale EXCEPT ![w] = b],
         \A o \in Orders : status'[o] \in Open => status[o] \in Open
  PROVE  /\ Charged' \subseteq Charged \cup {w}
         /\ (~Owes(t, b) \/ status'[t.order] \notin Open) => Charged' \subseteq Charged \ {w}
<1>1. task'[w] = t /\ stale'[w] = b
  BY DEF TypeOK
<1>2. ASSUME NEW v \in Workers, v # w, v \in Charged'
      PROVE  v \in Charged
  <2>1. task'[v] = task[v] /\ stale'[v] = stale[v]
    BY <1>2 DEF TypeOK
  <2>2. Owes(task[v], stale[v]) /\ status'[task[v].order] \in Open
    BY <1>2, <2>1 DEF Charged
  <2>3. task[v].order \in Orders
    BY <2>2, TaskStep DEF Owes
  <2>4. QED
    BY <2>2, <2>3 DEF Charged
<1>3. Charged' \subseteq Workers
  BY DEF Charged
<1>4. (~Owes(t, b) \/ status'[t.order] \notin Open) => w \notin Charged'
  BY <1>1 DEF Charged
<1>5. QED
  BY <1>2, <1>3, <1>4

-----------------------------------------------------------------------------
(* The account of errors                                                   *)

LEMMA Account ==
  ASSUME Paid, used["error"] \in Nat
  PROVE  Cardinality(Unmarked) \in Nat /\ Cardinality(Charged) \in Nat
BY FS_CardinalityType DEF Paid

LEMMA NothingNew ==
  ASSUME Paid, used["error"] \in Nat, used'["error"] \in Nat, used'["error"] >= used["error"],
         Unmarked' \subseteq Unmarked, Charged' \subseteq Charged
  PROVE  Paid'
<1>1. IsFiniteSet(Unmarked') /\ Cardinality(Unmarked') <= Cardinality(Unmarked)
  BY FS_Subset DEF Paid
<1>2. IsFiniteSet(Charged') /\ Cardinality(Charged') <= Cardinality(Charged)
  BY FS_Subset DEF Paid
<1>3. Cardinality(Unmarked') \in Nat /\ Cardinality(Charged') \in Nat
  BY <1>1, <1>2, FS_CardinalityType
<1>4. QED
  BY <1>1, <1>2, <1>3, Account DEF Paid

LEMMA OneMore ==
  ASSUME NEW S, IsFiniteSet(S), NEW x
  PROVE  /\ IsFiniteSet(S \cup {x}) /\ Cardinality(S) \in Nat
         /\ Cardinality(S \cup {x}) <= Cardinality(S) + 1
<1>1. /\ IsFiniteSet(S \cup {x})
      /\ Cardinality(S \cup {x}) = IF x \in S THEN Cardinality(S) ELSE Cardinality(S) + 1
  BY FS_AddElement
<1>2. Cardinality(S) \in Nat
  BY FS_CardinalityType
<1>3. QED
  BY <1>1, <1>2

LEMMA OneMoreIsPaid ==
  ASSUME Paid, used["error"] \in Nat, used'["error"] = used["error"] + 1,
         NEW o, NEW w,
         \/ Unmarked' \subseteq Unmarked \cup {o} /\ Charged' \subseteq Charged
         \/ Unmarked' \subseteq Unmarked /\ Charged' \subseteq Charged \cup {w}
  PROVE  Paid'
<1> DEFINE U == Unmarked \cup {o}
           C == Charged \cup {w}
<1>1. IsFiniteSet(U) /\ Cardinality(U) <= Cardinality(Unmarked) + 1
  BY OneMore DEF Paid
<1>2. IsFiniteSet(C) /\ Cardinality(C) <= Cardinality(Charged) + 1
  BY OneMore DEF Paid
<1>3. CASE Unmarked' \subseteq U /\ Charged' \subseteq Charged
  <2>1. IsFiniteSet(Unmarked') /\ Cardinality(Unmarked') <= Cardinality(U)
    BY <1>1, <1>3, FS_Subset
  <2>2. IsFiniteSet(Charged') /\ Cardinality(Charged') <= Cardinality(Charged)
    BY <1>3, FS_Subset DEF Paid
  <2>3. /\ Cardinality(Unmarked') \in Nat /\ Cardinality(Charged') \in Nat
        /\ Cardinality(U) \in Nat
    BY <1>1, <2>1, <2>2, FS_CardinalityType
  <2>4. QED
    BY <1>1, <2>1, <2>2, <2>3, Account DEF Paid
<1>4. CASE Unmarked' \subseteq Unmarked /\ Charged' \subseteq C
  <2>1. IsFiniteSet(Unmarked') /\ Cardinality(Unmarked') <= Cardinality(Unmarked)
    BY <1>4, FS_Subset DEF Paid
  <2>2. IsFiniteSet(Charged') /\ Cardinality(Charged') <= Cardinality(C)
    BY <1>2, <1>4, FS_Subset
  <2>3. /\ Cardinality(Unmarked') \in Nat /\ Cardinality(Charged') \in Nat
        /\ Cardinality(C) \in Nat
    BY <1>2, <2>1, <2>2, FS_CardinalityType
  <2>4. QED
    BY <1>2, <2>1, <2>2, <2>3, Account DEF Paid
<1>5. QED
  BY <1>3, <1>4

\* A charge is turned into an unmarked order: nothing new is owed.
LEMMA ChargeSpent ==
  ASSUME Paid, used["error"] \in Nat, used'["error"] = used["error"],
         NEW o, NEW w \in Charged,
         Unmarked' \subseteq Unmarked \cup {o}, Charged' \subseteq Charged \ {w}
  PROVE  Paid'
<1> DEFINE U == Unmarked \cup {o}
           C == Charged \ {w}
<1>1. IsFiniteSet(U) /\ Cardinality(U) <= Cardinality(Unmarked) + 1
  BY OneMore DEF Paid
<1>2. IsFiniteSet(C) /\ Cardinality(C) = Cardinality(Charged) - 1
  BY FS_RemoveElement DEF Paid
<1>3. IsFiniteSet(Unmarked') /\ Cardinality(Unmarked') <= Cardinality(U)
  BY <1>1, FS_Subset
<1>4. IsFiniteSet(Charged') /\ Cardinality(Charged') <= Cardinality(C)
  BY <1>2, FS_Subset
<1>5. /\ Cardinality(Unmarked') \in Nat /\ Cardinality(Charged') \in Nat
      /\ Cardinality(U) \in Nat /\ Cardinality(C) \in Nat
  BY <1>1, <1>2, <1>3, <1>4, FS_CardinalityType
<1>6. QED
  BY <1>1, <1>2, <1>3, <1>4, <1>5, Account DEF Paid

-----------------------------------------------------------------------------
(* What every step does                                                    *)

\* A status only moves on from PENDING or PREPARING, and never back.
MovesOn ==
  /\ status' \in [Orders -> MaybeStatus]
  /\ \A o \in Orders :
       status'[o] = status[o] \/ (status[o] \in Open /\ status'[o] \in {"PREPARING", "READY", "FAILED"})

LEMMA Moves ==
  ASSUME TypeOK, MovesOn
  PROVE  \A o \in Orders : /\ status[o] # None => status'[o] # None
                           /\ status[o] # "PENDING" => status'[o] # "PENDING"
                           /\ status'[o] \in Open => status[o] \in Open
BY Statuses DEF MovesOn, Open

LEMMA Unmoved ==
  ASSUME TypeOK, UNCHANGED status
  PROVE  MovesOn
BY DEF TypeOK, MovesOn

LEMMA Moved ==
  ASSUME TypeOK, NEW o \in Orders, status[o] \in Open, NEW s \in {"PREPARING", "READY", "FAILED"},
         status' = [status EXCEPT ![o] = s]
  PROVE  MovesOn
BY Statuses DEF TypeOK, MovesOn

LEMMA OwnPlaced ==
  ASSUME TypeOK, PlacedOnly, MovesOn, NEW w \in Workers, NEW t \in Task,
         task' = [task EXCEPT ![w] = t],
         t # Idle => t.order \in Orders /\ status[t.order] # None,
         queue' \subseteq Messages, \A m \in queue' : status[m.order] # None, NotSent,
         buried' \subseteq Orders, \A o \in buried' : status[o] # None
  PROVE  PlacedOnly'
<1>1. \A m \in queue' : status'[m.order] # None
  BY Moves DEF Messages
<1>2. ASSUME NEW v \in Workers, task'[v] # Idle
      PROVE  status'[task'[v].order] # None
  <2>1. CASE v = w
    BY <1>2, <2>1, Moves DEF TypeOK
  <2>2. CASE v # w
    <3>1. task'[v] = task[v]
      BY <2>2 DEF TypeOK
    <3>2. task[v].order \in Orders /\ status[task[v].order] # None
      BY <1>2, <3>1, TaskStep DEF PlacedOnly
    <3>3. QED
      BY <3>1, <3>2, Moves
  <2>3. QED
    BY <2>1, <2>2
<1>3. (\A o \in buried' : status'[o] # None) /\ (\A o \in unsent' : status'[o] # None)
  BY Moves DEF PlacedOnly, NotSent, TypeOK
<1>4. QED
  BY <1>1, <1>2, <1>3 DEF PlacedOnly

LEMMA OwnCooking ==
  ASSUME TypeOK, Cooking, MovesOn, NEW w \in Workers, NEW t \in Task,
         task' = [task EXCEPT ![w] = t],
         t.pc = "cook" => status'[t.order] # "PENDING"
  PROVE  Cooking'
<1>1. ASSUME NEW v \in Workers, task'[v].pc = "cook"
      PROVE  status'[task'[v].order] # "PENDING"
  <2>1. CASE v = w
    BY <1>1, <2>1 DEF TypeOK
  <2>2. CASE v # w
    <3>1. task'[v] = task[v]
      BY <2>2 DEF TypeOK
    <3>2. task[v].order \in Orders /\ status[task[v].order] # "PENDING"
      BY <1>1, <3>1, TaskStep DEF Cooking
    <3>3. QED
      BY <3>1, <3>2, Moves
  <2>3. QED
    BY <2>1, <2>2
<1>2. QED
  BY <1>1 DEF Cooking

\* All of it, for a step of one process; what is left is the account.
LEMMA OwnInv ==
  ASSUME TypeOK, PlacedOnly, Cooking, MovesOn, NEW w \in Workers, NEW t \in Task,
         task' = [task EXCEPT ![w] = t],
         t # Idle => t.order \in Orders /\ status[t.order] # None,
         t.pc = "cook" => status'[t.order] # "PENDING",
         NEW b \in BOOLEAN, stale' = [stale EXCEPT ![w] = b],
         queue' \subseteq Messages, \A m \in queue' : status[m.order] # None, NotSent,
         buried' \subseteq Orders, \A o \in buried' : status[o] # None,
         NoFault \/ \E k \in FaultKinds : Fault(k)
  PROVE  /\ TypeOK' /\ PlacedOnly' /\ Cooking'
         /\ Charged' \subseteq Charged \cup {w}
         /\ (~Owes(t, b) \/ status'[t.order] \notin Open) => Charged' \subseteq Charged \ {w}
         /\ buried' = buried => Unmarked' \subseteq Unmarked
<1>1. used' \in [FaultKinds -> Nat] /\ \A k \in FaultKinds : used'[k] <= Limit[k]
  BY FaultCount DEF TypeOK, NoFault
<1>2. TypeOK'
  BY <1>1, OwnStep DEF MovesOn
<1>3. PlacedOnly' /\ Cooking'
  BY OwnPlaced, OwnCooking
<1>4. \A o \in Orders : status'[o] \in Open => status[o] \in Open
  BY Moves
<1>5. /\ Charged' \subseteq Charged \cup {w}
      /\ (~Owes(t, b) \/ status'[t.order] \notin Open) => Charged' \subseteq Charged \ {w}
  BY <1>4, OwnCharge DEF Owes
<1>6. buried' = buried => Unmarked' \subseteq Unmarked
  BY <1>4 DEF TypeOK, Unmarked, Open
<1>7. QED
  BY <1>2, <1>3, <1>5, <1>6

-----------------------------------------------------------------------------
(* Action by action                                                        *)

LEMMA Errors ==
  ASSUME TypeOK
  PROVE  /\ used["error"] \in Nat
         /\ NoFault \/ Fault("crash") \/ Fault("broker") => used'["error"] = used["error"]
         /\ Fault("error") => used'["error"] = used["error"] + 1
<1>1. used["error"] \in Nat /\ (NoFault => used'["error"] = used["error"])
  BY DEF TypeOK, FaultKinds, NoFault
<1>2. "crash" \in FaultKinds /\ "broker" \in FaultKinds /\ "error" \in FaultKinds
  BY DEF FaultKinds
<1>3. QED
  BY <1>1, <1>2, FaultCount

LEMMA GoesTo ==
  ASSUME TypeOK, NEW w \in Workers, NEW pc \in {"start", "cook", "raised", "bury", "ack"},
         Goto(w, pc), task[w].pc # "idle"
  PROVE  \E t \in Task : /\ task' = [task EXCEPT ![w] = t]
                         /\ t # Idle /\ t.pc = pc /\ t.order = task[w].order
                         /\ t.retries = task[w].retries
<1> DEFINE t == [task[w] EXCEPT !.pc = pc]
<1>1. t \in Task
  BY TaskStep
<1>2. t.pc = pc /\ t.order = task[w].order /\ t.retries = task[w].retries
  BY TaskStep DEF Task
<1>3. task' = [task EXCEPT ![w] = t]
  BY DEF Goto, TypeOK
<1>4. t # Idle
  BY <1>2, TaskStep
<1>5. QED
  BY <1>1, <1>2, <1>3, <1>4

LEMMA PlaceInv ==
  ASSUME IInv, NEW o \in Orders, Place(o)
  PROVE  IInv'
<1>1. /\ TypeOK /\ PlacedOnly /\ Cooking /\ Paid /\ status[o] = None
      /\ status' = [status EXCEPT ![o] = "PENDING"] /\ unsent' = unsent \cup {o}
      /\ queue' = queue /\ task' = task /\ stale' = stale /\ buried' = buried
      /\ lost' = lost /\ used' = used
  BY DEF IInv, Place, NoFault
<1>2. TypeOK'
  <2>1. status' \in [Orders -> MaybeStatus]
    BY <1>1, Statuses DEF TypeOK
  <2>2. QED
    BY <1>1, <2>1 DEF TypeOK
<1>3. \A p \in Orders : status[p] # None => p # o /\ status'[p] = status[p]
  BY <1>1 DEF TypeOK
<1>4. status'[o] = "PENDING" /\ "PENDING" # None
  BY <1>1, Statuses DEF TypeOK
<1>5. PlacedOnly'
  <2>1. \A m \in queue' : status'[m.order] # None
    BY <1>1, <1>3 DEF TypeOK, Messages, PlacedOnly
  <2>2. \A w \in Workers : task'[w] # Idle => status'[task'[w].order] # None
    BY <1>1, <1>3, TaskStep DEF PlacedOnly
  <2>3. \A p \in buried' : status'[p] # None
    BY <1>1, <1>3 DEF TypeOK, PlacedOnly
  <2>4. \A p \in unsent' : status'[p] # None
    BY <1>1, <1>3, <1>4 DEF TypeOK, PlacedOnly
  <2>5. QED
    BY <2>1, <2>2, <2>3, <2>4 DEF PlacedOnly
<1>6. \A w \in Workers : task[w].pc # "idle" => status'[task[w].order] = status[task[w].order]
  BY <1>1, <1>3, TaskStep DEF PlacedOnly
<1>7. Cooking'
  BY <1>1, <1>6 DEF Cooking
<1>8. Unmarked' \subseteq Unmarked
  BY <1>1, <1>3 DEF TypeOK, PlacedOnly, Unmarked
<1>9. Charged' \subseteq Charged
  BY <1>1, <1>6 DEF Charged, Owes
<1>10. Paid'
  BY <1>1, <1>8, <1>9, Errors, NothingNew
<1>11. QED
  BY <1>2, <1>5, <1>7, <1>10 DEF IInv

\* Whether the message of create_order arrives or not.
LEMMA PublishInv ==
  ASSUME IInv, NEW o \in Orders, Publish(o) \/ PublishFails(o)
  PROVE  IInv'
<1> DEFINE m == [order |-> o, retries |-> 0]
<1>1. /\ TypeOK /\ PlacedOnly /\ Cooking /\ Paid /\ o \in unsent
      /\ status' = status /\ unsent' = unsent \ {o} /\ queue' \subseteq queue \cup {m}
      /\ task' = task /\ stale' = stale /\ buried' = buried
  BY DEF IInv, Publish, PublishFails, Posts, MayPost
<1>2. lost' \subseteq Orders /\ (NoFault \/ Fault("broker"))
  BY <1>1 DEF Publish, PublishFails, PublishBreaks, TypeOK
<1>3. m \in Messages /\ m.order = o
  BY LoopRetriesAssumption DEF Messages
<1> HIDE DEF m
<1>4. used' \in [FaultKinds -> Nat] /\ \A k \in FaultKinds : used'[k] <= Limit[k]
  BY <1>1, <1>2, FaultCount DEF TypeOK, NoFault, FaultKinds
<1>5. TypeOK'
  BY <1>1, <1>2, <1>3, <1>4 DEF TypeOK
<1>6. PlacedOnly' /\ Cooking'
  BY <1>1, <1>3 DEF PlacedOnly, Cooking
<1>7. Unmarked' = Unmarked /\ Charged' = Charged
  BY <1>1 DEF Unmarked, Charged
<1>8. Paid'
  BY <1>1, <1>2, <1>7, Errors, NothingNew
<1>9. QED
  BY <1>5, <1>6, <1>8 DEF IInv

LEMMA ReceiveInv ==
  ASSUME IInv, NEW w \in Workers, NEW m \in queue, Receive(w, m)
  PROVE  IInv'
<1> DEFINE t == [pc |-> "start", order |-> m.order, retries |-> m.retries]
<1>1. /\ TypeOK /\ PlacedOnly /\ Cooking /\ Paid
      /\ task' = [task EXCEPT ![w] = t] /\ queue' \subseteq queue
      /\ UNCHANGED <<status, stale, buried, posts>> /\ NoFault /\ NotSent
  BY Kept DEF IInv, Receive
<1>2. t \in Task /\ t.pc = "start" /\ t.order \in Orders /\ status[t.order] # None
  BY <1>1 DEF TypeOK, Task, Messages, PlacedOnly
<1>3. stale' = [stale EXCEPT ![w] = stale[w]] /\ stale[w] \in BOOLEAN
  BY <1>1 DEF TypeOK
<1>4. MovesOn
  BY <1>1, Unmoved
<1>5. /\ queue' \subseteq Messages /\ \A n \in queue' : status[n.order] # None
      /\ buried' \subseteq Orders /\ \A o \in buried' : status[o] # None
  BY <1>1 DEF TypeOK, PlacedOnly
<1>6. /\ TypeOK' /\ PlacedOnly' /\ Cooking'
      /\ Charged' \subseteq Charged /\ Unmarked' \subseteq Unmarked
  <2> HIDE DEF t
  <2>1. QED
    BY <1>1, <1>2, <1>3, <1>4, <1>5, OwnInv DEF Owes
<1>7. QED
  BY <1>1, <1>6, Errors, NothingNew DEF IInv

\* The steps that leave w idle: the message goes back, on, or away.
LEMMA IdleInv ==
  ASSUME IInv, NEW w \in Workers, Retry(w) \/ RetryFails(w) \/ Ack(w) \/ Crash(w)
  PROVE  IInv'
<1>0. TypeOK /\ PlacedOnly /\ Cooking /\ Paid
  BY DEF IInv
<1>1. /\ TypeOK /\ PlacedOnly /\ Cooking /\ Paid
      /\ task' = [task EXCEPT ![w] = Idle]
      /\ UNCHANGED <<status, buried>> /\ NotSent
      /\ NoFault \/ Fault("crash") \/ Fault("broker")
  <2>1. CASE Retry(w) \/ Ack(w) \/ Crash(w)
    BY <1>0, <2>1, Kept DEF Retry, Ack, Crash
  <2>2. CASE RetryFails(w)
    <3>1. task[w].order \in Orders
      BY <1>0, <2>2, TaskStep DEF RetryFails
    <3>2. QED
      BY <1>0, <2>2, <3>1, Kept DEF RetryFails, PublishBreaks
  <2>3. QED
    BY <2>1, <2>2
<1>2. PICK b \in BOOLEAN : stale' = [stale EXCEPT ![w] = b]
  <2>1. CASE Crash(w)
    BY <2>1 DEF Crash, DropsConnection
  <2>2. CASE stale' = stale
    BY <1>1, <2>2 DEF TypeOK
  <2>3. QED
    BY <2>1, <2>2 DEF Retry, RetryFails, Ack
<1>3. queue' \subseteq Messages /\ \A n \in queue' : status[n.order] # None
  <2>1. queue \subseteq Messages /\ \A n \in queue : status[n.order] # None
    BY <1>1 DEF TypeOK, PlacedOnly
  <2>2. ASSUME task[w] # Idle, NEW r \in 0..MaxRetries,
               queue' = queue \cup {[order |-> task[w].order, retries |-> r]}
        PROVE  queue' \subseteq Messages /\ \A n \in queue' : status[n.order] # None
    <3> DEFINE m == [order |-> task[w].order, retries |-> r]
    <3>1. task[w].order \in Orders /\ status[task[w].order] # None
      BY <1>1, <2>2, TaskStep DEF PlacedOnly
    <3>2. m \in Messages /\ m.order = task[w].order
      BY <3>1 DEF Messages
    <3>3. \A n \in queue' : n \in queue \/ n = m
      BY <2>2
    <3>4. QED
      BY <2>1, <3>1, <3>2, <3>3
  <2>3. CASE Retry(w) \/ RetryFails(w)
    <3>1. /\ task[w] # Idle /\ task[w].retries \in 0..MaxRetries /\ task[w].retries < MaxRetries
          /\ queue' = queue \/ queue' = queue \cup {NextAttempt(w)}
      BY <1>1, <2>3, TaskStep DEF Retry, RetryFails, Posts, MayPost
    <3>2. task[w].retries + 1 \in 0..MaxRetries
      BY <3>1, LoopRetriesAssumption
    <3>3. QED
      BY <2>1, <2>2, <3>1, <3>2 DEF NextAttempt
  <2>4. CASE Crash(w)
    BY <1>1, <2>2, <2>4, TaskStep DEF Crash
  <2>5. CASE Ack(w)
    BY <2>1, <2>5 DEF Ack
  <2>6. QED
    BY <2>3, <2>4, <2>5
<1>4. Idle \in Task /\ Idle.pc = "idle" /\ MovesOn
  BY <1>1, TaskStep, Unmoved
<1>5. buried' \subseteq Orders /\ \A o \in buried' : status[o] # None
  BY <1>1 DEF TypeOK, PlacedOnly
<1>6. NoFault \/ \E k \in FaultKinds : Fault(k)
  BY <1>1 DEF FaultKinds
<1>7. /\ TypeOK' /\ PlacedOnly' /\ Cooking'
      /\ Charged' \subseteq Charged /\ Unmarked' \subseteq Unmarked
  <2>1. ~Owes(Idle, b)
    BY <1>4 DEF Owes
  <2>2. QED
    BY <2>1, <1>1, <1>2, <1>3, <1>4, <1>5, <1>6, OwnInv DEF Owes
<1>8. QED
  BY <1>1, <1>7, Errors, NothingNew DEF IInv

LEMMA StaleConnectionInv ==
  ASSUME IInv, NEW w \in Workers, StaleConnection(w)
  PROVE  IInv'
<1>1. /\ TypeOK /\ PlacedOnly /\ Cooking /\ Paid
      /\ Goto(w, "raised") /\ task[w].pc = "start"
      /\ UNCHANGED <<status, queue, buried>> /\ NoFault /\ NotSent
      /\ stale' = [stale EXCEPT ![w] = FALSE]
  BY Kept DEF IInv, StaleConnection, DropsConnection
<1>2. PICK t \in Task : /\ task' = [task EXCEPT ![w] = t]
                       /\ t # Idle /\ t.pc = "raised" /\ t.order = task[w].order
  BY <1>1, GoesTo
<1>3. t.order \in Orders /\ status[t.order] # None /\ MovesOn
  BY <1>1, <1>2, TaskStep, Unmoved DEF PlacedOnly
<1>4. /\ queue' \subseteq Messages /\ \A n \in queue' : status[n.order] # None
      /\ buried' \subseteq Orders /\ \A o \in buried' : status[o] # None
  BY <1>1 DEF TypeOK, PlacedOnly
<1>5. /\ TypeOK' /\ PlacedOnly' /\ Cooking'
      /\ Charged' \subseteq Charged /\ Unmarked' \subseteq Unmarked
  BY <1>1, <1>2, <1>3, <1>4, OwnInv DEF Owes
<1>6. QED
  BY <1>1, <1>5, Errors, NothingNew DEF IInv

LEMMA BeginInv ==
  ASSUME IInv, NEW w \in Workers, Begin(w)
  PROVE  IInv'
<1> DEFINE o == task[w].order
<1>1. /\ TypeOK /\ PlacedOnly /\ Cooking /\ Paid /\ task[w].pc = "start"
      /\ UNCHANGED <<queue, buried>> /\ NoFault /\ NotSent
  BY Kept DEF IInv, Begin
<1>2. task[w] # Idle /\ o \in Orders /\ status[o] # None
  BY <1>1, TaskStep DEF PlacedOnly
<1>3. /\ queue' \subseteq Messages /\ \A n \in queue' : status[n.order] # None
      /\ buried' \subseteq Orders /\ \A p \in buried' : status[p] # None
  BY <1>1 DEF TypeOK, PlacedOnly
<1>4. CASE /\ status[o] = "READY" /\ Goto(w, "ack") /\ LeavesConnection(w)
           /\ UNCHANGED status
  <2>1. PICK t \in Task : /\ task' = [task EXCEPT ![w] = t]
                         /\ t # Idle /\ t.pc = "ack" /\ t.order = o
    BY <1>1, <1>4, GoesTo
  <2>2. MovesOn /\ stale' = [stale EXCEPT ![w] = TRUE]
    BY <1>1, <1>4, Unmoved DEF LeavesConnection
  <2>3. /\ TypeOK' /\ PlacedOnly' /\ Cooking'
        /\ Charged' \subseteq Charged /\ Unmarked' \subseteq Unmarked
    BY <1>1, <1>2, <1>3, <2>1, <2>2, OwnInv DEF Owes
  <2>4. QED
    BY <1>1, <2>3, Errors, NothingNew DEF IInv
<1>5. CASE /\ status[o] # "READY" /\ Goto(w, "cook") /\ UNCHANGED stale
           /\ status' = IF status[o] = "PENDING" THEN [status EXCEPT ![o] = "PREPARING"] ELSE status
  <2>1. PICK t \in Task : /\ task' = [task EXCEPT ![w] = t]
                         /\ t # Idle /\ t.pc = "cook" /\ t.order = o
    BY <1>1, <1>5, GoesTo
  <2>2. MovesOn
    BY <1>1, <1>2, <1>5, Moved, Unmoved DEF Open
  <2>3. stale' = [stale EXCEPT ![w] = stale[w]] /\ stale[w] \in BOOLEAN
    BY <1>1, <1>5 DEF TypeOK
  <2>4. status'[o] # "PENDING"
    BY <1>1, <1>2, <1>5 DEF TypeOK
  <2>5. /\ TypeOK' /\ PlacedOnly' /\ Cooking'
        /\ Charged' \subseteq Charged /\ Unmarked' \subseteq Unmarked
    BY <1>1, <1>2, <1>3, <2>1, <2>2, <2>3, <2>4, OwnInv DEF Owes
  <2>6. QED
    BY <1>1, <2>5, Errors, NothingNew DEF IInv
<1>6. QED
  BY <1>4, <1>5 DEF Begin

LEMMA ServeInv ==
  ASSUME IInv, NEW w \in Workers, Serve(w)
  PROVE  IInv'
<1> DEFINE o == task[w].order
<1>1. /\ TypeOK /\ PlacedOnly /\ Cooking /\ Paid /\ task[w].pc = "cook"
      /\ UNCHANGED <<queue, buried>> /\ NoFault /\ NotSent
      /\ stale' = [stale EXCEPT ![w] = TRUE]
  BY Kept DEF IInv, Serve, LeavesConnection
<1>2. /\ task[w] # Idle /\ o \in Orders /\ status[o] # None
      /\ status[o] # "PENDING" /\ status[o] \in MaybeStatus
  BY <1>1, TaskStep DEF PlacedOnly, Cooking, TypeOK
<1>3. CanBecome(status[o], "READY") <=> status[o] = "PREPARING"
  BY DEF CanBecome, ValidTransitions
<1>4. PICK pc \in {"raised", "ack"} : /\ Goto(w, pc) /\ MovesOn
                                      /\ pc = "raised" => status'[o] \notin Open
  <2>1. CASE CanBecome(status[o], "READY")
    <3>1. status' = [status EXCEPT ![o] = "READY"] /\ Goto(w, "ack")
      BY <2>1 DEF Serve
    <3>2. MovesOn
      BY <1>1, <1>2, <1>3, <2>1, <3>1, Moved DEF Open
    <3>3. QED
      BY <3>1, <3>2
  <2>2. CASE ~CanBecome(status[o], "READY")
    <3>1. status' = status /\ Goto(w, "raised")
      BY <2>2 DEF Serve
    <3>2. QED
      BY <1>1, <1>2, <1>3, <2>2, <3>1, Unmoved DEF Open
  <2>3. QED
    BY <2>1, <2>2
<1>5. PICK t \in Task : /\ task' = [task EXCEPT ![w] = t]
                       /\ t # Idle /\ t.pc = pc /\ t.order = o
  <2>1. pc \in {"start", "cook", "raised", "bury", "ack"} /\ task[w].pc # "idle"
    BY <1>1
  <2>2. Goto(w, pc)
    BY <1>4
  <2> HIDE DEF o
  <2>3. QED
    BY <1>1, <2>1, <2>2, GoesTo DEF o
<1>6. /\ queue' \subseteq Messages /\ \A n \in queue' : status[n.order] # None
      /\ buried' \subseteq Orders /\ \A p \in buried' : status[p] # None
  BY <1>1 DEF TypeOK, PlacedOnly
<1>7. /\ TypeOK' /\ PlacedOnly' /\ Cooking'
      /\ Charged' \subseteq Charged /\ Unmarked' \subseteq Unmarked
  <2>1. t.order \in Orders /\ status[t.order] # None
    BY <1>2, <1>5
  <2>2. t.pc # "cook" /\ (~Owes(t, TRUE) \/ status'[t.order] \notin Open)
    BY <1>4, <1>5 DEF Owes
  <2>3. MovesOn
    BY <1>4
  <2>4. QED
    BY <1>1, <1>5, <1>6, <2>1, <2>2, <2>3, OwnInv
<1>8. QED
  BY <1>1, <1>7, Errors, NothingNew DEF IInv

LEMMA BreakInv ==
  ASSUME IInv, NEW w \in Workers, Break(w)
  PROVE  IInv'
<1> DEFINE o == task[w].order
<1>1. /\ TypeOK /\ PlacedOnly /\ Cooking /\ Paid
      /\ task[w].pc \in {"start", "cook"} /\ Goto(w, "raised")
      /\ UNCHANGED <<queue, buried>> /\ Fault("error") /\ NotSent
  BY Kept DEF IInv, Break
<1>2. PICK b \in BOOLEAN : stale' = [stale EXCEPT ![w] = b]
  BY DEF Break, MayLeaveConnection
<1>3. PICK t \in Task : /\ task' = [task EXCEPT ![w] = t]
                       /\ t # Idle /\ t.pc = "raised" /\ t.order = o
  BY <1>1, GoesTo
<1>4. o \in Orders /\ status[o] # None
  BY <1>1, TaskStep DEF PlacedOnly
<1>5. MovesOn
  <2>1. CASE UNCHANGED status
    BY <1>1, <2>1, Unmoved
  <2>2. CASE CanBecome(status[o], "READY") /\ status' = [status EXCEPT ![o] = "READY"]
    <3>1. status[o] \in Open
      BY <2>2 DEF CanBecome, ValidTransitions, Open
    <3>2. QED
      BY <1>1, <1>4, <2>2, <3>1, Moved
  <2>3. QED
    BY <2>1, <2>2 DEF Break
<1>6. /\ queue' \subseteq Messages /\ \A n \in queue' : status[n.order] # None
      /\ buried' \subseteq Orders /\ \A p \in buried' : status[p] # None
  BY <1>1 DEF TypeOK, PlacedOnly
<1>7. NoFault \/ \E k \in FaultKinds : Fault(k)
  BY <1>1 DEF FaultKinds
<1> HIDE DEF o
<1>8. /\ TypeOK' /\ PlacedOnly' /\ Cooking'
      /\ Charged' \subseteq Charged \cup {w} /\ Unmarked' \subseteq Unmarked
  BY <1>1, <1>2, <1>3, <1>4, <1>5, <1>6, <1>7, OwnInv
<1>9. QED
  BY <1>1, <1>8, Errors, OneMoreIsPaid DEF IInv

\* What on_failure's session does to the status of w's order.
LEMMA Marks ==
  ASSUME TypeOK, NEW o \in Orders, status[o] # None,
         status' = [status EXCEPT ![o] = MarkedFailed(@)]
  PROVE  MovesOn /\ status'[o] \notin Open
<1>1. CanBecome(status[o], "FAILED") <=> status[o] \in Open
  BY DEF CanBecome, ValidTransitions, Open
<1>2. status[o] \in MaybeStatus
  BY DEF TypeOK
<1>3. CASE status[o] \in Open
  <2>1. status' = [status EXCEPT ![o] = "FAILED"]
    BY <1>1, <1>3 DEF MarkedFailed
  <2>2. status'[o] = "FAILED"
    BY <2>1 DEF TypeOK
  <2>3. QED
    BY <1>3, <2>1, <2>2, Moved DEF Open
<1>4. CASE status[o] \notin Open
  <2>1. status' = status
    BY <1>1, <1>4 DEF MarkedFailed, TypeOK
  <2>2. QED
    BY <1>4, <2>1, Unmoved
<1>5. QED
  BY <1>3, <1>4

\* The charge of a stale connection stays with the attempt until its tombstone.
LEMMA OnFailureInv ==
  ASSUME IInv, NEW w \in Workers, OnFailure(w)
  PROVE  IInv'
<1> DEFINE o == task[w].order
<1>1. /\ TypeOK /\ PlacedOnly /\ Cooking /\ Paid /\ task[w].pc = "raised"
      /\ Goto(w, "bury") /\ queue' = queue /\ buried' = buried /\ NotSent
  BY Kept DEF IInv, OnFailure
<1>2. task[w] # Idle /\ o \in Orders /\ status[o] # None
  BY <1>1, TaskStep DEF PlacedOnly
<1>3. PICK t \in Task : /\ task' = [task EXCEPT ![w] = t]
                       /\ t # Idle /\ t.pc = "bury" /\ t.order = o
  BY <1>1, GoesTo
<1>4. /\ queue' \subseteq Messages /\ \A n \in queue' : status[n.order] # None
      /\ buried' \subseteq Orders /\ \A p \in buried' : status[p] # None
  BY <1>1 DEF TypeOK, PlacedOnly
<1>5. ASSUME MovesOn, NEW b \in BOOLEAN, stale' = [stale EXCEPT ![w] = b],
             NoFault \/ Fault("error")
      PROVE  /\ TypeOK' /\ PlacedOnly' /\ Cooking' /\ Charged' \subseteq Charged \cup {w}
             /\ Unmarked' \subseteq Unmarked
             /\ status'[o] \notin Open => Charged' \subseteq Charged
  <2>1. NoFault \/ \E k \in FaultKinds : Fault(k)
    BY <1>5 DEF FaultKinds
  <2> HIDE DEF o
  <2>2. QED
    BY <1>1, <1>2, <1>3, <1>4, <1>5, <2>1, OwnInv
<1>6. CASE stale[w] /\ DropsConnection(w) /\ NoFault /\ UNCHANGED status
  <2>1. MovesOn /\ stale' = [stale EXCEPT ![w] = FALSE]
    BY <1>1, <1>6, Unmoved DEF DropsConnection
  <2>2. w \in Charged \/ status'[o] \notin Open
    BY <1>1, <1>6 DEF Charged, Owes
  <2>3. /\ TypeOK' /\ PlacedOnly' /\ Cooking'
        /\ Charged' \subseteq Charged /\ Unmarked' \subseteq Unmarked
    BY <1>5, <1>6, <2>1, <2>2
  <2>4. QED
    BY <1>1, <1>6, <2>3, Errors, NothingNew DEF IInv
<1>7. CASE /\ ~stale[w] /\ LeavesConnection(w) /\ NoFault
           /\ status' = [status EXCEPT ![o] = MarkedFailed(@)]
  <2>1. MovesOn /\ status'[o] \notin Open
    BY <1>1, <1>2, <1>7, Marks
  <2>2. stale' = [stale EXCEPT ![w] = TRUE]
    BY <1>7 DEF LeavesConnection
  <2>3. /\ TypeOK' /\ PlacedOnly' /\ Cooking'
        /\ Charged' \subseteq Charged /\ Unmarked' \subseteq Unmarked
    BY <1>5, <1>7, <2>1, <2>2
  <2>4. QED
    BY <1>1, <1>7, <2>3, Errors, NothingNew DEF IInv
<1>8. CASE /\ ~stale[w] /\ MayLeaveConnection(w) /\ Fault("error")
           /\ status' = [status EXCEPT ![o] = MarkedFailed(@)] \/ UNCHANGED status
  <2>1. MovesOn
    BY <1>1, <1>2, <1>8, Marks, Unmoved
  <2>2. PICK b \in BOOLEAN : stale' = [stale EXCEPT ![w] = b]
    BY <1>8 DEF MayLeaveConnection
  <2>3. /\ TypeOK' /\ PlacedOnly' /\ Cooking'
        /\ Charged' \subseteq Charged \cup {w} /\ Unmarked' \subseteq Unmarked
    BY <1>5, <1>8, <2>1, <2>2
  <2>4. used["error"] \in Nat /\ used'["error"] = used["error"] + 1
    BY <1>1, <1>8, Errors
  <2>5. Paid'
    BY <1>1, <2>3, <2>4, OneMoreIsPaid
  <2>6. QED
    BY <2>3, <2>5 DEF IInv
<1>9. QED
  BY <1>6, <1>7, <1>8 DEF OnFailure

\* With the tombstone the charge becomes an order without its FAILED write.
LEMMA TombstoneInv ==
  ASSUME IInv, NEW w \in Workers, Tombstone(w)
  PROVE  IInv'
<1> DEFINE o == task[w].order
<1>1. /\ TypeOK /\ PlacedOnly /\ Cooking /\ Paid /\ task[w].pc = "bury"
      /\ Goto(w, "ack") /\ queue' = queue /\ status' = status /\ stale' = stale
      /\ buried' \in {buried, buried \cup {o}} /\ unsent' = unsent
  BY DEF IInv, Tombstone
<1>2. task[w] # Idle /\ o \in Orders /\ status[o] # None
  BY <1>1, TaskStep DEF PlacedOnly
<1>3. (NoFault \/ Fault("broker")) /\ NotSent
  BY <1>1, <1>2, Kept DEF Tombstone, PublishBreaks, posts
<1>4. PICK t \in Task : /\ task' = [task EXCEPT ![w] = t]
                       /\ t # Idle /\ t.pc = "ack" /\ t.order = o
  BY <1>1, GoesTo
<1>5. /\ queue' \subseteq Messages /\ \A n \in queue' : status[n.order] # None
      /\ buried' \subseteq Orders /\ \A p \in buried' : status[p] # None
  BY <1>1, <1>2 DEF TypeOK, PlacedOnly
<1>6. MovesOn /\ stale' = [stale EXCEPT ![w] = stale[w]] /\ stale[w] \in BOOLEAN
  BY <1>1, Unmoved DEF TypeOK
<1>7. NoFault \/ \E k \in FaultKinds : Fault(k)
  BY <1>3 DEF FaultKinds
<1>8. ~Owes(t, stale[w])
  BY <1>4 DEF Owes
<1>9. used["error"] \in Nat /\ used'["error"] = used["error"]
  BY <1>1, <1>3, Errors
<1>10. /\ Unmarked' \subseteq Unmarked \cup {o}
       /\ status[o] \notin Open => Unmarked' \subseteq Unmarked
       /\ status[o] \in Open => w \in Charged
  BY <1>1 DEF Unmarked, Charged, Owes, Open
<1> HIDE DEF o
<1>11. TypeOK' /\ PlacedOnly' /\ Cooking' /\ Charged' \subseteq Charged \ {w}
  BY <1>1, <1>2, <1>3, <1>4, <1>5, <1>6, <1>7, <1>8, OwnInv DEF Owes
<1>12. Paid'
  <2>1. CASE status[o] \in Open
    BY <1>1, <1>9, <1>10, <1>11, <2>1, ChargeSpent
  <2>2. CASE status[o] \notin Open
    BY <1>1, <1>9, <1>10, <1>11, <2>2, NothingNew
  <2>3. QED
    BY <2>1, <2>2
<1>13. QED
  BY <1>11, <1>12 DEF IInv

LEMMA StepInv ==
  ASSUME IInv, [Next]_vars
  PROVE  IInv'
<1>1. CASE UNCHANGED vars
  BY <1>1 DEF vars, Owes, IInv, TypeOK, PlacedOnly, Cooking, Paid, Charged, Unmarked
<1>2. CASE \E o \in Orders : Place(o) \/ Publish(o) \/ PublishFails(o)
  BY <1>2, PlaceInv, PublishInv
<1>3. CASE \E w \in Workers : WorkerStep(w) \/ RetryFails(w) \/ Break(w) \/ Crash(w)
  <2>1. PICK w \in Workers : WorkerStep(w) \/ RetryFails(w) \/ Break(w) \/ Crash(w)
    BY <1>3
  <2>2. CASE \E m \in queue : Receive(w, m)
    BY <2>2, ReceiveInv
  <2>3. CASE Retry(w) \/ RetryFails(w) \/ Ack(w) \/ Crash(w)
    BY <2>3, IdleInv
  <2>4. CASE StaleConnection(w)
    BY <2>4, StaleConnectionInv
  <2>5. CASE Begin(w)
    BY <2>5, BeginInv
  <2>6. CASE Serve(w)
    BY <2>6, ServeInv
  <2>7. CASE Break(w)
    BY <2>7, BreakInv
  <2>8. CASE OnFailure(w)
    BY <2>8, OnFailureInv
  <2>9. CASE Tombstone(w)
    BY <2>9, TombstoneInv
  <2>10. QED
    BY <2>1, <2>2, <2>3, <2>4, <2>5, <2>6, <2>7, <2>8, <2>9 DEF WorkerStep
<1>4. QED
  BY <1>1, <1>2, <1>3 DEF Next

LEMMA Invariance == Spec => []IInv
<1>1. ASSUME Init
      PROVE  IInv
  <2>1. used \in [FaultKinds -> Nat] /\ used["error"] = 0
    BY <1>1 DEF Init, FaultKinds
  <2>2. \A k \in FaultKinds : used[k] <= Limit[k]
    BY <1>1, LoopLimitAssumption DEF Init
  <2>3. Idle \in Task /\ Idle.pc = "idle"
    BY LoopRetriesAssumption DEF Task, Idle
  <2>4. TypeOK
    BY <1>1, <2>1, <2>2, <2>3, Statuses DEF Init, TypeOK
  <2>5. PlacedOnly /\ Cooking
    BY <1>1, <2>3 DEF Init, PlacedOnly, Cooking
  <2>6. Unmarked = {} /\ Charged = {}
    BY <1>1, <2>3 DEF Init, Unmarked, Charged, Owes
  <2>7. IsFiniteSet({}) /\ Cardinality({}) = 0
    BY FS_EmptySet
  <2>8. Paid
    BY <2>1, <2>6, <2>7 DEF Paid
  <2>9. QED
    BY <2>4, <2>5, <2>8 DEF IInv
<1>2. QED
  BY <1>1, StepInv, PTL DEF Spec

\* Every message, task, pool and counter of the worker keeps its type.
THEOREM TypeCorrect == Spec => []TypeOK
<1>1. IInv => TypeOK
  BY DEF IInv
<1>2. QED
  BY <1>1, Invariance, PTL

\* on_failure of process_order: however many processes and orders there are, a
\* FAILED write is lost to a stale connection only for an error of its own.
THEOREM LostWritesArePaid == Spec => []UnmarkedNeedsError
<1>1. ASSUME IInv
      PROVE  UnmarkedNeedsError
  <2>1. used["error"] \in Nat /\ Paid
    BY <1>1, Errors DEF IInv
  <2>2. Cardinality(Unmarked) \in Nat /\ Cardinality(Charged) \in Nat
    BY <2>1, Account
  <2>3. QED
    BY <2>1, <2>2 DEF Paid, UnmarkedNeedsError
<1>2. QED
  BY <1>1, Invariance, PTL

=============================================================================
