-------------------------- MODULE OrderKitchenProofs --------------------------
(* Theorems about OrderKitchen, for every set of orders, deliveries and    *)
(* readers, every number of workers and retries and every fault budget.    *)
EXTENDS OrderKitchen, TLAPS

USE NoOrderAssumption, NumbersAssumption, LimitAssumption

-----------------------------------------------------------------------------
(* Types                                                                   *)

LEMMA MessageType ==
  ASSUME NEW o \in Orders, NEW r \in 0..MaxRetries
  PROVE  /\ Message(o, r) \in Job
         /\ Message(o, r).pc = "queued"
         /\ Message(o, r).order = o
         /\ Message(o, r).retries = r
         /\ Message(o, r).target = None
         /\ Message(o, r).wrote = FALSE
         /\ Message(o, r).held = FALSE
BY DEF Message, FreeSlot, Job, JobSteps, MaybeStatus

LEMMA MessageFields ==
  \A o, r : Message(o, r).pc = "queued" /\ Message(o, r).order = o
BY DEF Message, FreeSlot

LEMMA FreeSlotType ==
  /\ FreeSlot \in Job
  /\ FreeSlot.pc = "free"
BY DEF FreeSlot, Job, JobSteps, MaybeStatus

LEMMA InitType == Init => TypeOK
BY FreeSlotType DEF Init, TypeOK, MaybeStatus, ApiSteps, Reader, FaultKinds

\* TypeOK, by the variables a step is likely to touch together.
JobOK ==
  /\ job \in [Deliveries -> Job]
  /\ \A d \in Deliveries : job[d].pc = "free" \/ job[d].order \in Orders

UsedOK == /\ used \in [FaultKinds -> Nat]
          /\ \A k \in FaultKinds : used[k] <= Limit[k]

StoreOK == /\ db \in [Orders -> MaybeStatus]
           /\ cache \in [Orders -> MaybeStatus]
           /\ api \in [Orders -> ApiSteps]
           /\ dlq \subseteq Orders
           /\ buried \subseteq Orders

ReaderOK ==
  /\ reader \in [Readers -> Reader]
  /\ \A p \in Readers : \/ reader[p].order \in Orders
                        \/ reader[p].pc = "idle" /\ reader[p].status = None

LEMMA TypeParts == TypeOK <=> JobOK /\ UsedOK /\ StoreOK /\ ReaderOK
BY DEF TypeOK, JobOK, UsedOK, StoreOK, ReaderOK

LEMMA TypePartsNext == TypeOK' <=> JobOK' /\ UsedOK' /\ StoreOK' /\ ReaderOK'
BY DEF TypeOK, JobOK, UsedOK, StoreOK, ReaderOK

OrderStep(o) == \/ Place(o) \/ PlaceFails(o) \/ ApiStep(o) \/ ApiCrash(o)
                \/ LogTombstone(o) \/ Expire(o)

DeliveryStep(d) == \/ Receive(d) \/ UpdateStep(d) \/ TaskStep(d)
                   \/ Crash(d) \/ Redeliver(d)

ReaderStep(p) == PollStep(p) \/ \E o \in Orders : PollHit(p, o) \/ PollMiss(p, o)

LEMMA NextCases ==
  Next <=> \/ \E o \in Orders : OrderStep(o)
           \/ \E d \in Deliveries : DeliveryStep(d)
           \/ \E p \in Readers : ReaderStep(p)
BY DEF Next, OrderStep, DeliveryStep, ReaderStep

\* A step costs at most one fault.
LEMMA StepFaults ==
  ASSUME Next
  PROVE  UNCHANGED used \/ \E k \in FaultKinds : Fault(k)
<1>1. ASSUME NEW o \in Orders, OrderStep(o)
      PROVE  UNCHANGED used \/ \E k \in FaultKinds : Fault(k)
  BY <1>1 DEF OrderStep, ApiStep, Place, PlaceFails, Enqueue, EnqueueFails, Respond,
              ApiCrash, LogTombstone, Expire, NoFault, FaultKinds
<1>2. ASSUME NEW d \in Deliveries, UpdateStep(d)
      PROVE  UNCHANGED used \/ \E k \in FaultKinds : Fault(k)
  BY <1>2 DEF UpdateStep, SelectOrder, Commit, CommitFails, DropCache, FillCache,
              Reload, ReadFails, NoFault, FaultKinds
<1>3. ASSUME NEW d \in Deliveries, Receive(d) \/ TaskStep(d) \/ Crash(d) \/ Redeliver(d)
      PROVE  UNCHANGED used \/ \E k \in FaultKinds : Fault(k)
  BY <1>3 DEF Receive, Crash, Redeliver, TaskStep, ReadGuard, Prepare, Retry, RetryFails,
              OnFailure, Tombstone, Acknowledge, NoFault, FaultKinds
<1>4. ASSUME NEW p \in Readers, ReaderStep(p)
      PROVE  UNCHANGED used \/ \E k \in FaultKinds : Fault(k)
  BY <1>4 DEF ReaderStep, PollStep, PollRead, PollReadFails, PollFill, PollHit,
              PollMiss, NoFault, FaultKinds
<1>5. QED
  BY <1>1, <1>2, <1>3, <1>4, NextCases DEF DeliveryStep

LEMMA UsedNext ==
  ASSUME UsedOK, Next
  PROVE  UsedOK'
<1>1. CASE UNCHANGED used
  BY <1>1 DEF UsedOK
<1>2. ASSUME NEW k \in FaultKinds, Fault(k) PROVE UsedOK'
  BY <1>2 DEF UsedOK, Fault
<1>3. QED
  BY <1>1, <1>2, StepFaults

\* What a step does to the delivery it is about: c is its next step, t its
\* target, w and h its flags; its order, its retries and the other deliveries stay.
Moved(d, c, t, w, h) ==
  /\ \A e \in Deliveries : e # d => job'[e] = job[e]
  /\ job'[d].pc = c
  /\ job'[d].order = job[d].order
  /\ job'[d].retries = job[d].retries
  /\ job'[d].target = t
  /\ job'[d].wrote = w
  /\ job'[d].held = h

Keeps(d, c) == Moved(d, c, job[d].target, job[d].wrote, job[d].held)

Errs(d) == Moved(d, Excepted(d), job[d].target, FALSE, job[d].held)

LEMMA StepPc ==
  ASSUME JobOK, NEW d \in Deliveries, job[d].pc # "free", NEW c \in JobSteps,
         job' = [job EXCEPT ![d].pc = c]
  PROVE  JobOK' /\ Keeps(d, c)
<1>1. JobOK'
  BY DEF JobOK, Job
<1>2. Keeps(d, c)
  BY DEF JobOK, Job, Keeps, Moved
<1>3. QED
  BY <1>1, <1>2

LEMMA StepTarget ==
  ASSUME JobOK, NEW d \in Deliveries, job[d].pc # "free", NEW c \in JobSteps,
         NEW t \in MaybeStatus, job' = [job EXCEPT ![d].pc = c, ![d].target = t]
  PROVE  JobOK' /\ Moved(d, c, t, job[d].wrote, job[d].held)
<1>1. JobOK'
  BY DEF JobOK, Job
<1>2. Moved(d, c, t, job[d].wrote, job[d].held)
  BY DEF JobOK, Job, Moved
<1>3. QED
  BY <1>1, <1>2

LEMMA StepWrote ==
  ASSUME JobOK, NEW d \in Deliveries, job[d].pc # "free", NEW c \in JobSteps,
         NEW w \in BOOLEAN, job' = [job EXCEPT ![d].pc = c, ![d].wrote = w]
  PROVE  JobOK' /\ Moved(d, c, job[d].target, w, job[d].held)
<1>1. JobOK'
  BY DEF JobOK, Job
<1>2. Moved(d, c, job[d].target, w, job[d].held)
  BY DEF JobOK, Job, Moved
<1>3. QED
  BY <1>1, <1>2

LEMMA StepHeld ==
  ASSUME JobOK, NEW d \in Deliveries, job[d].pc # "free", NEW c \in JobSteps,
         NEW h \in BOOLEAN, job' = [job EXCEPT ![d].pc = c, ![d].held = h]
  PROVE  JobOK' /\ Moved(d, c, job[d].target, job[d].wrote, h)
<1>1. JobOK'
  BY DEF JobOK, Job
<1>2. Moved(d, c, job[d].target, job[d].wrote, h)
  BY DEF JobOK, Job, Moved
<1>3. QED
  BY <1>1, <1>2

LEMMA StepRaises ==
  ASSUME JobOK, NEW d \in Deliveries, job[d].pc # "free", job' = Raises(d)
  PROVE  JobOK' /\ Errs(d)
<1>1. Excepted(d) \in JobSteps
  BY DEF Excepted, JobSteps
<1>2. QED
  BY <1>1, StepWrote DEF Raises, Errs

\* The steps that concern one delivery only.
SoloStep(d) ==
  \/ UpdateStep(d) \/ Receive(d) \/ ReadGuard(d) \/ Prepare(d)
  \/ OnFailure(d) \/ Tombstone(d)

LEMMA ReceiveMoves ==
  ASSUME JobOK, NEW d \in Deliveries, Receive(d)
  PROVE  JobOK' /\ (Moved(d, "guard", job[d].target, job[d].wrote, TRUE))
BY StepHeld DEF Receive, JobSteps

LEMMA SelectOrderMoves ==
  ASSUME JobOK, NEW d \in Deliveries, SelectOrder(d)
  PROVE  JobOK' /\ (Keeps(d, "commit") \/ Errs(d))
BY StepPc, StepRaises DEF SelectOrder, JobSteps

LEMMA CommitMoves ==
  ASSUME JobOK, NEW d \in Deliveries, Commit(d)
  PROVE  JobOK' /\ (Moved(d, "del", job[d].target, job[d].target = "PREPARING", job[d].held))
BY StepWrote DEF Commit, JobSteps

LEMMA CommitFailsMoves ==
  ASSUME JobOK, NEW d \in Deliveries, CommitFails(d)
  PROVE  JobOK' /\ (Errs(d))
BY StepRaises DEF CommitFails

LEMMA DropCacheMoves ==
  ASSUME JobOK, NEW d \in Deliveries, DropCache(d)
  PROVE  JobOK' /\ (Keeps(d, "setex"))
BY StepPc DEF DropCache, JobSteps

LEMMA FillCacheMoves ==
  ASSUME JobOK, NEW d \in Deliveries, FillCache(d)
  PROVE  JobOK' /\ (Keeps(d, "reload"))
BY StepPc DEF FillCache, JobSteps

LEMMA ReloadMoves ==
  ASSUME JobOK, NEW d \in Deliveries, Reload(d)
  PROVE  JobOK' /\ (Keeps(d, Returned(d)))
<1>1. Returned(d) \in JobSteps
  BY DEF Returned, JobSteps
<1>2. job[d].pc # "free" /\ job' = [job EXCEPT ![d].pc = Returned(d)]
  BY DEF Reload
<1>3. QED
  BY <1>1, <1>2, StepPc

LEMMA ReadFailsMoves ==
  ASSUME JobOK, NEW d \in Deliveries, ReadFails(d)
  PROVE  JobOK' /\ (Errs(d))
BY StepRaises DEF ReadFails

LEMMA ReadGuardMoves ==
  ASSUME JobOK, NEW d \in Deliveries, ReadGuard(d)
  PROVE  JobOK' /\ (Moved(d, AfterGuard(db[job[d].order]), "PREPARING", job[d].wrote, job[d].held))
<1>1. AfterGuard(db[job[d].order]) \in JobSteps /\ "PREPARING" \in MaybeStatus
  BY DEF AfterGuard, JobSteps, MaybeStatus, Status
<1>2. /\ job[d].pc # "free"
      /\ job' = [job EXCEPT ![d].pc = AfterGuard(db[job[d].order]), ![d].target = "PREPARING"]
  BY DEF ReadGuard
<1>3. QED
  BY <1>1, <1>2, StepTarget

LEMMA PrepareMoves ==
  ASSUME JobOK, NEW d \in Deliveries, Prepare(d)
  PROVE  JobOK' /\ (Moved(d, "select", "READY", job[d].wrote, job[d].held))
BY StepTarget DEF Prepare, JobSteps, MaybeStatus, Status

LEMMA OnFailureMoves ==
  ASSUME JobOK, NEW d \in Deliveries, OnFailure(d)
  PROVE  JobOK' /\ (Moved(d, "select", "FAILED", job[d].wrote, job[d].held))
BY StepTarget DEF OnFailure, JobSteps, MaybeStatus, Status

LEMMA TombstoneMoves ==
  ASSUME JobOK, NEW d \in Deliveries, Tombstone(d)
  PROVE  JobOK' /\ (Keeps(d, "ack"))
BY StepPc DEF Tombstone, JobSteps

LEMMA SoloStepType ==
  ASSUME JobOK, NEW d \in Deliveries, SoloStep(d)
  PROVE  JobOK'
BY ReceiveMoves, SelectOrderMoves, CommitMoves, CommitFailsMoves, DropCacheMoves, FillCacheMoves,
   ReloadMoves, ReadFailsMoves, ReadGuardMoves, PrepareMoves, OnFailureMoves, TombstoneMoves
   DEF SoloStep, UpdateStep

LEMMA JobPut ==
  ASSUME JobOK, NEW d \in Deliveries, NEW j \in Job,
         j.pc = "free" \/ j.order \in Orders,
         job' = [job EXCEPT ![d] = j]
  PROVE  JobOK'
BY DEF JobOK

LEMMA JobPutTwo ==
  ASSUME JobOK, NEW d \in Deliveries, NEW e \in Deliveries, NEW j \in Job, NEW k \in Job,
         j.pc = "free" \/ j.order \in Orders,
         k.pc = "free" \/ k.order \in Orders,
         job' = [job EXCEPT ![d] = j, ![e] = k]
  PROVE  JobOK'
BY DEF JobOK

LEMMA JobByOrder ==
  ASSUME JobOK, NEW o \in Orders, OrderStep(o)
  PROVE  JobOK'
<1>1. ASSUME NEW d \in Free, job' = [job EXCEPT ![d] = Message(o, 0)]
      PROVE  JobOK'
  <2>1. 0 \in 0..MaxRetries /\ d \in Deliveries
    BY DEF Free
  <2>2. Message(o, 0) \in Job /\ Message(o, 0).order \in Orders
    BY <2>1, MessageType
  <2>3. QED
    BY <1>1, <2>1, <2>2, JobPut
<1>2. CASE UNCHANGED job
  BY <1>2 DEF JobOK
<1>3. QED
  BY <1>1, <1>2 DEF OrderStep, ApiStep, Place, PlaceFails, Enqueue, EnqueueFails,
                    Respond, ApiCrash, LogTombstone, Expire

LEMMA JobByDelivery ==
  ASSUME JobOK, NEW d \in Deliveries, DeliveryStep(d)
  PROVE  JobOK'
<1> DEFINE o == job[d].order
           r == job[d].retries
<1>1. CASE SoloStep(d)
  BY <1>1, SoloStepType
<1>2. CASE Retry(d)
  <2>1. PICK e \in Free : job' = [job EXCEPT ![d].pc = "ackRetry", ![e] = Message(o, r + 1)]
    BY <1>2 DEF Retry
  <2>2. e \in Deliveries /\ o \in Orders /\ r + 1 \in 0..MaxRetries
    BY <1>2 DEF Retry, JobOK, Job, Free
  <2>3. [job[d] EXCEPT !.pc = "ackRetry"] \in Job
    BY DEF JobOK, Job, JobSteps
  <2>4. [job[d] EXCEPT !.pc = "ackRetry"].order \in Orders
    BY <2>2 DEF JobOK, Job
  <2>5. Message(o, r + 1) \in Job /\ Message(o, r + 1).order \in Orders
    BY <2>2, MessageType
  <2>6. job' = [job EXCEPT ![d] = [job[d] EXCEPT !.pc = "ackRetry"], ![e] = Message(o, r + 1)]
    BY <2>1
  <2>7. QED
    BY <2>2, <2>3, <2>4, <2>5, <2>6, JobPutTwo
<1>3. CASE RetryFails(d)
  <2>1. o \in Orders /\ r + 1 \in 0..MaxRetries
    BY <1>3 DEF RetryFails, JobOK, Job
  <2>2. Message(o, r + 1) \in Job /\ Message(o, r + 1).order \in Orders
    BY <2>1, MessageType
  <2>3. CASE job' = [job EXCEPT ![d] = FreeSlot]
    BY <2>3, FreeSlotType, JobPut
  <2>4. ASSUME NEW e \in Free, job' = [job EXCEPT ![d] = FreeSlot, ![e] = Message(o, r + 1)]
        PROVE  JobOK'
    BY <2>2, <2>4, FreeSlotType, JobPutTwo DEF Free
  <2>5. QED
    BY <1>3, <2>3, <2>4 DEF RetryFails
<1>4. CASE Acknowledge(d)
  BY <1>4, FreeSlotType, JobPut DEF Acknowledge
<1>5. CASE Crash(d)
  <2>1. o \in Orders /\ r \in 0..MaxRetries
    BY <1>5 DEF Crash, Running, JobOK, Job
  <2>2. Message(o, r) \in Job /\ Message(o, r).order \in Orders
    BY <2>1, MessageType
  <2>3. job' = [job EXCEPT ![d] = Message(o, r)] \/ job' = [job EXCEPT ![d] = FreeSlot]
    BY <1>5 DEF Crash
  <2>4. QED
    BY <2>2, <2>3, FreeSlotType, JobPut
<1>6. CASE Redeliver(d)
  <2>1. PICK e \in Free : job' = [job EXCEPT ![d].held = FALSE, ![e] = Message(o, r)]
    BY <1>6 DEF Redeliver
  <2>2. e \in Deliveries /\ o \in Orders /\ r \in 0..MaxRetries
    BY <1>6 DEF Redeliver, Running, JobOK, Job, Free
  <2>3. [job[d] EXCEPT !.held = FALSE] \in Job
    BY DEF JobOK, Job
  <2>4. [job[d] EXCEPT !.held = FALSE].order \in Orders
    BY <2>2 DEF JobOK, Job
  <2>5. Message(o, r) \in Job /\ Message(o, r).order \in Orders
    BY <2>2, MessageType
  <2>6. job' = [job EXCEPT ![d] = [job[d] EXCEPT !.held = FALSE], ![e] = Message(o, r)]
    BY <2>1
  <2>7. QED
    BY <2>2, <2>3, <2>4, <2>5, <2>6, JobPutTwo
<1>7. QED
  BY <1>1, <1>2, <1>3, <1>4, <1>5, <1>6 DEF DeliveryStep, TaskStep, SoloStep

LEMMA StoreByOrder ==
  ASSUME StoreOK, NEW o \in Orders, OrderStep(o)
  PROVE  StoreOK'
BY DEF StoreOK, OrderStep, ApiStep, Place, PlaceFails, Enqueue, EnqueueFails, Respond,
       ApiCrash, LogTombstone, Expire, ApiSteps, MaybeStatus, Status

LEMMA StoreByDelivery ==
  ASSUME StoreOK, JobOK, NEW d \in Deliveries, DeliveryStep(d)
  PROVE  StoreOK'
<1>1. CASE UpdateStep(d)
  <2>1. job[d].target \in MaybeStatus
    BY DEF JobOK, Job
  <2>2. QED
    BY <1>1, <2>1 DEF StoreOK, UpdateStep, SelectOrder, Commit, CommitFails, DropCache,
                      FillCache, Reload, ReadFails, MaybeStatus
<1>2. CASE Tombstone(d)
  BY <1>2 DEF Tombstone, StoreOK, JobOK
<1>3. CASE UNCHANGED <<db, cache, api, dlq, buried>>
  BY <1>3 DEF StoreOK
<1>4. QED
  BY <1>1, <1>2, <1>3 DEF DeliveryStep, Receive, Redeliver, Crash, TaskStep, ReadGuard,
                          Prepare, Retry, RetryFails, OnFailure, Acknowledge

LEMMA ReaderStepTypes ==
  ASSUME ReaderOK, StoreOK, NEW p \in Readers, ReaderStep(p)
  PROVE  StoreOK' /\ ReaderOK'
<1> USE DEF ReaderOK, StoreOK
<1>1. CASE PollRead(p)
  <2> DEFINE s == db[reader[p].order]
             c == IF s = None THEN "idle" ELSE "fill"
  <2>1. reader[p].order \in Orders
    BY <1>1 DEF PollRead
  <2>2. s \in MaybeStatus /\ c \in {"idle", "fill"}
    BY <2>1
  <2>3. reader' = [reader EXCEPT ![p].pc = c, ![p].status = s]
    BY <1>1 DEF PollRead
  <2> HIDE DEF s, c
  <2>4. reader' \in [Readers -> Reader]
    BY <2>2, <2>3 DEF Reader
  <2>5. \A q \in Readers : reader'[q].order = reader[q].order /\ (q # p => reader'[q] = reader[q])
    BY <2>3 DEF Reader
  <2>6. UNCHANGED <<db, cache, api, dlq, buried>>
    BY <1>1 DEF PollRead
  <2>7. ASSUME NEW q \in Readers
        PROVE  \/ reader'[q].order \in Orders
               \/ reader'[q].pc = "idle" /\ reader'[q].status = None
    BY <2>1, <2>5
  <2>8. StoreOK'
    BY <2>6
  <2>9. ReaderOK'
    BY <2>4, <2>7 DEF ReaderOK
  <2>10. QED
    BY <2>8, <2>9
<1>2. CASE PollReadFails(p)
  BY <1>2 DEF PollReadFails, Reader
<1>3. CASE PollFill(p)
  BY <1>3 DEF PollFill, Reader
<1>4. ASSUME NEW o \in Orders, PollHit(p, o) PROVE StoreOK' /\ ReaderOK'
  BY <1>4 DEF PollHit, Reader
<1>5. ASSUME NEW o \in Orders, PollMiss(p, o) PROVE StoreOK' /\ ReaderOK'
  BY <1>5 DEF PollMiss, MaybeStatus, Reader
<1>6. QED
  BY <1>1, <1>2, <1>3, <1>4, <1>5 DEF ReaderStep, PollStep

LEMMA Untouched ==
  /\ \A o \in Orders : OrderStep(o) => UNCHANGED reader
  /\ \A d \in Deliveries : DeliveryStep(d) => UNCHANGED reader
  /\ \A p \in Readers : ReaderStep(p) => UNCHANGED job
<1>1. ASSUME NEW o \in Orders, OrderStep(o) PROVE UNCHANGED reader
  BY <1>1 DEF OrderStep, ApiStep, Place, PlaceFails, Enqueue, EnqueueFails, Respond,
              ApiCrash, LogTombstone, Expire
<1>2. ASSUME NEW d \in Deliveries, DeliveryStep(d) PROVE UNCHANGED reader
  BY <1>2 DEF DeliveryStep, Receive, UpdateStep, SelectOrder, Commit, CommitFails,
              DropCache, FillCache, Reload, ReadFails, TaskStep, ReadGuard, Prepare,
              Retry, RetryFails, OnFailure, Tombstone, Acknowledge, Crash, Redeliver
<1>3. ASSUME NEW p \in Readers, ReaderStep(p) PROVE UNCHANGED job
  BY <1>3 DEF ReaderStep, PollStep, PollRead, PollReadFails, PollFill, PollHit, PollMiss
<1>4. QED
  BY <1>1, <1>2, <1>3

\* Every variable keeps its type and no fault budget or retry count is
\* overdrawn (OrderKitchen!TypeOK), whatever the faults.
THEOREM TypeCorrect == Spec => []TypeOK
<1>1. TypeOK /\ [Next]_vars => TypeOK'
  <2> SUFFICES ASSUME JobOK, UsedOK, StoreOK, ReaderOK, [Next]_vars
               PROVE  JobOK' /\ UsedOK' /\ StoreOK' /\ ReaderOK'
    BY TypeParts, TypePartsNext
  <2>1. ASSUME NEW o \in Orders, OrderStep(o)
        PROVE  JobOK' /\ StoreOK' /\ ReaderOK'
    BY <2>1, JobByOrder, StoreByOrder, Untouched DEF ReaderOK
  <2>2. ASSUME NEW d \in Deliveries, DeliveryStep(d)
        PROVE  JobOK' /\ StoreOK' /\ ReaderOK'
    BY <2>2, JobByDelivery, StoreByDelivery, Untouched DEF ReaderOK
  <2>3. ASSUME NEW p \in Readers, ReaderStep(p)
        PROVE  JobOK' /\ StoreOK' /\ ReaderOK'
    BY <2>3, ReaderStepTypes, Untouched DEF JobOK
  <2>4. CASE UNCHANGED vars
    BY <2>4 DEF vars, JobOK, UsedOK, StoreOK, ReaderOK
  <2>5. CASE Next
    BY <2>5, <2>1, <2>2, <2>3, NextCases, UsedNext
  <2>6. QED
    BY <2>4, <2>5
<1>2. QED
  BY <1>1, InitType, PTL DEF Spec

-----------------------------------------------------------------------------
(* One live delivery per order                                             *)

\* No budget for duplicates: the broker never redelivers the message of a live
\* worker, and no worker is lost between publishing a retry and acknowledging
\* the message it replaces.  Any number of other crashes and errors may happen.
NoDuplicates == Limit["duplicate"] = 0

LEMMA AlwaysCalm == NoDuplicates /\ TypeOK => Calm
BY DEF NoDuplicates, TypeOK, FaultKinds, Calm

\* A fault of kind k adds one to its count and leaves the other counts.
LEMMA FaultAdds ==
  ASSUME UsedOK, NEW k \in FaultKinds, Fault(k)
  PROVE  \A i \in FaultKinds : used'[i] = IF i = k THEN used[i] + 1 ELSE used[i]
BY DEF UsedOK, Fault

\* Faults are never forgotten.
LEMMA UsedGrows ==
  ASSUME UsedOK, [Next]_vars
  PROVE  \A i \in FaultKinds : used'[i] \in Nat /\ used'[i] >= used[i]
<1>1. CASE UNCHANGED used
  BY <1>1 DEF UsedOK
<1>2. ASSUME NEW k \in FaultKinds, Fault(k)
      PROVE  \A i \in FaultKinds : used'[i] \in Nat /\ used'[i] >= used[i]
  BY <1>2, FaultAdds DEF UsedOK
<1>3. CASE Next
  BY <1>1, <1>2, <1>3, StepFaults
<1>4. QED
  BY <1>1, <1>3 DEF vars

LEMMA CalmBefore ==
  ASSUME TypeOK, [Next]_vars, Calm'
  PROVE  Calm
<1>1. UsedOK /\ "duplicate" \in FaultKinds
  BY DEF TypeOK, UsedOK, FaultKinds
<1>2. used["duplicate"] \in Nat
  BY <1>1 DEF UsedOK
<1>3. used'["duplicate"] \in Nat /\ used'["duplicate"] >= used["duplicate"]
  BY <1>1, UsedGrows
<1>4. used'["duplicate"] = 0
  BY DEF Calm
<1>5. QED
  BY <1>2, <1>3, <1>4 DEF Calm

\* An order is done with, or so many database errors have occurred that every
\* attempt and on_failure's own write may have failed.
Settled(s, n) == s \in Terminal \/ n >= MaxRetries + 2

\* What holds of a live delivery j whose order has status s, after n database
\* errors: what its next step relies on, and the errors it has already cost.
AtStep(j, s, n) ==
  /\ s # None
  /\ j.pc # "queued" => j.held
  /\ s \in Terminal \/ n >= j.retries
  /\ j.pc \in {"queued", "guard"} => j.target = None /\ ~j.wrote
  /\ j.pc = "select" => \/ j.target = "PREPARING" /\ s = "PENDING" /\ ~j.wrote
                        \/ /\ j.target = "READY"
                           /\ s = "PREPARING" \/ (s = "FAILED" /\ ~j.wrote)
                        \/ j.target = "FAILED" /\ ~j.wrote
  /\ j.pc = "commit" => CanBecome(s, j.target)
  /\ j.pc \in {"del", "setex", "reload"} =>
       s = j.target /\ s # "PENDING" /\ (j.wrote => s = "PREPARING")
  /\ j.pc = "prep" => s = "PREPARING" \/ (s = "FAILED" /\ ~j.wrote)
  /\ j.pc = "raise" => ~j.wrote /\ (s \in Terminal \/ n >= j.retries + 1)
  /\ j.pc \in {"select", "commit"} /\ j.target = "FAILED"
       => s \in Terminal \/ n >= MaxRetries + 1
  /\ j.pc \in {"tombstone", "ack"} => Settled(s, n)

HandlerInv ==
  /\ SingleHandler
  /\ \A d \in Active : AtStep(job[d], db[job[d].order], used["db"])

ApiInv ==
  \A o \in Orders :
    /\ api[o] = "new" => db[o] = None
    /\ api[o] = "committed" => db[o] # None
    /\ api[o] \in {"new", "committed"} =>
         \A d \in Deliveries : job[d].pc # "free" => job[d].order # o

IInv == /\ HandlerInv
        /\ ApiInv
        /\ CacheNeverAhead
        /\ TombstoneMeansSettled

\* The state machine, element by element.
LEMMA Machine ==
  /\ Terminal = {"READY", "FAILED"}
  /\ \A s, t : CanBecome(s, t) => s \in Status /\ t \in Status /\ s \notin Terminal
  /\ \A s : CanBecome(s, "PREPARING") <=> s = "PENDING"
  /\ \A s : CanBecome(s, "READY") <=> s = "PREPARING"
  /\ \A s : CanBecome(s, "FAILED") <=> s \in {"PENDING", "PREPARING"}
  /\ \A s : ~CanBecome(s, None) /\ ~CanBecome(s, "PENDING") /\ ~CanBecome(None, s)
BY DEF Terminal, CanBecome, ValidTransitions, Status, None

LEMMA ReachesOnward ==
  ASSUME NEW x, NEW s, NEW t, Reaches(x, s), CanBecome(s, t)
  PROVE  Reaches(x, t)
BY DEF Reaches, CanBecome, ValidTransitions, Status

LEMMA ReachesNone ==
  ASSUME NEW x, Reaches(x, None)
  PROVE  x = None
BY Machine DEF Reaches

\* The row of an order stays or makes one legal transition.
Advances(o) ==
  \E s \in MaybeStatus : /\ s = db[o] \/ CanBecome(db[o], s)
                         /\ db' = [db EXCEPT ![o] = s]

LEMMA AdvanceFacts ==
  ASSUME TypeOK, NEW o \in Orders, Advances(o)
  PROVE  \A q \in Orders : /\ db[q] \in Terminal => db'[q] = db[q]
                           /\ db[q] # None => db'[q] # None
                           /\ q # o => db'[q] = db[q]
                           /\ db'[q] = db[q] \/ CanBecome(db[q], db'[q])
BY Machine DEF Advances, TypeOK

LEMMA UnchangedAdvances ==
  ASSUME TypeOK, NEW o \in Orders, UNCHANGED db
  PROVE  Advances(o)
BY DEF Advances, TypeOK

LEMMA AdvanceCache ==
  ASSUME TypeOK, CacheNeverAhead, NEW o \in Orders, Advances(o), UNCHANGED <<cache, reader>>
  PROVE  CacheNeverAhead'
<1>1. \A q \in Orders : db'[q] = db[q] \/ CanBecome(db[q], db'[q])
  BY AdvanceFacts
<1>2. ASSUME NEW q \in Orders PROVE cache'[q] = None \/ Reaches(cache'[q], db'[q])
  BY <1>1, ReachesOnward DEF CacheNeverAhead
<1>3. ASSUME NEW p \in Readers
      PROVE  reader'[p].status = None \/ Reaches(reader'[p].status, db'[reader'[p].order])
  <2>1. reader[p].order \in Orders \/ reader[p].status = None
    BY DEF TypeOK
  <2>2. QED
    BY <1>1, <2>1, ReachesOnward DEF CacheNeverAhead
<1>4. QED
  BY <1>2, <1>3 DEF CacheNeverAhead

\* The invariant's parts about deliveries, after a step of delivery d alone.
LEMMA SoloInv ==
  ASSUME TypeOK, TypeOK', IInv, NEW d \in Active,
         NEW c \in JobSteps \ {"free", "ackRetry"}, NEW t, NEW w, NEW h,
         Moved(d, c, t, w, h), Advances(job[d].order), UNCHANGED api,
         used'["db"] >= used["db"],
         AtStep(job'[d], db'[job[d].order], used'["db"])
  PROVE  HandlerInv' /\ ApiInv'
<1> DEFINE o == job[d].order
<1>1. d \in Deliveries /\ o \in Orders
  BY DEF Active, TypeOK
<1>2. \A e \in Deliveries : /\ job'[e].order = job[e].order
                            /\ e # d => job'[e] = job[e]
  BY <1>1 DEF Moved
<1>3. Active' = Active
  BY <1>1 DEF Active, Moved
<1>4. \A q \in Orders : /\ db[q] \in Terminal => db'[q] = db[q]
                        /\ db[q] # None => db'[q] # None
                        /\ q # o => db'[q] = db[q]
  BY <1>1, AdvanceFacts
<1>5. SingleHandler'
  BY <1>2, <1>3 DEF IInv, HandlerInv, SingleHandler, Active
<1>6. ASSUME NEW e \in Active PROVE AtStep(job'[e], db'[job'[e].order], used'["db"])
  <2>1. CASE e = d
    BY <2>1, <1>2, <1>1
  <2>2. CASE e # d
    <3>1. e \in Deliveries /\ job[e].order \in Orders /\ job[e].order # o
      BY <2>2 DEF IInv, HandlerInv, SingleHandler, Active, TypeOK
    <3>2. AtStep(job[e], db[job[e].order], used["db"])
      BY DEF IInv, HandlerInv
    <3>3. job'[e] = job[e] /\ db'[job[e].order] = db[job[e].order]
      BY <2>2, <3>1, <1>2, <1>4
    <3>4. used["db"] \in Nat /\ used'["db"] \in Nat /\ job[e].retries \in Nat
      BY <3>1 DEF TypeOK, FaultKinds, Job
    <3>5. QED
      BY <3>2, <3>3, <3>4 DEF AtStep, Settled
  <2>3. QED
    BY <2>1, <2>2
<1>7. HandlerInv'
  BY <1>3, <1>5, <1>6 DEF HandlerInv
<1>8. ApiInv'
  <2>1. job[d].pc # "free" /\ api[o] \notin {"new", "committed"}
    BY <1>1 DEF Active, IInv, ApiInv
  <2>2. \A e \in Deliveries : job'[e].pc # "free" => job[e].pc # "free"
    BY <1>1, <2>1, <1>2
  <2>3. QED
    BY <1>2, <1>4, <2>1, <2>2 DEF IInv, ApiInv
<1>9. QED
  BY <1>7, <1>8

\* A step of a delivery alone: its order makes at most one legal transition,
\* errors only accumulate, and what its next step relies on holds.
Sound(d) ==
  /\ Advances(job[d].order)
  /\ used'["db"] >= used["db"]
  /\ AtStep(job'[d], db'[job[d].order], used'["db"])

LEMMA FaultCounts ==
  ASSUME TypeOK
  PROVE  /\ used["db"] \in Nat
         /\ NoFault => used'["db"] = used["db"]
         /\ Fault("db") => used'["db"] = used["db"] + 1
         /\ Fault("cache") => used'["db"] = used["db"]
         /\ Fault("broker") => used'["db"] = used["db"]
         /\ Fault("crash") => used'["db"] = used["db"]
BY DEF TypeOK, FaultKinds, NoFault, Fault

LEMMA ReadStepsSound ==
  ASSUME TypeOK, IInv, NEW d \in Active,
         Receive(d) \/ ReadGuard(d) \/ Prepare(d) \/ OnFailure(d) \/ Reload(d)
  PROVE  Sound(d)
<1> DEFINE o == job[d].order
<1>1. /\ d \in Deliveries /\ o \in Orders /\ JobOK
      /\ job[d].retries \in 0..MaxRetries
      /\ db[o] \in MaybeStatus
      /\ AtStep(job[d], db[o], used["db"])
  BY DEF Active, TypeOK, JobOK, Job, IInv, HandlerInv
<1>2. UNCHANGED db /\ NoFault
  BY DEF Receive, ReadGuard, Prepare, OnFailure, Reload
<1>3. Advances(o) /\ used'["db"] = used["db"]
  BY <1>1, <1>2, UnchangedAdvances, FaultCounts
<1>4. used["db"] \in Nat
  BY FaultCounts
<1>5. AtStep(job'[d], db'[o], used'["db"])
  <2>1. CASE Receive(d)
    <3>1. Moved(d, "guard", job[d].target, job[d].wrote, TRUE) /\ job[d].pc = "queued"
      BY <1>1, <2>1, ReceiveMoves DEF Receive
    <3>2. QED
      BY <3>1, <1>1, <1>2, <1>3 DEF AtStep, Moved
  <2>2. CASE ReadGuard(d)
    <3>1. /\ Moved(d, AfterGuard(db[o]), "PREPARING", job[d].wrote, job[d].held)
          /\ job[d].pc = "guard"
      BY <1>1, <2>2, ReadGuardMoves DEF ReadGuard
    <3>2. QED
      BY <3>1, <1>1, <1>2, <1>3, Machine
      DEF AtStep, Settled, Moved, AfterGuard, MaybeStatus, Status
  <2>3. CASE Prepare(d)
    <3>1. Moved(d, "select", "READY", job[d].wrote, job[d].held) /\ job[d].pc = "prep"
      BY <1>1, <2>3, PrepareMoves DEF Prepare
    <3>2. QED
      BY <3>1, <1>1, <1>2, <1>3 DEF AtStep, Moved
  <2>4. CASE OnFailure(d)
    <3>1. /\ Moved(d, "select", "FAILED", job[d].wrote, job[d].held)
          /\ job[d].pc = "raise" /\ job[d].retries >= MaxRetries
      BY <1>1, <2>4, OnFailureMoves DEF OnFailure
    <3>2. QED
      BY <3>1, <1>1, <1>2, <1>3, <1>4 DEF AtStep, Moved
  <2>5. CASE Reload(d)
    <3>1. Keeps(d, Returned(d)) /\ job[d].pc = "reload"
      BY <1>1, <2>5, ReloadMoves DEF Reload
    <3>2. /\ job[d].target = db[o] /\ job[d].held
          /\ job[d].wrote => db[o] = "PREPARING"
          /\ db[o] \in {"PREPARING", "READY", "FAILED"}
      BY <1>1, <3>1 DEF AtStep, MaybeStatus, Status
    <3>3. CASE db[o] = "PREPARING"
      <4>1. Keeps(d, "prep")
        BY <3>1, <3>2, <3>3 DEF Returned
      <4>2. QED
        BY <3>2, <3>3, <4>1, <1>1, <1>2, <1>3 DEF AtStep, Keeps, Moved
    <3>4. CASE db[o] # "PREPARING"
      <4>1. Keeps(d, "tombstone") \/ Keeps(d, "ack")
        BY <3>1, <3>2, <3>4 DEF Returned
      <4>2. db[o] \in Terminal
        BY <3>2, <3>4, Machine
      <4>3. QED
        BY <3>2, <4>1, <4>2, <1>1, <1>2, <1>3 DEF AtStep, Settled, Keeps, Moved
    <3>5. QED
      BY <3>3, <3>4
  <2>6. QED
    BY <2>1, <2>2, <2>3, <2>4, <2>5
<1>6. QED
  BY <1>3, <1>4, <1>5 DEF Sound

LEMMA WriteStepsSound ==
  ASSUME TypeOK, IInv, NEW d \in Active,
         SelectOrder(d) \/ Commit(d) \/ CommitFails(d) \/ ReadFails(d)
  PROVE  Sound(d)
<1> DEFINE o == job[d].order
           t == job[d].target
<1>1. /\ d \in Deliveries /\ o \in Orders /\ JobOK
      /\ job[d].retries \in 0..MaxRetries
      /\ db \in [Orders -> MaybeStatus]
      /\ AtStep(job[d], db[o], used["db"])
  BY DEF Active, TypeOK, JobOK, Job, IInv, HandlerInv
<1>2. used["db"] \in Nat
  BY FaultCounts
<1>3. CASE SelectOrder(d)
  <2>1. /\ UNCHANGED db /\ used'["db"] = used["db"]
        /\ job[d].pc = "select"
    BY <1>3, FaultCounts DEF SelectOrder
  <2>2. Advances(o)
    BY <1>1, <2>1, UnchangedAdvances
  <2>3. Visible(d) = {db[o]}
    BY <1>1, <2>1 DEF Visible, AtStep
  <2>4. \/ CanBecome(db[o], t) /\ Keeps(d, "commit")
        \/ ~CanBecome(db[o], t) /\ Errs(d)
    BY <1>1, <1>3, <2>3, StepPc, StepRaises DEF SelectOrder, JobSteps
  <2>5. CASE CanBecome(db[o], t) /\ Keeps(d, "commit")
    BY <1>1, <1>2, <2>1, <2>2, <2>5 DEF Sound, AtStep, Keeps, Moved
  <2>6. CASE ~CanBecome(db[o], t) /\ Errs(d)
    <3>1. db[o] \in Terminal
      BY <1>1, <2>1, <2>6, Machine DEF AtStep, MaybeStatus, Status
    <3>2. QED
      BY <1>1, <1>2, <2>1, <2>2, <2>6, <3>1
      DEF Sound, AtStep, Settled, Errs, Excepted, Moved
  <2>7. QED
    BY <2>4, <2>5, <2>6
<1>4. CASE Commit(d)
  <2>1. /\ used'["db"] = used["db"]
        /\ job[d].pc = "commit" /\ db' = [db EXCEPT ![o] = t]
        /\ Moved(d, "del", t, t = "PREPARING", job[d].held)
    BY <1>1, <1>4, FaultCounts, CommitMoves DEF Commit
  <2>2. CanBecome(db[o], t) /\ t \in Status
    BY <1>1, <2>1, Machine DEF AtStep
  <2>3. Advances(o) /\ db'[o] = t
    BY <1>1, <2>1, <2>2 DEF Advances, MaybeStatus
  <2>4. t # None /\ t # "PENDING" /\ (t \in Terminal \/ used["db"] >= job[d].retries)
    BY <1>1, <2>1, <2>2, Machine DEF AtStep
  <2>5. /\ job'[d].pc = "del" /\ job'[d].target = t /\ job'[d].held = job[d].held
        /\ job'[d].retries = job[d].retries
        /\ job'[d].wrote => t = "PREPARING"
    BY <2>1 DEF Moved
  <2>6. job[d].held
    BY <1>1, <2>1 DEF AtStep
  <2>7. AtStep(job'[d], t, used'["db"])
    BY <2>1, <2>4, <2>5, <2>6 DEF AtStep
  <2>8. QED
    BY <1>2, <2>1, <2>3, <2>7 DEF Sound
<1>5. CASE CommitFails(d)
  <2>1. /\ used'["db"] = used["db"] + 1
        /\ job[d].pc = "commit" /\ Errs(d)
        /\ db' = [db EXCEPT ![o] = t] \/ UNCHANGED db
    BY <1>1, <1>5, FaultCounts, CommitFailsMoves DEF CommitFails
  <2>2. CanBecome(db[o], t) /\ t \in Status /\ t # None /\ db[o] \notin Terminal
    BY <1>1, <2>1, Machine DEF AtStep
  <2>3. Advances(o) /\ db'[o] \in {t, db[o]}
    BY <1>1, <2>1, <2>2, UnchangedAdvances DEF Advances, MaybeStatus
  <2>4. used["db"] >= job[d].retries /\ (t = "FAILED" => used["db"] >= MaxRetries + 1)
    BY <1>1, <2>1, <2>2 DEF AtStep
  <2>5. QED
    BY <1>1, <1>2, <2>1, <2>2, <2>3, <2>4
    DEF Sound, AtStep, Settled, Errs, Excepted, Moved
<1>6. CASE ReadFails(d)
  <2>1. /\ used'["db"] = used["db"] + 1
        /\ job[d].pc \in {"guard", "select", "reload"} /\ Errs(d) /\ UNCHANGED db
    BY <1>1, <1>6, FaultCounts, ReadFailsMoves DEF ReadFails
  <2>2. Advances(o)
    BY <1>1, <2>1, UnchangedAdvances
  <2>3. \/ db[o] \in Terminal
        \/ /\ used["db"] >= job[d].retries
           /\ t = "FAILED" => used["db"] >= MaxRetries + 1
    BY <1>1, <2>1, Machine DEF AtStep
  <2>4. QED
    BY <1>1, <1>2, <2>1, <2>2, <2>3
    DEF Sound, AtStep, Settled, Errs, Excepted, Moved
<1>7. QED
  BY <1>3, <1>4, <1>5, <1>6

LEMMA SideStepsSound ==
  ASSUME TypeOK, IInv, NEW d \in Active,
         DropCache(d) \/ FillCache(d) \/ Tombstone(d)
  PROVE  Sound(d)
<1> DEFINE o == job[d].order
<1>1. /\ d \in Deliveries /\ o \in Orders /\ JobOK
      /\ job[d].retries \in Nat
      /\ AtStep(job[d], db[o], used["db"])
  BY DEF Active, TypeOK, JobOK, Job, IInv, HandlerInv
<1>2. UNCHANGED db
  BY DEF DropCache, FillCache, Tombstone
<1>3. Advances(o)
  BY <1>1, <1>2, UnchangedAdvances
<1>4. /\ used["db"] \in Nat
      /\ used'["db"] = used["db"]
  BY FaultCounts DEF DropCache, FillCache, Tombstone
<1>5. \/ job[d].pc = "del" /\ Keeps(d, "setex")
      \/ job[d].pc = "setex" /\ Keeps(d, "reload")
      \/ job[d].pc = "tombstone" /\ Keeps(d, "ack")
  BY <1>1, DropCacheMoves, FillCacheMoves, TombstoneMoves DEF DropCache, FillCache, Tombstone
<1>6. QED
  BY <1>1, <1>2, <1>3, <1>4, <1>5 DEF Sound, AtStep, Keeps, Moved

LEMMA SoloMoves ==
  ASSUME JobOK, NEW d \in Deliveries, SoloStep(d)
  PROVE  /\ d \in Active
         /\ \E c \in JobSteps \ {"free", "ackRetry"} : \E t, w, h : Moved(d, c, t, w, h)
<1>1. d \in Active
  BY DEF SoloStep, UpdateStep, Active, Receive, SelectOrder, Commit, CommitFails, DropCache,
         FillCache, Reload, ReadFails, ReadGuard, Prepare, OnFailure, Tombstone
<1>2. /\ Excepted(d) \in JobSteps \ {"free", "ackRetry"}
      /\ Returned(d) \in JobSteps \ {"free", "ackRetry"}
      /\ AfterGuard(db[job[d].order]) \in JobSteps \ {"free", "ackRetry"}
      /\ {"guard", "commit", "del", "setex", "reload", "select", "ack"}
           \subseteq JobSteps \ {"free", "ackRetry"}
  BY DEF Excepted, Returned, AfterGuard, JobSteps
<1>3. CASE SelectOrder(d) \/ CommitFails(d) \/ ReadFails(d)
  <2>1. Keeps(d, "commit") \/ Errs(d)
    BY <1>3, SelectOrderMoves, CommitFailsMoves, ReadFailsMoves
  <2>2. QED
    BY <1>1, <1>2, <2>1 DEF Keeps, Errs
<1>4. CASE DropCache(d) \/ FillCache(d) \/ Reload(d) \/ Tombstone(d)
  <2>1. Keeps(d, "setex") \/ Keeps(d, "reload") \/ Keeps(d, Returned(d)) \/ Keeps(d, "ack")
    BY <1>4, DropCacheMoves, FillCacheMoves, ReloadMoves, TombstoneMoves
  <2>2. QED
    BY <1>1, <1>2, <2>1 DEF Keeps
<1>5. CASE Receive(d) \/ Commit(d)
  BY <1>1, <1>2, <1>5, ReceiveMoves, CommitMoves
<1>6. CASE ReadGuard(d) \/ Prepare(d) \/ OnFailure(d)
  BY <1>1, <1>2, <1>6, ReadGuardMoves, PrepareMoves, OnFailureMoves
<1>7. QED
  BY <1>3, <1>4, <1>5, <1>6 DEF SoloStep, UpdateStep

LEMMA SoloStepInv ==
  ASSUME TypeOK, TypeOK', IInv, NEW d \in Deliveries, SoloStep(d)
  PROVE  IInv'
<1> DEFINE o == job[d].order
<1>1. JobOK /\ d \in Active
  BY SoloMoves DEF TypeOK, JobOK
<1>2. /\ o \in Orders /\ db \in [Orders -> MaybeStatus] /\ cache \in [Orders -> MaybeStatus]
      /\ AtStep(job[d], db[o], used["db"])
  BY <1>1 DEF TypeOK, Active, IInv, HandlerInv
<1>3. Sound(d)
  BY <1>1, ReadStepsSound, WriteStepsSound, SideStepsSound DEF SoloStep, UpdateStep
<1>4. UNCHANGED <<api, reader>>
  BY DEF SoloStep, UpdateStep, Receive, SelectOrder, Commit, CommitFails, DropCache,
         FillCache, Reload, ReadFails, ReadGuard, Prepare, OnFailure, Tombstone
<1>5. HandlerInv' /\ ApiInv'
  BY <1>1, <1>3, <1>4, SoloMoves, SoloInv DEF Sound
<1>6. CacheNeverAhead'
  <2>1. CASE DropCache(d) \/ FillCache(d)
    <3>1. UNCHANGED <<db, reader>>
      BY <2>1, <1>4 DEF DropCache, FillCache
    <3>2. \/ UNCHANGED cache
          \/ cache' = [cache EXCEPT ![o] = None]
          \/ job[d].pc = "setex" /\ cache' = [cache EXCEPT ![o] = job[d].target]
      BY <2>1 DEF DropCache, FillCache
    <3>3. job[d].pc = "setex" => job[d].target = db[o]
      BY <1>2 DEF AtStep
    <3>4. \A q \in Orders : cache'[q] \in {cache[q], None, db[q]}
      BY <1>2, <3>2, <3>3
    <3>5. QED
      BY <3>1, <3>4 DEF CacheNeverAhead, IInv, Reaches
  <2>2. CASE UNCHANGED cache
    BY <1>2, <1>3, <1>4, <2>2, AdvanceCache DEF Sound, IInv
  <2>3. QED
    BY <2>1, <2>2 DEF SoloStep, UpdateStep, Receive, SelectOrder, Commit, CommitFails,
                      Reload, ReadFails, ReadGuard, Prepare, OnFailure, Tombstone
<1>7. TombstoneMeansSettled'
  <2>1. buried' \subseteq buried \cup {o} /\ (buried' # buried => Tombstone(d))
    BY DEF SoloStep, UpdateStep, Receive, SelectOrder, Commit, CommitFails, DropCache,
           FillCache, Reload, ReadFails, ReadGuard, Prepare, OnFailure, Tombstone
  <2>2. \A q \in Orders : db[q] \in Terminal => db'[q] = db[q]
    BY <1>2, <1>3, AdvanceFacts DEF Sound
  <2>3. used["db"] \in Nat /\ used'["db"] \in Nat /\ used'["db"] >= used["db"]
    BY <1>3 DEF TypeOK, FaultKinds, Sound
  <2>4. Tombstone(d) => Settled(db[o], used["db"])
    BY <1>2 DEF Tombstone, AtStep
  <2>5. ASSUME NEW q \in buried' PROVE db'[q] \in Terminal \/ used'["db"] >= MaxRetries + 2
    <3>1. q \in Orders /\ (db[q] \in Terminal \/ used["db"] >= MaxRetries + 2)
      BY <1>2, <2>1, <2>4 DEF IInv, TombstoneMeansSettled, Settled, TypeOK
    <3>2. QED
      BY <2>2, <2>3, <3>1
  <2>6. QED
    BY <2>5 DEF TombstoneMeansSettled
<1>8. QED
  BY <1>5, <1>6, <1>7 DEF IInv

\* What a step of the queue does to the deliveries of the order o it is about.
QueueStep(o) ==
  /\ \A e \in Deliveries : \/ job'[e] = job[e]
                           \/ job'[e].pc = "free"
                           \/ job'[e].order = o
  /\ \E e \in Deliveries : job[e].pc # "free" /\ job[e].order = o
  /\ \A e \in Active' : job'[e] = job[e] \/ AtStep(job'[e], db[o], used'["db"])
  /\ \A e, f \in Active' : job'[e].order = o /\ job'[f].order = o => e = f

LEMMA QueueInv ==
  ASSUME TypeOK, TypeOK', IInv, NEW o \in Orders, QueueStep(o),
         UNCHANGED <<db, cache, api, reader, buried>>,
         used'["db"] >= used["db"]
  PROVE  IInv'
<1> USE DEF QueueStep
<1>1. /\ used["db"] \in Nat /\ used'["db"] \in Nat
  BY DEF TypeOK, FaultKinds
<1>2. \A e \in Active' : job'[e].order # o => job'[e] = job[e] /\ e \in Active
  BY DEF Active
<1>3. SingleHandler'
  BY <1>2 DEF SingleHandler, IInv, HandlerInv
<1>4. ASSUME NEW e \in Active' PROVE AtStep(job'[e], db'[job'[e].order], used'["db"])
  <2>1. CASE job'[e] = job[e]
    <3>1. e \in Active /\ job[e].retries \in Nat
      BY <2>1 DEF Active, TypeOK, Job
    <3>2. AtStep(job[e], db[job[e].order], used["db"])
      BY <3>1 DEF IInv, HandlerInv
    <3>3. QED
      BY <1>1, <2>1, <3>1, <3>2 DEF AtStep, Settled
  <2>2. CASE job'[e] # job[e]
    BY <2>2, <1>2
  <2>3. QED
    BY <2>1, <2>2
<1>5. ApiInv'
  <2>1. \A e \in Deliveries : job'[e].pc # "free" =>
          \E f \in Deliveries : job[f].pc # "free" /\ job[f].order = job'[e].order
    OBVIOUS
  <2>2. QED
    BY <2>1 DEF IInv, ApiInv
<1>6. CacheNeverAhead' /\ TombstoneMeansSettled'
  BY <1>1 DEF IInv, CacheNeverAhead, TombstoneMeansSettled
<1>7. QED
  BY <1>3, <1>4, <1>5, <1>6 DEF IInv, HandlerInv

\* A message waiting for a worker, with the errors its attempts have cost.
LEMMA MessageAtStep ==
  ASSUME NEW o \in Orders, NEW r \in 0..MaxRetries, NEW s, NEW n, s # None,
         s \in Terminal \/ n >= r
  PROVE  AtStep(Message(o, r), s, n)
BY MessageType DEF AtStep

\* The order's one delivery d gives way to the message in slot e.
LEMMA Replaced ==
  ASSUME NEW d \in Active, NEW e \in Deliveries, NEW o,
         job[d].order = o, job'[e].order = o,
         \A f \in Active : f # d => job[f].order # o,
         \A f \in Deliveries : f # d /\ f # e => job'[f] = job[f],
         e = d \/ (job[e].pc = "free" /\ job'[d].pc \in {"free", "ackRetry"} /\ job'[d].order = o)
           \/ (job[e].pc = "free" /\ job'[d].pc = "free"),
         job'[e].pc = "queued", AtStep(job'[e], db[o], used'["db"])
  PROVE  QueueStep(o)
<1>1. Active' = (Active \ {d}) \cup {e}
  BY DEF Active
<1>2. d \in Deliveries /\ job[d].pc # "free"
  BY DEF Active
<1>3. \A f \in Active' : f # e => f \in Active /\ f # d /\ job'[f] = job[f]
  BY <1>1 DEF Active
<1>4. QED
  BY <1>1, <1>2, <1>3 DEF QueueStep

\* Delivery d, the only one that may be at work on the order, is over.
LEMMA Removed ==
  ASSUME NEW d \in Deliveries, NEW o, job[d].order = o, job[d].pc # "free",
         \A e, f \in Active : job[e].order = o /\ job[f].order = o => e = f,
         \A f \in Deliveries : f # d => job'[f] = job[f],
         job'[d].pc = "free"
  PROVE  QueueStep(o)
<1>1. Active' = Active \ {d}
  BY DEF Active
<1>2. \A f \in Active' : f \in Active /\ f # d /\ job'[f] = job[f]
  BY <1>1 DEF Active
<1>3. QED
  BY <1>1, <1>2 DEF QueueStep

LEMMA QueueStepInv ==
  ASSUME TypeOK, TypeOK', IInv, Calm', Calm, NEW d \in Deliveries,
         Retry(d) \/ RetryFails(d) \/ Acknowledge(d) \/ Crash(d) \/ Redeliver(d)
  PROVE  IInv'
<1> DEFINE o == job[d].order
           r == job[d].retries
<1>1. /\ job \in [Deliveries -> Job] /\ used["db"] \in Nat
      /\ used["duplicate"] = 0 /\ used \in [FaultKinds -> Nat]
  BY DEF TypeOK, FaultKinds, Calm
<1>2. o \in Orders /\ r \in 0..MaxRetries /\ job[d].pc # "free"
  BY DEF Retry, RetryFails, Acknowledge, Crash, Redeliver, Running, TypeOK, Job
<1>3. UNCHANGED <<db, cache, api, reader, buried>>
  BY DEF Retry, RetryFails, Acknowledge, Crash, Redeliver
<1>4. used'["db"] = used["db"]
  BY <1>1 DEF Retry, RetryFails, Acknowledge, Crash, Redeliver, NoFault, Fault, FaultKinds
<1>5. d \in Active => AtStep(job[d], db[o], used["db"])
  BY DEF IInv, HandlerInv
<1>6. \A e, f \in Active : job[e].order = o /\ job[f].order = o => e = f
  BY DEF IInv, HandlerInv, SingleHandler
<1>7. CASE Retry(d)
  <2>1. PICK e \in Free : job' = [job EXCEPT ![d].pc = "ackRetry", ![e] = Message(o, r + 1)]
    BY <1>7 DEF Retry
  <2>2. /\ e \in Deliveries /\ job[e].pc = "free" /\ e # d
        /\ job[d].pc = "raise" /\ r + 1 \in 0..MaxRetries
    BY <1>2, <1>7, <2>1 DEF Retry, Free
  <2>3. d \in Active
    BY <2>2 DEF Active
  <2>4. /\ job'[e] = Message(o, r + 1) /\ job'[d].pc = "ackRetry" /\ job'[d].order = o
        /\ \A f \in Deliveries : f # d /\ f # e => job'[f] = job[f]
    BY <1>1, <2>1, <2>2 DEF Job
  <2>5. job'[e].pc = "queued" /\ job'[e].order = o
    BY <2>4, MessageFields
  <2>6. db[o] # None /\ (db[o] \in Terminal \/ used["db"] >= r + 1)
    BY <1>5, <2>2, <2>3 DEF AtStep
  <2>7. AtStep(job'[e], db[o], used'["db"])
    BY <1>2, <1>4, <2>2, <2>4, <2>6, MessageAtStep
  <2>8. QueueStep(o)
    BY <1>6, <2>2, <2>3, <2>4, <2>5, <2>7, Replaced
  <2>9. QED
    BY <1>1, <1>2, <1>3, <1>4, <2>8, QueueInv
<1>8. CASE RetryFails(d)
  <2>1. /\ job[d].pc = "raise" /\ r + 1 \in 0..MaxRetries
    BY <1>1, <1>2, <1>8 DEF RetryFails, Fault, FaultKinds
  <2>2. d \in Active
    BY <2>1 DEF Active
  <2>3. CASE job' = [job EXCEPT ![d] = FreeSlot]
    <3>1. job'[d].pc = "free" /\ \A f \in Deliveries : f # d => job'[f] = job[f]
      BY <1>1, <2>3, FreeSlotType
    <3>2. QueueStep(o)
      BY <1>2, <1>6, <2>1, <3>1, Removed
    <3>3. QED
      BY <1>1, <1>2, <1>3, <1>4, <3>2, QueueInv
  <2>4. ASSUME NEW e \in Free,
               job' = [job EXCEPT ![d] = FreeSlot, ![e] = Message(o, r + 1)]
        PROVE  IInv'
    <3>1. e \in Deliveries /\ job[e].pc = "free" /\ e # d
      BY <1>2 DEF Free
    <3>2. /\ job'[e] = Message(o, r + 1) /\ job'[d].pc = "free"
          /\ \A f \in Deliveries : f # d /\ f # e => job'[f] = job[f]
      BY <1>1, <2>4, <3>1, FreeSlotType
    <3>3. job'[e].pc = "queued" /\ job'[e].order = o
      BY <3>2, MessageFields
    <3>4. db[o] # None /\ (db[o] \in Terminal \/ used["db"] >= r + 1)
      BY <1>5, <2>1, <2>2 DEF AtStep
    <3>5. AtStep(job'[e], db[o], used'["db"])
      BY <1>2, <1>4, <2>1, <3>2, <3>4, MessageAtStep
    <3>6. QueueStep(o)
      BY <1>6, <2>2, <3>1, <3>2, <3>3, <3>5, Replaced
    <3>7. QED
      BY <1>1, <1>2, <1>3, <1>4, <3>6, QueueInv
  <2>5. QED
    BY <1>8, <2>3, <2>4 DEF RetryFails
<1>9. CASE Acknowledge(d)
  <2>1. /\ job'[d].pc = "free" /\ \A f \in Deliveries : f # d => job'[f] = job[f]
        /\ job[d].pc \in {"ack", "ackRetry"}
    BY <1>1, <1>9, FreeSlotType DEF Acknowledge
  <2>2. QueueStep(o)
    BY <1>2, <1>6, <2>1, Removed
  <2>3. QED
    BY <1>1, <1>2, <1>3, <1>4, <2>2, QueueInv
<1>10. CASE Crash(d)
  <2>1. CASE d \in Active
    <3>1. job[d].held /\ job[d].pc # "ackRetry"
      BY <1>5, <1>10, <2>1 DEF AtStep, Active, Crash, Running
    <3>2. job' = [job EXCEPT ![d] = Message(o, r)]
      BY <1>10, <3>1 DEF Crash
    <3>3. job'[d] = Message(o, r) /\ \A f \in Deliveries : f # d => job'[f] = job[f]
      BY <1>1, <3>2
    <3>4. job'[d].pc = "queued" /\ job'[d].order = o
      BY <3>3, MessageFields
    <3>5. db[o] # None /\ (db[o] \in Terminal \/ used["db"] >= r)
      BY <1>5, <2>1 DEF AtStep
    <3>6. AtStep(job'[d], db[o], used'["db"])
      BY <1>2, <1>4, <3>3, <3>5, MessageAtStep
    <3>7. QueueStep(o)
      BY <1>6, <2>1, <3>3, <3>4, <3>6, Replaced
    <3>8. QED
      BY <1>1, <1>2, <1>3, <1>4, <3>7, QueueInv
  <2>2. CASE d \notin Active
    <3>1. job[d].pc = "ackRetry" /\ ~job[d].held
      <4>1. job[d].pc = "ackRetry"
        BY <1>2, <1>10, <2>2 DEF Active, Crash, Running
      <4>2. ASSUME job[d].held PROVE FALSE
        <5>1. Fault("duplicate")
          BY <1>10, <4>1, <4>2 DEF Crash
        <5>2. QED
          BY <1>1, <5>1 DEF Fault, Calm, FaultKinds
      <4>3. QED
        BY <1>1, <4>1, <4>2 DEF JobOK, Job
    <3>2. job'[d].pc = "free" /\ \A f \in Deliveries : f # d => job'[f] = job[f]
      BY <1>1, <1>10, <3>1, FreeSlotType DEF Crash
    <3>3. QueueStep(o)
      BY <1>2, <1>6, <2>2, <3>2, Removed
    <3>4. QED
      BY <1>1, <1>2, <1>3, <1>4, <3>3, QueueInv
  <2>3. QED
    BY <2>1, <2>2
<1>11. CASE Redeliver(d)
  BY <1>1, <1>11 DEF Redeliver, Fault, Calm, FaultKinds
<1>12. QED
  BY <1>7, <1>8, <1>9, <1>10, <1>11

\* No delivery changes: what the API or a poller does to an order's row,
\* errors and records keeps the parts about deliveries.
LEMMA StillInv ==
  ASSUME TypeOK, TypeOK', IInv, UNCHANGED <<job, buried>>,
         used'["db"] >= used["db"],
         \A d \in Deliveries : job[d].pc # "free" => db'[job[d].order] = db[job[d].order],
         \A o \in Orders : db[o] # None => db'[o] = db[o],
         \A o \in Orders : /\ api'[o] = "new" => db'[o] = None
                           /\ api'[o] = "committed" => db'[o] # None
                           /\ api'[o] \in {"new", "committed"} => api[o] \in {"new", "committed"}
                           /\ api'[o] \in {"enqueued", "accepted"}
                                => api[o] \in {"enqueued", "accepted"}
  PROVE  HandlerInv' /\ ApiInv' /\ TombstoneMeansSettled'
<1>1. /\ used["db"] \in Nat /\ used'["db"] \in Nat
  BY DEF TypeOK, FaultKinds
<1>2. Active' = Active
  BY DEF Active
<1>3. HandlerInv'
  <2>1. SingleHandler'
    BY <1>2 DEF IInv, HandlerInv, SingleHandler
  <2>2. ASSUME NEW d \in Active PROVE AtStep(job'[d], db'[job'[d].order], used'["db"])
    <3>1. /\ d \in Deliveries /\ job'[d] = job[d] /\ job[d].retries \in Nat
          /\ db'[job[d].order] = db[job[d].order]
          /\ AtStep(job[d], db[job[d].order], used["db"])
      BY DEF Active, IInv, HandlerInv, TypeOK, Job
    <3>2. QED
      BY <1>1, <3>1 DEF AtStep, Settled
  <2>3. QED
    BY <1>2, <2>1, <2>2 DEF HandlerInv
<1>4. ApiInv'
  BY DEF IInv, ApiInv
<1>5. \A o \in Orders : db[o] \in Terminal => db'[o] = db[o]
  BY Machine DEF None
<1>6. TombstoneMeansSettled'
  BY <1>1, <1>5 DEF IInv, TombstoneMeansSettled, TypeOK
<1>7. QED
  BY <1>3, <1>4, <1>6

\* A new message for an order that has no delivery yet.
LEMMA EnqueuedInv ==
  ASSUME TypeOK, TypeOK', IInv, NEW o \in Orders, api[o] = "committed",
         NEW d \in Free, job' = [job EXCEPT ![d] = Message(o, 0)],
         NEW a \in {"enqueued", "error"}, api' = [api EXCEPT ![o] = a],
         UNCHANGED <<db, cache, reader, buried>>,
         used'["db"] = used["db"]
  PROVE  IInv'
<1>1. /\ d \in Deliveries /\ job[d].pc = "free" /\ db[o] # None
      /\ \A e \in Deliveries : job[e].pc # "free" => job[e].order # o
  BY DEF Free, IInv, ApiInv
<1>2. job'[d] = Message(o, 0) /\ \A e \in Deliveries : e # d => job'[e] = job[e]
  BY <1>1 DEF TypeOK
<1>3. job'[d].pc = "queued" /\ job'[d].order = o
  BY <1>2, MessageFields
<1>4. Active' = Active \cup {d} /\ d \notin Active
  BY <1>1, <1>2, <1>3 DEF Active
<1>5. \A e \in Active : e # d /\ job'[e] = job[e] /\ job[e].order # o
  BY <1>1, <1>2, <1>4 DEF Active
<1>6. /\ used["db"] \in Nat
      /\ 0 \in 0..MaxRetries
  BY DEF TypeOK, FaultKinds
<1>7. HandlerInv'
  <2>1. SingleHandler'
    BY <1>3, <1>4, <1>5 DEF IInv, HandlerInv, SingleHandler
  <2>2. AtStep(job'[d], db[o], used["db"])
    BY <1>1, <1>2, <1>6, MessageAtStep
  <2>3. \A e \in Active : AtStep(job'[e], db'[job'[e].order], used'["db"])
    BY <1>5 DEF IInv, HandlerInv
  <2>4. QED
    BY <1>3, <1>4, <2>1, <2>2, <2>3 DEF HandlerInv
<1>8. ApiInv'
  <2>1. api \in [Orders -> ApiSteps]
    BY DEF TypeOK
  <2>2. \A q \in Orders : q # o => api'[q] = api[q]
    BY <2>1
  <2>3. api'[o] \notin {"new", "committed"}
    BY <2>1
  <2>4. QED
    BY <1>1, <1>2, <1>3, <2>2, <2>3 DEF IInv, ApiInv
<1>9. CacheNeverAhead' /\ TombstoneMeansSettled'
  BY DEF IInv, CacheNeverAhead, TombstoneMeansSettled
<1>10. QED
  BY <1>7, <1>8, <1>9 DEF IInv

LEMMA OrderStepInv ==
  ASSUME TypeOK, TypeOK', IInv, NEW o \in Orders, OrderStep(o)
  PROVE  IInv'
<1>1. /\ db \in [Orders -> MaybeStatus] /\ cache \in [Orders -> MaybeStatus]
      /\ api \in [Orders -> ApiSteps]
      /\ used["db"] \in Nat
  BY DEF TypeOK, FaultKinds
<1>2. /\ api[o] = "new" => db[o] = None
      /\ api[o] \in {"new", "committed"} =>
           \A d \in Deliveries : job[d].pc # "free" => job[d].order # o
  BY DEF IInv, ApiInv
<1>3. CASE Place(o) \/ PlaceFails(o)
  <2>1. /\ UNCHANGED <<cache, job, reader, buried>> /\ api[o] = "new"
        /\ used'["db"] >= used["db"]
    BY <1>1, <1>3, FaultCounts DEF Place, PlaceFails
  <2>2. /\ \A q \in Orders : q # o => db'[q] = db[q] /\ api'[q] = api[q]
        /\ \/ db'[o] = "PENDING" /\ api'[o] = "committed"
           \/ db'[o] \in {None, "PENDING"} /\ api'[o] = "error"
    BY <1>1, <1>3 DEF Place, PlaceFails
  <2>3. \A d \in Deliveries : job[d].pc # "free" => db'[job[d].order] = db[job[d].order]
    BY <1>2, <2>1, <2>2 DEF TypeOK
  <2>4. HandlerInv' /\ ApiInv' /\ TombstoneMeansSettled'
    <3>1. \A q \in Orders :
             /\ db[q] # None => db'[q] = db[q]
             /\ api'[q] = "new" => db'[q] = None
             /\ api'[q] = "committed" => db'[q] # None
             /\ api'[q] \in {"new", "committed"} => api[q] \in {"new", "committed"}
             /\ api'[q] \in {"enqueued", "accepted"} => api[q] \in {"enqueued", "accepted"}
      BY <1>2, <2>1, <2>2 DEF IInv, ApiInv, None
    <3>2. QED
      BY <1>1, <2>1, <2>3, <3>1, StillInv
  <2>5. CacheNeverAhead'
    <3>1. cache[o] = None /\ \A p \in Readers : reader[p].order = o => reader[p].status = None
      BY <1>2, <2>1, ReachesNone DEF IInv, CacheNeverAhead
    <3>2. \A p \in Readers : reader[p].order \in Orders \/ reader[p].status = None
      BY DEF TypeOK
    <3>3. QED
      BY <2>1, <2>2, <3>1, <3>2 DEF IInv, CacheNeverAhead
  <2>6. QED
    BY <2>4, <2>5 DEF IInv
<1>4. CASE Enqueue(o)
  <2>1. /\ used'["db"] = used["db"]
        /\ UNCHANGED <<db, cache, reader, buried>>
        /\ api[o] = "committed" /\ api' = [api EXCEPT ![o] = "enqueued"]
    BY <1>4, FaultCounts DEF Enqueue
  <2>2. PICK d \in Free : job' = [job EXCEPT ![d] = Message(o, 0)]
    BY <1>4 DEF Enqueue
  <2>3. QED
    BY <2>1, <2>2, EnqueuedInv
<1>5. CASE EnqueueFails(o)
  <2>1. /\ used'["db"] = used["db"]
        /\ UNCHANGED <<db, cache, reader, buried>>
        /\ api[o] = "committed" /\ api' = [api EXCEPT ![o] = "error"]
    BY <1>1, <1>5, FaultCounts DEF EnqueueFails
  <2>2. CASE UNCHANGED job
    <3>1. /\ \A q \in Orders : q # o => api'[q] = api[q]
          /\ api'[o] = "error"
      BY <1>1, <2>1
    <3>2. HandlerInv' /\ ApiInv' /\ TombstoneMeansSettled'
      BY <1>1, <2>1, <2>2, <3>1, StillInv DEF IInv, ApiInv
    <3>3. CacheNeverAhead'
      BY <2>1 DEF IInv, CacheNeverAhead
    <3>4. QED
      BY <3>2, <3>3 DEF IInv
  <2>3. CASE \E d \in Free : job' = [job EXCEPT ![d] = Message(o, 0)]
    BY <2>1, <2>3, EnqueuedInv
  <2>4. QED
    BY <1>5, <2>2, <2>3 DEF EnqueueFails
<1>6. CASE Respond(o) \/ ApiCrash(o)
  <2>1. /\ UNCHANGED <<db, cache, job, reader, buried>>
        /\ used'["db"] >= used["db"]
        /\ \A q \in Orders : q # o => api'[q] = api[q]
        /\ api'[o] = "error" \/ (api[o] = "enqueued" /\ api'[o] = "accepted")
    BY <1>1, <1>6, FaultCounts DEF Respond, ApiCrash
  <2>2. HandlerInv' /\ ApiInv' /\ TombstoneMeansSettled'
    BY <1>1, <2>1, StillInv DEF IInv, ApiInv
  <2>3. CacheNeverAhead'
    BY <2>1 DEF IInv, CacheNeverAhead
  <2>4. QED
    BY <2>2, <2>3 DEF IInv
<1>7. CASE LogTombstone(o) \/ Expire(o)
  <2>1. /\ UNCHANGED <<db, api, job, reader, buried, used>>
        /\ cache' = cache \/ cache' = [cache EXCEPT ![o] = None]
    BY <1>7 DEF LogTombstone, Expire, NoFault
  <2>2. HandlerInv' /\ ApiInv' /\ TombstoneMeansSettled'
    BY <1>1, <2>1, StillInv DEF IInv, ApiInv
  <2>3. CacheNeverAhead'
    BY <1>1, <2>1 DEF IInv, CacheNeverAhead
  <2>4. QED
    BY <2>2, <2>3 DEF IInv
<1>8. QED
  BY <1>3, <1>4, <1>5, <1>6, <1>7 DEF OrderStep, ApiStep

LEMMA ReaderStepInv ==
  ASSUME TypeOK, TypeOK', IInv, NEW p \in Readers, ReaderStep(p)
  PROVE  IInv'
<1>1. /\ cache \in [Orders -> MaybeStatus] /\ reader \in [Readers -> Reader]
      /\ used["db"] \in Nat
      /\ UNCHANGED <<db, api, job, buried>>
  BY DEF TypeOK, FaultKinds, ReaderStep, PollStep, PollRead, PollReadFails, PollFill,
         PollHit, PollMiss
<1>2. used'["db"] >= used["db"]
  <2>1. NoFault \/ Fault("db") \/ Fault("cache")
    BY DEF ReaderStep, PollStep, PollRead, PollReadFails, PollFill, PollHit, PollMiss
  <2>2. QED
    BY <1>1, <2>1, FaultCounts
<1>3. HandlerInv' /\ ApiInv' /\ TombstoneMeansSettled'
  BY <1>1, <1>2, StillInv DEF IInv, ApiInv
<1>4. \A q \in Readers : q # p => reader'[q] = reader[q]
  BY <1>1 DEF ReaderStep, PollStep, PollRead, PollReadFails, PollFill, PollHit, PollMiss
<1>5. \A s : Reaches(s, s)
  BY DEF Reaches
<1>6. \/ reader'[p].status = None
      \/ Reaches(reader'[p].status, db[reader'[p].order])
  <2>1. reader[p].status = None \/ Reaches(reader[p].status, db[reader[p].order])
    BY DEF IInv, CacheNeverAhead
  <2>2. CASE PollRead(p)
    <3>1. /\ reader'[p].order = reader[p].order
          /\ reader'[p].status = db[reader[p].order]
      BY <1>1, <2>2 DEF PollRead, Reader
    <3>2. QED
      BY <1>5, <3>1
  <2>3. CASE PollReadFails(p) \/ PollFill(p)
    <3>1. reader'[p].order = reader[p].order /\ reader'[p].status = reader[p].status
      BY <1>1, <2>3 DEF PollReadFails, PollFill, Reader
    <3>2. QED
      BY <2>1, <3>1
  <2>4. ASSUME NEW o \in Orders, PollHit(p, o)
        PROVE  Reaches(reader'[p].status, db[reader'[p].order])
    <3>1. reader'[p].order = o /\ reader'[p].status = cache[o] /\ cache[o] # None
      BY <1>1, <2>4 DEF PollHit, Reader
    <3>2. QED
      BY <3>1 DEF IInv, CacheNeverAhead
  <2>5. ASSUME NEW o \in Orders, PollMiss(p, o) PROVE reader'[p].status = None
    BY <1>1, <2>5 DEF PollMiss
  <2>6. QED
    BY <2>2, <2>3, <2>4, <2>5 DEF ReaderStep, PollStep
<1>7. ASSUME NEW o \in Orders PROVE cache'[o] = None \/ Reaches(cache'[o], db[o])
  <2>1. CASE cache' = cache
    BY <2>1 DEF IInv, CacheNeverAhead
  <2>2. CASE cache' = [cache EXCEPT ![reader[p].order] = reader[p].status]
    <3>1. reader[p].status = None \/ Reaches(reader[p].status, db[reader[p].order])
      BY DEF IInv, CacheNeverAhead
    <3>2. cache[o] = None \/ Reaches(cache[o], db[o])
      BY DEF IInv, CacheNeverAhead
    <3>3. QED
      BY <1>1, <2>2, <3>1, <3>2
  <2>3. QED
    BY <2>1, <2>2 DEF ReaderStep, PollStep, PollRead, PollReadFails, PollFill, PollHit, PollMiss
<1>8. CacheNeverAhead'
  BY <1>1, <1>4, <1>6, <1>7 DEF IInv, CacheNeverAhead
<1>9. QED
  BY <1>3, <1>8 DEF IInv

LEMMA InitInv == Init => IInv
<1> SUFFICES ASSUME Init PROVE IInv
  OBVIOUS
<1>1. /\ \A d \in Deliveries : job[d].pc = "free"
      /\ \A o \in Orders : db[o] = None /\ cache[o] = None /\ api[o] = "new"
      /\ \A p \in Readers : reader[p].status = None
      /\ buried = {}
  BY FreeSlotType DEF Init, FreeSlot
<1>2. Active = {}
  BY <1>1 DEF Active
<1>3. QED
  BY <1>1, <1>2 DEF IInv, HandlerInv, ApiInv, SingleHandler, CacheNeverAhead,
                    TombstoneMeansSettled

LEMMA StepInv ==
  ASSUME TypeOK, TypeOK', IInv, Calm, Calm', [Next]_vars
  PROVE  IInv'
<1>1. CASE UNCHANGED vars
  <2>1. UNCHANGED <<db, cache, api, job, reader, buried, used>>
    BY <1>1 DEF vars
  <2>2. Active' = Active
    BY <2>1 DEF Active
  <2>3. QED
    BY <2>1, <2>2 DEF IInv, HandlerInv, ApiInv, SingleHandler, CacheNeverAhead,
                      TombstoneMeansSettled
<1>2. ASSUME NEW d \in Deliveries, DeliveryStep(d) PROVE IInv'
  BY <1>2, SoloStepInv, QueueStepInv DEF DeliveryStep, SoloStep, TaskStep
<1>3. CASE Next
  BY <1>2, <1>3, NextCases, OrderStepInv, ReaderStepInv
<1>4. QED
  BY <1>1, <1>3

\* Until a message is delivered twice the invariant holds, for any number of
\* orders, deliveries, pollers and workers and any number of other faults.
THEOREM Invariance == Spec => [](Calm => IInv)
<1> DEFINE Inv == Calm => IInv
<1>1. Init => Inv
  BY InitInv
<1>2. TypeOK /\ TypeOK' /\ Inv /\ [Next]_vars => Inv'
  BY CalmBefore, StepInv
<1>3. QED
  BY <1>1, <1>2, TypeCorrect, PTL DEF Spec

\* Two workers never have live deliveries of one order in hand before the broker
\* delivers a message twice: late acknowledgement, retries and crashes replace a
\* delivery, they add none.
THEOREM OneHandler == Spec => [](Calm => SingleHandler)
<1>1. IInv => SingleHandler
  BY DEF IInv, HandlerInv
<1>2. QED
  BY <1>1, Invariance, PTL

\* Postgres is written before Redis, so no cache entry and no poll answers a
\* status the order has not reached.
THEOREM CacheBehind == Spec => [](Calm => CacheNeverAhead)
<1>1. IInv => CacheNeverAhead
  BY DEF IInv
<1>2. QED
  BY <1>1, Invariance, PTL

\* on_failure's tombstone and its FAILED write part company only after
\* MaxRetries + 2 database errors.
THEOREM TombstoneAgrees == Spec => [](Calm => TombstoneMeansSettled)
<1>1. IInv => TombstoneMeansSettled
  BY DEF IInv
<1>2. QED
  BY <1>1, Invariance, PTL

-----------------------------------------------------------------------------
(* The status only moves along the table, and the promise is kept          *)

Inserts(o) == db[o] = None /\ db' = [db EXCEPT ![o] = "PENDING"]

LEMMA OrderWrites ==
  ASSUME TypeOK, IInv, NEW o \in Orders, OrderStep(o)
  PROVE  \/ UNCHANGED db
         \/ Inserts(o) /\ UNCHANGED cache
<1>1. db \in [Orders -> MaybeStatus]
  BY DEF TypeOK
<1>2. CASE Place(o) \/ PlaceFails(o)
  <2>1. db[o] = None
    BY <1>2 DEF Place, PlaceFails, IInv, ApiInv
  <2>2. /\ \/ db' = [db EXCEPT ![o] = None]
           \/ db' = [db EXCEPT ![o] = "PENDING"]
        /\ UNCHANGED cache
    BY <1>2 DEF Place, PlaceFails
  <2>3. QED
    BY <1>1, <2>1, <2>2 DEF Inserts
<1>3. CASE ~(Place(o) \/ PlaceFails(o))
  BY <1>3 DEF OrderStep, ApiStep, Enqueue, EnqueueFails, Respond, ApiCrash, LogTombstone,
              Expire
<1>4. QED
  BY <1>2, <1>3

LEMMA DeliveryWrites ==
  ASSUME TypeOK, IInv, NEW d \in Deliveries, DeliveryStep(d)
  PROVE  \/ UNCHANGED db
         \/ /\ job[d].order \in Orders
            /\ \E s \in Status : /\ CanBecome(db[job[d].order], s)
                                 /\ db' = [db EXCEPT ![job[d].order] = s]
            /\ UNCHANGED cache
<1> DEFINE o == job[d].order
<1>1. CASE Commit(d) \/ CommitFails(d)
  <2>1. d \in Active /\ job[d].pc = "commit"
    BY <1>1 DEF Commit, CommitFails, Active
  <2>2. o \in Orders /\ CanBecome(db[o], job[d].target)
    BY <2>1 DEF TypeOK, IInv, HandlerInv, AtStep
  <2>3. /\ UNCHANGED db \/ db' = [db EXCEPT ![o] = job[d].target]
        /\ UNCHANGED cache
    BY <1>1 DEF Commit, CommitFails
  <2>4. QED
    BY <2>2, <2>3, Machine
<1>2. CASE ~(Commit(d) \/ CommitFails(d))
  BY <1>2 DEF DeliveryStep, Receive, UpdateStep, TaskStep, SelectOrder, DropCache, FillCache,
              Reload, ReadFails, ReadGuard, Prepare, Retry, RetryFails, OnFailure, Tombstone,
              Acknowledge, Crash, Redeliver
<1>3. QED
  BY <1>1, <1>2


LEMMA DbStep ==
  ASSUME TypeOK, IInv, [Next]_vars
  PROVE  \/ UNCHANGED db
         \/ /\ UNCHANGED cache
            /\ \E o \in Orders : \/ Inserts(o)
                                 \/ \E s \in Status : /\ CanBecome(db[o], s)
                                                      /\ db' = [db EXCEPT ![o] = s]
<1>1. CASE UNCHANGED vars
  BY <1>1 DEF vars
<1>2. ASSUME NEW p \in Readers, ReaderStep(p) PROVE UNCHANGED db
  BY <1>2 DEF ReaderStep, PollStep, PollRead, PollReadFails, PollFill, PollHit, PollMiss
<1>3. CASE Next
  BY <1>2, <1>3, NextCases, OrderWrites, DeliveryWrites
<1>4. QED
  BY <1>1, <1>3

\* Until a message is delivered twice, orders.status changes only by an insertion
\* or along the transition table: the unlocked read-check-write of
\* update_order_status never overwrites what another handler has committed.
THEOREM OnlyLegalTransitions == Spec => LegalTransitions
<1> DEFINE Legal == \A o \in Orders :
              db'[o] # db[o] => \/ db[o] = None /\ db'[o] = "PENDING"
                                \/ CanBecome(db[o], db'[o])
<1>1. TypeOK /\ (Calm => IInv) /\ [Next]_vars => [Calm => Legal]_db
  <2> SUFFICES ASSUME TypeOK, IInv, [Next]_vars, ~UNCHANGED db PROVE Legal
    OBVIOUS
  <2>1. db \in [Orders -> MaybeStatus]
    BY DEF TypeOK
  <2>2. PICK o \in Orders : \/ Inserts(o)
                            \/ \E s \in Status : /\ CanBecome(db[o], s)
                                                 /\ db' = [db EXCEPT ![o] = s]
    BY DbStep
  <2>3. QED
    BY <2>1, <2>2 DEF Inserts
<1>2. QED
  BY <1>1, TypeCorrect, Invariance, PTL DEF Spec, LegalTransitions

\* Who writes Redis, and what: an entry goes, or becomes a status the order has
\* already reached.
LEMMA CacheStep ==
  ASSUME TypeOK, IInv, [Next]_vars, UNCHANGED db
  PROVE  \/ UNCHANGED cache
         \/ \E o \in Orders : \/ cache' = [cache EXCEPT ![o] = None]
                              \/ \E s \in Status : /\ Reaches(s, db[o])
                                                   /\ cache' = [cache EXCEPT ![o] = s]
<1>1. CASE UNCHANGED vars
  BY <1>1 DEF vars
<1>2. ASSUME NEW o \in Orders, OrderStep(o)
      PROVE  UNCHANGED cache \/ cache' = [cache EXCEPT ![o] = None]
  BY <1>2 DEF OrderStep, Place, PlaceFails, ApiStep, Enqueue, EnqueueFails, Respond, ApiCrash,
              LogTombstone, Expire
<1>3. ASSUME NEW p \in Readers, ReaderStep(p)
      PROVE  \/ UNCHANGED cache
             \/ /\ reader[p].order \in Orders
                /\ \/ cache' = [cache EXCEPT ![reader[p].order] = None]
                   \/ /\ reader[p].status \in Status
                      /\ Reaches(reader[p].status, db[reader[p].order])
                      /\ cache' = [cache EXCEPT ![reader[p].order] = reader[p].status]
  <2>1. CASE PollFill(p)
    <3>1. reader[p].order \in Orders /\ reader[p].status \in MaybeStatus
      BY <2>1 DEF PollFill, TypeOK, Reader
    <3>2. reader[p].status = None \/ Reaches(reader[p].status, db[reader[p].order])
      BY DEF IInv, CacheNeverAhead
    <3>3. UNCHANGED cache \/ cache' = [cache EXCEPT ![reader[p].order] = reader[p].status]
      BY <2>1 DEF PollFill
    <3>4. QED
      BY <3>1, <3>2, <3>3 DEF MaybeStatus
  <2>2. CASE ~PollFill(p)
    BY <1>3, <2>2 DEF ReaderStep, PollStep, PollRead, PollReadFails, PollHit, PollMiss
  <2>3. QED
    BY <2>1, <2>2
<1>4. ASSUME NEW d \in Deliveries, DeliveryStep(d)
      PROVE  \/ UNCHANGED cache
             \/ /\ job[d].order \in Orders
                /\ \/ cache' = [cache EXCEPT ![job[d].order] = None]
                   \/ /\ db[job[d].order] \in Status
                      /\ cache' = [cache EXCEPT ![job[d].order] = db[job[d].order]]
  <2>1. CASE DropCache(d) \/ FillCache(d)
    <3>1. d \in Active /\ job[d].pc \in {"del", "setex"}
      BY <2>1 DEF DropCache, FillCache, Active
    <3>2. /\ job[d].order \in Orders /\ db \in [Orders -> MaybeStatus]
          /\ db[job[d].order] = job[d].target /\ db[job[d].order] # None
      BY <3>1 DEF TypeOK, IInv, HandlerInv, AtStep
    <3>3. \/ UNCHANGED cache
          \/ cache' = [cache EXCEPT ![job[d].order] = None]
          \/ cache' = [cache EXCEPT ![job[d].order] = job[d].target]
      BY <2>1 DEF DropCache, FillCache
    <3>4. QED
      BY <3>2, <3>3 DEF MaybeStatus
  <2>2. CASE ~(DropCache(d) \/ FillCache(d))
    BY <1>4, <2>2 DEF DeliveryStep, Receive, UpdateStep, TaskStep, SelectOrder, Commit,
         CommitFails, Reload, ReadFails, ReadGuard, Prepare, Retry, RetryFails, OnFailure,
         Tombstone, Acknowledge, Crash, Redeliver
  <2>3. QED
    BY <2>1, <2>2
<1>5. CASE Next
  <2>1. \A s : Reaches(s, s)
    BY DEF Reaches
  <2>2. CASE \E o \in Orders : OrderStep(o)
    BY <1>2, <2>2
  <2>3. CASE \E d \in Deliveries : DeliveryStep(d)
    BY <1>4, <2>1, <2>3
  <2>4. CASE \E p \in Readers : ReaderStep(p)
    BY <1>3, <2>4
  <2>5. QED
    BY <1>5, <2>2, <2>3, <2>4, NextCases
<1>6. QED
  BY <1>1, <1>5

\* The promise is stated in the same state machine.
LEMMA SameMachine ==
  /\ Promise!None = None
  /\ Promise!Status = Status
  /\ \A s, t : Promise!May(s, t) <=> CanBecome(s, t)
  /\ \A s, t : Promise!NotAhead(s, t) <=> Reaches(s, t)
<1>1. /\ Promise!None = None
      /\ Promise!Status = Status
      /\ \A s, t : Promise!May(s, t) <=> CanBecome(s, t)
  BY DEF Promise!None, None, Promise!Status, Status, Promise!May, CanBecome
<1>2. QED
  BY <1>1 DEF Promise!NotAhead, Reaches

\* Postgres and Redis together implement OrderLifecycle as long as no message is
\* delivered twice: the row is its status, the cache entry its board, and every
\* step of the system is one of its steps or none.
THEOREM Refinement == NoDuplicates => (Spec => KeepsPromise)
<1> SUFFICES ASSUME NoDuplicates PROVE Spec => KeepsPromise
  OBVIOUS
<1>1. Init => Promise!Init
  BY SameMachine DEF Init, Promise!Init
<1>2. TypeOK /\ IInv /\ [Next]_vars => [Promise!Next]_(Promise!lifecycle)
  <2> SUFFICES ASSUME TypeOK, IInv, [Next]_vars
               PROVE  Promise!Next \/ UNCHANGED <<db, cache>>
    BY DEF Promise!lifecycle
  <2>1. CASE UNCHANGED db
    <3>1. CASE UNCHANGED cache
      BY <2>1, <3>1
    <3>2. ASSUME NEW o \in Orders, cache' = [cache EXCEPT ![o] = None]
          PROVE  Promise!TakenDown(o)
      BY <2>1, <3>2, SameMachine DEF Promise!TakenDown
    <3>3. ASSUME NEW o \in Orders, NEW s \in Status, Reaches(s, db[o]),
                 cache' = [cache EXCEPT ![o] = s]
          PROVE  Promise!Posted(o)
      BY <2>1, <3>3, SameMachine DEF Promise!Posted
    <3>4. QED
      BY <2>1, <3>1, <3>2, <3>3, CacheStep DEF Promise!Next
  <2>2. ASSUME NEW o \in Orders, Inserts(o), UNCHANGED cache PROVE Promise!Placed(o)
    BY <2>2, SameMachine DEF Promise!Placed, Inserts
  <2>3. ASSUME NEW o \in Orders, NEW s \in Status, CanBecome(db[o], s),
               db' = [db EXCEPT ![o] = s], UNCHANGED cache
        PROVE  Promise!Advanced(o)
    BY <2>3, SameMachine DEF Promise!Advanced
  <2>4. QED
    BY <2>1, <2>2, <2>3, DbStep DEF Promise!Next
<1>3. TypeOK /\ (Calm => IInv) => IInv
  BY AlwaysCalm
<1>4. QED
  BY <1>1, <1>2, <1>3, TypeCorrect, Invariance, PTL DEF Spec, KeepsPromise, Promise!Spec

=============================================================================
