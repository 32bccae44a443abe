------------------------ MODULE OrderKitchenRedelivery ------------------------
(* Theorems about OrderKitchen that need no bound on redeliveries: several *)
(* workers may hold messages of one order, and act on it in any order.     *)
EXTENDS OrderKitchenProofs

USE NumbersAssumption

-----------------------------------------------------------------------------
(* What holds of every delivery by itself                                  *)

\* The status x was reached, or passed over, by an order whose status is s.
Behind(x, s) ==
  x # None => s # None /\ (x = "PENDING" \/ s \in Written)

\* What holds of a delivery j, live or not, whose order has status s, whatever
\* other deliveries of that order do: once a status is written there is never
\* a PENDING order under it again.
LooseAtStep(j, s) ==
  /\ s # None
  /\ j.wrote => s \in Written
  /\ j.pc \in {"queued", "guard"} => j.target = None /\ ~j.wrote
  /\ j.pc \in {"select", "commit"} => /\ j.target \in Written
                                      /\ j.target = "READY" => s \in Written
                                      /\ j.target = "PREPARING" => ~j.wrote
  /\ j.pc \in {"del", "setex", "reload"} => j.target \in Written /\ s \in Written
  /\ j.pc = "prep" => s \in Written

\* The errors delivery j has cost while its order was PENDING, when there is
\* nobody yet who could have made its step illegal: one for every attempt.
CostAtStep(j, s, n) ==
  /\ s = "PENDING" \/ (j.pc \in {"select", "commit"} /\ j.target = "PREPARING")
       => n >= j.retries
  /\ s = "PENDING" /\ j.pc = "raise" => n >= j.retries + 1

LooseJobs ==
  \A d \in Deliveries :
    job[d].pc # "free" => /\ LooseAtStep(job[d], db[job[d].order])
                          /\ CostAtStep(job[d], db[job[d].order], used["db"])

LooseApi ==
  \A o \in Orders : /\ api[o] = "new" => db[o] = None
                    /\ api[o] = "committed" => db[o] # None

LooseBoard ==
  /\ \A o \in Orders : Behind(cache[o], db[o])
  /\ \A p \in Readers : reader[p].status # None => Behind(reader[p].status, db[reader[p].order])

LooseInv == LooseJobs /\ LooseApi /\ LooseBoard

-----------------------------------------------------------------------------
(* Who will settle an order                                                *)

\* A delivery j that takes its order, of status s, on to a terminal status after
\* n database errors, one for each of its attempts that are over: every other
\* delivery may find that somebody else has made its next step illegal.
OnCourse(j, s, n) ==
  \/ /\ n >= j.retries
     /\ \/ j.pc \in {"queued", "guard"}
        \/ s = "PENDING" /\ j.pc \in {"select", "commit"} /\ j.target = "PREPARING"
        \/ /\ s = "PREPARING"
           /\ \/ j.pc = "prep"
              \/ j.pc \in {"del", "setex", "reload"} /\ j.target = "PREPARING"
              \/ j.pc \in {"select", "commit"} /\ j.target = "READY"
  \/ n >= j.retries + 1 /\ j.pc = "raise"
  \/ n >= MaxRetries + 1 /\ j.pc \in {"select", "commit"} /\ j.target = "FAILED"

Excused == \/ used["broker"] > 0
           \/ used["db"] >= MaxRetries + 2
           \/ used["duplicate"] > 0 /\ used["crash"] > 0

\* Order o is settled, or a delivery of its is on course.
Carried(o) ==
  \/ db[o] \in Terminal
  \/ \E d \in Deliveries : job[d].order = o /\ OnCourse(job[d], db[o], used["db"])

CourseInv ==
  \A o \in Orders : api[o] \in {"enqueued", "accepted"} => Carried(o) \/ Excused

-----------------------------------------------------------------------------
(* Operators                                                               *)

LEMMA Statuses ==
  /\ \A s \in MaybeStatus : s \in Written \/ s = "PENDING" \/ s = None
  /\ None \notin Written /\ "PENDING" \notin Written
  /\ "PREPARING" \in Written /\ "READY" \in Written /\ "FAILED" \in Written
  /\ Written \subseteq Status /\ None \notin Status /\ None # "PENDING"
  /\ Terminal \subseteq Written
  /\ \A s \in Written : s = "PREPARING" \/ s \in Terminal
  /\ "PREPARING" \notin Terminal
BY Machine DEF MaybeStatus, Status, None, Written

\* The loosened machine, element by element.
LEMMA LooseMachine ==
  /\ LoosePromise!None = None
  /\ LoosePromise!Status = Status
  /\ \A s, t : CanBecome(s, t) => LoosePromise!May(s, t)
  /\ \A s, t \in Written : LoosePromise!May(s, t)
<1>1. LoosePromise!None = None /\ LoosePromise!Status = Status
  BY DEF LoosePromise!None, None, LoosePromise!Status, Status
<1>2. \A s, t : LoosePromise!May(s, t) <=> <<s, t>> \in LooseTransitions
  BY DEF LoosePromise!May
<1>3. QED
  BY <1>1, <1>2 DEF LooseTransitions, CanBecome

LEMMA BehindIsNotAhead ==
  ASSUME NEW x \in Status, NEW s \in MaybeStatus, Behind(x, s)
  PROVE  LoosePromise!NotAhead(x, s)
<1>1. CASE x \in Written /\ s \in Written
  BY <1>1, LooseMachine DEF LoosePromise!NotAhead
<1>2. CASE x = "PENDING"
  <2>1. s = "PENDING" \/ s \in Written
    BY <1>2, Statuses DEF Behind
  <2>2. CanBecome("PENDING", "PREPARING") /\ "PREPARING" \in Written
    BY Machine, Statuses
  <2>3. /\ LoosePromise!May("PENDING", "PREPARING")
        /\ "PREPARING" \in LoosePromise!Status
        /\ s \in Written => LoosePromise!May("PREPARING", s)
    BY <2>2, LooseMachine, Statuses
  <2>4. QED
    BY <1>2, <2>1, <2>3 DEF LoosePromise!NotAhead
<1>3. QED
  BY <1>1, <1>2, Statuses DEF Behind, MaybeStatus

-----------------------------------------------------------------------------
(* What a step does to the row of an order                                 *)

\* The row stays, or one of Written replaces a row that may become it.
Moves(s, t) == \/ t = s
               \/ t \in Written /\ (CanBecome(s, t) \/ s \in Written)

\* Its consequence for whatever was known of the old row.
LEMMA MovesOn ==
  ASSUME NEW s, NEW t, Moves(s, t)
  PROVE  /\ s # None => t # None
         /\ s \in Written => t \in Written
         /\ \A x : Behind(x, s) => Behind(x, t)
         /\ \A j : LooseAtStep(j, s) => LooseAtStep(j, t)
<1>1. s # None => t # None
  BY Statuses DEF Moves
<1>2. s \in Written => t \in Written
  BY DEF Moves
<1>3. QED
  BY <1>1, <1>2 DEF Behind, LooseAtStep

\* A new delivery is a message, about which little has to hold.
LEMMA MessageLoose ==
  ASSUME NEW o, NEW r, NEW s, NEW n
  PROVE  /\ s # None => LooseAtStep(Message(o, r), s)
         /\ (s = "PENDING" => n >= r) => CostAtStep(Message(o, r), s, n)
         /\ n >= r => OnCourse(Message(o, r), s, n)
BY DEF Message, FreeSlot, LooseAtStep, CostAtStep, OnCourse

LEMMA DbErrorsGrow ==
  ASSUME TypeOK, [Next]_vars
  PROVE  used["db"] \in Nat /\ used'["db"] \in Nat /\ used'["db"] >= used["db"]
<1>1. UsedOK /\ "db" \in FaultKinds
  BY DEF TypeOK, UsedOK, FaultKinds
<1>2. QED
  BY <1>1, UsedGrows DEF UsedOK

LEMMA ExcusedStays ==
  ASSUME TypeOK, [Next]_vars, Excused
  PROVE  Excused'
<1>1. UsedOK /\ {"db", "broker", "crash", "duplicate"} \subseteq FaultKinds
  BY DEF TypeOK, UsedOK, FaultKinds
<1>2. \A k \in {"db", "broker", "crash", "duplicate"} :
        used[k] \in Nat /\ used'[k] \in Nat /\ used'[k] >= used[k]
  BY <1>1, UsedGrows DEF UsedOK
<1>3. QED
  BY <1>2 DEF Excused

LEMMA RetryCounts ==
  ASSUME TypeOK
  PROVE  \A d \in Deliveries : job[d].retries \in 0..MaxRetries /\ job[d].retries \in Nat
BY DEF TypeOK, Job

LEMMA OnCourseCosts ==
  ASSUME NEW j, j.retries \in 0..MaxRetries, NEW s, NEW n \in Nat, OnCourse(j, s, n)
  PROVE  n >= j.retries
BY DEF OnCourse

LEMMA OnCourseStays ==
  ASSUME NEW j, j.retries \in Nat, NEW s, NEW n \in Nat, NEW m \in Nat, m >= n,
         OnCourse(j, s, n)
  PROVE  OnCourse(j, s, m)
BY DEF OnCourse

LEMMA CostStays ==
  ASSUME NEW j, j.retries \in Nat, NEW s, NEW t, Moves(s, t), NEW n \in Nat, NEW m \in Nat,
         m >= n, CostAtStep(j, s, n)
  PROVE  CostAtStep(j, t, m)
<1>1. t = "PENDING" => s = "PENDING"
  BY Statuses DEF Moves
<1>2. QED
  BY <1>1 DEF CostAtStep

\* A step of a delivery d alone: its order's row moves, what the next step
\* relies on holds, and whoever leaves the row in a new state is there to carry on.
RowMoves(o) ==
  \E t \in MaybeStatus : Moves(db[o], t) /\ db' = [db EXCEPT ![o] = t]

OnTrack(d) ==
  OnCourse(job[d], db[job[d].order], used["db"]) \/ db'[job[d].order] # db[job[d].order]
    => \/ Excused'
       \/ db'[job[d].order] \in Terminal
       \/ OnCourse(job'[d], db'[job[d].order], used'["db"])

Fine(d) == /\ RowMoves(job[d].order)
           /\ LooseAtStep(job'[d], db'[job[d].order])
           /\ CostAtStep(job'[d], db'[job[d].order], used'["db"])
           /\ OnTrack(d)

LEMMA StillMoves ==
  ASSUME TypeOK, NEW o \in Orders, UNCHANGED db
  PROVE  RowMoves(o)
BY DEF RowMoves, Moves, TypeOK

LEMMA ReadStepsFine ==
  ASSUME TypeOK, LooseInv, NEW d \in Deliveries,
         \/ Receive(d) \/ ReadGuard(d) \/ Prepare(d) \/ OnFailure(d) \/ Reload(d)
         \/ DropCache(d) \/ FillCache(d) \/ Tombstone(d)
  PROVE  Fine(d)
<1> DEFINE o == job[d].order
           s == db[o]
           n == used["db"]
<1>1. /\ JobOK /\ job[d].pc # "free"
      /\ UNCHANGED db
      /\ NoFault \/ Fault("cache") \/ Fault("broker")
  BY DEF TypeOK, JobOK, Receive, ReadGuard, Prepare, OnFailure, Reload, DropCache, FillCache,
         Tombstone
<1>2. /\ o \in Orders /\ s \in MaybeStatus /\ job[d].retries \in Nat
      /\ LooseAtStep(job[d], s) /\ CostAtStep(job[d], s, n)
      /\ used'["db"] = n /\ n \in Nat
  BY <1>1, FaultCounts DEF TypeOK, JobOK, Job, LooseInv, LooseJobs
<1>3. RowMoves(o)
  BY <1>1, <1>2, StillMoves
<1>4. /\ LooseAtStep(job'[d], s)
      /\ CostAtStep(job'[d], s, n)
      /\ OnCourse(job[d], s, n) => s \in Terminal \/ OnCourse(job'[d], s, n)
  <2>1. CASE Receive(d)
    <3>1. Moved(d, "guard", job[d].target, job[d].wrote, TRUE) /\ job[d].pc = "queued"
      BY <1>1, <2>1, ReceiveMoves DEF Receive
    <3>2. QED
      BY <3>1, <1>2 DEF LooseAtStep, CostAtStep, OnCourse, Moved
  <2>2. CASE ReadGuard(d)
    <3>1. /\ Moved(d, AfterGuard(s), "PREPARING", job[d].wrote, job[d].held)
          /\ job[d].pc = "guard"
      BY <1>1, <2>2, ReadGuardMoves DEF ReadGuard
    <3>2. /\ s # None /\ ~job[d].wrote
          /\ \/ s = "PENDING" /\ AfterGuard(s) = "select"
             \/ s = "PREPARING" /\ AfterGuard(s) = "prep"
             \/ s \in Terminal /\ s # "PENDING" /\ AfterGuard(s) \in {"prep", "ack"}
      BY <1>2, <3>1, Statuses, Machine DEF AfterGuard, LooseAtStep
    <3>3. LooseAtStep(job'[d], s)
      BY <3>1, <3>2, Statuses DEF LooseAtStep, Moved
    <3>4. CostAtStep(job'[d], s, n)
      BY <1>2, <3>1, <3>2 DEF CostAtStep, Moved
    <3>5. OnCourse(job[d], s, n) => s \in Terminal \/ OnCourse(job'[d], s, n)
      BY <3>1, <3>2 DEF OnCourse, Moved
    <3>6. QED
      BY <3>3, <3>4, <3>5
  <2>3. CASE Prepare(d)
    <3>1. Moved(d, "select", "READY", job[d].wrote, job[d].held) /\ job[d].pc = "prep"
      BY <1>1, <2>3, PrepareMoves DEF Prepare
    <3>2. LooseAtStep(job'[d], s)
      BY <3>1, <1>2, Statuses DEF LooseAtStep, Moved
    <3>3. CostAtStep(job'[d], s, n)
      BY <3>1, <1>2 DEF CostAtStep, Moved
    <3>4. QED
      BY <3>1, <3>2, <3>3 DEF OnCourse, Moved
  <2>4. CASE OnFailure(d)
    <3>1. /\ Moved(d, "select", "FAILED", job[d].wrote, job[d].held)
          /\ job[d].pc = "raise" /\ job[d].retries >= MaxRetries
      BY <1>1, <2>4, OnFailureMoves DEF OnFailure
    <3>2. LooseAtStep(job'[d], s)
      BY <3>1, <1>2, Statuses DEF LooseAtStep, Moved
    <3>3. CostAtStep(job'[d], s, n)
      BY <3>1, <1>2 DEF CostAtStep, Moved
    <3>4. OnCourse(job[d], s, n) => OnCourse(job'[d], s, n)
      BY <3>1, <1>2 DEF OnCourse, Moved
    <3>5. QED
      BY <3>2, <3>3, <3>4
  <2>5. CASE Reload(d)
    <3>1. Keeps(d, Returned(d)) /\ job[d].pc = "reload"
      BY <1>1, <2>5, ReloadMoves DEF Reload
    <3>2. /\ Returned(d) \in {"prep", "tombstone", "ack"}
          /\ job[d].target = "PREPARING" => Returned(d) = "prep"
      BY DEF Returned
    <3>3. QED
      BY <3>1, <3>2, <1>2 DEF LooseAtStep, CostAtStep, OnCourse, Keeps, Moved
  <2>6. CASE DropCache(d) \/ FillCache(d) \/ Tombstone(d)
    <3>1. \/ job[d].pc = "del" /\ Keeps(d, "setex")
          \/ job[d].pc = "setex" /\ Keeps(d, "reload")
          \/ job[d].pc = "tombstone" /\ Keeps(d, "ack")
      BY <1>1, <2>6, DropCacheMoves, FillCacheMoves, TombstoneMoves
      DEF DropCache, FillCache, Tombstone
    <3>2. QED
      BY <3>1, <1>2 DEF LooseAtStep, CostAtStep, OnCourse, Keeps, Moved
  <2>7. QED
    BY <2>1, <2>2, <2>3, <2>4, <2>5, <2>6
<1>5. QED
  BY <1>1, <1>2, <1>3, <1>4 DEF Fine, OnTrack

LEMMA WriteStepsFine ==
  ASSUME TypeOK, LooseInv, NEW d \in Deliveries,
         SelectOrder(d) \/ Commit(d) \/ CommitFails(d) \/ ReadFails(d)
  PROVE  Fine(d)
<1> DEFINE o == job[d].order
           s == db[o]
           t == job[d].target
           n == used["db"]
<1>1. JobOK /\ job[d].pc # "free"
  BY DEF TypeOK, JobOK, SelectOrder, Commit, CommitFails, ReadFails
<1>2. /\ o \in Orders /\ s \in MaybeStatus /\ db \in [Orders -> MaybeStatus]
      /\ LooseAtStep(job[d], s) /\ CostAtStep(job[d], s, n)
      /\ n \in Nat /\ job[d].retries \in Nat
  BY <1>1, FaultCounts DEF TypeOK, JobOK, Job, LooseInv, LooseJobs
<1>3. CASE SelectOrder(d)
  <2>1. UNCHANGED db /\ used'["db"] = n /\ job[d].pc = "select"
    BY <1>3, FaultCounts DEF SelectOrder
  <2>2. PICK v \in Visible(d) : \/ CanBecome(v, t) /\ Keeps(d, "commit")
                                \/ ~CanBecome(v, t) /\ Errs(d)
    BY <1>1, <1>3, StepPc, StepRaises DEF SelectOrder, JobSteps
  <2>3. v = s \/ (job[d].wrote /\ v = "PREPARING")
    BY DEF Visible
  <2>4. LooseAtStep(job'[d], s)
    BY <1>2, <2>1, <2>2 DEF LooseAtStep, Keeps, Errs, Excepted, Moved
  <2>5. CASE Keeps(d, "commit")
    <3>1. CostAtStep(job'[d], s, n)
      BY <1>2, <2>1, <2>5 DEF CostAtStep, Keeps, Moved
    <3>2. OnCourse(job[d], s, n) => OnCourse(job'[d], s, n)
      BY <2>1, <2>5 DEF OnCourse, Keeps, Moved
    <3>3. QED
      BY <1>2, <2>1, <2>4, <3>1, <3>2, StillMoves DEF Fine, OnTrack
  <2>6. CASE ~CanBecome(v, t) /\ Errs(d)
    <3>1. t = "FAILED" => s \in Terminal
      BY <1>2, <2>3, <2>6, Statuses, Machine DEF LooseAtStep
    <3>2. ~(s = "PENDING" /\ t = "PREPARING") /\ ~(s = "PREPARING" /\ t = "READY")
      BY <1>2, <2>1, <2>3, <2>6, Machine DEF LooseAtStep
    <3>3. s # "PENDING"
      <4>1. t \in {"PREPARING", "FAILED"} \/ (t = "READY" /\ s \in Written)
        BY <1>2, <2>1 DEF LooseAtStep, Written
      <4>2. QED
        BY <3>1, <3>2, <4>1, Statuses
    <3>4. job'[d].pc = Excepted(d)
      BY <2>6 DEF Errs, Moved
    <3>5. CostAtStep(job'[d], s, n)
      BY <3>3, <3>4 DEF CostAtStep, Excepted
    <3>6. OnCourse(job[d], s, n) => s \in Terminal
      BY <2>1, <3>1, <3>2 DEF OnCourse
    <3>7. QED
      BY <1>2, <2>1, <2>4, <3>5, <3>6, StillMoves DEF Fine, OnTrack
  <2>7. QED
    BY <2>2, <2>5, <2>6
<1>4. CASE Commit(d) \/ CommitFails(d)
  <2>1. /\ job[d].pc = "commit" /\ t \in Written /\ (t = "READY" => s \in Written)
        /\ s \in Written \/ s = "PENDING"
    BY <1>2, <1>4, Statuses DEF Commit, CommitFails, LooseAtStep
  <2>2. Moves(s, t) /\ t \in MaybeStatus
    BY <2>1, Statuses, Machine DEF Moves, MaybeStatus
  <2>3. UNCHANGED db \/ db' = [db EXCEPT ![o] = t]
    BY <1>4 DEF Commit, CommitFails
  <2>4. RowMoves(o) /\ db'[o] \in {s, t}
    BY <1>2, <2>2, <2>3, StillMoves DEF RowMoves
  <2>5. db'[o] # None /\ (t \in Terminal \/ t = "PREPARING")
    BY <2>1, <2>4, Statuses
  <2>6. CASE Commit(d)
    <3>1. Moved(d, "del", t, t = "PREPARING", job[d].held) /\ db'[o] = t
      BY <1>1, <1>2, <2>6, CommitMoves DEF Commit
    <3>2. LooseAtStep(job'[d], db'[o])
      BY <2>1, <2>5, <3>1 DEF LooseAtStep, Moved
    <3>3. CostAtStep(job'[d], db'[o], used'["db"])
      BY <2>1, <3>1, Statuses DEF CostAtStep, Moved
    <3>4. CASE t \in Terminal
      BY <2>4, <3>1, <3>2, <3>3, <3>4 DEF Fine, OnTrack
    <3>5. CASE t = "PREPARING"
      <4>1. used'["db"] = n /\ n >= job[d].retries
        BY <1>2, <2>1, <2>6, <3>5, FaultCounts DEF Commit, CostAtStep
      <4>2. OnCourse(job'[d], db'[o], used'["db"])
        BY <3>1, <3>5, <4>1 DEF OnCourse, Moved
      <4>3. QED
        BY <2>4, <3>2, <3>3, <4>2 DEF Fine, OnTrack
    <3>6. QED
      BY <2>5, <3>4, <3>5
  <2>7. CASE CommitFails(d)
    <3>1. Errs(d) /\ used'["db"] = n + 1
      BY <1>1, <2>7, CommitFailsMoves, FaultCounts DEF CommitFails
    <3>2. job'[d].pc = Excepted(d) /\ ~job'[d].wrote /\ job'[d].retries = job[d].retries
      BY <3>1 DEF Errs, Moved
    <3>3. LooseAtStep(job'[d], db'[o])
      BY <2>5, <3>2 DEF LooseAtStep, Excepted
    <3>4. db'[o] = "PENDING" => s = "PENDING"
      BY <2>1, <2>4, Statuses
    <3>5. CostAtStep(job'[d], db'[o], used'["db"])
      BY <1>2, <3>1, <3>2, <3>4 DEF CostAtStep, Excepted
    <3>6. CASE t = "FAILED"
      <4>1. t \in Terminal /\ (OnCourse(job[d], s, n) => n >= MaxRetries + 1)
        BY <2>1, <3>6, Machine DEF OnCourse
      <4>2. OnCourse(job[d], s, n) => Excused'
        BY <1>2, <3>1, <4>1 DEF Excused
      <4>3. QED
        BY <2>4, <3>3, <3>5, <4>1, <4>2 DEF Fine, OnTrack
    <3>7. CASE t = "READY"
      <4>1. t \in Terminal
        BY <3>7, Machine
      <4>2. OnCourse(job[d], s, n) => n >= job[d].retries
        BY <2>1, <3>7 DEF OnCourse
      <4>3. OnCourse(job[d], s, n) => OnCourse(job'[d], db'[o], used'["db"])
        BY <1>2, <3>1, <3>2, <3>7, <4>2 DEF OnCourse, Excepted
      <4>4. QED
        BY <2>4, <3>3, <3>5, <4>1, <4>3 DEF Fine, OnTrack
    <3>8. CASE t = "PREPARING"
      <4>1. n >= job[d].retries
        BY <1>2, <2>1, <3>8 DEF CostAtStep
      <4>2. OnCourse(job'[d], db'[o], used'["db"])
        BY <1>2, <3>1, <3>2, <3>8, <4>1 DEF OnCourse, Excepted
      <4>3. QED
        BY <2>4, <3>3, <3>5, <4>2 DEF Fine, OnTrack
    <3>9. QED
      BY <2>1, <3>6, <3>7, <3>8 DEF Written
  <2>8. QED
    BY <1>4, <2>6, <2>7
<1>5. CASE ReadFails(d)
  <2>1. /\ Errs(d) /\ used'["db"] = n + 1 /\ UNCHANGED db
        /\ job[d].pc \in {"guard", "select", "reload"}
    BY <1>1, <1>5, ReadFailsMoves, FaultCounts DEF ReadFails
  <2>2. job'[d].pc = Excepted(d) /\ ~job'[d].wrote /\ job'[d].retries = job[d].retries
    BY <2>1 DEF Errs, Moved
  <2>3. LooseAtStep(job'[d], s)
    BY <1>2, <2>2 DEF LooseAtStep, Excepted
  <2>4. CostAtStep(job'[d], s, n + 1)
    BY <1>2, <2>2 DEF CostAtStep, Excepted
  <2>5. CASE t = "FAILED"
    <3>1. OnCourse(job[d], s, n) => n >= MaxRetries + 1
      BY <1>2, <2>1, <2>5 DEF OnCourse, LooseAtStep, None
    <3>2. OnCourse(job[d], s, n) => Excused'
      BY <1>2, <2>1, <3>1 DEF Excused
    <3>3. QED
      BY <1>2, <2>1, <2>3, <2>4, <3>2, StillMoves DEF Fine, OnTrack
  <2>6. CASE t # "FAILED"
    <3>1. OnCourse(job[d], s, n) => n >= job[d].retries
      BY <1>2, <2>1, <2>6 DEF OnCourse
    <3>2. OnCourse(job[d], s, n) => OnCourse(job'[d], s, used'["db"])
      BY <1>2, <2>1, <2>2, <2>6, <3>1 DEF OnCourse, Excepted
    <3>3. QED
      BY <1>2, <2>1, <2>3, <2>4, <3>2, StillMoves DEF Fine, OnTrack
  <2>7. QED
    BY <2>5, <2>6
<1>6. QED
  BY <1>3, <1>4, <1>5

-----------------------------------------------------------------------------
(* The invariants                                                          *)

\* After a step of delivery d alone.
LEMMA SoloLoose ==
  ASSUME TypeOK, LooseInv, NEW d \in Deliveries, SoloStep(d), [Next]_vars
  PROVE  Fine(d) /\ LooseInv'
<1> DEFINE o == job[d].order
<1>1. JobOK /\ d \in Active /\ o \in Orders /\ cache \in [Orders -> MaybeStatus]
  BY SoloMoves DEF TypeOK, JobOK, Active
<1>2. Fine(d)
  BY ReadStepsFine, WriteStepsFine DEF SoloStep, UpdateStep
<1>3. /\ UNCHANGED <<api, reader>>
      /\ \/ UNCHANGED cache
         \/ cache' = [cache EXCEPT ![o] = None]
         \/ job[d].pc = "setex" /\ cache' = [cache EXCEPT ![o] = job[d].target]
  BY DEF SoloStep, UpdateStep, Receive, SelectOrder, Commit, CommitFails, DropCache,
         FillCache, Reload, ReadFails, ReadGuard, Prepare, OnFailure, Tombstone
<1>4. PICK t \in MaybeStatus : Moves(db[o], t) /\ db' = [db EXCEPT ![o] = t]
  BY <1>2 DEF Fine, RowMoves
<1>5. \A q \in Orders : Moves(db[q], db'[q])
  BY <1>4 DEF Moves, TypeOK
<1>6. \A e \in Deliveries : job'[e].order = job[e].order /\ (e # d => job'[e] = job[e])
  BY <1>1, SoloMoves DEF Moved
<1>7. LooseJobs'
  <2> SUFFICES ASSUME NEW e \in Deliveries, job'[e].pc # "free"
               PROVE  /\ LooseAtStep(job'[e], db'[job'[e].order])
                      /\ CostAtStep(job'[e], db'[job'[e].order], used'["db"])
    BY DEF LooseJobs
  <2>1. CASE e = d
    BY <1>2, <1>6, <2>1 DEF Fine
  <2>2. CASE e # d
    <3>1. /\ job'[e] = job[e] /\ job[e].order \in Orders /\ job[e].retries \in Nat
          /\ LooseAtStep(job[e], db[job[e].order])
          /\ CostAtStep(job[e], db[job[e].order], used["db"])
      BY <1>6, <2>2 DEF LooseInv, LooseJobs, TypeOK, Job
    <3>2. used["db"] \in Nat /\ used'["db"] \in Nat /\ used'["db"] >= used["db"]
      BY DbErrorsGrow
    <3>3. QED
      BY <1>5, <3>1, <3>2, MovesOn, CostStays
  <2>3. QED
    BY <2>1, <2>2
<1>8. LooseApi'
  <2>1. api[o] # "new" /\ \A q \in Orders : q # o => db'[q] = db[q]
    BY <1>1, <1>4 DEF Active, LooseInv, LooseJobs, LooseApi, LooseAtStep, TypeOK
  <2>2. QED
    BY <1>3, <1>5, <2>1, MovesOn DEF LooseInv, LooseApi
<1>9. LooseBoard'
  <2>1. LooseAtStep(job[d], db[o]) /\ "setex" # "free"
    BY <1>1 DEF LooseInv, LooseJobs, Active
  <2>2. job[d].pc = "setex" => Behind(job[d].target, db[o])
    BY <2>1, Statuses DEF LooseAtStep, Behind
  <2>3. \A s : Behind(None, s)
    BY DEF Behind
  <2>4. \A q \in Orders : Behind(cache'[q], db[q])
    BY <1>1, <1>3, <2>2, <2>3 DEF LooseInv, LooseBoard
  <2>5. \A q \in Orders : Behind(cache'[q], db'[q])
    BY <1>5, <2>4, MovesOn
  <2>6. \A p \in Readers :
          reader'[p].status # None => Behind(reader'[p].status, db'[reader'[p].order])
    BY <1>3, <1>5, MovesOn DEF LooseInv, LooseBoard, TypeOK
  <2>7. QED
    BY <2>5, <2>6 DEF LooseBoard
<1>10. QED
  BY <1>2, <1>7, <1>8, <1>9 DEF LooseInv

LEMMA SoloCourse ==
  ASSUME TypeOK, TypeOK', LooseInv, CourseInv, NEW d \in Deliveries, SoloStep(d), [Next]_vars
  PROVE  CourseInv'
<1> DEFINE o == job[d].order
<1>1. JobOK /\ d \in Active /\ o \in Orders
  BY SoloMoves DEF TypeOK, JobOK, Active
<1>2. Fine(d)
  BY SoloLoose
<1>3. used["db"] \in Nat /\ used'["db"] \in Nat /\ used'["db"] >= used["db"]
  BY DbErrorsGrow
<1>4. \A e \in Deliveries : job'[e].order = job[e].order /\ (e # d => job'[e] = job[e])
  BY <1>1, SoloMoves DEF Moved
<1>5. UNCHANGED api
  BY DEF SoloStep, UpdateStep, Receive, SelectOrder, Commit, CommitFails, DropCache,
         FillCache, Reload, ReadFails, ReadGuard, Prepare, OnFailure, Tombstone
<1>6. \A q \in Orders : q # o => db'[q] = db[q]
  BY <1>2 DEF Fine, RowMoves, TypeOK
<1> SUFFICES ASSUME NEW q \in Orders, api[q] \in {"enqueued", "accepted"}, ~Excused'
             PROVE  Carried(q)'
  BY <1>5 DEF CourseInv
<1>7. Carried(q)
  BY ExcusedStays DEF CourseInv
<1>8. CASE db'[q] # db[q]
  <2>1. q = o
    BY <1>6, <1>8
  <2>2. db'[o] \in Terminal \/ OnCourse(job'[d], db'[o], used'["db"])
    BY <1>2, <1>8, <2>1 DEF Fine, OnTrack
  <2>3. QED
    BY <1>4, <2>1, <2>2 DEF Carried
<1>9. CASE db'[q] = db[q] /\ db[q] \notin Terminal
  <2>1. PICK e \in Deliveries : job[e].order = q /\ OnCourse(job[e], db[q], used["db"])
    BY <1>7, <1>9 DEF Carried
  <2>2. CASE e = d
    <3>1. db'[o] \in Terminal \/ OnCourse(job'[d], db'[o], used'["db"])
      BY <1>2, <2>1, <2>2 DEF Fine, OnTrack
    <3>2. QED
      BY <1>4, <2>1, <2>2, <3>1 DEF Carried
  <2>3. CASE e # d
    <3>1. OnCourse(job'[e], db'[q], used'["db"]) /\ job'[e].order = q
      BY <1>3, <1>4, <1>9, <2>1, <2>3, OnCourseStays, RetryCounts
    <3>2. QED
      BY <3>1 DEF Carried
  <2>4. QED
    BY <2>2, <2>3
<1>10. QED
  BY <1>8, <1>9 DEF Carried

\* A step of the queue about order o, at the expense of delivery d: every other
\* delivery stays, or its slot, free so far, holds a message for o.
QueueLoose(d, o) ==
  /\ \A e \in Deliveries : \/ job'[e] = job[e]
                           \/ job'[e].pc = "free"
                           \/ /\ job'[e].order = o
                              /\ LooseAtStep(job'[e], db[o])
                              /\ CostAtStep(job'[e], db[o], used'["db"])
  /\ \A e \in Deliveries : e # d /\ job[e].pc # "free" => job'[e] = job[e]

LEMMA QueueLooseInv ==
  ASSUME TypeOK, LooseInv, NEW d \in Deliveries, NEW o \in Orders, QueueLoose(d, o),
         UNCHANGED <<db, cache, api, reader>>, [Next]_vars
  PROVE  LooseInv'
<1>1. LooseJobs'
  <2>1. ASSUME NEW e \in Deliveries, job[e].pc # "free", job'[e] = job[e]
        PROVE  /\ LooseAtStep(job'[e], db[job'[e].order])
               /\ CostAtStep(job'[e], db[job'[e].order], used'["db"])
    <3>1. /\ LooseAtStep(job[e], db[job[e].order])
          /\ CostAtStep(job[e], db[job[e].order], used["db"])
      BY <2>1 DEF LooseInv, LooseJobs
    <3>2. Moves(db[job[e].order], db[job[e].order])
      BY DEF Moves
    <3>3. CostAtStep(job[e], db[job[e].order], used'["db"])
      BY <3>1, <3>2, CostStays, RetryCounts, DbErrorsGrow
    <3>4. QED
      BY <2>1, <3>1, <3>3
  <2>2. QED
    BY <2>1 DEF QueueLoose, LooseJobs
<1>2. LooseApi' /\ LooseBoard'
  BY DEF LooseInv, LooseApi, LooseBoard
<1>3. QED
  BY <1>1, <1>2 DEF LooseInv

LEMMA QueueCourseInv ==
  ASSUME TypeOK, CourseInv, NEW d \in Deliveries, QueueLoose(d, job[d].order),
         UNCHANGED <<db, api>>, [Next]_vars,
         OnCourse(job[d], db[job[d].order], used["db"]) =>
           Excused' \/ \E e \in Deliveries :
                         /\ job'[e].order = job[d].order
                         /\ OnCourse(job'[e], db[job[d].order], used'["db"])
  PROVE  CourseInv'
<1>2. used["db"] \in Nat /\ used'["db"] \in Nat /\ used'["db"] >= used["db"]
  BY DbErrorsGrow
<1> SUFFICES ASSUME NEW q \in Orders, api[q] \in {"enqueued", "accepted"}, ~Excused'
             PROVE  Carried(q)'
  BY DEF CourseInv
<1>3. Carried(q)
  BY ExcusedStays DEF CourseInv
<1>4. CASE db[q] \in Terminal
  BY <1>4 DEF Carried
<1>5. ASSUME NEW e \in Deliveries, job[e].order = q, OnCourse(job[e], db[q], used["db"])
      PROVE  Carried(q)'
  <2>1. CASE e = d
    <3>1. \E f \in Deliveries : job'[f].order = q /\ OnCourse(job'[f], db[q], used'["db"])
      BY <1>5, <2>1
    <3>2. QED
      BY <3>1 DEF Carried
  <2>2. CASE e # d
    <3>1. job[e].pc # "free"
      BY <1>5 DEF OnCourse
    <3>2. job'[e] = job[e]
      BY <2>2, <3>1 DEF QueueLoose
    <3>3. OnCourse(job'[e], db'[q], used'["db"])
      BY <1>2, <1>5, <3>2, OnCourseStays, RetryCounts
    <3>4. QED
      BY <1>5, <3>2, <3>3 DEF Carried
  <2>3. QED
    BY <2>1, <2>2
<1>6. QED
  BY <1>3, <1>4, <1>5 DEF Carried

LEMMA QueueStepLoose ==
  ASSUME TypeOK, TypeOK', LooseInv, CourseInv, Calm => IInv, NEW d \in Deliveries, [Next]_vars,
         Retry(d) \/ RetryFails(d) \/ Acknowledge(d) \/ Crash(d) \/ Redeliver(d)
  PROVE  LooseInv' /\ CourseInv'
<1> DEFINE o == job[d].order
           r == job[d].retries
           n == used["db"]
<1>1. /\ job \in [Deliveries -> Job] /\ used \in [FaultKinds -> Nat] /\ JobOK
      /\ o \in Orders /\ job[d].pc # "free" /\ job[d] \in Job
  BY DEF Retry, RetryFails, Acknowledge, Crash, Redeliver, Running, TypeOK, JobOK
<1>2. UNCHANGED <<db, cache, api, reader>>
  BY DEF Retry, RetryFails, Acknowledge, Crash, Redeliver
<1>3. /\ LooseAtStep(job[d], db[o]) /\ CostAtStep(job[d], db[o], n) /\ db[o] # None
      /\ n \in Nat /\ r \in 0..MaxRetries
  BY <1>1, RetryCounts, DbErrorsGrow DEF LooseInv, LooseJobs, LooseAtStep
<1>4. used'["db"] = n
  BY <1>1 DEF Retry, RetryFails, Acknowledge, Crash, Redeliver, NoFault, Fault, FaultKinds
<1>5. \A k : /\ Message(o, k).order = o
             /\ LooseAtStep(Message(o, k), db[o])
             /\ (db[o] = "PENDING" => n >= k) => CostAtStep(Message(o, k), db[o], n)
             /\ n >= k => OnCourse(Message(o, k), db[o], n)
  BY <1>3, MessageFields, MessageLoose
\* The message d works on, or the next try of it if d is to raise, may be queued.
<1>6. /\ CostAtStep(Message(o, r), db[o], n)
      /\ OnCourse(job[d], db[o], n) => OnCourse(Message(o, r), db[o], n)
  <2>1. db[o] = "PENDING" => n >= r
    BY <1>3 DEF CostAtStep
  <2>2. OnCourse(job[d], db[o], n) => n >= r
    BY <1>3, OnCourseCosts
  <2>3. QED
    BY <1>5, <2>1, <2>2
<1>7. job[d].pc = "raise" =>
        /\ CostAtStep(Message(o, r + 1), db[o], n)
        /\ OnCourse(job[d], db[o], n) => OnCourse(Message(o, r + 1), db[o], n)
  <2>1. job[d].pc = "raise" /\ db[o] = "PENDING" => n >= r + 1
    BY <1>3 DEF CostAtStep
  <2>2. job[d].pc = "raise" /\ OnCourse(job[d], db[o], n) => n >= r + 1
    BY DEF OnCourse
  <2>3. QED
    BY <1>5, <2>1, <2>2
<1>8. QueueLoose(d, o)
      /\ (OnCourse(job[d], db[o], n) =>
            Excused' \/ \E e \in Deliveries : /\ job'[e].order = o
                                              /\ OnCourse(job'[e], db[o], n))
  <2>1. CASE Retry(d)
    <3>1. PICK e \in Free : job' = [job EXCEPT ![d].pc = "ackRetry", ![e] = Message(o, r + 1)]
      BY <2>1 DEF Retry
    <3>2. e \in Deliveries /\ e # d /\ job[e].pc = "free" /\ job[d].pc = "raise"
      BY <1>1, <2>1, <3>1 DEF Free, Retry
    <3>3. /\ job'[e] = Message(o, r + 1)
          /\ \A f \in Deliveries : f # d /\ f # e => job'[f] = job[f]
      BY <1>1, <3>1, <3>2
    <3>4. /\ job'[e].order = o
          /\ LooseAtStep(job'[e], db[o]) /\ CostAtStep(job'[e], db[o], n)
          /\ OnCourse(job[d], db[o], n) => OnCourse(job'[e], db[o], n)
      BY <1>5, <1>7, <3>2, <3>3
    <3>5. job'[d] = [job[d] EXCEPT !.pc = "ackRetry"]
      BY <1>1, <3>1, <3>2
    <3>6. job'[d].order = o /\ LooseAtStep(job'[d], db[o]) /\ CostAtStep(job'[d], db[o], n)
      BY <1>1, <1>3, <3>5 DEF LooseAtStep, CostAtStep, Job
    <3>7. QED
      BY <1>4, <3>2, <3>3, <3>4, <3>6 DEF QueueLoose
  <2>2. CASE RetryFails(d)
    <3>1. used'["broker"] > 0
      BY <1>1, <2>2 DEF RetryFails, Fault, FaultKinds
    <3>2. CASE job' = [job EXCEPT ![d] = FreeSlot]
      <4>1. job'[d].pc = "free" /\ \A f \in Deliveries : f # d => job'[f] = job[f]
        BY <1>1, <3>2, FreeSlotType
      <4>2. QED
        BY <3>1, <4>1 DEF QueueLoose, Excused
    <3>3. ASSUME NEW e \in Free, job' = [job EXCEPT ![d] = FreeSlot, ![e] = Message(o, r + 1)]
          PROVE  QueueLoose(d, o) /\ Excused'
      <4>1. e \in Deliveries /\ e # d /\ job[e].pc = "free"
        BY <1>1 DEF Free
      <4>2. /\ job'[e] = Message(o, r + 1) /\ job'[d].pc = "free"
            /\ \A f \in Deliveries : f # d /\ f # e => job'[f] = job[f]
        BY <1>1, <3>3, <4>1, FreeSlotType
      <4>3. /\ job'[e].order = o
            /\ LooseAtStep(job'[e], db[o]) /\ CostAtStep(job'[e], db[o], n)
        BY <1>5, <1>7, <2>2, <4>2 DEF RetryFails
      <4>4. QED
        BY <1>4, <3>1, <4>1, <4>2, <4>3 DEF QueueLoose, Excused
    <3>4. QED
      BY <2>2, <3>2, <3>3 DEF RetryFails
  <2>3. CASE Acknowledge(d)
    <3>1. /\ job'[d].pc = "free" /\ \A f \in Deliveries : f # d => job'[f] = job[f]
          /\ job[d].pc \in {"ack", "ackRetry"}
      BY <1>1, <2>3, FreeSlotType DEF Acknowledge
    <3>2. QED
      BY <3>1 DEF QueueLoose, OnCourse
  <2>4. CASE Crash(d)
    <3>1. /\ used["crash"] \in Nat /\ used["duplicate"] \in Nat
          /\ ~job[d].held => /\ used'["crash"] = used["crash"] + 1
                             /\ used'["duplicate"] = used["duplicate"]
      BY <1>1, <2>4 DEF Crash, Fault, FaultKinds
    <3>2. /\ \A f \in Deliveries : f # d => job'[f] = job[f]
          /\ job[d].held => job'[d] = Message(o, r)
          /\ ~job[d].held => job'[d].pc = "free"
      BY <1>1, <2>4, FreeSlotType DEF Crash
    <3>3. CASE job[d].held
      <4>1. /\ job'[d].order = o
            /\ LooseAtStep(job'[d], db[o]) /\ CostAtStep(job'[d], db[o], n)
            /\ OnCourse(job[d], db[o], n) => OnCourse(job'[d], db[o], n)
        BY <1>5, <1>6, <3>2, <3>3
      <4>2. QED
        BY <1>4, <3>2, <4>1 DEF QueueLoose
    <3>4. CASE ~job[d].held
      <4>1. ASSUME OnCourse(job[d], db[o], n) PROVE ~Calm
        <5>1. d \in Active /\ job[d].pc # "queued"
          BY <2>4, <4>1 DEF OnCourse, Active, Crash, Running
        <5>2. QED
          BY <3>4, <5>1 DEF IInv, HandlerInv, AtStep
      <4>2. OnCourse(job[d], db[o], n) => Excused'
        BY <3>1, <3>4, <4>1 DEF Calm, Excused
      <4>3. QED
        BY <3>2, <3>4, <4>2 DEF QueueLoose
    <3>5. QED
      BY <3>3, <3>4
  <2>5. CASE Redeliver(d)
    <3>1. PICK e \in Free : job' = [job EXCEPT ![d].held = FALSE, ![e] = Message(o, r)]
      BY <2>5 DEF Redeliver
    <3>2. e \in Deliveries /\ e # d /\ job[e].pc = "free"
      BY <1>1, <3>1 DEF Free
    <3>3. /\ job'[e] = Message(o, r)
          /\ \A f \in Deliveries : f # d /\ f # e => job'[f] = job[f]
      BY <1>1, <3>1, <3>2
    <3>4. /\ job'[e].order = o
          /\ LooseAtStep(job'[e], db[o]) /\ CostAtStep(job'[e], db[o], n)
          /\ OnCourse(job[d], db[o], n) => OnCourse(job'[e], db[o], n)
      BY <1>5, <1>6, <3>2, <3>3
    <3>5. job'[d] = [job[d] EXCEPT !.held = FALSE]
      BY <1>1, <3>1, <3>2
    <3>6. job'[d].order = o /\ LooseAtStep(job'[d], db[o]) /\ CostAtStep(job'[d], db[o], n)
      BY <1>1, <1>3, <3>5 DEF LooseAtStep, CostAtStep, Job
    <3>7. QED
      BY <1>4, <3>2, <3>3, <3>4, <3>6 DEF QueueLoose
  <2>6. QED
    BY <2>1, <2>2, <2>3, <2>4, <2>5
<1>9. QED
  BY <1>1, <1>2, <1>4, <1>8, QueueLooseInv, QueueCourseInv

\* A step of the API or of a poller: rows once there stay, and an order newly
\* given to Celery has a message in the queue.
LEMMA StillCourse ==
  ASSUME TypeOK, CourseInv, [Next]_vars,
         LooseInv,
         \A e \in Deliveries : job[e].pc # "free" => job'[e] = job[e],
         \A o \in Orders : db[o] # None => db'[o] = db[o],
         \A o \in Orders : api'[o] \in {"enqueued", "accepted"} =>
           \/ api[o] \in {"enqueued", "accepted"}
           \/ \E e \in Deliveries : job'[e] = Message(o, 0)
  PROVE  CourseInv'
<1>2. used["db"] \in Nat /\ used'["db"] \in Nat /\ used'["db"] >= used["db"]
  BY DbErrorsGrow
<1> SUFFICES ASSUME NEW q \in Orders, api'[q] \in {"enqueued", "accepted"}, ~Excused'
             PROVE  Carried(q)'
  BY DEF CourseInv
<1>3. ASSUME NEW e \in Deliveries, job'[e] = Message(q, 0) PROVE Carried(q)'
  <2>1. job'[e].order = q /\ OnCourse(job'[e], db'[q], used'["db"])
    BY <1>2, <1>3, MessageFields, MessageLoose
  <2>2. QED
    BY <2>1 DEF Carried
<1>4. CASE api[q] \in {"enqueued", "accepted"}
  <2>1. Carried(q)
    BY <1>4, ExcusedStays DEF CourseInv
  <2>2. CASE db[q] \in Terminal
    BY <2>2, Statuses DEF Carried
  <2>3. ASSUME NEW e \in Deliveries, job[e].order = q, OnCourse(job[e], db[q], used["db"])
        PROVE  Carried(q)'
    <3>1. job[e].pc # "free"
      BY <2>3 DEF OnCourse
    <3>2. job'[e] = job[e] /\ db'[q] = db[q]
      BY <2>3, <3>1 DEF LooseInv, LooseJobs, LooseAtStep
    <3>3. OnCourse(job'[e], db'[q], used'["db"])
      BY <1>2, <2>3, <3>2, OnCourseStays, RetryCounts
    <3>4. QED
      BY <2>3, <3>2, <3>3 DEF Carried
  <2>4. QED
    BY <2>1, <2>2, <2>3 DEF Carried
<1>5. QED
  BY <1>3, <1>4

LEMMA OrderStepLoose ==
  ASSUME TypeOK, LooseInv, CourseInv, NEW o \in Orders, OrderStep(o), [Next]_vars
  PROVE  LooseInv' /\ CourseInv'
<1>1. /\ db \in [Orders -> MaybeStatus] /\ cache \in [Orders -> MaybeStatus]
      /\ api \in [Orders -> ApiSteps] /\ JobOK
      /\ UNCHANGED reader
  BY Untouched DEF TypeOK, JobOK
<1>2. \A q \in Orders : q # o => db'[q] = db[q] /\ api'[q] = api[q]
  BY <1>1 DEF OrderStep, ApiStep, Place, PlaceFails, Enqueue, EnqueueFails, Respond,
              ApiCrash, LogTombstone, Expire
<1>3. /\ db[o] = None \/ db'[o] = db[o]
      /\ api'[o] = "new" => db'[o] = None
      /\ api'[o] = "committed" => db'[o] # None
      /\ api'[o] \in {"enqueued", "accepted"} =>
           \/ api[o] \in {"enqueued", "accepted"}
           \/ Enqueue(o)
  <2>1. CASE Place(o) \/ PlaceFails(o)
    BY <1>1, <2>1, Statuses DEF Place, PlaceFails, LooseInv, LooseApi
  <2>2. CASE Enqueue(o) \/ EnqueueFails(o) \/ Respond(o) \/ ApiCrash(o)
    BY <1>1, <2>2 DEF Enqueue, EnqueueFails, Respond, ApiCrash
  <2>3. CASE LogTombstone(o) \/ Expire(o)
    BY <2>3 DEF LogTombstone, Expire, LooseInv, LooseApi
  <2>4. QED
    BY <2>1, <2>2, <2>3 DEF OrderStep, ApiStep
<1>4. \A q \in Orders : db[q] # None => db'[q] = db[q]
  BY <1>2, <1>3
<1>5. \/ UNCHANGED job /\ ~Enqueue(o)
      \/ /\ api[o] = "committed"
         /\ \E e \in Free : job' = [job EXCEPT ![e] = Message(o, 0)]
  <2>1. CASE Enqueue(o) \/ EnqueueFails(o)
    BY <2>1 DEF Enqueue, EnqueueFails
  <2>2. CASE ~(Enqueue(o) \/ EnqueueFails(o))
    BY <2>2 DEF OrderStep, ApiStep, Place, PlaceFails, Respond, ApiCrash, LogTombstone, Expire
  <2>3. QED
    BY <2>1, <2>2
<1>6. LooseApi'
  BY <1>2, <1>3 DEF LooseInv, LooseApi
<1>7. LooseBoard'
  <2>1. \A x, q : q \in Orders /\ Behind(x, db[q]) => Behind(x, db'[q])
    BY <1>4 DEF Behind
  <2>2. cache' = cache \/ cache' = [cache EXCEPT ![o] = None]
    BY DEF OrderStep, ApiStep, Place, PlaceFails, Enqueue, EnqueueFails, Respond,
           ApiCrash, LogTombstone, Expire
  <2>3. \A q \in Orders : cache'[q] = cache[q] \/ cache'[q] = None
    BY <1>1, <2>2
  <2>4. \A q \in Orders : Behind(cache'[q], db'[q])
    BY <2>1, <2>3 DEF LooseInv, LooseBoard, Behind
  <2>5. \A p \in Readers :
          reader'[p].status # None => Behind(reader'[p].status, db'[reader'[p].order])
    BY <1>1, <2>1 DEF LooseInv, LooseBoard, TypeOK
  <2>6. QED
    BY <2>4, <2>5 DEF LooseBoard
<1>8. ASSUME NEW e \in Deliveries, job[e].pc # "free"
      PROVE  /\ LooseAtStep(job[e], db'[job[e].order])
             /\ CostAtStep(job[e], db'[job[e].order], used'["db"])
  <2>1. /\ job[e].order \in Orders /\ db[job[e].order] # None
        /\ LooseAtStep(job[e], db[job[e].order])
        /\ CostAtStep(job[e], db[job[e].order], used["db"])
    BY <1>8 DEF LooseInv, LooseJobs, LooseAtStep, TypeOK
  <2>2. db'[job[e].order] = db[job[e].order] /\ Moves(db[job[e].order], db[job[e].order])
    BY <1>4, <2>1 DEF Moves
  <2>3. QED
    BY <2>1, <2>2, CostStays, RetryCounts, DbErrorsGrow
<1>9. CASE UNCHANGED job /\ ~Enqueue(o)
  <2>1. LooseJobs'
    BY <1>8, <1>9 DEF LooseJobs
  <2>2. CourseInv'
    BY <1>2, <1>3, <1>4, <1>9, StillCourse
  <2>3. QED
    BY <1>6, <1>7, <2>1, <2>2 DEF LooseInv
<1>10. ASSUME NEW e \in Free, api[o] = "committed", job' = [job EXCEPT ![e] = Message(o, 0)]
       PROVE  LooseInv' /\ CourseInv'
  <2>1. e \in Deliveries /\ job[e].pc = "free" /\ db[o] # None
    BY <1>10 DEF Free, LooseInv, LooseApi
  <2>2. job'[e] = Message(o, 0) /\ \A f \in Deliveries : f # e => job'[f] = job[f]
    BY <1>1, <1>10, <2>1 DEF JobOK
  <2>3. /\ job'[e].order = o
        /\ LooseAtStep(job'[e], db'[o]) /\ CostAtStep(job'[e], db'[o], used'["db"])
    <3>1. db'[o] # None /\ used'["db"] >= 0
      BY <1>4, <2>1, DbErrorsGrow
    <3>2. /\ Message(o, 0).order = o
          /\ LooseAtStep(Message(o, 0), db'[o])
          /\ CostAtStep(Message(o, 0), db'[o], used'["db"])
      BY <3>1, MessageFields, MessageLoose
    <3>3. QED
      BY <2>2, <3>2
  <2>4. LooseJobs'
    BY <1>8, <2>2, <2>3 DEF LooseJobs
  <2>5. \A f \in Deliveries : job[f].pc # "free" => job'[f] = job[f]
    BY <2>1, <2>2
  <2>6. CourseInv'
    BY <1>2, <1>3, <1>4, <2>1, <2>2, <2>5, StillCourse
  <2>7. QED
    BY <1>6, <1>7, <2>4, <2>6 DEF LooseInv
<1>11. QED
  BY <1>5, <1>9, <1>10

LEMMA ReaderStepLoose ==
  ASSUME TypeOK, LooseInv, CourseInv, NEW p \in Readers, ReaderStep(p), [Next]_vars
  PROVE  LooseInv' /\ CourseInv'
<1>1. /\ cache \in [Orders -> MaybeStatus] /\ reader \in [Readers -> Reader]
      /\ UNCHANGED <<db, api, job>>
      /\ \A q \in Readers : q # p => reader'[q] = reader[q]
  BY DEF TypeOK, ReaderStep, PollStep, PollRead, PollReadFails, PollFill, PollHit, PollMiss
<1>2. CourseInv'
  BY <1>1, StillCourse
<1>3. LooseJobs' /\ LooseApi'
  <2>1. \A e \in Deliveries : job[e].pc # "free" =>
          CostAtStep(job[e], db[job[e].order], used'["db"])
    <3>1. \A s : Moves(s, s)
      BY DEF Moves
    <3>2. QED
      BY <3>1, CostStays, RetryCounts, DbErrorsGrow DEF LooseInv, LooseJobs
  <2>2. QED
    BY <1>1, <2>1 DEF LooseInv, LooseJobs, LooseApi
<1>4. \A s \in MaybeStatus : s # None => Behind(s, s)
  BY Statuses DEF Behind
<1>5. reader'[p].status # None => Behind(reader'[p].status, db[reader'[p].order])
  <2>1. reader[p].status # None => Behind(reader[p].status, db[reader[p].order])
    BY DEF LooseInv, LooseBoard
  <2>2. CASE PollRead(p)
    <3>1. /\ reader'[p].order = reader[p].order
          /\ reader'[p].status = db[reader[p].order]
          /\ reader[p].order \in Orders
      BY <1>1, <2>2 DEF PollRead, Reader, TypeOK
    <3>2. db[reader[p].order] \in MaybeStatus
      BY <3>1 DEF TypeOK
    <3>3. QED
      BY <1>4, <3>1, <3>2
  <2>3. CASE PollReadFails(p) \/ PollFill(p)
    <3>1. reader'[p].order = reader[p].order /\ reader'[p].status = reader[p].status
      BY <1>1, <2>3 DEF PollReadFails, PollFill, Reader
    <3>2. QED
      BY <2>1, <3>1
  <2>4. ASSUME NEW o \in Orders, PollHit(p, o)
        PROVE  Behind(reader'[p].status, db[reader'[p].order])
    <3>1. reader'[p].order = o /\ reader'[p].status = cache[o]
      BY <1>1, <2>4 DEF PollHit, Reader
    <3>2. QED
      BY <3>1 DEF LooseInv, LooseBoard
  <2>5. ASSUME NEW o \in Orders, PollMiss(p, o) PROVE reader'[p].status = None
    BY <1>1, <2>5 DEF PollMiss
  <2>6. QED
    BY <2>2, <2>3, <2>4, <2>5 DEF ReaderStep, PollStep
<1>6. \A o \in Orders : Behind(cache'[o], db[o])
  <2>1. CASE cache' = cache
    BY <2>1 DEF LooseInv, LooseBoard
  <2>2. CASE cache' = [cache EXCEPT ![reader[p].order] = reader[p].status]
    <3>1. Behind(reader[p].status, db[reader[p].order])
      BY DEF LooseInv, LooseBoard, Behind
    <3>2. \A o \in Orders : Behind(cache[o], db[o])
      BY DEF LooseInv, LooseBoard
    <3>3. QED
      BY <1>1, <2>2, <3>1, <3>2
  <2>3. QED
    BY <2>1, <2>2 DEF ReaderStep, PollStep, PollRead, PollReadFails, PollFill, PollHit, PollMiss
<1>7. LooseBoard'
  BY <1>1, <1>5, <1>6 DEF LooseInv, LooseBoard
<1>8. QED
  BY <1>2, <1>3, <1>7 DEF LooseInv

LEMMA LooseInit == Init => LooseInv /\ CourseInv
<1> SUFFICES ASSUME Init PROVE LooseInv /\ CourseInv
  OBVIOUS
<1>1. /\ \A d \in Deliveries : job[d].pc = "free"
      /\ \A o \in Orders : db[o] = None /\ cache[o] = None /\ api[o] = "new"
      /\ \A p \in Readers : reader[p].status = None
  BY FreeSlotType DEF Init
<1>2. QED
  BY <1>1 DEF LooseInv, LooseJobs, LooseApi, LooseBoard, Behind, CourseInv

LEMMA LooseStep ==
  ASSUME TypeOK, TypeOK', Calm => IInv, LooseInv, CourseInv, [Next]_vars
  PROVE  LooseInv' /\ CourseInv'
<1>1. CASE UNCHANGED vars
  <2>1. UNCHANGED <<db, cache, api, job, reader, used>>
    BY <1>1 DEF vars
  <2>2. LooseInv'
    BY <2>1 DEF LooseInv, LooseJobs, LooseApi, LooseBoard
  <2>3. CourseInv'
    BY <2>1, StillCourse
  <2>4. QED
    BY <2>2, <2>3
<1>2. ASSUME NEW d \in Deliveries, DeliveryStep(d) PROVE LooseInv' /\ CourseInv'
  <2>1. CASE SoloStep(d)
    BY <2>1, SoloLoose, SoloCourse
  <2>2. CASE ~SoloStep(d)
    BY <1>2, <2>2, QueueStepLoose DEF DeliveryStep, SoloStep, TaskStep
  <2>3. QED
    BY <2>1, <2>2
<1>3. CASE Next
  BY <1>2, <1>3, NextCases, OrderStepLoose, ReaderStepLoose
<1>4. QED
  BY <1>1, <1>3

\* Under any faults at all, redeliveries included, no row goes back to PENDING
\* beneath a task that has started it, and whoever leaves an order in a
\* non-terminal status is there to carry it on.
THEOREM LooseInvariance == Spec => [](LooseInv /\ CourseInv)
<1>1. TypeOK /\ TypeOK' /\ (Calm => IInv) /\ (LooseInv /\ CourseInv) /\ [Next]_vars
        => (LooseInv /\ CourseInv)'
  BY LooseStep
<1>2. QED
  BY <1>1, LooseInit, TypeCorrect, Invariance, PTL DEF Spec

\* An order handed to Celery is settled or being worked on, unless a publish was
\* lost, every attempt and on_failure's write failed on the database, or a message
\* was delivered twice and a worker lost: crashes alone, or redeliveries alone,
\* never drop an order.
THEOREM NoneDropped == Spec => []NoOrderDropped
<1>1. TypeOK /\ CourseInv => NoOrderDropped
  <2> SUFFICES ASSUME TypeOK, CourseInv, NEW o \in Orders, api[o] \in {"enqueued", "accepted"},
                      db[o] \notin Terminal, ~Excused
               PROVE  \E d \in Active : job[d].order = o
    BY DEF NoOrderDropped, Excused
  <2>1. PICK d \in Deliveries : job[d].order = o /\ OnCourse(job[d], db[o], used["db"])
    BY DEF CourseInv, Carried
  <2>2. d \in Active
    BY <2>1 DEF OnCourse, Active
  <2>3. QED
    BY <2>1, <2>2
<1>2. QED
  BY <1>1, TypeCorrect, LooseInvariance, PTL

-----------------------------------------------------------------------------
(* The loosened promise                                                    *)

LEMMA LooseDbStep ==
  ASSUME TypeOK, LooseInv, [Next]_vars
  PROVE  \/ UNCHANGED db
         \/ /\ UNCHANGED cache
            /\ \E o \in Orders : \/ Inserts(o)
                                 \/ \E s \in Status : /\ LoosePromise!May(db[o], s)
                                                      /\ db' = [db EXCEPT ![o] = s]
<1>1. CASE UNCHANGED vars
  BY <1>1 DEF vars
<1>2. ASSUME NEW p \in Readers, ReaderStep(p) PROVE UNCHANGED db
  BY <1>2 DEF ReaderStep, PollStep, PollRead, PollReadFails, PollFill, PollHit, PollMiss
<1>3. ASSUME NEW o \in Orders, OrderStep(o) PROVE UNCHANGED db \/ (Inserts(o) /\ UNCHANGED cache)
  <2>1. CASE Place(o) \/ PlaceFails(o)
    <3>1. /\ db \in [Orders -> MaybeStatus] /\ db[o] = None /\ UNCHANGED cache
          /\ db' = [db EXCEPT ![o] = None] \/ db' = [db EXCEPT ![o] = "PENDING"]
      BY <2>1 DEF TypeOK, Place, PlaceFails, LooseInv, LooseApi
    <3>2. QED
      BY <3>1 DEF Inserts
  <2>2. CASE ~(Place(o) \/ PlaceFails(o))
    BY <1>3, <2>2 DEF OrderStep, ApiStep, Enqueue, EnqueueFails, Respond, ApiCrash,
                      LogTombstone, Expire
  <2>3. QED
    BY <2>1, <2>2
<1>4. ASSUME NEW d \in Deliveries, DeliveryStep(d)
      PROVE  \/ UNCHANGED db
             \/ /\ UNCHANGED cache /\ job[d].order \in Orders
                /\ \E s \in Status : /\ LoosePromise!May(db[job[d].order], s)
                                     /\ db' = [db EXCEPT ![job[d].order] = s]
  <2> DEFINE o == job[d].order
  <2>1. CASE Commit(d) \/ CommitFails(d)
    <3>1. UNCHANGED cache /\ job[d].pc # "free" /\ o \in Orders /\ db \in [Orders -> MaybeStatus]
      BY <2>1 DEF Commit, CommitFails, TypeOK
    <3>2. RowMoves(o)
      BY <2>1, WriteStepsFine DEF Fine
    <3>3. PICK t \in MaybeStatus : Moves(db[o], t) /\ db' = [db EXCEPT ![o] = t]
      BY <3>2 DEF RowMoves
    <3>4. CASE t = db[o]
      BY <3>1, <3>3, <3>4
    <3>5. CASE t \in Written /\ (CanBecome(db[o], t) \/ db[o] \in Written)
      <4>1. t \in Status /\ LoosePromise!May(db[o], t)
        BY <3>5, Statuses, LooseMachine
      <4>2. QED
        BY <3>1, <3>3, <4>1
    <3>6. QED
      BY <3>3, <3>4, <3>5 DEF Moves
  <2>2. CASE ~(Commit(d) \/ CommitFails(d))
    BY <1>4, <2>2 DEF DeliveryStep, Receive, UpdateStep, TaskStep, SelectOrder, DropCache,
                FillCache, Reload, ReadFails, ReadGuard, Prepare, Retry, RetryFails, OnFailure,
                Tombstone, Acknowledge, Crash, Redeliver
  <2>3. QED
    BY <2>1, <2>2
<1>5. CASE Next
  BY <1>2, <1>3, <1>4, <1>5, NextCases
<1>6. QED
  BY <1>1, <1>5

LEMMA LooseCacheStep ==
  ASSUME TypeOK, LooseInv, [Next]_vars
  PROVE  \/ UNCHANGED cache
         \/ \E o \in Orders : \/ cache' = [cache EXCEPT ![o] = None]
                              \/ \E s \in Status : /\ LoosePromise!NotAhead(s, db[o])
                                                   /\ cache' = [cache EXCEPT ![o] = s]
<1>1. CASE UNCHANGED vars
  BY <1>1 DEF vars
<1>2. ASSUME NEW o \in Orders, OrderStep(o)
      PROVE  UNCHANGED cache \/ cache' = [cache EXCEPT ![o] = None]
  BY <1>2 DEF OrderStep, Place, PlaceFails, ApiStep, Enqueue, EnqueueFails, Respond, ApiCrash,
              LogTombstone, Expire
<1>3. ASSUME NEW o \in Orders, NEW x \in MaybeStatus, Behind(x, db[o]),
             cache' = [cache EXCEPT ![o] = x]
      PROVE  \/ cache' = [cache EXCEPT ![o] = None]
             \/ \E s \in Status : /\ LoosePromise!NotAhead(s, db[o])
                                  /\ cache' = [cache EXCEPT ![o] = s]
  <2>1. CASE x \in Status
    <3>1. LoosePromise!NotAhead(x, db[o])
      BY <1>3, <2>1, BehindIsNotAhead DEF TypeOK
    <3>2. QED
      BY <1>3, <2>1, <3>1
  <2>2. QED
    BY <1>3, <2>1 DEF MaybeStatus
<1>4. ASSUME NEW p \in Readers, ReaderStep(p)
      PROVE  \/ UNCHANGED cache
             \/ \E o \in Orders : \E x \in MaybeStatus :
                  Behind(x, db[o]) /\ cache' = [cache EXCEPT ![o] = x]
  <2>1. CASE PollFill(p)
    <3>1. reader[p].order \in Orders /\ reader[p].status \in MaybeStatus
      BY <2>1 DEF PollFill, TypeOK, Reader
    <3>2. Behind(reader[p].status, db[reader[p].order])
      BY DEF LooseInv, LooseBoard, Behind
    <3>3. UNCHANGED cache \/ cache' = [cache EXCEPT ![reader[p].order] = reader[p].status]
      BY <2>1 DEF PollFill
    <3>4. QED
      BY <3>1, <3>2, <3>3
  <2>2. CASE ~PollFill(p)
    BY <1>4, <2>2 DEF ReaderStep, PollStep, PollRead, PollReadFails, PollHit, PollMiss
  <2>3. QED
    BY <2>1, <2>2
<1>5. ASSUME NEW d \in Deliveries, DeliveryStep(d)
      PROVE  \/ UNCHANGED cache
             \/ \E o \in Orders : \E x \in MaybeStatus :
                  Behind(x, db[o]) /\ cache' = [cache EXCEPT ![o] = x]
  <2>1. CASE DropCache(d) \/ FillCache(d)
    <3>1. job[d].pc \in {"del", "setex"}
      BY <2>1 DEF DropCache, FillCache
    <3>2. job[d].order \in Orders /\ LooseAtStep(job[d], db[job[d].order])
      BY <3>1 DEF LooseInv, LooseJobs, TypeOK
    <3>3. /\ job[d].target \in MaybeStatus /\ None \in MaybeStatus
          /\ Behind(job[d].target, db[job[d].order]) /\ Behind(None, db[job[d].order])
      BY <3>1, <3>2, Statuses DEF LooseAtStep, Behind, MaybeStatus
    <3>4. \/ UNCHANGED cache
          \/ cache' = [cache EXCEPT ![job[d].order] = None]
          \/ cache' = [cache EXCEPT ![job[d].order] = job[d].target]
      BY <2>1 DEF DropCache, FillCache
    <3>5. QED
      BY <3>2, <3>3, <3>4
  <2>2. CASE ~(DropCache(d) \/ FillCache(d))
    BY <1>5, <2>2 DEF DeliveryStep, Receive, UpdateStep, TaskStep, SelectOrder, Commit,
         CommitFails, Reload, ReadFails, ReadGuard, Prepare, Retry, RetryFails, OnFailure,
         Tombstone, Acknowledge, Crash, Redeliver
  <2>3. QED
    BY <2>1, <2>2
<1>6. CASE Next
  <2>1. CASE \E o \in Orders : OrderStep(o)
    BY <1>2, <2>1
  <2>2. CASE \E d \in Deliveries : DeliveryStep(d)
    BY <1>3, <1>5, <2>2
  <2>3. CASE \E p \in Readers : ReaderStep(p)
    BY <1>3, <1>4, <2>3
  <2>4. QED
    BY <1>6, <2>1, <2>2, <2>3, NextCases
<1>7. QED
  BY <1>1, <1>6

\* Whatever the faults, Postgres and Redis implement OrderLifecycle with the
\* looser state machine: an order never becomes PENDING again, does not go from
\* PENDING straight to READY, and is not shown as started before it is.
THEOREM LooseRefinement == Spec => KeepsLoosePromise
<1>1. Init => LoosePromise!Init
  BY LooseMachine DEF Init, LoosePromise!Init
<1>2. TypeOK /\ LooseInv /\ [Next]_vars => [LoosePromise!Next]_(LoosePromise!lifecycle)
  <2> SUFFICES ASSUME TypeOK, LooseInv, [Next]_vars
               PROVE  LoosePromise!Next \/ UNCHANGED <<db, cache>>
    BY DEF LoosePromise!lifecycle
  <2>1. CASE UNCHANGED db
    <3>1. CASE UNCHANGED cache
      BY <2>1, <3>1
    <3>2. ASSUME NEW o \in Orders, cache' = [cache EXCEPT ![o] = None]
          PROVE  LoosePromise!TakenDown(o)
      BY <2>1, <3>2, LooseMachine DEF LoosePromise!TakenDown
    <3>3. ASSUME NEW o \in Orders, NEW s \in Status, LoosePromise!NotAhead(s, db[o]),
                 cache' = [cache EXCEPT ![o] = s]
          PROVE  LoosePromise!Posted(o)
      BY <2>1, <3>3, LooseMachine DEF LoosePromise!Posted
    <3>4. QED
      BY <2>1, <3>1, <3>2, <3>3, LooseCacheStep DEF LoosePromise!Next
  <2>2. ASSUME NEW o \in Orders, Inserts(o), UNCHANGED cache PROVE LoosePromise!Placed(o)
    BY <2>2, LooseMachine DEF LoosePromise!Placed, Inserts
  <2>3. ASSUME NEW o \in Orders, NEW s \in Status, LoosePromise!May(db[o], s),
               db' = [db EXCEPT ![o] = s], UNCHANGED cache
        PROVE  LoosePromise!Advanced(o)
    BY <2>3, LooseMachine DEF LoosePromise!Advanced
  <2>4. QED
    BY <2>1, <2>2, <2>3, LooseDbStep DEF LoosePromise!Next
<1>3. QED
  BY <1>1, <1>2, TypeCorrect, LooseInvariance, PTL DEF Spec, KeepsLoosePromise, LoosePromise!Spec

=============================================================================
