-------------------------- MODULE MenuCacheProofs --------------------------
(* For every number of meals, writers and listings and every number of     *)
(* faults: MenuCache is well typed, the cached menu is stale only for one  *)
(* of the reasons StaleMenuExplained names, and the stock departs from the *)
(* deliveries entered only as StockExplained says.                         *)
EXTENDS MenuCache, TLAPS

UsedOK == /\ used \in [FaultKinds -> Nat]
          /\ \A k \in FaultKinds : used[k] <= Limit[k]

\* A step of the model costs no fault, or one within the limit, and forgets none.
LEMMA FaultCounted ==
  ASSUME UsedOK, NEW k \in FaultKinds, Fault(k)
  PROVE  UsedOK' /\ used'[k] > 0 /\ \A j \in FaultKinds : used[j] > 0 => used'[j] > 0
<1>1. used[k] \in Nat /\ Limit[k] \in Nat /\ used[k] < Limit[k]
  BY MenuLimitAssumption DEF Fault, UsedOK
<1>2. /\ used'[k] = used[k] + 1 /\ \A j \in FaultKinds : j # k => used'[j] = used[j]
      /\ used' = [used EXCEPT ![k] = used[k] + 1]
  BY DEF Fault, UsedOK
<1>3. used' \in [FaultKinds -> Nat]
  BY <1>1, <1>2 DEF UsedOK
<1>4. \A j \in FaultKinds : used'[j] <= Limit[j]
  BY <1>1, <1>2 DEF UsedOK
<1>5. QED
  BY <1>1, <1>2, <1>3, <1>4 DEF UsedOK

Counts == NoFault \/ \E k \in FaultKinds : Fault(k)

LEMMA StepCounts ==
  ASSUME Next
  PROVE  Counts
<1>1. ASSUME NEW s \in Staff, NEW m \in Meals, CreateMeal(s, m) \/ CreateMealFails(s, m)
      PROVE  Counts
  BY <1>1 DEF CreateMeal, CreateMealFails, Counts, FaultKinds
<1>2. ASSUME NEW s \in Staff, WriteStep(s) \/ StaffCrash(s)
      PROVE  Counts
  BY <1>2 DEF WriteStep, CommitStock, CommitStockFails, Refresh, Invalidate, StaffCrash,
              Counts, FaultKinds
<1>5. ASSUME NEW s \in Staff, CreateIngredient(s) \/ ReadStock(s) \/ LoadStock(s)
      PROVE  Counts
  BY <1>5 DEF CreateIngredient, ReadStock, LoadStock, Counts, FaultKinds
<1>3. ASSUME NEW l \in Listers, ListMiss(l) \/ ListStep(l) PROVE Counts
  BY <1>3 DEF ListMiss, ListStep, ListRead, ListFill, Counts, FaultKinds
<1>4. QED
  BY <1>1, <1>2, <1>3, <1>5 DEF Next, Expire, Counts

LEMMA UsedStep ==
  ASSUME UsedOK, Counts
  PROVE  UsedOK' /\ \A j \in FaultKinds : used[j] > 0 => used'[j] > 0
<1>1. CASE NoFault
  BY <1>1 DEF NoFault, UsedOK
<1>2. QED
  BY <1>1, FaultCounted DEF Counts

LEMMA InitType == Init => TypeOK
<1> SUFFICES ASSUME Init PROVE TypeOK
  OBVIOUS
<1>1. /\ NotWriting \in Writing
      /\ [pc |-> "idle", got |-> {}] \in Listing
  BY DEF NotWriting, Writing, Listing
<1>2. staff \in [Staff -> Writing] /\ lister \in [Listers -> Listing]
  BY <1>1 DEF Init
<1>3. used \in [FaultKinds -> Nat] /\ \A k \in FaultKinds : used[k] <= Limit[k]
  BY MenuLimitAssumption DEF Init
<1>4. /\ meals \subseteq Meals /\ menu = NoMenu /\ late = FALSE
      /\ stock \in Nat /\ received \in Nat /\ crossed \in BOOLEAN
  BY DEF Init
<1>5. QED
  BY <1>2, <1>3, <1>4 DEF TypeOK

LEMMA StepType ==
  ASSUME TypeOK, Next
  PROVE  TypeOK'
<1>1. UsedOK'
  BY StepCounts, UsedStep DEF TypeOK, UsedOK
<1> DEFINE RestOK == /\ meals \subseteq Meals
                     /\ menu = NoMenu \/ menu \in SUBSET Meals
                     /\ staff \in [Staff -> Writing]
                     /\ lister \in [Listers -> Listing]
                     /\ stock \in Nat
                     /\ received \in Nat
                     /\ crossed \in BOOLEAN
                     /\ late \in BOOLEAN
<1>2. RestOK
  BY DEF TypeOK
<1>3. ASSUME NEW s \in Staff, NEW m \in Meals, CreateMeal(s, m) \/ CreateMealFails(s, m)
      PROVE  RestOK'
  BY <1>2, <1>3 DEF CreateMeal, CreateMealFails, Writing, ledger
<1>4. ASSUME NEW s \in Staff, Refresh(s) \/ Invalidate(s) \/ StaffCrash(s)
      PROVE  RestOK'
  BY <1>2, <1>4 DEF Refresh, Invalidate, StaffCrash, NotWriting, Writing, ledger
<1>9. ASSUME NEW s \in Staff, CreateIngredient(s) \/ ReadStock(s) \/ LoadStock(s)
      PROVE  RestOK'
  <2>1. CASE CreateIngredient(s) \/ LoadStock(s)
    BY <1>2, <2>1 DEF CreateIngredient, LoadStock, NotWriting, Writing, ledger
  <2>2. CASE ReadStock(s)
    <3>1. crossed' \in BOOLEAN
      BY <1>2, <2>2, Zenon DEF ReadStock
    <3>2. /\ UNCHANGED <<meals, menu, lister, stock, received, late>>
          /\ staff' = [staff EXCEPT ![s] =
                 [pc |-> "known", about |-> Ingredient, total |-> stock + 1, old |-> 0]]
      BY <2>2 DEF ReadStock
    <3>3. [pc |-> "known", about |-> Ingredient, total |-> stock + 1, old |-> 0] \in Writing
      BY <1>2 DEF Writing
    <3>4. QED
      BY <1>2, <3>1, <3>2, <3>3
  <2>3. QED
    BY <1>9, <2>1, <2>2
<1>10. ASSUME NEW s \in Staff, CommitStock(s) \/ CommitStockFails(s)
      PROVE  RestOK'
  <2>1. Replaced(s) \in Nat
    BY <1>2 DEF Replaced, Writing
  <2>2. QED
    BY <1>2, <1>10, <2>1 DEF CommitStock, CommitStockFails, NotWriting, Writing
<1>5. ASSUME NEW l \in Listers, ListMiss(l) \/ ListRead(l) PROVE RestOK'
  BY <1>2, <1>5 DEF ListMiss, ListRead, Listing, ledger
<1>6. ASSUME NEW l \in Listers, ListFill(l) PROVE RestOK'
  <2>1. lister[l].got \in SUBSET Meals /\ [pc |-> "idle", got |-> {}] \in Listing
    BY <1>2 DEF Listing
  <2>2. late' \in BOOLEAN
    BY <1>2, <1>6, Zenon DEF ListFill
  <2>3. /\ UNCHANGED <<meals, staff, stock, received, crossed>>
        /\ menu' = menu \/ menu' = lister[l].got
        /\ lister' = [lister EXCEPT ![l] = [pc |-> "idle", got |-> {}]]
    BY <1>6 DEF ListFill, ledger
  <2>4. QED
    BY <1>2, <2>1, <2>2, <2>3
<1>7. RestOK'
  <2>1. Expire => RestOK'
    BY <1>2 DEF Expire, ledger
  <2>2. QED
    BY <1>3, <1>4, <1>5, <1>6, <1>9, <1>10, <2>1 DEF Next, WriteStep, ListStep
<1>8. QED
  BY <1>1, <1>7 DEF TypeOK, UsedOK

\* Every variable keeps its type and no fault budget is overdrawn.
THEOREM TypeCorrect == Spec => []TypeOK
<1>1. TypeOK /\ [Next]_vars => TypeOK'
  <2>1. TypeOK /\ UNCHANGED vars => TypeOK'
    BY DEF TypeOK, vars
  <2>2. QED
    BY <2>1, StepType
<1>2. QED
  BY <1>1, InitType, PTL DEF Spec

-----------------------------------------------------------------------------

Faulty == \E k \in FaultKinds : used[k] > 0

\* Meals are never deleted, so what a listing holds is still in Postgres.
ListingsReal == \A l \in Listers : lister[l].got \subseteq meals

IInv == StaleMenuExplained /\ ListingsReal

\* A step that leaves the cache alone, drops no writer from its way to the
\* invalidation and adds no meal, or adds one its writer will invalidate for.
LEMMA StillExplained ==
  ASSUME StaleMenuExplained, menu' = menu, meals \subseteq meals',
         late => late', Faulty => Faulty',
         \/ Faulty'
         \/ /\ \A s \in Staff : staff[s].pc # "idle" =>
                 staff'[s].pc # "idle" /\ staff'[s].about = staff[s].about
            /\ \A m \in meals' \ meals :
                 \E s \in Staff : staff'[s].pc # "idle" /\ staff'[s].about = m
  PROVE  StaleMenuExplained'
BY DEF StaleMenuExplained, Faulty

\* The steps of a write that touch neither the menu nor the meals.
OtherWrite(s) ==
  \/ CreateIngredient(s) \/ ReadStock(s) \/ LoadStock(s)
  \/ CommitStock(s) \/ CommitStockFails(s) \/ Refresh(s) \/ StaffCrash(s)

LEMMA StepInv ==
  ASSUME TypeOK, IInv, Next
  PROVE  IInv'
<1>1. /\ UsedOK /\ (Faulty => Faulty')
      /\ \A k \in FaultKinds : Fault(k) => Faulty'
      /\ {"crash", "db", "cache"} \subseteq FaultKinds
  BY StepCounts, UsedStep, FaultCounted DEF TypeOK, UsedOK, Faulty, FaultKinds
<1>2. /\ staff \in [Staff -> Writing] /\ lister \in [Listers -> Listing]
      /\ StaleMenuExplained /\ ListingsReal /\ late \in BOOLEAN
  BY DEF TypeOK, IInv
<1>3. CASE \E s \in Staff, m \in Meals : CreateMeal(s, m) \/ CreateMealFails(s, m)
  <2>1. PICK s \in Staff, m \in Meals : CreateMeal(s, m) \/ CreateMealFails(s, m)
    BY <1>3
  <2>2. /\ menu' = menu /\ meals \subseteq meals' /\ late' = late /\ lister' = lister
        /\ staff[s].pc = "idle"
    BY <2>1 DEF CreateMeal, CreateMealFails
  <2>3. CASE CreateMealFails(s, m)
    <3>1. Faulty'
      BY <1>1, <2>3 DEF CreateMealFails
    <3>2. QED
      BY <1>1, <1>2, <2>2, <3>1, StillExplained DEF IInv, ListingsReal
  <2>4. CASE CreateMeal(s, m)
    <3>1. /\ staff'[s].pc # "idle" /\ staff'[s].about = m /\ meals' = meals \cup {m}
          /\ \A t \in Staff : t # s => staff'[t] = staff[t]
      BY <1>2, <2>4 DEF CreateMeal
    <3>2. QED
      BY <1>1, <1>2, <2>2, <3>1, StillExplained DEF IInv, ListingsReal
  <2>5. QED
    BY <2>1, <2>3, <2>4
<1>4. CASE \E s \in Staff : Invalidate(s)
  <2>1. PICK s \in Staff : Invalidate(s)
    BY <1>4
  <2>2. /\ menu' = NoMenu \/ (menu' = menu /\ Faulty')
        /\ UNCHANGED <<meals, lister, late>>
    BY <1>1, <2>1 DEF Invalidate
  <2>3. ListingsReal'
    BY <1>2, <2>2 DEF ListingsReal
  <2>4. CASE menu' = NoMenu
    BY <2>3, <2>4 DEF IInv, StaleMenuExplained
  <2>5. CASE menu' = menu /\ Faulty'
    BY <1>1, <1>2, <2>2, <2>3, <2>5, StillExplained DEF IInv
  <2>6. QED
    BY <2>2, <2>4, <2>5
<1>5. CASE \E s \in Staff : OtherWrite(s)
  <2>1. PICK s \in Staff : OtherWrite(s)
    BY <1>5
  <2>2. UNCHANGED <<meals, menu, lister, late>>
    BY <2>1 DEF OtherWrite, CreateIngredient, ReadStock, LoadStock, CommitStock,
                CommitStockFails, Refresh, StaffCrash
  <2>3. \/ Faulty'
        \/ \A t \in Staff : staff[t].pc # "idle" =>
             staff'[t].pc # "idle" /\ staff'[t].about = staff[t].about
    BY <1>1, <1>2, <2>1
    DEF OtherWrite, CreateIngredient, ReadStock, LoadStock, CommitStock,
        CommitStockFails, Refresh, StaffCrash, NotWriting, Writing
  <2>4. QED
    BY <1>1, <1>2, <2>2, <2>3, StillExplained DEF IInv, ListingsReal
<1>6. CASE \E l \in Listers : ListMiss(l) \/ ListRead(l)
  <2>1. PICK l \in Listers : ListMiss(l) \/ ListRead(l)
    BY <1>6
  <2>2. UNCHANGED <<meals, menu, staff, late>>
    BY <2>1 DEF ListMiss, ListRead
  <2>3. \A j \in Listers : lister'[j].got \subseteq meals
    BY <1>2, <2>1 DEF ListMiss, ListRead, Listing, ListingsReal
  <2>4. QED
    BY <1>1, <1>2, <2>2, <2>3, StillExplained DEF IInv, ListingsReal
<1>7. CASE \E l \in Listers : ListFill(l)
  <2>1. PICK l \in Listers : ListFill(l)
    BY <1>7
  <2>2. /\ UNCHANGED <<meals, staff>>
        /\ \A j \in Listers : lister'[j].got \subseteq meals
    BY <1>2, <2>1 DEF ListFill, ListingsReal
  <2>3. CASE UNCHANGED <<menu, late>>
    BY <1>1, <1>2, <2>2, <2>3, StillExplained DEF IInv, ListingsReal
  <2>4. CASE menu' = lister[l].got /\ late' = (late \/ lister[l].got # meals)
    <3>1. menu' \subseteq meals' /\ (menu' = meals' \/ late')
      BY <1>2, <2>2, <2>4 DEF ListingsReal
    <3>2. QED
      BY <2>2, <3>1 DEF IInv, StaleMenuExplained, ListingsReal
  <2>5. QED
    BY <2>1, <2>3, <2>4 DEF ListFill
<1>8. CASE Expire
  BY <1>2, <1>8 DEF Expire, IInv, StaleMenuExplained, ListingsReal
<1>9. QED
  BY <1>3, <1>4, <1>5, <1>6, <1>7, <1>8 DEF Next, WriteStep, ListStep, OtherWrite

\* A stale menu:all has one of three causes: a writer on its way to the
\* invalidation, a fault, or a listing that stored what it had read earlier.
THEOREM StaleMenus == Spec => []StaleMenuExplained
<1>1. Init => IInv
  BY DEF Init, IInv, StaleMenuExplained, ListingsReal
<1>2. TypeOK /\ IInv /\ [Next]_vars => IInv'
  <2>1. IInv /\ UNCHANGED vars => IInv'
    BY DEF IInv, StaleMenuExplained, ListingsReal, vars
  <2>2. QED
    BY <2>1, StepInv
<1>3. IInv => StaleMenuExplained
  BY DEF IInv
<1>4. QED
  BY <1>1, <1>2, <1>3, TypeCorrect, PTL DEF Spec

-----------------------------------------------------------------------------

\* The total a client is about to send counts the deliveries committed when it
\* read the stock, its own, and those committed and reported as failed.
TotalsBounded ==
  /\ stock <= received + used["db"]
  /\ \A s \in Entering : staff[s].total <= received + used["db"] + 1

\* As long as nothing failed and no two deliveries crossed, the one that is
\* being entered adds to the stock as it is.
TotalsCurrent ==
  \/ crossed \/ Faulty
  \/ /\ stock = received
     /\ \A s \in Entering :
          /\ staff[s].total = stock + 1
          /\ staff[s].pc = "loaded" => staff[s].old = stock
          /\ \A t \in Entering : t = s

LInv == TotalsBounded /\ TotalsCurrent

\* Nothing but the entry of deliveries touches what LInv speaks of.
LEMMA LedgerKept ==
  ASSUME TypeOK, LInv, UNCHANGED ledger, used["db"] <= used'["db"], used'["db"] \in Nat,
         Faulty => Faulty',
         \A s \in Entering' : s \in Entering /\ staff'[s] = staff[s]
  PROVE  LInv'
<1>1. /\ stock \in Nat /\ received \in Nat /\ used["db"] \in Nat
      /\ \A s \in Entering : s \in Staff /\ staff[s].total \in Nat
  BY DEF TypeOK, FaultKinds, Entering, Writing
<1>2. UNCHANGED <<stock, received, crossed>>
  BY DEF ledger
<1>3. TotalsBounded'
  BY <1>1, <1>2 DEF LInv, TotalsBounded
<1>4. TotalsCurrent'
  BY <1>2 DEF LInv, TotalsCurrent
<1>5. QED
  BY <1>3, <1>4 DEF LInv

LEMMA StepLedger ==
  ASSUME TypeOK, LInv, Next
  PROVE  LInv'
<1>1. /\ UsedOK /\ UsedOK' /\ (Faulty => Faulty')
      /\ \A k \in FaultKinds : Fault(k) => Faulty'
      /\ {"crash", "db", "cache"} = FaultKinds
  BY StepCounts, UsedStep, FaultCounted DEF TypeOK, UsedOK, Faulty, FaultKinds
<1>2. /\ used["db"] \in Nat /\ used'["db"] \in Nat /\ used["db"] <= used'["db"]
      /\ Fault("db") => used'["db"] = used["db"] + 1
      /\ NoFault => used' = used
  <2>1. used["db"] \in Nat /\ used'["db"] \in Nat
    BY <1>1 DEF UsedOK
  <2>2. \A k \in FaultKinds : Fault(k) => used'["db"] \in {used["db"], used["db"] + 1}
    BY <1>1 DEF UsedOK, Fault
  <2>3. used["db"] <= used'["db"]
    BY <2>1, <2>2, StepCounts DEF Counts, NoFault
  <2>4. QED
    BY <1>1, <2>1, <2>3 DEF NoFault, Fault, UsedOK
<1>3. /\ staff \in [Staff -> Writing] /\ stock \in Nat /\ received \in Nat
      /\ TotalsBounded /\ TotalsCurrent
      /\ \A s \in Staff : staff[s].total \in Nat /\ staff[s].old \in Nat
  BY DEF TypeOK, LInv, Writing
<1>4. ASSUME NEW s \in Staff,
             \/ \E m \in Meals : CreateMeal(s, m) \/ CreateMealFails(s, m)
             \/ CreateIngredient(s) \/ Refresh(s) \/ Invalidate(s) \/ StaffCrash(s)
      PROVE  LInv'
  <2>1. UNCHANGED ledger
    BY <1>4 DEF CreateMeal, CreateMealFails, CreateIngredient, Refresh, Invalidate, StaffCrash
  <2>2. \A t \in Entering' : t \in Entering /\ staff'[t] = staff[t]
    BY <1>3, <1>4 DEF CreateMeal, CreateMealFails, CreateIngredient, Refresh, Invalidate,
                      StaffCrash, Entering, NotWriting, Writing
  <2>3. QED
    BY <1>1, <1>2, <2>1, <2>2, LedgerKept
<1>5. ASSUME (\E l \in Listers : ListMiss(l) \/ ListStep(l)) \/ Expire
      PROVE  LInv'
  <2>1. UNCHANGED <<ledger, staff>>
    BY <1>5 DEF ListMiss, ListStep, ListRead, ListFill, Expire
  <2>2. QED
    BY <1>1, <1>2, <2>1, LedgerKept DEF Entering
<1>6. ASSUME NEW s \in Staff, ReadStock(s) PROVE LInv'
  <2>1. /\ staff' = [staff EXCEPT ![s] =
              [pc |-> "known", about |-> Ingredient, total |-> stock + 1, old |-> 0]]
        /\ UNCHANGED <<stock, received, used>>
        /\ crossed' = (crossed \/ Entering # {})
        /\ s \notin Entering
    BY <1>6 DEF ReadStock, NoFault, Entering
  <2>2. Entering' = Entering \cup {s} /\ \A t \in Entering : staff'[t] = staff[t]
    BY <1>3, <2>1 DEF Entering, Writing
  <2>3. staff'[s].total = stock + 1 /\ staff'[s].pc = "known"
    BY <1>3, <2>1
  <2>4. TotalsBounded'
    BY <1>2, <1>3, <2>1, <2>2, <2>3 DEF TotalsBounded
  <2>5. TotalsCurrent'
    BY <1>3, <2>1, <2>2, <2>3 DEF TotalsCurrent, Faulty
  <2>6. QED
    BY <2>4, <2>5 DEF LInv
<1>7. ASSUME NEW s \in Staff, LoadStock(s) PROVE LInv'
  <2>1. CASE Fault("db") /\ staff' = [staff EXCEPT ![s] = NotWriting]
    <3>1. UNCHANGED ledger /\ \A t \in Entering' : t \in Entering /\ staff'[t] = staff[t]
      BY <1>3, <1>7, <2>1 DEF LoadStock, Entering, NotWriting, Writing
    <3>2. QED
      BY <1>1, <1>2, <3>1, LedgerKept
  <2>2. CASE NoFault /\ staff' = [staff EXCEPT ![s].pc = "loaded", ![s].old = stock]
    <3>1. /\ UNCHANGED <<stock, received, crossed, used>> /\ s \in Entering
          /\ Entering' = Entering
          /\ \A t \in Entering : t # s => staff'[t] = staff[t]
          /\ staff'[s].total = staff[s].total /\ staff'[s].old = stock
      BY <1>3, <1>7, <2>2 DEF LoadStock, NoFault, ledger, Entering, Writing
    <3>2. QED
      BY <1>3, <3>1 DEF LInv, TotalsBounded, TotalsCurrent, Faulty
  <2>3. QED
    BY <1>7, <2>1, <2>2 DEF LoadStock
<1>8. ASSUME NEW s \in Staff, CommitStock(s) \/ CommitStockFails(s) PROVE LInv'
  <2>1. /\ s \in Entering /\ staff[s].pc = "loaded"
        /\ Entering' = Entering \ {s} /\ \A t \in Entering' : staff'[t] = staff[t]
        /\ UNCHANGED crossed
    BY <1>3, <1>8 DEF CommitStock, CommitStockFails, Entering, NotWriting, Writing
  <2>2. Replaced(s) \in {stock, staff[s].total}
    BY DEF Replaced
  <2>3. Replaced(s) \in Nat /\ Replaced(s) <= received + used["db"] + 1
    BY <1>2, <1>3, <2>1, <2>2 DEF TotalsBounded
  <2>4. CASE CommitStock(s)
    <3>1. stock' = Replaced(s) /\ received' = received + 1 /\ used' = used
      BY <2>4 DEF CommitStock, NoFault
    <3>2. TotalsBounded'
      <4>1. stock' <= received' + used'["db"]
        BY <1>2, <1>3, <2>3, <3>1
      <4>2. ASSUME NEW t \in Entering'
            PROVE  staff'[t].total <= received' + used'["db"] + 1
        <5>1. t \in Staff /\ staff'[t].total = staff[t].total
              /\ staff[t].total <= received + used["db"] + 1
          BY <1>3, <2>1 DEF TotalsBounded, Entering
        <5>2. QED
          BY <1>2, <1>3, <3>1, <5>1
      <4>3. QED
        BY <4>1, <4>2 DEF TotalsBounded
    <3>3. TotalsCurrent'
      <4>1. ASSUME ~crossed, ~Faulty PROVE stock' = received' /\ Entering' = {}
        <5>1. /\ stock = received /\ staff[s].total = stock + 1 /\ staff[s].old = stock
              /\ \A t \in Entering : t = s
          BY <1>3, <2>1, <4>1 DEF TotalsCurrent
        <5>2. Replaced(s) = stock + 1
          BY <1>3, <5>1 DEF Replaced
        <5>3. QED
          BY <2>1, <3>1, <5>1, <5>2
      <4>2. QED
        BY <1>1, <2>1, <4>1 DEF TotalsCurrent
    <3>4. QED
      BY <3>2, <3>3 DEF LInv
  <2>5. CASE CommitStockFails(s)
    <3>1. /\ stock' \in {stock, Replaced(s)} /\ received' = received
          /\ used'["db"] = used["db"] + 1 /\ Faulty'
      BY <1>1, <1>2, <2>5 DEF CommitStockFails
    <3>2. TotalsBounded'
      <4>1. stock' <= received' + used'["db"]
        BY <1>2, <1>3, <2>3, <3>1 DEF TotalsBounded
      <4>2. ASSUME NEW t \in Entering'
            PROVE  staff'[t].total <= received' + used'["db"] + 1
        <5>1. t \in Staff /\ staff'[t].total = staff[t].total
              /\ staff[t].total <= received + used["db"] + 1
          BY <1>3, <2>1 DEF TotalsBounded, Entering
        <5>2. QED
          BY <1>2, <1>3, <3>1, <5>1
      <4>3. QED
        BY <4>1, <4>2 DEF TotalsBounded
    <3>3. QED
      BY <3>1, <3>2 DEF LInv, TotalsCurrent
  <2>6. QED
    BY <1>8, <2>4, <2>5
<1>9. QED
  BY <1>4, <1>5, <1>6, <1>7, <1>8 DEF Next, WriteStep

\* The stock equals the deliveries entered but for crossed entries and faults,
\* and is above them by no more than the commits reported as failed.
THEOREM StockAddsUp == Spec => []StockExplained
<1>1. Init => LInv
  <2> SUFFICES ASSUME Init PROVE LInv
    OBVIOUS
  <2>1. stock = 0 /\ received = 0 /\ used["db"] = 0 /\ Entering = {}
    BY DEF Init, FaultKinds, Entering, NotWriting
  <2>2. QED
    BY <2>1 DEF LInv, TotalsBounded, TotalsCurrent
<1>2. TypeOK /\ LInv /\ [Next]_vars => LInv'
  <2>1. TypeOK /\ LInv /\ UNCHANGED vars => LInv'
    BY DEF LInv, TotalsBounded, TotalsCurrent, Faulty, Entering, vars
  <2>2. QED
    BY <2>1, StepLedger
<1>3. LInv => StockExplained
  BY DEF LInv, TotalsBounded, TotalsCurrent, StockExplained, Faulty
<1>4. QED
  BY <1>1, <1>2, <1>3, TypeCorrect, PTL DEF Spec

=============================================================================
