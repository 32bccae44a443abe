----------------------------- MODULE MenuCache -----------------------------
(* The menu, its cache, and the writes that invalidate it:                 *)
(*   meal_service.list_meals        reads menu:all, or Postgres and refills *)
(*   meal_service.create_meal, ingredient_service.create_ingredient and    *)
(*   update_stock                   commit, refresh, delete menu:all       *)
(*   core/cache.py                  the menu:all entry, errors swallowed   *)
(* Every await is a step of its own.  Of the ingredients one is followed:  *)
(* update_stock replaces its stock, and whoever wants to add a delivery    *)
(* reads the stock, adds to it and sends the total, as the schema says.    *)
EXTENDS Naturals, FiniteSets

CONSTANTS
  Meals,       \* meals staff may add (their names are unique)
  Staff,       \* requests that write meals or ingredients
  Listers,     \* requests of GET /meals
  NoMenu,      \* what Redis yields when it has no entry
  Ingredient,  \* what an ingredient write is about, instead of a meal
  MaxDeliveries, \* deliveries of the ingredient (one unit each) staff start to enter
  Limit        \* how many faults of each kind a behaviour may have

FaultKinds == {"crash", "db", "cache"}

ASSUME MenuLimitAssumption == Limit \in [FaultKinds -> Nat]

ASSUME NoMenuAssumption == \A S \in SUBSET Meals : NoMenu # S
ASSUME IngredientAssumption == Ingredient \notin Meals
ASSUME DeliveriesAssumption == MaxDeliveries \in Nat

VARIABLES
  meals,   \* the rows of table meals
  menu,    \* menu:all in Redis
  staff,   \* the writes in progress
  lister,  \* the listings in progress, and what was read for them
  stock,    \* ingredients.stock_quantity of the ingredient
  received, \* deliveries whose update_stock was committed (history)
  crossed,  \* two deliveries have been entered at the same time (history)
  late,    \* some listing has filled the cache with an outdated menu (history)
  used     \* faults so far, of each kind (bounded by Limit)

vars == <<meals, menu, staff, lister, stock, received, crossed, late, used>>

ledger == <<stock, received, crossed>>

\* "known": the client has read the stock; "loaded": so has its PATCH.
Writing == [pc : {"idle", "known", "loaded", "refresh", "del"},
            about : Meals \cup {Ingredient},
            total : Nat,   \* the new stock the client asks for
            old : Nat]     \* the stock update_stock has loaded

NotWriting == [pc |-> "idle", about |-> Ingredient, total |-> 0, old |-> 0]

Listing == [pc : {"idle", "select", "fill"}, got : SUBSET Meals]

TypeOK ==
  /\ meals \subseteq Meals
  /\ menu = NoMenu \/ menu \in SUBSET Meals
  /\ staff \in [Staff -> Writing]
  /\ lister \in [Listers -> Listing]
  /\ stock \in Nat
  /\ received \in Nat
  /\ crossed \in BOOLEAN
  /\ late \in BOOLEAN
  /\ used \in [FaultKinds -> Nat]
  /\ \A k \in FaultKinds : used[k] <= Limit[k]

Init ==
  /\ meals = {}
  /\ menu = NoMenu
  /\ staff = [s \in Staff |-> NotWriting]
  /\ lister = [l \in Listers |-> [pc |-> "idle", got |-> {}]]
  /\ stock = 0
  /\ received = 0
  /\ crossed = FALSE
  /\ late = FALSE
  /\ used = [k \in FaultKinds |-> 0]

Fault(k) == /\ used[k] < Limit[k]
            /\ used' = [used EXCEPT ![k] = @ + 1]

NoFault == UNCHANGED used

-----------------------------------------------------------------------------
(* create_meal, create_ingredient, update_stock                            *)

\* The meal is committed.  A taken name is an IntegrityError: 409 and nothing
\* written, so nothing happens here.
CreateMeal(s, m) ==
  /\ staff[s].pc = "idle"
  /\ m \notin meals
  /\ meals' = meals \cup {m}
  /\ staff' = [staff EXCEPT ![s].pc = "refresh", ![s].about = m]
  /\ NoFault
  /\ UNCHANGED <<menu, lister, ledger, late>>

\* The commit raises, the row may be there all the same; no invalidation.
CreateMealFails(s, m) ==
  /\ staff[s].pc = "idle"
  /\ m \notin meals
  /\ Fault("db")
  /\ meals' \in {meals, meals \cup {m}}
  /\ UNCHANGED <<menu, staff, lister, ledger, late>>

\* Another ingredient is created.
CreateIngredient(s) ==
  /\ staff[s].pc = "idle"
  /\ staff' = [staff EXCEPT ![s].pc = "refresh", ![s].about = Ingredient]
  /\ NoFault
  /\ UNCHANGED <<meals, menu, lister, ledger, late>>

Entering == {s \in Staff : staff[s].pc \in {"known", "loaded"}}

\* GET /ingredients/{id}: the client reads the stock to add a delivery to it.
ReadStock(s) ==
  /\ staff[s].pc = "idle"
  /\ received < MaxDeliveries
  /\ staff' = [staff EXCEPT ![s] =
                 [pc |-> "known", about |-> Ingredient, total |-> stock + 1, old |-> 0]]
  /\ crossed' = (crossed \/ Entering # {})
  /\ NoFault
  /\ UNCHANGED <<meals, menu, lister, stock, received, late>>

\* PATCH /ingredients/{id}/stock: update_stock loads the row, without a lock.
LoadStock(s) ==
  /\ staff[s].pc = "known"
  /\ \/ NoFault /\ staff' = [staff EXCEPT ![s].pc = "loaded", ![s].old = stock]
     \/ Fault("db") /\ staff' = [staff EXCEPT ![s] = NotWriting]
  /\ UNCHANGED <<meals, menu, lister, ledger, late>>

\* Mutant: the new value is taken for an increment.
Incremented(s) == stock + staff[s].total

\* The session writes the column only when it differs from what was loaded.
Replaced(s) == IF staff[s].total = staff[s].old THEN stock ELSE staff[s].total

\* The commit of update_stock.
CommitStock(s) ==
  /\ staff[s].pc = "loaded"
  /\ stock' = Replaced(s)
  /\ received' = received + 1
  /\ staff' = [staff EXCEPT ![s].pc = "refresh", ![s].total = 0, ![s].old = 0]
  /\ NoFault
  /\ UNCHANGED <<meals, menu, lister, crossed, late>>

\* The commit raises; the row may have been written.
CommitStockFails(s) ==
  /\ staff[s].pc = "loaded"
  /\ Fault("db")
  /\ stock' \in {stock, Replaced(s)}
  /\ staff' = [staff EXCEPT ![s] = NotWriting]
  /\ UNCHANGED <<meals, menu, lister, received, crossed, late>>

\* db.refresh: when it raises, the request ends without the invalidation.
Refresh(s) ==
  /\ staff[s].pc = "refresh"
  /\ \/ NoFault /\ staff' = [staff EXCEPT ![s].pc = "del"]
     \/ Fault("db") /\ staff' = [staff EXCEPT ![s] = NotWriting]
  /\ UNCHANGED <<meals, menu, lister, ledger, late>>

\* Mutant: the invalidation was left out of the write.
InvalidateForgotten(s) ==
  /\ staff[s].pc = "del"
  /\ staff' = [staff EXCEPT ![s] = NotWriting]
  /\ NoFault
  /\ UNCHANGED <<meals, menu, lister, ledger, late>>

\* invalidate_menu_cache: a Redis error is swallowed.
Invalidate(s) ==
  /\ staff[s].pc = "del"
  /\ staff' = [staff EXCEPT ![s] = NotWriting]
  /\ \/ NoFault /\ menu' = NoMenu
     \/ Fault("cache") /\ UNCHANGED menu
  /\ UNCHANGED <<meals, lister, ledger, late>>

\* The API process dies, or the client goes away before its PATCH.
StaffCrash(s) ==
  /\ staff[s].pc # "idle"
  /\ Fault("crash")
  /\ staff' = [staff EXCEPT ![s] = NotWriting]
  /\ UNCHANGED <<meals, menu, lister, ledger, late>>

-----------------------------------------------------------------------------
(* list_meals                                                              *)

\* Cache miss, or a Redis error that get_cached_menu turns into one.  (A hit
\* answers what is cached and changes nothing.)
ListMiss(l) ==
  /\ lister[l].pc = "idle"
  /\ \/ NoFault /\ menu = NoMenu
     \/ Fault("cache")
  /\ lister' = [lister EXCEPT ![l].pc = "select"]
  /\ UNCHANGED <<meals, menu, staff, ledger, late>>

\* Mutant: a join lets rows of ingredients into the listing.
ListReadJoined(l) ==
  /\ lister[l].pc = "select"
  /\ NoFault
  /\ lister' = [lister EXCEPT ![l] = [pc |-> "fill", got |-> meals \cup {Ingredient}]]
  /\ UNCHANGED <<meals, menu, staff, ledger, late>>

\* The rows of table meals are read; the read may raise.
ListRead(l) ==
  /\ lister[l].pc = "select"
  /\ \/ /\ NoFault
        /\ lister' = [lister EXCEPT ![l] = [pc |-> "fill", got |-> meals]]
     \/ /\ Fault("db")
        /\ lister' = [lister EXCEPT ![l].pc = "idle"]
  /\ UNCHANGED <<meals, menu, staff, ledger, late>>

\* set_cached_menu stores what was read before; a Redis error is swallowed.
ListFill(l) ==
  /\ lister[l].pc = "fill"
  /\ lister' = [lister EXCEPT ![l] = [pc |-> "idle", got |-> {}]]
  /\ \/ NoFault /\ menu' = lister[l].got /\ late' = (late \/ lister[l].got # meals)
     \/ Fault("cache") /\ UNCHANGED <<menu, late>>
  /\ UNCHANGED <<meals, staff, ledger>>

\* Mutant: SET without a time to live.
ExpireNever ==
  /\ menu # NoMenu /\ menu \notin SUBSET Meals
  /\ menu' = NoMenu
  /\ NoFault
  /\ UNCHANGED <<meals, staff, lister, ledger, late>>

\* SETEX with cache_ttl_seconds: the entry goes by itself.
Expire ==
  /\ menu # NoMenu
  /\ menu' = NoMenu
  /\ NoFault
  /\ UNCHANGED <<meals, staff, lister, ledger, late>>

-----------------------------------------------------------------------------

WriteStep(s) == CommitStock(s) \/ CommitStockFails(s) \/ Refresh(s) \/ Invalidate(s)
ListStep(l) == ListRead(l) \/ ListFill(l)

Next ==
  \/ \E s \in Staff : \/ \E m \in Meals : CreateMeal(s, m) \/ CreateMealFails(s, m)
                      \/ CreateIngredient(s) \/ ReadStock(s) \/ LoadStock(s)
                      \/ WriteStep(s) \/ StaffCrash(s)
  \/ \E l \in Listers : ListMiss(l) \/ ListStep(l)
  \/ Expire

Spec == Init /\ [][Next]_vars

\* Requests being served go on and Redis keeps its clock; nobody has to send
\* a request.
Fairness == /\ \A s \in Staff : WF_vars(WriteStep(s))
            /\ \A l \in Listers : WF_vars(ListStep(l))
            /\ WF_vars(Expire)

FairSpec == Spec /\ Fairness

-----------------------------------------------------------------------------

\* The cached menu misses a meal only while that meal's writer has yet to
\* invalidate, after a fault cut a write short or hid an error of Redis, or
\* after a listing stored what it had read before the write.  It never shows a
\* meal that is not in Postgres.
StaleMenuExplained ==
  menu # NoMenu =>
    /\ menu \subseteq meals
    /\ \A m \in meals \ menu :
         \/ \E s \in Staff : staff[s].pc # "idle" /\ staff[s].about = m
         \/ \E k \in FaultKinds : used[k] > 0
         \/ late

\* However the writes and listings overlap and whatever Redis drops, the cache
\* in the end agrees with Postgres or is empty.
MenuSettles == <>[](menu \in {NoMenu, meals})

\* The stock is never more than the deliveries entered, but for commits that
\* were written and reported as failed; and it falls short of them only if two
\* deliveries were entered at the same time, or a fault cut one short.
StockExplained ==
  /\ stock <= received + used["db"]
  /\ stock # received => crossed \/ \E k \in FaultKinds : used[k] > 0

=============================================================================
