--------------------------- MODULE ModuleLoading ---------------------------
(* How Python brings up a process of the shop: uvicorn imports src/main.py, *)
(* a Celery worker src/tasks/kitchen.py.  A module is entered in           *)
(* sys.modules before its body runs, and "from m import n" asks m for n at *)
(* once, even when m's own body has not got to n yet.                      *)
EXTENDS Naturals, Sequences

\* A statement of a body imports names from a module or defines names.
Imports(m, names) == [kind |-> "import", from |-> m, names |-> names]
Defines(names) == [kind |-> "define", names |-> names]

\* The modules on the way from the two entry points to the kitchen task, and
\* what the top level of each does, in the order of its source file.
Modules == {"main", "worker", "routes.orders", "order_service", "kitchen", "celery_app"}

\* uvicorn starts from main, "celery -A src.core.celery_app worker" as WorkerBody.
Entries == {"main", "worker"}

\* Celery loads the application, then what its include setting lists.
WorkerBody == << Imports("celery_app", {"celery_app"}),
                 Imports("kitchen", {}) >>

MainBody == << Imports("routes.orders", {"router"}),
               Defines({"app"}) >>

RoutesBody == << Imports("order_service", {"create_order", "get_order", "list_orders"}),
                 Defines({"router"}) >>

ServiceBody == << Imports("kitchen", {"process_order"}),
                  Defines({"create_order", "get_order", "list_orders",
                           "update_order_status"}) >>

KitchenBody == << Imports("celery_app", {"celery_app"}),
                  Imports("order_service", {"update_order_status"}),
                  Defines({"process_order", "order_failed"}) >>

CeleryBody == << Defines({"celery_app"}) >>

Body == [m \in Modules |->
  CASE m = "main"          -> MainBody
    [] m = "worker"        -> WorkerBody
    [] m = "routes.orders" -> RoutesBody
    [] m = "order_service" -> ServiceBody
    [] m = "kitchen"       -> KitchenBody
    [] m = "celery_app"    -> CeleryBody]

VARIABLES
  stack,    \* the module bodies that are running, the innermost last, each with
            \* the number of its next statement
  known,    \* sys.modules
  defined,  \* the names each module has so far
  failed    \* an import found its name missing: ImportError ends the process

vars == <<stack, known, defined, failed>>

Frame(m) == [module |-> m, next |-> 1]

Init == \E m \in Entries :
  /\ stack = <<Frame(m)>>
  /\ known = {m}
  /\ defined = [n \in Modules |-> {}]
  /\ failed = FALSE

Top == stack[Len(stack)]
Outer == SubSeq(stack, 1, Len(stack) - 1)
Done == Top.next > Len(Body[Top.module])
Statement == Body[Top.module][Top.next]
Onward == [stack EXCEPT ![Len(stack)].next = @ + 1]

Running(kind) == ~failed /\ stack # <<>> /\ ~Done /\ Statement.kind = kind

\* A module not seen before: its body runs first.
Descend ==
  /\ Running("import")
  /\ Statement.from \notin known
  /\ stack' = Append(stack, Frame(Statement.from))
  /\ known' = known \cup {Statement.from}
  /\ UNCHANGED <<defined, failed>>

\* A module in sys.modules gives what it has.
Take ==
  /\ Running("import")
  /\ Statement.from \in known
  /\ IF Statement.names \subseteq defined[Statement.from]
       THEN /\ stack' = Onward
            /\ defined' = [defined EXCEPT ![Top.module] = @ \cup Statement.names]
            /\ UNCHANGED failed
       ELSE failed' = TRUE /\ UNCHANGED <<stack, defined>>
  /\ UNCHANGED known

Define ==
  /\ Running("define")
  /\ stack' = Onward
  /\ defined' = [defined EXCEPT ![Top.module] = @ \cup Statement.names]
  /\ UNCHANGED <<known, failed>>

Return ==
  /\ ~failed /\ stack # <<>> /\ Done
  /\ stack' = Outer
  /\ UNCHANGED <<known, defined, failed>>

Next == Descend \/ Take \/ Define \/ Return

Spec == Init /\ [][Next]_vars

=============================================================================
