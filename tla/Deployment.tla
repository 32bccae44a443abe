----------------------------- MODULE Deployment -----------------------------
(* Bringing the stack up with docker-compose: every container made from    *)
(* the application's image runs entrypoint.sh, that is "alembic upgrade    *)
(* head" in one transaction and then the server; nginx waits for the API   *)
(* replicas.  The containers migrate one database side by side under READ  *)
(* COMMITTED: nobody sees another's uncommitted objects, but creating one  *)
(* waits for a transaction that has created it, and fails if that commits. *)
EXTENDS Naturals

CONSTANTS
  Replicas,    \* containers of the service api
  Worker,      \* the container of the service worker
  MaxCrashes,  \* how many containers may die while they migrate
  MaxUps       \* how often the operator may run "make up" again

ASSUME DeploymentWorkerAssumption == Worker \notin Replicas
ASSUME DeploymentBoundsAssumption == MaxCrashes \in Nat /\ MaxUps \in Nat

Containers == Replicas \cup {Worker}

\* What revision 0001 leaves in the database, the stamp of the revision last.
Objects == {"alembic_version", "orderstatus", "tables", "0001"}

VARIABLES
  schema,   \* the committed objects
  made,     \* the objects each container has created and not committed
  at,       \* where each container is
  proxy,    \* nginx: waiting for the API, up, or given up because a replica exited
  doubled,  \* CREATE TABLE orders creates the enum type once more
  crashes, ups

vars == <<schema, made, at, proxy, doubled, crashes, ups>>

Migrating == {"heads", "check version", "create version", "check type", "create type",
              "create tables", "stamp"}

TypeOK ==
  /\ schema \subseteq Objects
  /\ made \in [Containers -> SUBSET Objects]
  /\ at \in [Containers -> Migrating \cup {"uvicorn", "exited"}]
  /\ proxy \in {"waiting", "up", "refused"}
  /\ doubled \in BOOLEAN
  /\ crashes \in 0..MaxCrashes
  /\ ups \in 0..MaxUps

\* A new volume, one migrated before, or one taken back by downgrade.  Whether
\* sa.Enum heeds create_type=False is up to the SQLAlchemy that is installed.
Init ==
  /\ schema \in {{}, Objects, {"alembic_version"}}
  /\ made = [c \in Containers |-> {}]
  /\ at = [c \in Containers |-> "heads"]
  /\ proxy = "waiting"
  /\ doubled \in BOOLEAN
  /\ crashes = 0
  /\ ups = 0

Goto(c, place) == at' = [at EXCEPT ![c] = place]

Visible(c) == schema \cup made[c]

Held(c, x) == \E d \in Containers \ {c} : x \in made[d]

-----------------------------------------------------------------------------
(* alembic upgrade head                                                    *)

\* The heads are read: at 0001 there is nothing to do.
ReadHeads(c) ==
  /\ at[c] = "heads"
  /\ Goto(c, IF "0001" \in schema THEN "uvicorn" ELSE "check version")
  /\ UNCHANGED <<schema, made, proxy, doubled, crashes, ups>>

\* checkfirst: what is there already is not created.
CheckFirst(c, from, x, create, onward) ==
  /\ at[c] = from
  /\ Goto(c, IF x \in Visible(c) THEN onward ELSE create)
  /\ UNCHANGED <<schema, made, proxy, doubled, crashes, ups>>

\* A CREATE goes through when nobody has, or is about to have, the object.
Create(c, from, x, onward) ==
  /\ at[c] = from
  /\ x \notin Visible(c)
  /\ ~Held(c, x)
  /\ made' = [made EXCEPT ![c] = @ \cup {x}]
  /\ Goto(c, onward)
  /\ UNCHANGED <<schema, proxy, doubled, crashes, ups>>

EnsureVersionTable(c) ==
  \/ CheckFirst(c, "check version", "alembic_version", "create version", "check type")
  \/ Create(c, "create version", "alembic_version", "check type")

CreateType(c) ==
  \/ CheckFirst(c, "check type", "orderstatus", "create type", "create tables")
  \/ Create(c, "create type", "orderstatus", "create tables")

\* The five tables; the type of orders.status must not be created again.
CreateTables(c) == ~doubled /\ Create(c, "create tables", "tables", "stamp")

\* Mutant: the revision is stamped in a transaction of its own, while the one that
\* made the type and the tables is rolled back.
StampAlone(c) ==
  /\ at[c] = "stamp"
  /\ schema' = schema \cup {"0001"}
  /\ made' = [made EXCEPT ![c] = {}]
  /\ Goto(c, "uvicorn")
  /\ UNCHANGED <<proxy, doubled, crashes, ups>>

\* The revision is stamped and everything committed at once; exec uvicorn.  The
\* worker's command is no more than an argument of the entrypoint, which
\* ignores its arguments.
StampAndCommit(c) ==
  /\ at[c] = "stamp"
  /\ schema' = schema \cup made[c] \cup {"0001"}
  /\ made' = [made EXCEPT ![c] = {}]
  /\ Goto(c, "uvicorn")
  /\ UNCHANGED <<proxy, doubled, crashes, ups>>

\* Mutant: a failed migration does not stop the script (no set -e).
RollBackAndServe(c) ==
  /\ made' = [made EXCEPT ![c] = {}]
  /\ Goto(c, "uvicorn")
  /\ UNCHANGED <<schema, proxy, doubled, ups>>

\* Mutant: the transaction of a container that is gone stays open.
ExitWithoutRollback(c) ==
  /\ Goto(c, "exited")
  /\ UNCHANGED <<schema, made, proxy, doubled, ups>>

\* The transaction is rolled back and set -e ends the container.
RollBackAndExit(c) ==
  /\ made' = [made EXCEPT ![c] = {}]
  /\ Goto(c, "exited")
  /\ UNCHANGED <<schema, proxy, doubled, ups>>

\* Mutant: a CREATE does not wait for the other transaction.
CollidesWithHolder(c, from, x) ==
  /\ at[c] = from
  /\ x \in schema \/ Held(c, x)

\* What is created has been committed by another container in the meantime.
Collides(c, from, x) == at[c] = from /\ x \in schema

\* A CREATE raises.
CreateFails(c) ==
  /\ \/ Collides(c, "create version", "alembic_version")
     \/ Collides(c, "create type", "orderstatus")
     \/ Collides(c, "create tables", "tables")
     \/ at[c] = "create tables" /\ doubled
  /\ RollBackAndExit(c)
  /\ UNCHANGED crashes

\* The container dies, or loses the database, while it migrates.
Crash(c) ==
  /\ at[c] \in Migrating
  /\ crashes < MaxCrashes
  /\ crashes' = crashes + 1
  /\ RollBackAndExit(c)

-----------------------------------------------------------------------------
(* docker-compose                                                          *)

\* nginx is started once every replica of the API is healthy, and not at all
\* when one of them has exited.
ProxyDecides ==
  /\ proxy = "waiting"
  /\ \/ proxy' = "up" /\ \A r \in Replicas : at[r] = "uvicorn"
     \/ proxy' = "refused" /\ \E r \in Replicas : at[r] = "exited"
  /\ UNCHANGED <<schema, made, at, doubled, crashes, ups>>

\* Mutant: a restart policy in place of the operator.
UpAlways ==
  /\ \E c \in Containers : at[c] = "exited"
  /\ ups' = ups + 1
  /\ at' = [c \in Containers |-> IF at[c] = "exited" THEN "heads" ELSE at[c]]
  /\ proxy' = IF proxy = "refused" THEN "waiting" ELSE proxy
  /\ UNCHANGED <<schema, made, doubled, crashes>>

\* No restart policy: a container that exited comes back with the operator's
\* next "make up".
UpAgain ==
  /\ ups < MaxUps
  /\ \E c \in Containers : at[c] = "exited"
  /\ ups' = ups + 1
  /\ at' = [c \in Containers |-> IF at[c] = "exited" THEN "heads" ELSE at[c]]
  /\ proxy' = IF proxy = "refused" THEN "waiting" ELSE proxy
  /\ UNCHANGED <<schema, made, doubled, crashes>>

ContainerStep(c) ==
  \/ ReadHeads(c) \/ EnsureVersionTable(c) \/ CreateType(c)
  \/ CreateTables(c) \/ StampAndCommit(c) \/ CreateFails(c)

Next ==
  \/ \E c \in Containers : ContainerStep(c) \/ Crash(c)
  \/ ProxyDecides
  \/ UpAgain

Spec == Init /\ [][Next]_vars

\* Containers and compose go on by themselves; the operator need not come back.
Fairness == /\ \A c \in Containers : WF_vars(ContainerStep(c))
            /\ WF_vars(ProxyDecides)

FairSpec == Spec /\ Fairness

-----------------------------------------------------------------------------

\* No server runs on a schema that is not there in full.
ServesOnlyCurrentSchema ==
  \A c \in Containers : at[c] = "uvicorn" => schema = Objects

\* A container gives up only because it died, because the type cannot be created
\* twice, or because another one had migrated in the meantime: then the schema
\* is current and the next "make up" finds it so.
ExitExplained ==
  (\E c \in Containers : at[c] = "exited") =>
    crashes > 0 \/ doubled \/ schema = Objects

\* However the migrations overlap, every container comes to serve or to exit;
\* some container serves unless one died or the type is created twice; and the
\* shop has its proxy exactly when no replica of the API lost the race.
StackSettles ==
  <>[] /\ \A c \in Containers : at[c] \in {"uvicorn", "exited"}
       /\ (crashes = 0 /\ ~doubled) => \E c \in Containers : at[c] = "uvicorn"
       /\ proxy = "up" <=> \A r \in Replicas : at[r] = "uvicorn"

=============================================================================
