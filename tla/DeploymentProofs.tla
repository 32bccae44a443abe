-------------------------- MODULE DeploymentProofs --------------------------
(* For any number of replicas, crashes and further "make up": no server    *)
(* runs on a schema that is not there in full, and no container gives up   *)
(* without one of the three reasons.                                       *)
EXTENDS Deployment, TLAPS

ServingPlaces == Migrating \cup {"uvicorn", "exited"}

\* What is committed is nothing, the empty version table a downgrade leaves, or all.
SchemaWhole == schema \in {{}, {"alembic_version"}, Objects}

\* What a container at each step of the migration can count on.
Progress(c) ==
  /\ at[c] = "create version" => schema # {"alembic_version"}
  /\ at[c] \in {"check type", "create type", "create tables", "stamp"} =>
       "alembic_version" \in Visible(c)
  /\ at[c] \in {"create tables", "stamp"} => "orderstatus" \in Visible(c)
  /\ at[c] = "stamp" => "tables" \in Visible(c)

IInv ==
  /\ TypeOK
  /\ SchemaWhole
  /\ \A c \in Containers : Progress(c)
  /\ ServesOnlyCurrentSchema
  /\ ExitExplained

\* What is whole stays whole, and what is not there in full is not stamped.
LEMMA Stamped ==
  ASSUME SchemaWhole, NEW x \in schema, x # "alembic_version"
  PROVE  schema = Objects
BY DEF SchemaWhole

\* A step of one container that commits nothing.
LEMMA LocalStep ==
  ASSUME IInv, NEW c \in Containers, NEW place \in ServingPlaces,
         at' = [at EXCEPT ![c] = place], UNCHANGED <<schema, proxy, doubled, ups>>,
         crashes' \in 0..MaxCrashes, crashes' >= crashes,
         NEW m \in SUBSET Objects, made' = [made EXCEPT ![c] = m],
         Progress(c)',
         place = "uvicorn" => schema = Objects,
         place = "exited" => crashes' > 0 \/ doubled \/ schema = Objects
  PROVE  IInv'
<1>1. TypeOK'
  BY DEF IInv, TypeOK, ServingPlaces
<1>2. SchemaWhole'
  BY DEF IInv, SchemaWhole
<1>3. \A d \in Containers : d # c => at'[d] = at[d] /\ made'[d] = made[d]
  BY DEF IInv, TypeOK
<1>4. at'[c] = place
  BY DEF IInv, TypeOK
<1>5. ASSUME NEW d \in Containers
      PROVE  Progress(d)'
  <2>1. CASE d = c
    BY <2>1
  <2>2. CASE d # c
    <3>1. Progress(d)
      BY DEF IInv
    <3>2. QED
      BY <1>3, <2>2, <3>1 DEF Progress, Visible
  <2>3. QED
    BY <2>1, <2>2
<1>6. ServesOnlyCurrentSchema'
  BY <1>3, <1>4 DEF IInv, ServesOnlyCurrentSchema
<1>7. ExitExplained'
  <2>1. SUFFICES ASSUME NEW d \in Containers, at'[d] = "exited"
                 PROVE  crashes' > 0 \/ doubled \/ schema = Objects
    BY DEF ExitExplained
  <2>2. CASE d = c
    BY <1>4, <2>1, <2>2
  <2>3. CASE d # c
    <3>1. crashes > 0 \/ doubled \/ schema = Objects
      BY <1>3, <2>1, <2>3 DEF IInv, ExitExplained
    <3>2. crashes \in Nat /\ crashes' \in Nat
      BY DEF IInv, TypeOK
    <3>3. QED
      BY <3>1, <3>2
  <2>4. QED
    BY <2>2, <2>3
<1>8. QED
  BY <1>1, <1>2, <1>5, <1>6, <1>7 DEF IInv

LEMMA Counters == ASSUME IInv PROVE crashes \in 0..MaxCrashes /\ crashes >= crashes
<1>1. crashes \in 0..MaxCrashes
  BY DEF IInv, TypeOK
<1>2. QED
  BY <1>1

LEMMA ContainerInv ==
  ASSUME IInv, NEW c \in Containers, ContainerStep(c) \/ Crash(c)
  PROVE  IInv'
<1> USE DEF ServingPlaces, Migrating
<1>1. /\ at \in [Containers -> ServingPlaces] /\ made \in [Containers -> SUBSET Objects]
      /\ schema \subseteq Objects /\ crashes \in 0..MaxCrashes /\ crashes >= crashes
  BY Counters DEF IInv, TypeOK
<1>2. Progress(c) /\ SchemaWhole
  BY DEF IInv
<1>3. made = [made EXCEPT ![c] = made[c]] /\ made[c] \in SUBSET Objects
  BY <1>1
<1>4. ASSUME NEW place \in ServingPlaces, Goto(c, place), made' = made, schema' = schema
      PROVE  at' = [at EXCEPT ![c] = place] /\ at'[c] = place /\ Visible(c)' = Visible(c)
  BY <1>1, <1>4 DEF Goto, Visible
<1>4a. {} \in SUBSET Objects /\ "exited" \in ServingPlaces /\ "exited" # "uvicorn"
  OBVIOUS
<1>4b. \A p \in {"check type", "create tables", "stamp"} :
         p \in ServingPlaces /\ p # "uvicorn" /\ p # "exited"
  OBVIOUS
<1>5. CASE ReadHeads(c)
  <2>1. PICK place \in {"uvicorn", "check version"} :
           /\ Goto(c, place)
           /\ place = "uvicorn" => "0001" \in schema
    BY <1>5 DEF ReadHeads
  <2>2. UNCHANGED <<schema, made, proxy, doubled, crashes, ups>>
    BY <1>5 DEF ReadHeads
  <2>3. at' = [at EXCEPT ![c] = place] /\ at'[c] = place
    BY <1>4, <2>1, <2>2
  <2>4. place = "uvicorn" => schema = Objects
    <3>1. "0001" \in schema => schema = Objects
      <4>1. "0001" # "alembic_version"
        OBVIOUS
      <4>2. QED
        BY <1>2, <4>1, Stamped
    <3>2. QED
      BY <2>1, <3>1
  <2>5. Progress(c)'
    BY <2>1, <2>3 DEF Progress
  <2>6. QED
    BY <1>1, <1>3, <2>1, <2>2, <2>3, <2>4, <2>5, LocalStep
<1>6. CASE EnsureVersionTable(c)
  <2>1. CASE CheckFirst(c, "check version", "alembic_version", "create version", "check type")
    <3>1. PICK place \in {"create version", "check type"} :
             /\ Goto(c, place)
             /\ place = "check type" <=> "alembic_version" \in Visible(c)
      BY <2>1 DEF CheckFirst
    <3>2. UNCHANGED <<schema, made, proxy, doubled, crashes, ups>>
      BY <2>1 DEF CheckFirst
    <3>3. at' = [at EXCEPT ![c] = place] /\ at'[c] = place /\ Visible(c)' = Visible(c)
      BY <1>4, <3>1, <3>2
    <3>4. Progress(c)'
      BY <3>1, <3>2, <3>3 DEF Progress, Visible
    <3>5. QED
      BY <1>1, <1>3, <3>1, <3>2, <3>3, <3>4, LocalStep
  <2>2. CASE Create(c, "create version", "alembic_version", "check type")
    <3>1. /\ UNCHANGED <<schema, proxy, doubled, crashes, ups>>
          /\ made' = [made EXCEPT ![c] = made[c] \cup {"alembic_version"}]
          /\ at' = [at EXCEPT ![c] = "check type"]
      BY <2>2 DEF Create, Goto
    <3>2. at'[c] = "check type" /\ "alembic_version" \in made'[c]
      BY <1>1, <3>1
    <3>3. Progress(c)'
      BY <3>2 DEF Progress, Visible
    <3>4. made[c] \cup {"alembic_version"} \in SUBSET Objects
      BY <1>1 DEF Objects
    <3>5. QED
      BY <1>1, <1>4b, <3>1, <3>3, <3>4, LocalStep
  <2>3. QED
    BY <1>6, <2>1, <2>2 DEF EnsureVersionTable
<1>7. CASE CreateType(c)
  <2>1. CASE CheckFirst(c, "check type", "orderstatus", "create type", "create tables")
    <3>1. PICK place \in {"create type", "create tables"} :
             /\ Goto(c, place)
             /\ place = "create tables" <=> "orderstatus" \in Visible(c)
      BY <2>1 DEF CheckFirst
    <3>2. UNCHANGED <<schema, made, proxy, doubled, crashes, ups>> /\ at[c] = "check type"
      BY <2>1 DEF CheckFirst
    <3>3. at' = [at EXCEPT ![c] = place] /\ at'[c] = place /\ Visible(c)' = Visible(c)
      BY <1>4, <3>1, <3>2
    <3>4. Progress(c)'
      BY <1>2, <3>1, <3>2, <3>3 DEF Progress
    <3>5. QED
      BY <1>1, <1>3, <3>1, <3>2, <3>3, <3>4, LocalStep
  <2>2. CASE Create(c, "create type", "orderstatus", "create tables")
    <3>1. /\ UNCHANGED <<schema, proxy, doubled, crashes, ups>>
          /\ made' = [made EXCEPT ![c] = made[c] \cup {"orderstatus"}]
          /\ at' = [at EXCEPT ![c] = "create tables"] /\ at[c] = "create type"
      BY <2>2 DEF Create, Goto
    <3>2. at'[c] = "create tables" /\ made'[c] = made[c] \cup {"orderstatus"}
      BY <1>1, <3>1
    <3>3. Progress(c)'
      BY <1>2, <3>1, <3>2 DEF Progress, Visible
    <3>4. made[c] \cup {"orderstatus"} \in SUBSET Objects
      BY <1>1 DEF Objects
    <3>5. QED
      BY <1>1, <1>4b, <3>1, <3>3, <3>4, LocalStep
  <2>3. QED
    BY <1>7, <2>1, <2>2 DEF CreateType
<1>8. CASE CreateTables(c)
  <2>1. /\ UNCHANGED <<schema, proxy, doubled, crashes, ups>>
        /\ made' = [made EXCEPT ![c] = made[c] \cup {"tables"}]
        /\ at' = [at EXCEPT ![c] = "stamp"] /\ at[c] = "create tables"
    BY <1>8 DEF CreateTables, Create, Goto
  <2>2. at'[c] = "stamp" /\ made'[c] = made[c] \cup {"tables"}
    BY <1>1, <2>1
  <2>3. Progress(c)'
    BY <1>2, <2>1, <2>2 DEF Progress, Visible
  <2>4. made[c] \cup {"tables"} \in SUBSET Objects
    BY <1>1 DEF Objects
  <2>5. QED
    BY <1>1, <1>4b, <2>1, <2>3, <2>4, LocalStep
<1>9. CASE StampAndCommit(c)
  <2>1. schema' = Objects
    <3>1. schema \cup made[c] \cup {"0001"} = Objects
      BY <1>1, <1>2, <1>9 DEF StampAndCommit, Progress, Visible, Objects
    <3>2. QED
      BY <1>9, <3>1 DEF StampAndCommit
  <2>2. /\ made' = [made EXCEPT ![c] = {}] /\ at' = [at EXCEPT ![c] = "uvicorn"]
        /\ UNCHANGED <<proxy, doubled, crashes, ups>>
    BY <1>9 DEF StampAndCommit, Goto
  <2>3. TypeOK'
    BY <2>1, <2>2 DEF IInv, TypeOK
  <2>4. ASSUME NEW d \in Containers
        PROVE  Progress(d)'
    <3>1. "alembic_version" \in schema' /\ "orderstatus" \in schema' /\ "tables" \in schema'
          /\ schema' # {"alembic_version"}
      BY <2>1 DEF Objects
    <3>2. QED
      BY <3>1 DEF Progress, Visible
  <2>5. QED
    BY <2>1, <2>3, <2>4 DEF IInv, SchemaWhole, ServesOnlyCurrentSchema, ExitExplained
<1>10. CASE CreateFails(c)
  <2>1. schema = Objects \/ doubled
    <3>1. Collides(c, "create version", "alembic_version") => schema = Objects
      BY <1>2 DEF Collides, Progress, SchemaWhole
    <3>2. Collides(c, "create type", "orderstatus") => schema = Objects
      <4>1. "orderstatus" # "alembic_version"
        OBVIOUS
      <4>2. QED
        BY <1>2, <4>1, Stamped DEF Collides
    <3>3. Collides(c, "create tables", "tables") => schema = Objects
      <4>1. "tables" # "alembic_version"
        OBVIOUS
      <4>2. QED
        BY <1>2, <4>1, Stamped DEF Collides
    <3>4. QED
      BY <1>10, <3>1, <3>2, <3>3 DEF CreateFails
  <2>2. /\ made' = [made EXCEPT ![c] = {}] /\ at' = [at EXCEPT ![c] = "exited"]
        /\ UNCHANGED <<schema, proxy, doubled, crashes, ups>>
    BY <1>10 DEF CreateFails, RollBackAndExit, Goto
  <2>3. Progress(c)'
    BY <1>1, <2>2 DEF Progress
  <2>4. QED
    BY <1>1, <1>4a, <2>1, <2>2, <2>3, LocalStep
<1>11. CASE Crash(c)
  <2>1. /\ made' = [made EXCEPT ![c] = {}] /\ at' = [at EXCEPT ![c] = "exited"]
        /\ UNCHANGED <<schema, proxy, doubled, ups>>
        /\ crashes < MaxCrashes /\ crashes' = crashes + 1
    BY <1>11 DEF Crash, RollBackAndExit, Goto
  <2>2. Progress(c)'
    BY <1>1, <2>1 DEF Progress
  <2>3. crashes' \in 0..MaxCrashes /\ crashes' >= crashes /\ crashes' > 0
    <3>1. crashes \in Nat /\ MaxCrashes \in Nat
      <4>1. crashes \in 0..MaxCrashes
        BY <1>1
      <4>2. QED
        BY <4>1, DeploymentBoundsAssumption
    <3>2. QED
      BY <2>1, <3>1
  <2>4. QED
    BY <1>4a, <2>1, <2>2, <2>3, LocalStep
<1>12. QED
  BY <1>5, <1>6, <1>7, <1>8, <1>9, <1>10, <1>11 DEF ContainerStep

LEMMA StepInv ==
  ASSUME IInv, [Next]_vars
  PROVE  IInv'
<1>1. CASE \E c \in Containers : ContainerStep(c) \/ Crash(c)
  BY <1>1, ContainerInv
<1>2. CASE ProxyDecides
  BY <1>2 DEF ProxyDecides, IInv, TypeOK, SchemaWhole, Progress, Visible,
              ServesOnlyCurrentSchema, ExitExplained
<1>3. CASE UpAgain
  <2>1. /\ at' = [c \in Containers |-> IF at[c] = "exited" THEN "heads" ELSE at[c]]
        /\ UNCHANGED <<schema, made, doubled, crashes>>
        /\ ups < MaxUps /\ ups' = ups + 1
        /\ proxy' \in {proxy, "waiting"}
    BY <1>3 DEF UpAgain
  <2>2. \A c \in Containers : at'[c] \in {at[c], "heads"} /\ at'[c] # "exited"
    BY <2>1
  <2>3. TypeOK'
    <3>1. ups' \in 0..MaxUps
      BY <2>1, DeploymentBoundsAssumption DEF IInv, TypeOK
    <3>2. at' \in [Containers -> Migrating \cup {"uvicorn", "exited"}]
      BY <2>1 DEF IInv, TypeOK, Migrating
    <3>3. QED
      BY <2>1, <3>1, <3>2 DEF IInv, TypeOK
  <2>4. ASSUME NEW c \in Containers
        PROVE  Progress(c)'
    <3>1. Progress(c)
      BY DEF IInv
    <3>2. QED
      BY <2>1, <2>2, <3>1 DEF Progress, Visible
  <2>5. ServesOnlyCurrentSchema' /\ ExitExplained'
    BY <2>1, <2>2 DEF IInv, ServesOnlyCurrentSchema, ExitExplained
  <2>6. QED
    BY <2>1, <2>3, <2>4, <2>5 DEF IInv, SchemaWhole
<1>4. CASE UNCHANGED vars
  BY <1>4 DEF vars, IInv, TypeOK, SchemaWhole, Progress, Visible,
              ServesOnlyCurrentSchema, ExitExplained
<1>5. QED
  BY <1>1, <1>2, <1>3, <1>4 DEF Next

LEMMA Invariance == Spec => []IInv
<1>1. Init => IInv
  <2> SUFFICES ASSUME Init PROVE IInv
    OBVIOUS
  <2>1. TypeOK
    BY DeploymentBoundsAssumption DEF Init, TypeOK, Objects, Migrating
  <2>2. SchemaWhole
    BY DEF Init, SchemaWhole
  <2>3. \A c \in Containers : at[c] = "heads"
    BY DEF Init
  <2>4. QED
    BY <2>1, <2>2, <2>3 DEF IInv, Progress, ServesOnlyCurrentSchema, ExitExplained
<1>2. QED
  BY <1>1, StepInv, PTL DEF Spec

\* The schema, every open transaction and every container keep their types.
THEOREM TypeCorrect == Spec => []TypeOK
<1>1. IInv => TypeOK
  BY DEF IInv
<1>2. QED
  BY <1>1, Invariance, PTL

\* entrypoint.sh with set -e and one transaction per migration: whoever gets to
\* exec uvicorn finds the schema whole.
THEOREM ServersFindSchema == Spec => []ServesOnlyCurrentSchema
<1>1. IInv => ServesOnlyCurrentSchema
  BY DEF IInv
<1>2. QED
  BY <1>1, Invariance, PTL

\* A container that gave up without a crash and without a doubled type lost the
\* race against one that has migrated completely.
THEOREM ExitsExplained == Spec => []ExitExplained
<1>1. IInv => ExitExplained
  BY DEF IInv
<1>2. QED
  BY <1>1, Invariance, PTL

=============================================================================
