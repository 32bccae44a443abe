CONSTANTS
  Replicas = {api1, api2}
  Worker = worker
  MaxCrashes = 1
  MaxUps = 1
SPECIFICATION FairSpec
INVARIANTS TypeOK ServesOnlyCurrentSchema ExitExplained
PROPERTY StackSettles
CHECK_DEADLOCK FALSE
