SPECIFICATION FairSpec
CONSTANTS
  r1 = r1
  r2 = r2
  e1 = e1
  e2 = e2
  Runs <- MCRuns
  Executors <- MCExecutors
  TypeOf <- MCTypeOf
  Pipelines <- MCPipelines
  MaxZip = 2
  MayBeFast <- MCMayBeFast
  MaxStarts <- MCMaxStarts
  MaxCancels = 2
INVARIANTS HardStopsSoon SoftReachesEnd BlueprintOutlivesUse ReadyMeansStored
PROPERTIES ImplementsStages ReadyIsFinal AllBecomeReady
CHECK_DEADLOCK FALSE
