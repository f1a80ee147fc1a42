SPECIFICATION Spec
CONSTANTS
  r1 = r1
  r2 = r2
  e1 = e1
  e2 = e2
  Runs <- MCRuns
  Executors <- MCExecutors
  TypeOf <- MCSameType
  Pipelines <- MCTwoVias
  MaxZip = 2
  MayBeFast <- MCMayBeFast
  MaxStarts <- MCStartedOnce
  MaxCancels = 0
PROPERTY ImplementsStages
CHECK_DEADLOCK FALSE
