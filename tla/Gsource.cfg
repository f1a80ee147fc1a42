SPECIFICATION FairExecSpec
CONSTANTS
  loop = loop
  p1 = p1
  p2 = p2
  p3 = p3
  Producers <- MCProducers
  Loop = loop
  Capacity = 2
  MaxOps = 1
  MaxRetry = 2
  Modes = {"try", "wait"}
  Prompt = TRUE
  MaxTasks = 1
  EfdMax = 2
  MaxDepth = 1
  Raw = Raw
  None = None
INVARIANTS StorageMatchesUse NoLostWakeUp NothingLeaks
PROPERTIES TasksRunInOrder EveryTaskRuns
CHECK_DEADLOCK FALSE
