SPECIFICATION FairSpec
CONSTANTS
  p1 = p1
  p2 = p2
  c1 = c1
  c2 = c2
  Producers <- MCProducers
  Consumers <- MCConsumers
  Capacity = 2
  MaxOps = 2
  Modes = {"try", "wait"}
  StaleLoads = FALSE
  Raw = Raw
  None = None
INVARIANTS TypeOK ExclusiveSlot StorageMatchesUse ParityTellsContent
PROPERTIES ImplementsFifo AnswersExact WaitsAreForSomething
CHECK_DEADLOCK FALSE
