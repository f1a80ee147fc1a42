SPECIFICATION FairSpec
CONSTANTS
  Capacity = 2
  MaxOps = 4
  Modes = {"try", "wait"}
  StaleLoads = TRUE
  Raw = Raw
  None = None
INVARIANTS TypeOK StorageMatchesUse NothingLeaks
PROPERTIES ImplementsFifo WaitsAreForSomething
CHECK_DEADLOCK FALSE
