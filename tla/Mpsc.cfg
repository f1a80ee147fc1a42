SPECIFICATION Spec
CONSTANTS
  Producers = {p1, p2}
  Capacity = 2
  MaxOps = 2
  MaxRetry = 2
  Modes = {"try", "wait"}
  Prompt = FALSE
  Raw = Raw
  None = None
INVARIANT StorageMatchesUse
CHECK_DEADLOCK FALSE
