SPECIFICATION Spec
CONSTANTS
  Capacity = 4
  Bits = 6
INVARIANT FullMeansFull
