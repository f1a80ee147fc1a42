SPECIFICATION TsoSpec
CONSTANTS
  t1 = t1
  t2 = t2
  o1 = o1
  o2 = o2
  Threads <- MCThreads
  Objects <- MCObjects
  MaxSlot = 2
  RetireCap = 2
  MaxOps = 3
  Null = Null
INVARIANT NoUseAfterFree
CHECK_DEADLOCK FALSE
