SPECIFICATION FairSpec
CONSTANTS
  t1 = t1
  t2 = t2
  t3 = t3
  o1 = o1
  o2 = o2
  Threads <- MCThreads
  Objects <- MCObjects
  MaxSlot = 2
  RetireCap = 2
  MaxOps = 4
  Null = Null
INVARIANTS NoUseAfterFree RetiredOnce RecordsExclusive
PROPERTIES EveryCallReturns
CHECK_DEADLOCK FALSE
