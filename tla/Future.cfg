SPECIFICATION FairSpec
CONSTANTS
  plain = plain
  checked = checked
  th1 = th1
  th2 = th2
  x = x
  y = y
  z = z
  Tasks <- MCTasks
  ResultTasks <- MCResultTasks
  Threads <- MCThreads
  Places <- MCPlaces
  Nowhere = Nowhere
  MaxShares = 1
  Gone = Gone
  NoState = NoState
INVARIANTS NoFault
PROPERTIES ImplementsOutcomes EveryFutureBecomesReady
CHECK_DEADLOCK FALSE
