SPECIFICATION StalledThreadSpec
CONSTANTS
  t1 = t1
  t2 = t2
  Threads <- MCThreads
  Lists = {0, 1}
  Cap <- MCCap
  Values <- MCBlocks
  SeqMod = 8
  Raw = Raw
  Junk = Junk
  MaxOff = 1
  MaxBlockCount = 1
  MaxBlockSize = 8
  Sizes = {4, 8}
  MaxOps = 2
INVARIANTS ChainsLinked NodesAccounted BlocksAccounted NoBlockIsDropped
PROPERTIES ImplementsStacks OthersReturn
CHECK_DEADLOCK FALSE
