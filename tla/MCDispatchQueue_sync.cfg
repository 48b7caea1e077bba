CONSTANTS
  main = main
  qa = qa
  qb = qb
  f1 = f1
  f2 = f2
  f3 = f3
  NoTask = NoTask
  NoQueue = NoQueue
  Queues = {qa, qb}
  Threads = {main}
  Tasks = {f1, f2, f3}
  Together = FALSE
  SyncPairs <- AllPairs
  DropPairs <- MainDrops
  Spurious = {main}
SPECIFICATION FairSpec
INVARIANTS
  WaiterServed
  CurrentKnown
PROPERTIES
  ImplementsSerialQueue
  SyncReturns
  EveryFunctionRuns
  DestroyCompletes
CHECK_DEADLOCK FALSE
