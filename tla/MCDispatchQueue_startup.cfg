CONSTANTS
  main = main
  qa = qa
  qb = qb
  f1 = f1
  f2 = f2
  f3 = f3
  NoTask = NoTask
  NoQueue = NoQueue
  Queues = {qa, qb}
  Threads = {main}
  Tasks = {f1}
  Together = TRUE
  SyncPairs <- NoPairs
  DropPairs <- NoPairs
  Spurious = {}
SPECIFICATION Spec
INVARIANT
  CurrentKnown
CHECK_DEADLOCK FALSE
