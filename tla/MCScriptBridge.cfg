\* An app with one callback, two addresses for its JSObjects and a worker.
SPECIFICATION FairSpec
CONSTANTS
  Main = Main
  IO = IO
  Work = Work
  MaxClosures = 14
  MaxCalls = 3
  MaxEvents = 2
  NoObject = NoObject
  NoHeapptr = NoHeapptr
  Context = Context
  Callbacks <- OneCallback
  JSObjects <- TwoAddresses
  StashKey <- Keys
  TheWorker = TheWorker
  Proxy = Proxy
  MaxPosts = 1
INVARIANTS FunctionsKept GetSeesPuts HeapOutlivesScripts
PROPERTIES EveryLoadAnswered EveryCallReturns
CHECK_DEADLOCK FALSE
