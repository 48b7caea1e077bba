---------------------------- MODULE ScriptBridge ----------------------------
(***************************************************************************)
(* The scripts of an app, their storage and their worker together: one     *)
(* JITContext, one app queue, and two queues that its scripts wait for or   *)
(* that wait for it.                                                        *)
(***************************************************************************)
EXTENDS ScriptWorkers

vars == <<queues, code, calls, events, tables, storage, workers>>

Init == QueuesInit /\ StorageInit /\ WorkersInit

Queued ==
  /\ \/ Event
     \/ \E q \in Queues : Begin(q) \/ End(q)
  /\ UNCHANGED <<tables, storage, workers>>

\* sync() returns.
Return(q) ==
  /\ Serial!Return(q)
  /\ UNCHANGED <<code, calls, events, tables, storage, workers>>

Next ==
  \/ Queued
  \/ \E q \in Queues : Return(q)
  \/ (StorageCalls \/ OnMain \/ OnIO) /\ UNCHANGED workers
  \/ WorkerCalls \/ OnMainToo \/ OnWork

Spec == Init /\ [][Next]_vars

\* What a queue does without the will of a script: begin, go on and end functions.
Step(q) ==
  \/ (Begin(q) \/ End(q)) /\ UNCHANGED <<tables, storage, workers>>
  \/ Return(q)

MainStep == Step(Main) \/ (OnMain /\ UNCHANGED workers) \/ OnMainToo
IOStep == Step(IO) \/ (OnIO /\ UNCHANGED workers)
WorkStep == Step(Work) \/ OnWork

FairSpec ==
  /\ Spec
  /\ WF_vars(MainStep) /\ WF_vars(IOStep) /\ WF_vars(WorkStep)

-----------------------------------------------------------------------------
(***************************************************************************)
(* Properties.                                                             *)
(***************************************************************************)

\* The app's queue waits for the IO queue, which frees the last closure of a
\* callback and waits for the app's queue in the destructor (core/jit.cc:613).
Circle ==
  /\ blocked[Main] # NoTask /\ blocked[IO] # NoTask
  /\ code[blocked[IO]].kind = "delete"

\* The type invariant.
TypeOK ==
  /\ object \in [JSObjects -> {"free", "live", "dying"}]
  /\ made \in [JSObjects -> Callbacks \cup {NoHeapptr}]
  /\ \A k \in DOMAIN stash : stash[k] \in Callbacks
  /\ owed \subseteq 1 .. MaxCalls /\ lost \subseteq 1 .. MaxCalls
  /\ worker \in {"none", "making", "live", "gone"}
  /\ heap \in {"none", "alive", "left", "destroyed"} /\ fallen \in Tasks \cup {NoTask}
  /\ \A t \in Tasks : code[t].fn \in JSObjects \cup {NoObject}

\* The heap keeps f, and a lookup by its key finds it.
Stashed(f) == StashKey[f] \in DOMAIN stash /\ stash[StashKey[f]] = f

\* A JSObject names a function by its address in the heap: for as long as the
\* tables answer with it the heap must keep the function, and it must be the
\* one it was made for; and what is kept is let go with its last JSObject.
\* (core/jit.cc: JSObject::JSObject, ~JSObject and the tables)
FunctionsKept ==
  /\ \A j \in JSObjects : Heapptr(j) # NoHeapptr =>
       object[j] # "free" /\ Heapptr(j) = made[j] /\ Stashed(Heapptr(j))
  /\ \A k \in DOMAIN stash : \E j \in JSObjects :
       object[j] # "free" /\ made[j] = stash[k]

\* get() waits while the writes before it do not: it must see them.
\* (core/storage.cc: SqliteStorage::get, set and clear)
GetSeesPuts == Runs(Main, "getting") => got = last

\* No function runs in the heap of a worker that was destroyed, but the script that
\* the constructor runs, when it drops the last Strong to its Worker itself.
\* (ui/ui.cc: Worker::Worker, postMessage, terminate and ~Worker)
HeapOutlivesScripts ==
  Runs(Work, "worker") \/ Runs(Work, "posting") \/ Runs(Work, "leaving") =>
    heap \in {"alive", "left"} \/ Top(Work) = fallen

\* Every callback that was given to load() or loadKeys() is called, unless the
\* two queues wait for each other, a Worker fell while it was made, or its function
\* was given away while its former JSObject was being destroyed.
EveryLoadAnswered ==
  \A r \in 1 .. MaxCalls :
    r \in owed ~> r \notin owed \/ r \in lost \/ Circle \/ fallen # NoTask

\* Every call of a script that waits for another queue returns, but for the
\* same circle: get(), loadKeys(), createWorker() and terminate().
EveryCallReturns ==
  blocked[Main] # NoTask ~> blocked[Main] = NoTask \/ Circle \/ fallen # NoTask

=============================================================================
