---------------------------- MODULE ScriptWorkers ----------------------------
(***************************************************************************)
(* A Worker of ui/ui.cc: an object that the app's heap keeps through the   *)
(* strong table of its JITContext, with a queue and a heap of its own.      *)
(* Messages go down with the raw Context and up with a Weak<Worker>.        *)
(* The app's Context keeps nothing: Context::set() only replaces an entry.  *)
(***************************************************************************)
EXTENDS ScriptStorage

CONSTANTS
  TheWorker,  \* the Worker
  Proxy,      \* the value that stands for it in the app's heap
  MaxPosts    \* bound: messages that the worker's scripts post

ASSUME ValuesDiffer ==
  /\ Proxy # NoHeapptr /\ Proxy \notin Callbacks /\ NoHeapptr \notin Callbacks
  /\ NoObject \notin JSObjects /\ TheWorker \notin JSObjects /\ TheWorker # NoObject

VARIABLES
  worker,  \* the life of the Worker: none, making, live or gone
  heap,    \* the life of its Context: none, alive, left (to the Strong of a
           \* function that runs in it) or destroyed
  posts,   \* the messages its scripts posted
  fallen   \* the function that destroyed the heap it is in, or NoTask

workers == <<worker, heap, posts, fallen>>

WorkersInit ==
  /\ worker = "none" /\ heap = "none"
  /\ posts = 0
  /\ fallen = NoTask

Kept == Proxy \in DOMAIN tables.strong

-----------------------------------------------------------------------------
(* The app's side. *)

\* new Worker: its context is made and its script is run on its queue.
CreateWorker ==
  /\ Calling
  /\ worker = "none"
  /\ worker' = "making"
  /\ Sync(Main, Work, Closure("setup"), Now(Main, "creating"))
  /\ UNCHANGED <<tables, storage, heap, posts, fallen>>

\* createWorker() returns the Worker to the script; what it does with one that
\* was destroyed meanwhile is undefined and not modelled.
Created ==
  /\ fallen = NoTask
  /\ Runs(Main, "creating") /\ GoesOn(Main, "script")
  /\ worker' = "live"
  /\ tables' = Strong(tables, Context, Proxy, TheWorker)
  /\ UNCHANGED <<calls, events, storage, heap, posts, fallen>>

\* postMessage(): nothing is sent once the context was let go.
Post ==
  /\ Calling
  /\ Kept /\ heap = "alive"
  /\ Async(Work, Closure("post"), code)
  /\ UNCHANGED <<tables, storage, workers>>

\* Mutant: the context is let go without waiting for its queue.
LetGoAtOnce(now, waiting) ==
  /\ heap' = "destroyed"
  /\ code' = now
  /\ UNCHANGED queues

\* terminate() and ~Worker: the context is released on its queue, if it still is.
LetGo(now, waiting) ==
  IF heap = "alive"
  THEN /\ Sync(Main, Work, Closure("release"), [now EXCEPT ![Top(Main)].kind = waiting])
       /\ UNCHANGED heap
  ELSE code' = now /\ UNCHANGED <<queues, heap>>

Terminate ==
  /\ Calling
  /\ Kept
  /\ LetGo(code, "closing")
  /\ UNCHANGED <<tables, storage, worker, posts, fallen>>

\* The queue is released: its thread ends.
Close ==
  /\ Runs(Main, "closing") \/ Runs(Main, "ending")
  /\ Serial!Close(Work)
  /\ code' = Now(Main, IF Runs(Main, "closing") THEN "script" ELSE "over")
  /\ UNCHANGED <<calls, events, tables, storage, workers>>

\* The functions other than t that have a Strong to the Worker.
Others(t) == {u \in Tasks \ {t} : code[u].worker}

\* Object_dealloc: the heap collects the Worker's value.
Collect ==
  /\ Calling
  /\ Kept
  /\ tables' = RemoveHeapptr(tables, Proxy)
  /\ IF \E t \in Tasks : code[t].worker
     THEN UNCHANGED <<queues, code, worker, heap>>
     ELSE worker' = "gone" /\ LetGo(code, "closing")
  /\ UNCHANGED <<storage, posts, fallen>>

\* A message of the worker: the handler runs while a Strong keeps the Worker.
OnMessage ==
  /\ Runs(Main, "message")
  /\ IF worker = "live"
     THEN code' = [Now(Main, "script") EXCEPT ![Top(Main)].worker = TRUE]
     ELSE code' = Now(Main, "over")
  /\ UNCHANGED <<queues, calls, events, tables, storage, workers>>

\* The handler has returned.
Handled ==
  /\ Runs(Main, "script") /\ code[Top(Main)].worker
  /\ LET now == [Now(Main, "over") EXCEPT ![Top(Main)].worker = FALSE] IN
     IF Kept \/ Others(Top(Main)) # {}
     THEN code' = now /\ UNCHANGED <<queues, worker, heap>>
     ELSE worker' = "gone" /\ LetGo(now, "ending")
  /\ UNCHANGED <<calls, events, tables, storage, posts, fallen>>

-----------------------------------------------------------------------------
(* The worker's queue. *)

Setup ==
  /\ Runs(Work, "setup") /\ GoesOn(Work, "worker")
  /\ heap' = "alive"
  /\ UNCHANGED <<calls, events, tables, storage, worker, posts, fallen>>

\* The function of postMessage() runs the script in the raw Context.
OnPost ==
  /\ Runs(Work, "post") /\ GoesOn(Work, "worker")
  /\ UNCHANGED <<calls, events, tables, storage, workers>>

\* The worker's script posts: the Weak gives a Strong.
PostUp ==
  /\ Runs(Work, "worker")
  /\ posts < MaxPosts /\ posts' = posts + 1
  /\ worker \in {"making", "live"}
  /\ code' = [Now(Work, "posting") EXCEPT ![Top(Work)].worker = TRUE]
  /\ UNCHANGED <<queues, calls, events, tables, storage, worker, heap, fallen>>

\* onBackgroundMessage(), and the end of the Strong.
PostedOn(kind) ==
  /\ Runs(Work, "posting")
  /\ Async(Main, Closure("message"), [Now(Work, kind) EXCEPT ![Top(Work)].worker = FALSE])
  /\ UNCHANGED <<calls, events, tables, storage, posts>>

LastStrong == ~Kept /\ Others(Top(Work)) = {}

Posted ==
  /\ PostedOn("worker")
  /\ ~LastStrong
  /\ UNCHANGED <<worker, heap, fallen>>

\* It was the last: ~Worker lets the context go, on its own queue.  The function of
\* postMessage() has a Strong to it.
PostedLast ==
  /\ PostedOn("leaving")
  /\ LastStrong /\ worker = "live"
  /\ worker' = "gone" /\ heap' = "left"
  /\ UNCHANGED fallen

\* The script that the constructor runs has none: the heap goes, and it is in it.
PostedFalling ==
  /\ PostedOn("worker")
  /\ LastStrong /\ worker = "making"
  /\ worker' = "gone" /\ heap' = "destroyed" /\ fallen' = Top(Work)

\* The function ends, ~Context runs with its Strong, and with the context goes the
\* queue, from its own thread: what it still had to run is dropped.
Leave ==
  /\ Runs(Work, "leaving")
  /\ heap' = "destroyed"
  /\ Abandon(Work)
  /\ UNCHANGED <<calls, events, tables, storage, worker, posts, fallen>>

\* ~Context
LetGoContext ==
  /\ Runs(Work, "release") /\ GoesOn(Work, "over")
  /\ heap' = "destroyed"
  /\ UNCHANGED <<calls, events, tables, storage, worker, posts, fallen>>

-----------------------------------------------------------------------------
WorkerCalls == CreateWorker \/ Post \/ Terminate \/ Collect

OnMainToo == Created \/ Close \/ OnMessage \/ Handled

OnWork ==
  \/ Setup \/ OnPost \/ PostUp \/ Posted \/ PostedLast \/ PostedFalling \/ Leave
  \/ LetGoContext

=============================================================================
