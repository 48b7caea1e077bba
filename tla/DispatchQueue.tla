---------------------------- MODULE DispatchQueue ----------------------------
(***************************************************************************)
(* LibeventDispatchQueue of core/dispatch-event.cc: a thread per queue that *)
(* turns a libevent loop, whose timer callback pops one function and runs  *)
(* it outside the lock.  A queue stands for its thread too; Threads are    *)
(* the others.  pthread_mutex_t _lock is held over one step at a time: the *)
(* push of async(), the push and the entry into pthread_cond_wait() of     *)
(* sync(), the pop of loop().                                              *)
(***************************************************************************)
EXTENDS Integers, Sequences, FiniteSets

CONSTANTS
  Queues,    \* the LibeventDispatchQueue instances
  Threads,   \* the threads that are not a queue's
  Tasks,     \* the std::function<void()> instances, each used once
  NoTask, NoQueue,
  Together,  \* a queue may be made while the thread of another starts
  SyncPairs, \* <<r, q>>: code on r calls q->sync()
  DropPairs, \* <<r, q>>: code on r may release the last reference to q
  Spurious   \* those whose pthread_cond_wait() may return without a broadcast

Runners == Queues \cup Threads

ASSUME DispatchAssumption ==
  /\ Queues \cap Threads = {}
  /\ NoTask \notin Tasks /\ NoQueue \notin Queues
  /\ Together \in BOOLEAN
  /\ SyncPairs \subseteq Runners \X Queues
  /\ DropPairs \subseteq {p \in Runners \X Queues : p[1] # p[2]}
  /\ Spurious \subseteq Runners

VARIABLES
  fresh,     \* the functions not given to any queue yet
  funcs,     \* _funcs
  stack,     \* the functions each runner is inside of, innermost first
  wait,      \* the function a runner waits for in sync(), or NoTask
  woken,     \* the runners whose condition variable was broadcast
  finished,  \* the functions that have returned
  phase,     \* where the thread of each queue is
  brk,       \* event_break of the event_base of each queue
  key,       \* kGCDDispatchQueueKey, 0 when no key was created
  keys,      \* the number of keys pthread_key_create() has given out
  specific,  \* the key under which each thread stored its queue
  dropped,   \* the queues whose destructor has begun
  joining    \* the queue whose thread a runner joins, or NoQueue

vars == <<fresh, funcs, stack, wait, woken, finished, phase, brk, key, keys,
          specific, dropped, joining>>

startVars == <<phase, brk, key, keys, specific>>
dropVars  == <<dropped, joining>>

Starting == {"created", "keyless", "keyed"}
Phases == {"unmade"} \cup Starting \cup {"ready", "loop", "armed", "exited", "freed"}

Init ==
  /\ fresh = Tasks
  /\ funcs = [q \in Queues |-> <<>>]
  /\ stack = [r \in Runners |-> <<>>]
  /\ wait = [r \in Runners |-> NoTask]
  /\ woken = {}
  /\ finished = {}
  /\ phase = [q \in Queues |-> "unmade"]
  /\ brk = [q \in Queues |-> FALSE]
  /\ key = 0 /\ keys = 0
  /\ specific = [q \in Queues |-> 0]
  /\ dropped = {}
  /\ joining = [r \in Runners |-> NoQueue]

-----------------------------------------------------------------------------
(* LibeventDispatchQueueRunnable, on the thread of q. *)

\* Mutant: the key is created whether or not there is one.
CheckKeyAlways(q) ==
  /\ phase[q] = "created"
  /\ phase' = [phase EXCEPT ![q] = "keyless"]
  /\ UNCHANGED <<fresh, funcs, stack, wait, woken, finished, brk, key, keys,
                 specific, dropVars>>

\* if(kGCDDispatchQueueKey == 0), under no lock.
CheckKey(q) ==
  /\ phase[q] = "created"
  /\ phase' = [phase EXCEPT ![q] = IF key = 0 THEN "keyless" ELSE "keyed"]
  /\ UNCHANGED <<fresh, funcs, stack, wait, woken, finished, brk, key, keys,
                 specific, dropVars>>

\* pthread_key_create(&kGCDDispatchQueueKey): a key never given out before.
CreateKey(q) ==
  /\ phase[q] = "keyless"
  /\ phase' = [phase EXCEPT ![q] = "keyed"]
  /\ keys' = keys + 1
  /\ key' = keys + 1
  /\ UNCHANGED <<fresh, funcs, stack, wait, woken, finished, brk, specific,
                 dropVars>>

\* Mutant: nothing is stored under the key.
SetSpecificNothing(q) ==
  /\ phase[q] = "keyed"
  /\ phase' = [phase EXCEPT ![q] = "ready"]
  /\ UNCHANGED <<fresh, funcs, stack, wait, woken, finished, brk, key, keys,
                 specific, dropVars>>

\* pthread_setspecific(kGCDDispatchQueueKey, queue)
SetSpecific(q) ==
  /\ phase[q] = "keyed"
  /\ phase' = [phase EXCEPT ![q] = "ready"]
  /\ specific' = [specific EXCEPT ![q] = key]
  /\ UNCHANGED <<fresh, funcs, stack, wait, woken, finished, brk, key, keys,
                 dropVars>>

\* event_base_dispatch() clears event_break when it is entered.
EnterDispatch(q) ==
  /\ phase[q] = "ready"
  /\ phase' = [phase EXCEPT ![q] = "loop"]
  /\ brk' = [brk EXCEPT ![q] = FALSE]
  /\ UNCHANGED <<fresh, funcs, stack, wait, woken, finished, key, keys,
                 specific, dropVars>>

Start(q) == CheckKey(q) \/ CreateKey(q) \/ SetSpecific(q) \/ EnterDispatch(q)

\* getCurrentDispatchQueue() on runner r.
Current(r) ==
  IF key # 0 /\ r \in Queues /\ specific[r] = key THEN r ELSE NoQueue

-----------------------------------------------------------------------------
(* What the code that runs on r may do. *)

Running(r) ==
  /\ wait[r] = NoTask /\ joining[r] = NoQueue
  /\ (r \in Threads \/ stack[r] # <<>>)

\* q may be used by whoever holds a reference; its own functions reach it
\* through getCurrentDispatchQueue(), which holds none.
Reachable(r, q) == phase[q] # "unmade" /\ (q \notin dropped \/ r = q)

\* The constructor: an event_base, a timer and a thread.
Create(r, q) ==
  /\ Running(r)
  /\ phase[q] = "unmade"
  /\ Together \/ \A p \in Queues : phase[p] \notin Starting
  /\ phase' = [phase EXCEPT ![q] = "created"]
  /\ UNCHANGED <<fresh, funcs, stack, wait, woken, finished, brk, key, keys,
                 specific, dropVars>>

Async(r, q, f) ==
  /\ Running(r) /\ Reachable(r, q)
  /\ f \in fresh
  /\ fresh' = fresh \ {f}
  /\ funcs' = [funcs EXCEPT ![q] = Append(@, f)]
  /\ UNCHANGED <<stack, wait, woken, finished, startVars, dropVars>>

\* sync() on the queue the caller is running on: func().
SyncInline(r, q, f) ==
  /\ Running(r) /\ Reachable(r, q)
  /\ q = Current(r)
  /\ f \in fresh
  /\ fresh' = fresh \ {f}
  /\ stack' = [stack EXCEPT ![r] = <<f>> \o @]
  /\ UNCHANGED <<funcs, wait, woken, finished, startVars, dropVars>>

\* Code on q calls q->sync() freely: it is meant to run at once.
MaySync(r, q) == r = q \/ <<r, q>> \in SyncPairs

\* Mutant: the caller does not wait for its function.
SyncWithoutWait(r, q, f) ==
  /\ Running(r) /\ Reachable(r, q)
  /\ MaySync(r, q) /\ q # Current(r)
  /\ f \in fresh
  /\ fresh' = fresh \ {f}
  /\ funcs' = [funcs EXCEPT ![q] = Append(@, f)]
  /\ woken' = woken \cup {r}
  /\ wait' = [wait EXCEPT ![r] = f]
  /\ UNCHANGED <<stack, finished, startVars, dropVars>>

\* sync() on another queue: the push and the wait, under _lock.
SyncWait(r, q, f) ==
  /\ Running(r) /\ Reachable(r, q)
  /\ MaySync(r, q) /\ q # Current(r)
  /\ f \in fresh
  /\ fresh' = fresh \ {f}
  /\ funcs' = [funcs EXCEPT ![q] = Append(@, f)]
  /\ wait' = [wait EXCEPT ![r] = f]
  /\ UNCHANGED <<stack, woken, finished, startVars, dropVars>>

\* pthread_cond_wait() returns after the broadcast, and sync() returns.
SyncReturn(r) ==
  /\ r \in woken
  /\ woken' = woken \ {r}
  /\ wait' = [wait EXCEPT ![r] = NoTask]
  /\ UNCHANGED <<fresh, funcs, stack, finished, startVars, dropVars>>

\* pthread_cond_wait() returns early; no predicate is tested again.
SpuriousReturn(r) ==
  /\ r \in Spurious
  /\ wait[r] # NoTask /\ r \notin woken
  /\ wait' = [wait EXCEPT ![r] = NoTask]
  /\ UNCHANGED <<fresh, funcs, stack, woken, finished, startVars, dropVars>>

-----------------------------------------------------------------------------
(* The event loop of q. *)

\* The top of event_base_loop(): leave it, or wait for the timer.
Iterate(q) ==
  /\ phase[q] = "loop" /\ stack[q] = <<>>
  /\ phase' = [phase EXCEPT ![q] = IF brk[q] THEN "exited" ELSE "armed"]
  /\ UNCHANGED <<fresh, funcs, stack, wait, woken, finished, brk, key, keys,
                 specific, dropVars>>

\* Mutant: the timer is added again only after a function was found.
FireOnce(q) ==
  /\ phase[q] = "armed"
  /\ IF funcs[q] = <<>>
     THEN UNCHANGED <<funcs, stack, phase>>
     ELSE /\ stack' = [stack EXCEPT ![q] = <<Head(funcs[q])>>]
          /\ funcs' = [funcs EXCEPT ![q] = <<>>]
          /\ phase' = [phase EXCEPT ![q] = "loop"]
  /\ UNCHANGED <<fresh, wait, woken, finished, brk, key, keys, specific, dropVars>>

\* loop(): pop one function; the timer is added again in either case.
Fire(q) ==
  /\ phase[q] = "armed"
  /\ phase' = [phase EXCEPT ![q] = "loop"]
  /\ IF funcs[q] = <<>>
     THEN UNCHANGED <<funcs, stack>>
     ELSE /\ stack' = [stack EXCEPT ![q] = <<Head(funcs[q])>>]
          /\ funcs' = [funcs EXCEPT ![q] = Tail(@)]
  /\ UNCHANGED <<fresh, wait, woken, finished, brk, key, keys, specific, dropVars>>

\* Mutant: the wrapper of sync() does not broadcast.
FinishSilently(q) ==
  /\ stack[q] # <<>> /\ wait[q] = NoTask /\ joining[q] = NoQueue
  /\ finished' = finished \cup {Head(stack[q])}
  /\ stack' = [stack EXCEPT ![q] = Tail(@)]
  /\ UNCHANGED <<fresh, funcs, wait, woken, startVars, dropVars>>

\* The innermost function of q returns; the wrapper of sync() broadcasts.
Finish(q) ==
  /\ stack[q] # <<>> /\ wait[q] = NoTask /\ joining[q] = NoQueue
  /\ finished' = finished \cup {Head(stack[q])}
  /\ woken' = woken \cup {r \in Runners : wait[r] = Head(stack[q])}
  /\ stack' = [stack EXCEPT ![q] = Tail(@)]
  /\ UNCHANGED <<fresh, funcs, wait, startVars, dropVars>>

-----------------------------------------------------------------------------
(* ~LibeventDispatchQueue, on the runner that released the last reference. *)

\* No caller of sync() is inside it: each holds a reference to the queue.
Unused(q) ==
  \A r \in Runners : wait[r] # NoTask =>
    /\ \A i \in DOMAIN funcs[q] : funcs[q][i] # wait[r]
    /\ \A i \in DOMAIN stack[q] : stack[q][i] # wait[r]

\* event_base_loopbreak(), then pthread_join() begins to wait.
Destroy(r, q) ==
  /\ Running(r) /\ <<r, q>> \in DropPairs
  /\ phase[q] # "unmade" /\ q \notin dropped /\ Unused(q)
  /\ dropped' = dropped \cup {q}
  /\ brk' = [brk EXCEPT ![q] = TRUE]
  /\ joining' = [joining EXCEPT ![r] = q]
  /\ UNCHANGED <<fresh, funcs, stack, wait, woken, finished, phase, key, keys,
                 specific>>

\* Mutant: the destructor waits until every function has been taken.
FreeDrained(r) ==
  /\ joining[r] # NoQueue
  /\ phase[joining[r]] = "exited" /\ funcs[joining[r]] = <<>>
  /\ phase' = [phase EXCEPT ![joining[r]] = "freed"]
  /\ joining' = [joining EXCEPT ![r] = NoQueue]
  /\ UNCHANGED <<fresh, funcs, stack, wait, woken, finished, brk, key, keys,
                 specific, dropped>>

\* The thread has ended: the timer, the lock and _funcs are freed.
Free(r) ==
  /\ joining[r] # NoQueue
  /\ phase[joining[r]] = "exited"
  /\ phase' = [phase EXCEPT ![joining[r]] = "freed"]
  /\ funcs' = [funcs EXCEPT ![joining[r]] = <<>>]
  /\ joining' = [joining EXCEPT ![r] = NoQueue]
  /\ UNCHANGED <<fresh, stack, wait, woken, finished, brk, key, keys, specific,
                 dropped>>

-----------------------------------------------------------------------------
Call(r) ==
  \/ \E q \in Queues, f \in Tasks :
       Async(r, q, f) \/ SyncInline(r, q, f) \/ SyncWait(r, q, f)
  \/ \E q \in Queues : Create(r, q) \/ Destroy(r, q)

Turn(q) == Start(q) \/ Iterate(q) \/ Fire(q)

Next ==
  \/ \E r \in Runners : Call(r) \/ SyncReturn(r) \/ SpuriousReturn(r) \/ Free(r)
  \/ \E q \in Queues : Turn(q) \/ Finish(q)

Spec == Init /\ [][Next]_vars

\* The threads are scheduled: a loop turns, a function that is not blocked
\* returns, a woken caller runs, a join whose thread has ended returns.
\* Nothing forces a runner to call async(), sync() or a destructor.
FairSpec ==
  /\ Spec
  /\ \A q \in Queues : WF_vars(Turn(q)) /\ WF_vars(Finish(q))
  /\ \A r \in Runners : WF_vars(SyncReturn(r)) /\ WF_vars(Free(r))

-----------------------------------------------------------------------------
(***************************************************************************)
(* Properties.                                                             *)
(***************************************************************************)

\* The type invariant; only a caller that waits can have been woken.
TypeOK ==
  /\ fresh \subseteq Tasks
  /\ funcs \in [Queues -> Seq(Tasks)]
  /\ stack \in [Runners -> Seq(Tasks)]
  /\ wait \in [Runners -> Tasks \cup {NoTask}]
  /\ woken \subseteq {r \in Runners : wait[r] # NoTask}
  /\ finished \subseteq Tasks
  /\ phase \in [Queues -> Phases]
  /\ brk \in [Queues -> BOOLEAN]
  /\ key \in Nat /\ keys \in Nat
  /\ specific \in [Queues -> Nat]
  /\ dropped \subseteq Queues
  /\ joining \in [Runners -> Queues \cup {NoQueue}]

Queued(f, q)   == \E i \in DOMAIN funcs[q] : funcs[q][i] = f
Executing(f, q) == \E i \in DOMAIN stack[q] : stack[q][i] = f

\* A caller blocked in sync() will be woken: its function is still to run, is
\* running, or has run and the broadcast reached this caller.
WaiterServed ==
  \A r \in Runners : wait[r] # NoTask =>
    \/ \E q \in Queues : Queued(wait[r], q) \/ Executing(wait[r], q)
    \/ r \in woken /\ wait[r] \in finished

\* core/dispatch-event.cc:281 asserts it of every function that stores a
\* value with setDispatchQueueSpecific(): the thread that runs a function of
\* a queue knows the queue.
CurrentKnown ==
  \A q \in Queues : stack[q] # <<>> => Current(q) # NoQueue

\* What users see of the queues is a SerialQueue.
Abstract == INSTANCE SerialQueue WITH
  pending <- funcs,
  blocked <- wait,
  closed  <- {q \in Queues : phase[q] = "freed"}

ImplementsSerialQueue == Abstract!Spec

\* r is one of a set of runners that wait for one another: none of them ever
\* moves again.
Doomed(r) ==
  \E D \in SUBSET Runners :
    /\ r \in D
    /\ \A p \in D : \E q \in D \cap Queues :
         \/ joining[p] = q
         \/ wait[p] # NoTask /\ (Queued(wait[p], q) \/ Executing(wait[p], q))

\* sync() returns, unless the callers of sync() and of destructors wait for
\* one another in a circle: two queues that call sync() on each other.
SyncReturns ==
  \A r \in Runners : wait[r] # NoTask ~> wait[r] = NoTask \/ Doomed(r)

\* A function given to a queue runs, unless the queue is destroyed first or
\* its thread is caught in such a circle.
EveryFunctionRuns ==
  \A q \in Queues, f \in Tasks :
    Queued(f, q) /\ q \notin dropped
      ~> f \in finished \/ q \in dropped \/ Doomed(q)

\* The destructor returns, when its event_base_loopbreak() came after the
\* thread entered the loop (entering it clears the request: see EnterDispatch)
\* and the thread is not caught in a circle of sync().
DestroyCompletes ==
  \A r \in Runners, q \in Queues :
    joining[r] = q /\ brk[q] /\ phase[q] \in {"loop", "armed"}
      ~> joining[r] = NoQueue \/ Doomed(q)

=============================================================================
