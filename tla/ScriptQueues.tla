---------------------------- MODULE ScriptQueues ----------------------------
(***************************************************************************)
(* The three dispatch queues around the scripts of an app: the app's own,  *)
(* the IO queue and that of a worker.  They are taken as SerialQueue, which *)
(* DispatchQueue implements; here the functions given to them get a body:  *)
(* closures with what they captured, and what is left of them to do.        *)
(***************************************************************************)
EXTENDS Naturals, Sequences, FiniteSets, JITContext

CONSTANTS
  Main, IO, Work,  \* the queues of the app, of the IO and of the worker
  MaxClosures,     \* bound: functions given to queues
  MaxCalls,        \* bound: calls that scripts make
  MaxEvents        \* bound: events that make the app run a script

ASSUME QueuesAssumption ==
  /\ Main # IO /\ Main # Work /\ IO # Work
  /\ MaxClosures \in Nat /\ MaxCalls \in Nat

Queues == {Main, IO, Work}
Tasks == 1 .. MaxClosures
NoTask == 0

VARIABLES
  fresh, pending, stack, blocked, finished, closed,  \* those of SerialQueue
  code,    \* the closure of each function
  calls,   \* the calls that scripts made
  events   \* the events of the app

Serial == INSTANCE SerialQueue WITH Threads <- {}, Spurious <- {}

queues == <<fresh, pending, stack, blocked, finished, closed>>

\* kind: what is left to do; fn, worker: the Strong<JSObject> and the
\* Strong<Worker> it has; req, val: the number and the value it carries.
Closure(kind) ==
  [kind |-> kind, fn |-> NoObject, worker |-> FALSE, req |-> 0, val |-> 0]

QueuesInit ==
  /\ Serial!Init
  /\ code = [t \in Tasks |-> Closure("none")]
  /\ calls = 0 /\ events = 0

New == CHOOSE t \in fresh : \A u \in fresh : t <= u

Top(q) == Head(stack[q])

Running(q) == stack[q] # <<>> /\ blocked[q] = NoTask

Runs(q, kind) == Running(q) /\ code[Top(q)].kind = kind

\* The running function of q goes on as the given kind.
Now(q, kind) == [code EXCEPT ![Top(q)].kind = kind]

Async(q, c, now) == Serial!Submit(q, New) /\ code' = [now EXCEPT ![New] = c]

Sync(r, q, c, now) == Serial!SubmitAndWait(r, q, New) /\ code' = [now EXCEPT ![New] = c]

GoesOn(q, kind) == code' = Now(q, kind) /\ UNCHANGED queues

\* A script of the app makes a call.
Calling ==
  /\ Runs(Main, "script")
  /\ calls < MaxCalls
  /\ calls' = calls + 1
  /\ UNCHANGED events

\* A touch, a timer or a page makes the app run a script.
Event ==
  /\ events < MaxEvents
  /\ events' = events + 1
  /\ Async(Main, Closure("script"), code)
  /\ UNCHANGED calls

Begin(q) ==
  /\ Serial!Begin(q)
  /\ UNCHANGED <<code, calls, events>>

\* The function has returned and its closure, which holds nothing, is freed.
End(q) ==
  /\ Running(q)
  /\ code[Top(q)].kind \in {"script", "worker", "over"}
  /\ code[Top(q)].fn = NoObject /\ ~code[Top(q)].worker
  /\ Serial!End(q)
  /\ code' = [code EXCEPT ![Top(q)] = Closure("none")]
  /\ UNCHANGED <<calls, events>>

\* The running function of q returns and takes the queue with it.
Abandon(q) ==
  /\ finished' = finished \cup {Top(q)}
  /\ stack' = [stack EXCEPT ![q] = <<>>]
  /\ pending' = [pending EXCEPT ![q] = <<>>]
  /\ closed' = closed \cup {q}
  /\ code' = [code EXCEPT ![Top(q)] = Closure("none")]
  /\ UNCHANGED <<fresh, blocked>>

=============================================================================
