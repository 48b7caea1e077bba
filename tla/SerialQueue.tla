----------------------------- MODULE SerialQueue -----------------------------
(***************************************************************************)
(* What DispatchQueue (core/dispatch.h) promises its users: functions given *)
(* to a queue run one at a time, in the order they were given, each once;  *)
(* sync() returns after its function has run, and runs it at once when the *)
(* caller is already on the queue; a queue that is destroyed forgets its    *)
(* functions but never one that a caller of sync() is waiting for.         *)
(***************************************************************************)
EXTENDS Sequences

CONSTANTS
  Queues, Threads, Tasks, NoTask,
  Spurious  \* the runners whose sync() may return before its function has run

Runners == Queues \cup Threads

VARIABLES
  fresh,     \* the functions not given to any queue yet
  pending,   \* the functions given to each queue, oldest first
  stack,     \* the functions each runner is inside of, innermost first
  blocked,   \* the function each runner waits for in sync(), or NoTask
  finished,  \* the functions that have returned
  closed     \* the queues that were destroyed

vars == <<fresh, pending, stack, blocked, finished, closed>>

Init ==
  /\ fresh = Tasks
  /\ pending = [q \in Queues |-> <<>>]
  /\ stack = [r \in Runners |-> <<>>]
  /\ blocked = [r \in Runners |-> NoTask]
  /\ finished = {}
  /\ closed = {}

\* async(f)
Submit(q, f) ==
  /\ f \in fresh /\ q \notin closed
  /\ fresh' = fresh \ {f}
  /\ pending' = [pending EXCEPT ![q] = Append(@, f)]
  /\ UNCHANGED <<stack, blocked, finished, closed>>

\* sync(f) from another thread
SubmitAndWait(r, q, f) ==
  /\ r # q /\ blocked[r] = NoTask
  /\ f \in fresh /\ q \notin closed
  /\ fresh' = fresh \ {f}
  /\ pending' = [pending EXCEPT ![q] = Append(@, f)]
  /\ blocked' = [blocked EXCEPT ![r] = f]
  /\ UNCHANGED <<stack, finished, closed>>

\* sync(f) from a function of q
RunInline(q, f) ==
  /\ f \in fresh /\ stack[q] # <<>> /\ blocked[q] = NoTask
  /\ fresh' = fresh \ {f}
  /\ stack' = [stack EXCEPT ![q] = <<f>> \o @]
  /\ UNCHANGED <<pending, blocked, finished, closed>>

Begin(q) ==
  /\ stack[q] = <<>> /\ pending[q] # <<>>
  /\ stack' = [stack EXCEPT ![q] = <<Head(pending[q])>>]
  /\ pending' = [pending EXCEPT ![q] = Tail(@)]
  /\ UNCHANGED <<fresh, blocked, finished, closed>>

End(q) ==
  /\ stack[q] # <<>> /\ blocked[q] = NoTask
  /\ finished' = finished \cup {Head(stack[q])}
  /\ stack' = [stack EXCEPT ![q] = Tail(@)]
  /\ UNCHANGED <<fresh, pending, blocked, closed>>

Return(r) ==
  /\ blocked[r] \in finished \/ (r \in Spurious /\ blocked[r] # NoTask)
  /\ blocked' = [blocked EXCEPT ![r] = NoTask]
  /\ UNCHANGED <<fresh, pending, stack, finished, closed>>

Close(q) ==
  /\ q \notin closed /\ stack[q] = <<>>
  /\ \A r \in Runners : \A i \in DOMAIN pending[q] : pending[q][i] # blocked[r]
  /\ closed' = closed \cup {q}
  /\ pending' = [pending EXCEPT ![q] = <<>>]
  /\ UNCHANGED <<fresh, stack, blocked, finished>>

Next ==
  \/ \E q \in Queues, f \in Tasks : Submit(q, f) \/ RunInline(q, f)
  \/ \E r \in Runners, q \in Queues, f \in Tasks : SubmitAndWait(r, q, f)
  \/ \E q \in Queues : Begin(q) \/ End(q) \/ Close(q)
  \/ \E r \in Runners : Return(r)

Spec == Init /\ [][Next]_vars

=============================================================================
