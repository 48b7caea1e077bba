---------------------------- MODULE DispatchProofs ----------------------------
(***************************************************************************)
(* Proofs about DispatchQueue: a caller of sync() is never forgotten, and   *)
(* what users see of the queues is a SerialQueue.  Then about Timers, whose  *)
(* events are in the loop of one of them.                                  *)
(***************************************************************************)
EXTENDS DispatchQueue, Timers, TLAPS

(***************************************************************************)
(* What is in a sequence.                                                  *)
(***************************************************************************)

Has(s, x) == \E i \in DOMAIN s : s[i] = x

LEMMA HasFew ==
  ASSUME NEW x
  PROVE  /\ \A s, y : s = <<>> => ~Has(s, y)
         /\ \A s, y : s = <<x>> => (Has(s, y) <=> y = x)
  BY DEF Has

LEMMA HasAppend ==
  ASSUME NEW S, NEW s \in Seq(S), NEW x \in S
  PROVE  /\ Append(s, x) \in Seq(S)
         /\ \A y : Has(Append(s, x), y) <=> Has(s, y) \/ y = x
  <1> DEFINE r == Append(s, x)
  <1>1. /\ r \in Seq(S) /\ Len(s) \in Nat
        /\ DOMAIN s = 1 .. Len(s) /\ DOMAIN r = 1 .. Len(s) + 1
        /\ \A i \in 1 .. Len(s) : r[i] = s[i]
        /\ r[Len(s) + 1] = x
    OBVIOUS
  <1> HIDE DEF r
  <1>2. /\ \A i \in 1 .. Len(s) + 1 : i \in 1 .. Len(s) \/ i = Len(s) + 1
        /\ \A i \in 1 .. Len(s) : i \in 1 .. Len(s) + 1
        /\ Len(s) + 1 \in 1 .. Len(s) + 1
    BY <1>1
  <1>3. \A y : Has(r, y) <=> Has(s, y) \/ y = x
    BY <1>1, <1>2 DEF Has
  <1>4. QED
    BY <1>1, <1>3 DEF r

LEMMA HasTail ==
  ASSUME NEW S, NEW s \in Seq(S), s # <<>>
  PROVE  /\ Head(s) \in S /\ Tail(s) \in Seq(S)
         /\ \A y : Has(s, y) <=> y = Head(s) \/ Has(Tail(s), y)
  <1> DEFINE r == Tail(s)
  <1>1. /\ r \in Seq(S) /\ Len(s) \in Nat /\ Len(s) > 0
        /\ DOMAIN s = 1 .. Len(s) /\ DOMAIN r = 1 .. Len(s) - 1
        /\ \A i \in 1 .. Len(s) - 1 : r[i] = s[i + 1]
        /\ Head(s) = s[1] /\ s[1] \in S
    OBVIOUS
  <1> HIDE DEF r
  <1>2. /\ 1 \in 1 .. Len(s)
        /\ \A i \in 1 .. Len(s) : i = 1 \/ (i - 1 \in 1 .. Len(s) - 1 /\ (i - 1) + 1 = i)
        /\ \A i \in 1 .. Len(s) - 1 : i + 1 \in 1 .. Len(s)
    BY <1>1
  <1>3. ASSUME NEW y, Has(s, y) PROVE y = Head(s) \/ Has(r, y)
    BY <1>1, <1>2, <1>3 DEF Has
  <1>4. ASSUME NEW y, y = Head(s) \/ Has(r, y) PROVE Has(s, y)
    BY <1>1, <1>2, <1>4 DEF Has
  <1>5. QED
    BY <1>1, <1>3, <1>4 DEF r

LEMMA HasPush ==
  ASSUME NEW S, NEW s \in Seq(S), NEW x \in S
  PROVE  /\ <<x>> \o s \in Seq(S) /\ <<x>> \o s # <<>>
         /\ \A y : Has(<<x>> \o s, y) <=> Has(s, y) \/ y = x
  <1> DEFINE r == <<x>> \o s
  <1>1. /\ r \in Seq(S) /\ Len(s) \in Nat /\ Len(r) = Len(s) + 1
        /\ DOMAIN s = 1 .. Len(s) /\ DOMAIN r = 1 .. Len(s) + 1
        /\ \A i \in 1 .. Len(s) : r[i + 1] = s[i]
        /\ r[1] = x
    OBVIOUS
  <1> HIDE DEF r
  <1>2. /\ 1 \in 1 .. Len(s) + 1
        /\ \A i \in 1 .. Len(s) + 1 : i = 1 \/ (i - 1 \in 1 .. Len(s) /\ (i - 1) + 1 = i)
        /\ \A i \in 1 .. Len(s) : i + 1 \in 1 .. Len(s) + 1
    BY <1>1
  <1>3. ASSUME NEW y, Has(r, y) PROVE y = x \/ Has(s, y)
    <2>1. PICK i \in DOMAIN r : r[i] = y
      BY <1>3 DEF Has
    <2>2. CASE i = 1
      BY <2>1, <2>2, <1>1
    <2>3. CASE i - 1 \in DOMAIN s /\ (i - 1) + 1 = i
      BY <2>1, <2>3, <1>1 DEF Has
    <2>4. QED
      BY <2>2, <2>3, <1>1, <1>2
  <1>4. ASSUME NEW y, y = x \/ Has(s, y) PROVE Has(r, y)
    BY <1>1, <1>2, <1>4 DEF Has
  <1>5. r # <<>>
    BY <1>1
  <1>6. QED
    BY <1>1, <1>3, <1>4, <1>5 DEF r

LEMMA RunnersAre == Queues \subseteq Runners /\ \A q \in Queues : q \in Runners /\ q # NoQueue
  BY DispatchAssumption DEF Runners, DispatchAssumption

-----------------------------------------------------------------------------
(* Types. *)

LEMMA TypeStart == Init => TypeOK
  BY RunnersAre DEF Init, TypeOK, Phases

LEMMA TypeStep ==
  ASSUME TypeOK, [Next]_vars
  PROVE  TypeOK'
  <1>1. CASE UNCHANGED vars
    BY <1>1 DEF vars, TypeOK
  <1>2. ASSUME NEW q \in Queues, Start(q) \/ Iterate(q) PROVE TypeOK'
    <2>1. {"keyless", "keyed", "ready", "loop", "exited", "armed"} \subseteq Phases
      BY DEF Phases, Starting
    <2>2. CASE CheckKey(q)
      BY <2>1, <2>2 DEF CheckKey, TypeOK, dropVars
    <2>3. CASE CreateKey(q)
      BY <2>1, <2>3 DEF CreateKey, TypeOK, dropVars
    <2>4. CASE SetSpecific(q)
      BY <2>1, <2>4 DEF SetSpecific, TypeOK, dropVars
    <2>5. CASE EnterDispatch(q)
      BY <2>1, <2>5 DEF EnterDispatch, TypeOK, dropVars
    <2>6. CASE Iterate(q)
      BY <2>1, <2>6 DEF Iterate, TypeOK, dropVars
    <2>7. QED
      BY <1>2, <2>2, <2>3, <2>4, <2>5, <2>6 DEF Start
  <1>3. ASSUME NEW r \in Runners, NEW q \in Queues, Create(r, q) PROVE TypeOK'
    BY <1>3 DEF Create, TypeOK, Phases, Starting, dropVars
  <1>4. ASSUME NEW r \in Runners, NEW q \in Queues, Destroy(r, q) PROVE TypeOK'
    BY <1>4 DEF Destroy, TypeOK
  <1>5. ASSUME NEW r \in Runners, Free(r) PROVE TypeOK'
    <2>1. joining[r] \in Queues /\ "freed" \in Phases
      BY <1>5 DEF Free, TypeOK, Phases
    <2>2. funcs' \in [Queues -> Seq(Tasks)]
      BY <1>5, <2>1 DEF Free, TypeOK
    <2>3. QED
      BY <1>5, <2>1, <2>2 DEF Free, TypeOK
  <1>6. ASSUME NEW r \in Runners, SyncReturn(r) \/ SpuriousReturn(r) PROVE TypeOK'
    BY <1>6 DEF SyncReturn, SpuriousReturn, TypeOK, startVars, dropVars
  <1>7. ASSUME NEW r \in Runners, NEW q \in Queues, NEW f \in Tasks, Async(r, q, f) PROVE TypeOK'
    <2>1. Append(funcs[q], f) \in Seq(Tasks)
      BY HasAppend DEF TypeOK
    <2>2. funcs' \in [Queues -> Seq(Tasks)]
      BY <1>7, <2>1 DEF Async, TypeOK
    <2>3. QED
      BY <1>7, <2>2 DEF Async, TypeOK, startVars, dropVars
  <1>8. ASSUME NEW r \in Runners, NEW q \in Queues, NEW f \in Tasks, SyncWait(r, q, f)
        PROVE  TypeOK'
    <2>1. Append(funcs[q], f) \in Seq(Tasks)
      BY HasAppend DEF TypeOK
    <2>2. funcs' \in [Queues -> Seq(Tasks)]
      BY <1>8, <2>1 DEF SyncWait, TypeOK
    <2>3. f # NoTask
      BY DispatchAssumption DEF DispatchAssumption
    <2>4. wait' \in [Runners -> Tasks \cup {NoTask}] /\ woken' \subseteq {p \in Runners : wait'[p] # NoTask}
      BY <1>8, <2>3 DEF SyncWait, TypeOK
    <2>5. QED
      BY <1>8, <2>2, <2>4 DEF SyncWait, TypeOK, startVars, dropVars
  <1>9. ASSUME NEW r \in Runners, NEW q \in Queues, NEW f \in Tasks, SyncInline(r, q, f)
        PROVE  TypeOK'
    <2>1. <<f>> \o stack[r] \in Seq(Tasks)
      BY HasPush DEF TypeOK
    <2>2. stack' \in [Runners -> Seq(Tasks)]
      BY <1>9, <2>1 DEF SyncInline, TypeOK
    <2>3. QED
      BY <1>9, <2>2 DEF SyncInline, TypeOK, startVars, dropVars
  <1>10. ASSUME NEW q \in Queues, Fire(q) PROVE TypeOK'
    <2>1. q \in Runners /\ "loop" \in Phases
      BY RunnersAre DEF Phases
    <2>2. CASE funcs[q] = <<>>
      BY <1>10, <2>1, <2>2 DEF Fire, TypeOK, dropVars
    <2>3. CASE funcs[q] # <<>>
      <3>1. Head(funcs[q]) \in Tasks /\ Tail(funcs[q]) \in Seq(Tasks)
        BY <2>3, HasTail DEF TypeOK
      <3>2. <<Head(funcs[q])>> \in Seq(Tasks)
        BY <3>1
      <3>3. funcs' \in [Queues -> Seq(Tasks)] /\ stack' \in [Runners -> Seq(Tasks)]
        BY <1>10, <2>1, <2>3, <3>1, <3>2 DEF Fire, TypeOK
      <3>4. QED
        BY <1>10, <2>1, <2>3, <3>3 DEF Fire, TypeOK, dropVars
    <2>4. QED
      BY <2>2, <2>3
  <1>11. ASSUME NEW q \in Queues, Finish(q) PROVE TypeOK'
    <2>1. q \in Runners
      BY RunnersAre
    <2>2. Head(stack[q]) \in Tasks /\ Tail(stack[q]) \in Seq(Tasks) /\ Head(stack[q]) # NoTask
      BY <1>11, <2>1, HasTail, DispatchAssumption DEF Finish, TypeOK, DispatchAssumption
    <2>3. stack' \in [Runners -> Seq(Tasks)] /\ woken' \subseteq {r \in Runners : wait'[r] # NoTask}
      BY <1>11, <2>1, <2>2 DEF Finish, TypeOK
    <2>4. QED
      BY <1>11, <2>2, <2>3 DEF Finish, TypeOK, startVars, dropVars
  <1>12. QED
    BY <1>1, <1>2, <1>3, <1>4, <1>5, <1>6, <1>7, <1>8, <1>9, <1>10, <1>11 DEF Next, Call, Turn

-----------------------------------------------------------------------------
(***************************************************************************)
(* The invariant behind WaiterServed.                                      *)
(***************************************************************************)

\* A function that was given to no queue is nowhere.
Unsent ==
  \A f \in fresh :
    /\ \A q \in Queues : ~Has(funcs[q], f)
    /\ \A r \in Runners : ~Has(stack[r], f) /\ wait[r] # f

\* Functions run, and their code waits, inside of the loop only.
InsideLoop ==
  \A q \in Queues :
    /\ stack[q] # <<>> => phase[q] = "loop"
    /\ wait[q] # NoTask => stack[q] # <<>>

Awake == \A r \in woken : wait[r] \in finished

\* A queue that is joined or freed was dropped, ...
JoinedDropped ==
  /\ \A q \in Queues : phase[q] = "freed" => q \in dropped
  /\ \A r \in Runners : joining[r] # NoQueue => joining[r] \in dropped

\* ... and nobody else waits for a function of such a queue.
DroppedUnused ==
  \A q \in dropped : \A r \in Runners \ {q} :
    wait[r] # NoTask => ~Has(funcs[q], wait[r]) /\ ~Has(stack[q], wait[r])

Serves(q, f) == Has(funcs[q], f) \/ Has(stack[q], f)

Served ==
  \A r \in Runners : wait[r] # NoTask =>
    (\E q \in Queues : Serves(q, wait[r])) \/ (r \in woken /\ wait[r] \in finished)

Inv == Unsent /\ InsideLoop /\ Awake /\ JoinedDropped /\ DroppedUnused /\ Served

LEMMA ServedIsWaiterServed == Served => WaiterServed
  BY DEF Served, WaiterServed, Serves, Has, Queued, Executing

LEMMA InvStart == Init => Inv
  <1> SUFFICES ASSUME Init PROVE Inv
    OBVIOUS
  <1>1. /\ \A q \in Queues : funcs[q] = <<>> /\ q \in Runners /\ phase[q] = "unmade"
        /\ \A r \in Runners : stack[r] = <<>> /\ wait[r] = NoTask /\ joining[r] = NoQueue
        /\ woken = {} /\ dropped = {} /\ fresh = Tasks
    BY RunnersAre DEF Init
  <1>2. \A f \in Tasks : f # NoTask
    BY DispatchAssumption DEF DispatchAssumption
  <1>3. Unsent
    BY <1>1, <1>2, HasFew DEF Unsent
  <1>4. InsideLoop /\ Awake /\ JoinedDropped /\ DroppedUnused /\ Served
    BY <1>1 DEF InsideLoop, Awake, JoinedDropped, DroppedUnused, Served
  <1>5. QED
    BY <1>3, <1>4 DEF Inv

\* Steps that only change where the threads of queues are.
LEMMA TurningKeeps ==
  ASSUME TypeOK, Inv,
         UNCHANGED <<fresh, funcs, stack, wait, woken, finished, dropped, joining>>,
         \A q \in Queues : stack[q] # <<>> => phase'[q] = phase[q],
         \A q \in Queues : phase'[q] = "freed" => phase[q] = "freed"
  PROVE  Inv'
  <1>1. Unsent'
    BY DEF Inv, Unsent
  <1>2. InsideLoop' /\ JoinedDropped'
    BY DEF Inv, InsideLoop, JoinedDropped
  <1>3. Awake' /\ DroppedUnused'
    BY DEF Inv, Awake, DroppedUnused
  <1>4. Served'
    BY DEF Inv, Served, Serves
  <1>5. QED
    BY <1>1, <1>2, <1>3, <1>4 DEF Inv

LEMMA StartKeeps ==
  ASSUME TypeOK, Inv, NEW q \in Queues, NEW r,
         Start(q) \/ Iterate(q) \/ Create(r, q)
  PROVE  /\ Inv'
         /\ UNCHANGED <<fresh, funcs, stack, wait, woken, finished, dropped, joining>>
         /\ \A p \in Queues : phase'[p] = "freed" <=> phase[p] = "freed"
  <1>1. /\ UNCHANGED <<fresh, funcs, stack, wait, woken, finished, dropped, joining>>
        /\ phase[q] \notin {"loop", "freed"} \/ stack[q] = <<>>
        /\ phase[q] # "freed"
        /\ \E x \in {"created", "keyless", "keyed", "ready", "loop", "armed", "exited"} :
             phase' = [phase EXCEPT ![q] = x]
    <2>1. CASE Start(q)
      BY <2>1 DEF Start, CheckKey, CreateKey, SetSpecific, EnterDispatch, dropVars
    <2>2. CASE Iterate(q)
      BY <2>2 DEF Iterate, dropVars
    <2>3. CASE Create(r, q)
      BY <2>3 DEF Create, dropVars
    <2>4. QED
      BY <2>1, <2>2, <2>3
  <1>2. stack[q] = <<>>
    BY <1>1 DEF Inv, InsideLoop
  <1>3. \A p \in Queues : p # q => phase'[p] = phase[p]
    BY <1>1 DEF TypeOK
  <1>4. phase'[q] # "freed"
    BY <1>1 DEF TypeOK
  <1>5. Inv'
    BY <1>1, <1>2, <1>3, <1>4, TurningKeeps
  <1>6. QED
    BY <1>1, <1>3, <1>4, <1>5

LEMMA SubmitKeeps ==
  ASSUME TypeOK, Inv, NEW r \in Runners, NEW q \in Queues, NEW f \in Tasks,
         Async(r, q, f) \/ SyncWait(r, q, f)
  PROVE  Inv'
  <1>1. /\ Running(r) /\ Reachable(r, q) /\ f \in fresh /\ fresh' = fresh \ {f}
        /\ funcs' = [funcs EXCEPT ![q] = Append(@, f)]
        /\ wait' = wait \/ wait' = [wait EXCEPT ![r] = f]
        /\ UNCHANGED <<stack, woken, finished, phase, dropped, joining>>
    BY DEF Async, SyncWait, startVars, dropVars
  <1>2. \A p \in Queues : \A y : Has(funcs'[p], y) <=> Has(funcs[p], y) \/ (p = q /\ y = f)
    <2>1. funcs'[q] = Append(funcs[q], f) /\ \A p \in Queues : p # q => funcs'[p] = funcs[p]
      BY <1>1 DEF TypeOK
    <2>2. funcs[q] \in Seq(Tasks)
      BY DEF TypeOK
    <2>3. \A y : Has(Append(funcs[q], f), y) <=> Has(funcs[q], y) \/ y = f
      BY <2>2, HasAppend
    <2>4. QED
      BY <2>1, <2>3
  <1>3. \A p \in Runners : wait'[p] = wait[p] \/ (p = r /\ wait'[p] = f)
    BY <1>1 DEF TypeOK
  <1>4. wait[r] = NoTask /\ r \notin woken /\ f # NoTask
    BY <1>1, DispatchAssumption DEF Running, TypeOK, DispatchAssumption
  <1>5. /\ \A p \in Queues : ~Has(funcs[p], f)
        /\ \A p \in Runners : ~Has(stack[p], f) /\ wait[p] # f
    BY <1>1 DEF Inv, Unsent
  <1>6. Unsent'
    BY <1>1, <1>2, <1>3 DEF Inv, Unsent
  <1>7. InsideLoop'
    BY <1>1, <1>3, RunnersAre, DispatchAssumption DEF Inv, InsideLoop, Running, DispatchAssumption
  <1>8. Awake'
    BY <1>1, <1>3, <1>4 DEF Inv, Awake, TypeOK
  <1>9. JoinedDropped'
    BY <1>1 DEF Inv, JoinedDropped
  <1>10. DroppedUnused'
    <2>1. q \in dropped => r = q
      BY <1>1 DEF Reachable
    <2>2. ASSUME NEW d \in dropped, NEW p \in Runners \ {d}, wait'[p] # NoTask
          PROVE  ~Has(funcs'[d], wait'[p]) /\ ~Has(stack[d], wait'[p])
      <3>1. d \in Queues /\ d \in Runners
        BY RunnersAre DEF TypeOK
      <3>2. CASE wait'[p] = wait[p]
        BY <2>2, <3>1, <3>2, <1>2, <1>5 DEF Inv, DroppedUnused
      <3>3. CASE p = r /\ wait'[p] = f
        BY <2>1, <2>2, <3>1, <3>3, <1>2, <1>5
      <3>4. QED
        BY <3>2, <3>3, <1>3
    <2>3. QED
      BY <2>2, <1>1 DEF DroppedUnused
  <1>11. Served'
    BY <1>1, <1>2, <1>3 DEF Inv, Served, Serves
  <1>12. QED
    BY <1>6, <1>7, <1>8, <1>9, <1>10, <1>11 DEF Inv

LEMMA InlineKeeps ==
  ASSUME TypeOK, Inv, NEW r \in Runners, NEW q \in Queues, NEW f \in Tasks, SyncInline(r, q, f)
  PROVE  Inv' /\ r = q
  <1>1. r = q
    BY RunnersAre DEF SyncInline, Current
  <1>2. /\ Running(q) /\ f \in fresh /\ fresh' = fresh \ {f}
        /\ stack' = [stack EXCEPT ![q] = <<f>> \o @]
        /\ UNCHANGED <<funcs, wait, woken, finished, phase, dropped, joining>>
    BY <1>1 DEF SyncInline, startVars, dropVars
  <1>3. stack[q] # <<>>
    BY <1>2, DispatchAssumption DEF Running, DispatchAssumption
  <1>4. /\ stack'[q] # <<>>
        /\ \A p \in Runners : p # q => stack'[p] = stack[p]
        /\ \A p \in Runners : \A y : Has(stack'[p], y) <=> Has(stack[p], y) \/ (p = q /\ y = f)
    <2>1. stack'[q] = <<f>> \o stack[q] /\ \A p \in Runners : p # q => stack'[p] = stack[p]
      BY <1>2, RunnersAre DEF TypeOK
    <2>2. stack[q] \in Seq(Tasks)
      BY RunnersAre DEF TypeOK
    <2>3. /\ <<f>> \o stack[q] # <<>>
          /\ \A y : Has(<<f>> \o stack[q], y) <=> Has(stack[q], y) \/ y = f
      BY <2>2, HasPush
    <2>4. QED
      BY <2>1, <2>3
  <1>5. \A p \in Runners : wait[p] # f
    BY <1>2 DEF Inv, Unsent
  <1>6. Unsent'
    BY <1>2, <1>4 DEF Inv, Unsent
  <1>7. InsideLoop'
    BY <1>2, <1>3, <1>4, RunnersAre DEF Inv, InsideLoop
  <1>8. Awake' /\ JoinedDropped'
    BY <1>2 DEF Inv, Awake, JoinedDropped
  <1>9. DroppedUnused'
    BY <1>2, <1>4, <1>5, RunnersAre DEF Inv, DroppedUnused, TypeOK
  <1>10. Served'
    BY <1>2, <1>4, RunnersAre DEF Inv, Served, Serves
  <1>11. QED
    BY <1>1, <1>6, <1>7, <1>8, <1>9, <1>10 DEF Inv

LEMMA ReturnKeeps ==
  ASSUME TypeOK, Inv, NEW r \in Runners, SyncReturn(r) \/ SpuriousReturn(r)
  PROVE  Inv'
  <1>1. /\ wait' = [wait EXCEPT ![r] = NoTask] /\ woken' = woken \ {r}
        /\ UNCHANGED <<fresh, funcs, stack, finished, phase, dropped, joining>>
    BY DEF SyncReturn, SpuriousReturn, startVars, dropVars
  <1>2. \A p \in Runners : wait'[p] = IF p = r THEN NoTask ELSE wait[p]
    BY <1>1 DEF TypeOK
  <1>3. \A f \in fresh : f # NoTask
    BY DispatchAssumption DEF DispatchAssumption, TypeOK
  <1>4. Unsent'
    BY <1>1, <1>2, <1>3 DEF Inv, Unsent
  <1>5. InsideLoop' /\ JoinedDropped'
    BY <1>1, <1>2, RunnersAre DEF Inv, InsideLoop, JoinedDropped
  <1>6. Awake'
    BY <1>1, <1>2 DEF Inv, Awake, TypeOK
  <1>7. DroppedUnused'
    BY <1>1, <1>2 DEF Inv, DroppedUnused
  <1>8. Served'
    BY <1>1, <1>2 DEF Inv, Served, Serves
  <1>9. QED
    BY <1>4, <1>5, <1>6, <1>7, <1>8 DEF Inv

LEMMA FireKeeps ==
  ASSUME TypeOK, Inv, NEW q \in Queues, Fire(q)
  PROVE  Inv' /\ stack[q] = <<>>
  <1>1. stack[q] = <<>> /\ q \in Runners
    BY RunnersAre DEF Fire, Inv, InsideLoop
  <1>2. /\ phase' = [phase EXCEPT ![q] = "loop"]
        /\ UNCHANGED <<fresh, wait, woken, finished, dropped, joining>>
    BY DEF Fire, dropVars
  <1>3. \A p \in Queues : phase'[p] = IF p = q THEN "loop" ELSE phase[p]
    BY <1>2 DEF TypeOK
  <1>4. CASE funcs[q] = <<>>
    <2>1. UNCHANGED <<funcs, stack>>
      BY <1>4 DEF Fire
    <2>2. QED
      BY <2>1, <1>1, <1>2, <1>3, TurningKeeps
  <1>5. CASE funcs[q] # <<>>
    <2> DEFINE h == Head(funcs[q])
    <2>1. /\ stack' = [stack EXCEPT ![q] = <<h>>]
          /\ funcs' = [funcs EXCEPT ![q] = Tail(@)]
      BY <1>5 DEF Fire
    <2>2. /\ \A p \in Runners : \A y : Has(stack'[p], y) <=> IF p = q THEN y = h ELSE Has(stack[p], y)
          /\ \A p \in Runners : p # q => stack'[p] = stack[p]
      BY <2>1, <1>1, HasFew DEF TypeOK
    <2>3. /\ \A y : Has(funcs[q], y) <=> y = h \/ Has(funcs'[q], y)
          /\ \A p \in Queues : p # q => funcs'[p] = funcs[p]
      BY <2>1, <1>5, HasTail DEF TypeOK
    <2> HIDE DEF h
    <2>4. \A y : ~Has(stack[q], y)
      BY <1>1, HasFew
    <2>5. Unsent'
      BY <1>2, <2>2, <2>3, <1>1 DEF Inv, Unsent
    <2>6. InsideLoop'
      BY <1>1, <1>2, <1>3, <2>2, RunnersAre DEF Inv, InsideLoop
    <2>7. Awake' /\ JoinedDropped'
      BY <1>2, <1>3 DEF Inv, Awake, JoinedDropped
    <2>8. DroppedUnused'
      BY <1>2, <2>2, <2>3, RunnersAre DEF Inv, DroppedUnused, TypeOK
    <2>9. Served'
      BY <1>1, <1>2, <2>2, <2>3, <2>4, RunnersAre DEF Inv, Served, Serves
    <2>10. QED
      BY <1>1, <2>5, <2>6, <2>7, <2>8, <2>9 DEF Inv
  <1>6. QED
    BY <1>4, <1>5, <1>1

LEMMA FinishKeeps ==
  ASSUME TypeOK, Inv, NEW q \in Queues, Finish(q)
  PROVE  Inv'
  <1> DEFINE h == Head(stack[q])
  <1>1. /\ q \in Runners /\ stack[q] # <<>> /\ wait[q] = NoTask
        /\ finished' = finished \cup {h}
        /\ woken' = woken \cup {r \in Runners : wait[r] = h}
        /\ stack' = [stack EXCEPT ![q] = Tail(@)]
        /\ UNCHANGED <<fresh, funcs, wait, phase, dropped, joining>>
    BY RunnersAre DEF Finish, startVars, dropVars
  <1>2. /\ \A y : Has(stack[q], y) <=> y = h \/ Has(stack'[q], y)
        /\ \A p \in Runners : p # q => stack'[p] = stack[p]
    BY <1>1, HasTail DEF TypeOK
  <1> HIDE DEF h
  <1>3. Unsent'
    BY <1>1, <1>2 DEF Inv, Unsent
  <1>4. InsideLoop'
    BY <1>1, <1>2, RunnersAre DEF Inv, InsideLoop
  <1>5. Awake' /\ JoinedDropped'
    BY <1>1 DEF Inv, Awake, JoinedDropped
  <1>6. DroppedUnused'
    BY <1>1, <1>2, RunnersAre DEF Inv, DroppedUnused, TypeOK
  <1>7. Served'
    <2> SUFFICES ASSUME NEW r \in Runners, wait[r] # NoTask
                 PROVE  (\E p \in Queues : Serves(p, wait[r])') \/ (r \in woken' /\ wait[r] \in finished')
      BY <1>1 DEF Served
    <2>1. CASE wait[r] = h
      BY <2>1, <1>1
    <2>2. CASE wait[r] # h /\ r \in woken /\ wait[r] \in finished
      BY <2>2, <1>1
    <2>3. CASE wait[r] # h /\ \E p \in Queues : Serves(p, wait[r])
      BY <2>3, <1>1, <1>2, RunnersAre DEF Serves
    <2>4. QED
      BY <2>1, <2>2, <2>3 DEF Inv, Served
  <1>8. QED
    BY <1>3, <1>4, <1>5, <1>6, <1>7 DEF Inv

LEMMA DestroyKeeps ==
  ASSUME TypeOK, Inv, NEW r \in Runners, NEW q \in Queues, Destroy(r, q)
  PROVE  Inv'
  <1>1. /\ Unused(q) /\ dropped' = dropped \cup {q}
        /\ joining' = [joining EXCEPT ![r] = q]
        /\ UNCHANGED <<fresh, funcs, stack, wait, woken, finished, phase>>
    BY DEF Destroy
  <1>2. \A p \in Runners : wait[p] # NoTask => ~Has(funcs[q], wait[p]) /\ ~Has(stack[q], wait[p])
    BY <1>1 DEF Unused, Has
  <1>3. Unsent' /\ InsideLoop' /\ Awake'
    BY <1>1 DEF Inv, Unsent, InsideLoop, Awake
  <1>4. JoinedDropped'
    BY <1>1 DEF Inv, JoinedDropped, TypeOK
  <1>5. DroppedUnused'
    BY <1>1, <1>2 DEF Inv, DroppedUnused
  <1>6. Served'
    BY <1>1 DEF Inv, Served, Serves
  <1>7. QED
    BY <1>3, <1>4, <1>5, <1>6 DEF Inv

\* What the destructor forgets nobody waits for.
LEMMA FreedUnused ==
  ASSUME TypeOK, Inv, NEW r \in Runners, Free(r)
  PROVE  /\ joining[r] \in Queues /\ stack[joining[r]] = <<>>
         /\ \A p \in Runners : wait[p] # NoTask => ~Serves(joining[r], wait[p])
  <1> DEFINE q == joining[r]
  <1>1. q \in Queues /\ q \in dropped /\ q \in Runners /\ phase[q] = "exited"
    BY RunnersAre DEF Free, TypeOK, Inv, JoinedDropped
  <1>2. stack[q] = <<>> /\ wait[q] = NoTask
    BY <1>1 DEF Inv, InsideLoop
  <1>3. \A p \in Runners : wait[p] # NoTask => ~Has(funcs[q], wait[p]) /\ ~Has(stack[q], wait[p])
    BY <1>1, <1>2 DEF Inv, DroppedUnused
  <1>4. QED
    BY <1>1, <1>2, <1>3 DEF Serves

LEMMA FreeKeeps ==
  ASSUME TypeOK, Inv, NEW r \in Runners, Free(r)
  PROVE  Inv'
  <1> DEFINE q == joining[r]
  <1>1. /\ q \in Queues /\ stack[q] = <<>> /\ q \in dropped
        /\ \A p \in Runners : wait[p] # NoTask => ~Serves(q, wait[p])
    BY FreedUnused DEF Free, Inv, JoinedDropped
  <1>2. /\ phase' = [phase EXCEPT ![q] = "freed"]
        /\ funcs' = [funcs EXCEPT ![q] = <<>>]
        /\ joining' = [joining EXCEPT ![r] = NoQueue]
        /\ UNCHANGED <<fresh, stack, wait, woken, finished, dropped>>
    BY DEF Free
  <1>3. /\ \A p \in Queues : phase'[p] = IF p = q THEN "freed" ELSE phase[p]
        /\ \A p \in Queues : funcs'[p] = IF p = q THEN <<>> ELSE funcs[p]
        /\ \A p \in Runners : joining'[p] = IF p = r THEN NoQueue ELSE joining[p]
    BY <1>2 DEF TypeOK
  <1>4. \A p \in Queues : \A y : Has(funcs'[p], y) => Has(funcs[p], y) /\ p # q
    BY <1>3, HasFew
  <1> HIDE DEF q
  <1>5. Unsent'
    BY <1>2, <1>4 DEF Inv, Unsent
  <1>6. InsideLoop' /\ Awake'
    BY <1>1, <1>2, <1>3 DEF Inv, InsideLoop, Awake
  <1>7. JoinedDropped'
    BY <1>1, <1>2, <1>3 DEF Inv, JoinedDropped
  <1>8. DroppedUnused'
    BY <1>2, <1>4 DEF Inv, DroppedUnused, TypeOK
  <1>9. Served'
    BY <1>1, <1>2, <1>3 DEF Inv, Served, Serves
  <1>10. QED
    BY <1>5, <1>6, <1>7, <1>8, <1>9 DEF Inv

LEMMA InvStep ==
  ASSUME TypeOK, Inv, [Next]_vars
  PROVE  Inv'
  <1>1. CASE UNCHANGED vars
    BY <1>1, TurningKeeps DEF vars
  <1>2. ASSUME NEW r \in Runners, Call(r) PROVE Inv'
    BY <1>2, SubmitKeeps, InlineKeeps, StartKeeps, DestroyKeeps DEF Call
  <1>3. ASSUME NEW q \in Queues, Turn(q) \/ Finish(q) PROVE Inv'
    BY <1>3, StartKeeps, FireKeeps, FinishKeeps DEF Turn
  <1>4. ASSUME NEW r \in Runners, SyncReturn(r) \/ SpuriousReturn(r) \/ Free(r) PROVE Inv'
    BY <1>4, ReturnKeeps, FreeKeeps
  <1>5. QED
    BY <1>1, <1>2, <1>3, <1>4 DEF Next

\* Whatever the queues and threads, and even where pthread_cond_wait() returns
\* early, a caller blocked in sync() has its function still to run, running, or
\* finished with the broadcast on its way; a destructor forgets no such function.
\* (core/dispatch-event.cc: sync, loop and ~LibeventDispatchQueue)
THEOREM CallersServed == Spec => []WaiterServed
  <1>1. Init => TypeOK /\ Inv
    BY TypeStart, InvStart
  <1>2. TypeOK /\ Inv /\ [Next]_vars => (TypeOK /\ Inv)'
    BY TypeStep, InvStep
  <1>3. TypeOK /\ Inv => WaiterServed
    BY ServedIsWaiterServed DEF Inv
  <1>4. QED
    BY <1>1, <1>2, <1>3, PTL DEF Spec

-----------------------------------------------------------------------------
(***************************************************************************)
(* Where queues do not start at the same time.                             *)
(***************************************************************************)

Started == {"ready", "loop", "armed", "exited", "freed"}

\* There is one key, made by the first queue: nobody creates another after a
\* thread has stored its queue under it.
OneKey ==
  /\ \A q \in Queues : phase[q] = "keyless" => key = 0
  /\ \A q \in Queues : phase[q] = "keyed" => key # 0
  /\ \A q \in Queues : phase[q] \in Started => key # 0 /\ specific[q] = key
  /\ \A p, q \in Queues : phase[p] \in Starting /\ phase[q] \in Starting => p = q

LEMMA OneKeyStart == Init => OneKey
  BY DEF Init, OneKey, Started, Starting

LEMMA OneKeyStep ==
  ASSUME ~Together, TypeOK, Inv, OneKey, [Next]_vars
  PROVE  OneKey'
  <1>1. CASE UNCHANGED startVars
    BY <1>1 DEF startVars, OneKey
  <1>2. ASSUME NEW q \in Queues, Start(q) PROVE OneKey'
    <2>1. CASE CheckKey(q)
      <3>1. /\ phase[q] \in Starting /\ UNCHANGED <<key, specific>>
            /\ \A p \in Queues : phase'[p] =
                 IF p = q THEN (IF key = 0 THEN "keyless" ELSE "keyed") ELSE phase[p]
        BY <2>1 DEF CheckKey, Starting, TypeOK
      <3>2. QED
        BY <3>1 DEF OneKey, Started, Starting
    <2>2. CASE CreateKey(q)
      <3>1. /\ phase[q] \in Starting /\ phase[q] = "keyless" /\ UNCHANGED specific /\ key' # 0
            /\ \A p \in Queues : phase'[p] = IF p = q THEN "keyed" ELSE phase[p]
        BY <2>2 DEF CreateKey, Starting, TypeOK
      <3>2. \A p \in Queues : p # q => phase[p] \notin Starting \cup Started
        BY <3>1 DEF OneKey
      <3>3. QED
        BY <3>1, <3>2 DEF OneKey, Started, Starting
    <2>3. CASE SetSpecific(q)
      <3>1. /\ phase[q] \in Starting /\ phase[q] = "keyed" /\ UNCHANGED key
            /\ \A p \in Queues : phase'[p] = IF p = q THEN "ready" ELSE phase[p]
            /\ \A p \in Queues : specific'[p] = IF p = q THEN key ELSE specific[p]
        BY <2>3 DEF SetSpecific, Starting, TypeOK
      <3>2. QED
        BY <3>1 DEF OneKey, Started, Starting
    <2>4. CASE EnterDispatch(q)
      <3>1. /\ phase[q] = "ready" /\ UNCHANGED <<key, specific>>
            /\ \A p \in Queues : phase'[p] = IF p = q THEN "loop" ELSE phase[p]
        BY <2>4 DEF EnterDispatch, TypeOK
      <3>2. QED
        BY <3>1 DEF OneKey, Started, Starting
    <2>5. QED
      BY <1>2, <2>1, <2>2, <2>3, <2>4 DEF Start
  <1>3. ASSUME NEW r, NEW q \in Queues, Create(r, q) PROVE OneKey'
    <2>1. /\ UNCHANGED <<key, specific>> /\ \A p \in Queues : phase[p] \notin Starting
          /\ \A p \in Queues : phase'[p] = IF p = q THEN "created" ELSE phase[p]
      BY <1>3 DEF Create, TypeOK
    <2>2. QED
      BY <2>1 DEF OneKey, Started, Starting
  <1>4. ASSUME NEW q \in Queues, phase[q] \in Started, UNCHANGED <<key, specific>>,
               NEW x \in Started, phase' = [phase EXCEPT ![q] = x]
        PROVE  OneKey'
    <2>1. \A p \in Queues : phase'[p] = IF p = q THEN x ELSE phase[p]
      BY <1>4 DEF TypeOK
    <2>2. QED
      BY <1>4, <2>1 DEF OneKey, Started, Starting
  <1>5. ASSUME NEW q \in Queues, Iterate(q) \/ Fire(q) PROVE OneKey'
    BY <1>4, <1>5 DEF Iterate, Fire, Started
  <1>6. ASSUME NEW r \in Runners, Free(r) PROVE OneKey'
    BY <1>4, <1>6 DEF Free, Started, TypeOK
  <1>7. ASSUME NEW r, NEW q \in Queues, NEW f \in Tasks,
               Async(r, q, f) \/ SyncInline(r, q, f) \/ SyncWait(r, q, f)
        PROVE  OneKey'
    BY <1>1, <1>7 DEF Async, SyncInline, SyncWait
  <1>8. ASSUME NEW r, NEW q \in Queues, Destroy(r, q) PROVE OneKey'
    BY <1>8 DEF Destroy, OneKey
  <1>9. ASSUME NEW q, Finish(q) PROVE OneKey'
    BY <1>1, <1>9 DEF Finish
  <1>10. ASSUME NEW r, SyncReturn(r) \/ SpuriousReturn(r) PROVE OneKey'
    BY <1>1, <1>10 DEF SyncReturn, SpuriousReturn
  <1>11. CASE UNCHANGED vars
    BY <1>1, <1>11 DEF vars, startVars
  <1>12. QED
    BY <1>2, <1>3, <1>5, <1>6, <1>7, <1>8, <1>9, <1>10, <1>11 DEF Next, Call, Turn

LEMMA KnownInside ==
  ASSUME Inv, OneKey, NEW q \in Queues, stack[q] # <<>>
  PROVE  Current(q) = q
  BY RunnersAre DEF Inv, InsideLoop, OneKey, Started, Current

\* When no two queues start at the same time, the thread that runs a function of
\* a queue knows the queue.  (core/dispatch-event.cc:281)
THEOREM CurrentAlwaysKnown ==
  ASSUME ~Together
  PROVE  Spec => []CurrentKnown
  <1>1. Init => TypeOK /\ Inv /\ OneKey
    BY TypeStart, InvStart, OneKeyStart
  <1>2. TypeOK /\ Inv /\ OneKey /\ [Next]_vars => (TypeOK /\ Inv /\ OneKey)'
    BY TypeStep, InvStep, OneKeyStep
  <1>3. TypeOK /\ Inv /\ OneKey => CurrentKnown
    BY KnownInside, RunnersAre DEF CurrentKnown
  <1>4. QED
    BY <1>1, <1>2, <1>3, PTL DEF Spec

-----------------------------------------------------------------------------
(***************************************************************************)
(* The refinement: every step is one of SerialQueue or a stutter of it.     *)
(***************************************************************************)

FreedQueues == {q \in Queues : phase[q] = "freed"}

LEMMA RefinesStart == Init => Abstract!Init
  BY DEF Init, Abstract!Init, Abstract!Runners, Runners

\* A queue that code can reach was not freed.
LEMMA ReachableLives ==
  ASSUME TypeOK, Inv, NEW r \in Runners, NEW q \in Queues, Running(r), Reachable(r, q)
  PROVE  q \notin FreedQueues
  BY DispatchAssumption
     DEF FreedQueues, Inv, JoinedDropped, InsideLoop, Reachable, Running, DispatchAssumption

LEMMA RefinesStep ==
  ASSUME TypeOK, Inv, OneKey, [Next]_vars
  PROVE  [Abstract!Next]_(Abstract!vars)
  <1>0. Abstract!Runners = Runners
    BY DEF Abstract!Runners, Runners
  <1>1. CASE UNCHANGED vars
    BY <1>1 DEF vars, Abstract!vars
  <1>2. ASSUME UNCHANGED <<fresh, funcs, stack, wait, finished>>, FreedQueues' = FreedQueues
        PROVE  UNCHANGED Abstract!vars
    BY <1>2 DEF Abstract!vars, FreedQueues
  <1>3. ASSUME NEW q \in Queues, NEW r, Start(q) \/ Iterate(q) \/ Create(r, q)
        PROVE  UNCHANGED Abstract!vars
    <2>1. FreedQueues' = FreedQueues
      BY <1>3, StartKeeps DEF FreedQueues
    <2>2. QED
      BY <1>2, <1>3, <2>1, StartKeeps
  <1>4. ASSUME NEW r \in Runners, NEW q \in Queues, NEW f \in Tasks, Async(r, q, f)
        PROVE  Abstract!Submit(q, f)
    <2>1. FreedQueues' = FreedQueues /\ q \notin FreedQueues
      BY <1>4, ReachableLives DEF Async, startVars, FreedQueues
    <2>2. QED
      BY <1>4, <2>1 DEF Async, Abstract!Submit, FreedQueues
  <1>5. ASSUME NEW r \in Runners, NEW q \in Queues, NEW f \in Tasks, SyncWait(r, q, f)
        PROVE  Abstract!SubmitAndWait(r, q, f)
    <2>1. FreedQueues' = FreedQueues /\ q \notin FreedQueues
      BY <1>5, ReachableLives DEF SyncWait, startVars, FreedQueues
    <2>2. r # q
      BY <1>5, KnownInside, DispatchAssumption DEF SyncWait, Running, DispatchAssumption
    <2>3. QED
      BY <1>5, <2>1, <2>2 DEF SyncWait, Running, Abstract!SubmitAndWait, FreedQueues
  <1>6. ASSUME NEW r \in Runners, NEW q \in Queues, NEW f \in Tasks, SyncInline(r, q, f)
        PROVE  Abstract!RunInline(q, f)
    <2>1. r = q
      BY <1>6, InlineKeeps
    <2>2. stack[q] # <<>> /\ wait[q] = NoTask
      BY <1>6, <2>1, DispatchAssumption DEF SyncInline, Running, DispatchAssumption
    <2>3. FreedQueues' = FreedQueues
      BY <1>6 DEF SyncInline, startVars, FreedQueues
    <2>4. QED
      BY <1>6, <2>1, <2>2, <2>3 DEF SyncInline, Abstract!RunInline, FreedQueues
  <1>7. ASSUME NEW r \in Runners, SyncReturn(r) \/ SpuriousReturn(r)
        PROVE  Abstract!Return(r)
    <2>1. wait[r] \in finished \/ (r \in Spurious /\ wait[r] # NoTask)
      BY <1>7 DEF SyncReturn, SpuriousReturn, Inv, Awake
    <2>2. FreedQueues' = FreedQueues
      BY <1>7 DEF SyncReturn, SpuriousReturn, startVars, FreedQueues
    <2>3. QED
      BY <1>7, <2>1, <2>2 DEF SyncReturn, SpuriousReturn, Abstract!Return, FreedQueues
  <1>8. ASSUME NEW q \in Queues, Fire(q)
        PROVE  Abstract!Begin(q) \/ UNCHANGED Abstract!vars
    <2>1. stack[q] = <<>>
      BY <1>8, FireKeeps
    <2>2. FreedQueues' = FreedQueues
      BY <1>8 DEF Fire, FreedQueues, TypeOK
    <2>3. CASE funcs[q] = <<>>
      BY <1>2, <1>8, <2>2, <2>3 DEF Fire
    <2>4. CASE funcs[q] # <<>>
      BY <1>8, <2>1, <2>2, <2>4 DEF Fire, Abstract!Begin, FreedQueues
    <2>5. QED
      BY <2>3, <2>4
  <1>9. ASSUME NEW q \in Queues, Finish(q) PROVE Abstract!End(q)
    BY <1>9 DEF Finish, startVars, Abstract!End
  <1>10. ASSUME NEW r \in Runners, NEW q \in Queues, Destroy(r, q) PROVE UNCHANGED Abstract!vars
    BY <1>10 DEF Destroy, Abstract!vars
  <1>11. ASSUME NEW r \in Runners, Free(r) PROVE \E q \in Queues : Abstract!Close(q)
    <2>0. PICK q \in Queues : q = joining[r]
      BY <1>11, FreedUnused
    <2>1. /\ q \in Queues /\ stack[q] = <<>> /\ phase[q] = "exited"
          /\ \A p \in Runners : wait[p] # NoTask => ~Serves(q, wait[p])
      BY <1>11, <2>0, FreedUnused DEF Free
    <2>2. /\ phase' = [phase EXCEPT ![q] = "freed"]
          /\ funcs' = [funcs EXCEPT ![q] = <<>>]
          /\ UNCHANGED <<fresh, stack, wait, finished>>
      BY <1>11, <2>0 DEF Free
    <2>3. \A i \in DOMAIN funcs[q] : funcs[q][i] \in Tasks
      <3>1. funcs[q] \in Seq(Tasks)
        BY <2>1 DEF TypeOK
      <3>2. QED
        BY <3>1
    <2>4. \A p \in Runners : \A i \in DOMAIN funcs[q] : funcs[q][i] # wait[p]
      BY <2>1, <2>3, DispatchAssumption DEF Serves, Has, DispatchAssumption
    <2>5. FreedQueues' = FreedQueues \cup {q} /\ q \notin FreedQueues
      BY <2>1, <2>2 DEF FreedQueues, TypeOK
    <2>6. Abstract!Close(q)
      BY <1>0, <2>1, <2>2, <2>4, <2>5 DEF Abstract!Close, FreedQueues
    <2>7. QED
      BY <2>1, <2>6
  <1>12. QED
    BY <1>0, <1>1, <1>3, <1>4, <1>5, <1>6, <1>7, <1>8, <1>9, <1>10, <1>11, RunnersAre
       DEF Next, Call, Turn, Abstract!Next

\* When no two queues start at the same time, DispatchQueue implements SerialQueue:
\* functions run one at a time, in order, each once, sync() returns after its
\* function, and a destructor forgets nothing that a caller waits for.
THEOREM QueuesAreSerial ==
  ASSUME ~Together
  PROVE  Spec => ImplementsSerialQueue
  <1>1. Init => TypeOK /\ Inv /\ OneKey /\ Abstract!Init
    BY TypeStart, InvStart, OneKeyStart, RefinesStart
  <1>2. TypeOK /\ Inv /\ OneKey /\ [Next]_vars => (TypeOK /\ Inv /\ OneKey)'
    BY TypeStep, InvStep, OneKeyStep
  <1>3. TypeOK /\ Inv /\ OneKey /\ [Next]_vars => [Abstract!Next]_(Abstract!vars)
    BY RefinesStep
  <1>4. QED
    BY <1>1, <1>2, <1>3, PTL DEF Spec, ImplementsSerialQueue, Abstract!Spec

-----------------------------------------------------------------------------
(***************************************************************************)
(* The timers whose events are in the loop of such a queue: Timers, for     *)
(* every set of addresses, calls, pages and contexts, whatever stale ids    *)
(* the scripts clear.                                                       *)
(***************************************************************************)

\* A call returns one address and belongs to one container, or was not made.
CallsSettled ==
  \A c \in Calls :
    \/ id[c] = {} /\ home[c] = {}
    \/ /\ \E a \in Addresses : id[c] = {a}
       /\ \E k \in Containers : home[c] = {k}

\* The Timer at an address is that of a call that returned this address.
TimersPlaced == \A a \in Addresses : at[a] # NoCall => id[at[a]] = {a}

\* Only a page that is not destroyed holds timers: a context refuses them all.
HoldersOpen ==
  \A k \in Containers : objects[k] # {} => k \in Pages /\ k \in open

\* The event of a page's Timer is freed with it.
EventsHeld ==
  \A c \in events :
    /\ id[c] # {}
    /\ \A k \in Pages, a \in Addresses :
         home[c] = {k} /\ id[c] = {a} => at[a] = c /\ a \in objects[k]

\* What a page's script has cleared has no event.
ClearedCancelled ==
  \A c \in cleared :
    /\ id[c] # {}
    /\ c \in events => \A k \in Pages : home[c] # {k}

TimersInv ==
  /\ TimersTypeOK
  /\ CallsSettled
  /\ TimersPlaced
  /\ HoldersOpen
  /\ HeldTimersLive
  /\ EventsHeld
  /\ ClearedCancelled

-----------------------------------------------------------------------------
(* What the actions choose. *)

LEMMA TimerOf ==
  ASSUME NEW c \in Calls, NEW a \in Addresses, id[c] = {a}
  PROVE  Timer(c) = a
BY DEF Timer

\* A call that was made has one address, and one container.
LEMMA CallMade ==
  ASSUME TimersInv, NEW c \in Calls, id[c] # {}
  PROVE  /\ Timer(c) \in Addresses /\ id[c] = {Timer(c)}
         /\ \E k \in Containers : home[c] = {k}
BY TimerOf DEF TimersInv, CallsSettled

\* The Timer that a page holds is that of a call of this page alone.
LEMMA HeldTimer ==
  ASSUME TimersInv, NEW k \in Containers, NEW a \in objects[k]
  PROVE  /\ k \in Pages /\ k \in open
         /\ a \in Addresses /\ at[a] \in Calls
         /\ id[at[a]] = {a} /\ home[at[a]] = {k}
BY DEF TimersInv, TimersTypeOK, HoldersOpen, HeldTimersLive, TimersPlaced

\* What a container holds after set(), at an address that is free.
LEMMA SetHolds ==
  ASSUME TimersInv, NEW k \in Containers, NEW a \in Addresses, at[a] = NoCall
  PROVE  Set(k, a) = IF k \in Pages THEN objects[k] \cup {a} ELSE objects[k]
BY TimersAssumption, HeldTimer
   DEF Set, PageSet, ContextSet, Containers, TimersInv, HeldTimersLive, HoldersOpen

-----------------------------------------------------------------------------
(* Each step preserves the invariant. *)

LEMMA InitInv ==
  ASSUME TimersInit
  PROVE  TimersInv
BY DEF TimersInit, TimersInv, TimersTypeOK, CallsSettled, TimersPlaced, HoldersOpen,
       HeldTimersLive, EventsHeld, ClearedCancelled, Containers

\* A call that is made now was in no part of the state before.
LEMMA NewIsFresh ==
  ASSUME TimersInv, NEW c \in Calls, id[c] = {}
  PROVE  /\ c \notin events /\ c \notin cleared
         /\ \A b \in Addresses : at[b] # c
BY TimersAssumption DEF TimersInv, EventsHeld, ClearedCancelled, TimersPlaced

\* What New() changes, and that neither the call nor the address was in use.
NewChanges(c, k, a) ==
  /\ id' \in [Calls -> SUBSET Addresses] /\ id'[c] = {a}
  /\ home' \in [Calls -> SUBSET Containers] /\ home'[c] = {k}
  /\ \A d \in Calls : d # c => id'[d] = id[d] /\ home'[d] = home[d]
  /\ objects' \in [Containers -> SUBSET Addresses]
  /\ objects'[k] = IF k \in Pages THEN objects[k] \cup {a} ELSE objects[k]
  /\ \A j \in Containers : j # k => objects'[j] = objects[j]
  /\ \A j \in Containers : a \notin objects[j]
  /\ c \notin events /\ c \notin cleared
  /\ \A b \in Addresses : at[b] # c
  /\ at[a] = NoCall /\ id[c] = {} /\ running' = running /\ cleared' = cleared
  /\ CallsSettled' /\ HoldersOpen'

LEMMA NewStep ==
  ASSUME TimersInv, NEW c \in Calls, NEW k \in Containers, NEW a \in Addresses,
         New(c, k, a)
  PROVE  NewChanges(c, k, a)
<1> USE DEF New
<1>1. /\ id' \in [Calls -> SUBSET Addresses] /\ id'[c] = {a}
      /\ home' \in [Calls -> SUBSET Containers] /\ home'[c] = {k}
      /\ \A d \in Calls : d # c => id'[d] = id[d] /\ home'[d] = home[d]
  BY DEF TimersInv, TimersTypeOK
<1>2. objects'[k] = IF k \in Pages THEN objects[k] \cup {a} ELSE objects[k]
  BY SetHolds DEF TimersInv, TimersTypeOK
<1>3. \A j \in Containers : j # k => objects'[j] = objects[j]
  BY DEF TimersInv, TimersTypeOK
<1>4. objects' \in [Containers -> SUBSET Addresses]
  BY SetHolds DEF TimersInv, TimersTypeOK
<1>5. \A j \in Containers : a \notin objects[j]
  BY HeldTimer, TimersAssumption
<1>6. CallsSettled'
  BY <1>1 DEF TimersInv, CallsSettled
<1>7. HoldersOpen'
  BY <1>2, <1>3 DEF TimersInv, HoldersOpen
<1>8. QED BY <1>1, <1>2, <1>3, <1>4, <1>5, <1>6, <1>7, NewIsFresh DEF NewChanges

\* A Timer that is at its address and whose event is in the loop, held by its
\* container if this is a page.
LEMMA ResumedInv ==
  ASSUME TimersInv, NEW c \in Calls, NEW k \in Containers, NEW a \in Addresses,
         New(c, k, a), repeats' \subseteq Calls,
         at' = [at EXCEPT ![a] = c],
         events' = events \cup {c}, pending' = pending \cup {c}
  PROVE  TimersInv'
<1>1. at' \in [Addresses -> Calls \cup {NoCall}] /\ at'[a] = c
      /\ \A b \in Addresses : b # a => at'[b] = at[b]
  BY DEF TimersInv, TimersTypeOK
<1>2. NewChanges(c, k, a)
  BY NewStep
<1>3. TimersTypeOK'
  BY <1>1, <1>2 DEF NewChanges, TimersInv, TimersTypeOK, New
<1>4. CallsSettled' /\ HoldersOpen'
  BY <1>2 DEF NewChanges
<1>5. TimersPlaced'
  BY <1>1, <1>2 DEF NewChanges, TimersInv, TimersTypeOK, TimersPlaced
<1>6. HeldTimersLive'
  <2> SUFFICES ASSUME NEW j \in Pages, NEW b \in objects'[j]
               PROVE  /\ at'[b] # NoCall /\ home'[at'[b]] = {j}
                      /\ at'[b] \in pending' \/ (at'[b] = running' /\ at'[b] \in events')
    BY DEF HeldTimersLive
  <2>1. CASE b \in objects[j]
    <3>1. b \in Addresses /\ b # a /\ at[b] \in Calls /\ at[b] # c
      BY <1>2, <2>1, HeldTimer DEF NewChanges, Containers
    <3>2. /\ at[b] # NoCall /\ home[at[b]] = {j}
          /\ at[b] \in pending \/ (at[b] = running /\ at[b] \in events)
      BY <2>1 DEF TimersInv, HeldTimersLive
    <3>3. QED BY <1>1, <1>2, <3>1, <3>2 DEF NewChanges
  <2>2. CASE b \notin objects[j]
    <3>1. b = a /\ j = k
      BY <1>2, <2>2 DEF NewChanges, Containers
    <3>2. QED BY <1>1, <1>2, <3>1, TimersAssumption DEF NewChanges
  <2>3. QED BY <2>1, <2>2
<1>7. EventsHeld'
  <2> SUFFICES ASSUME NEW d \in events'
               PROVE  /\ id'[d] # {}
                      /\ \A j \in Pages, b \in Addresses :
                           home'[d] = {j} /\ id'[d] = {b}
                             => at'[b] = d /\ b \in objects'[j]
    BY DEF EventsHeld
  <2>1. CASE d = c
    BY <1>1, <1>2, <2>1 DEF NewChanges, Containers
  <2>2. CASE d # c
    <3>1. d \in events /\ d \in Calls /\ id'[d] = id[d] /\ home'[d] = home[d]
      BY <1>2, <2>2 DEF NewChanges, TimersInv, TimersTypeOK
    <3>2. ASSUME NEW j \in Pages, NEW b \in Addresses, home[d] = {j}, id[d] = {b}
          PROVE  at[b] = d /\ b \in objects[j]
      BY <3>1, <3>2 DEF TimersInv, EventsHeld
    <3>3. \A j \in Pages : objects[j] \subseteq objects'[j]
      BY <1>2 DEF NewChanges, Containers
    <3>4. \A j \in Pages : a \notin objects[j]
      BY <1>2 DEF NewChanges, Containers
    <3>5. id[d] # {}
      BY <3>1 DEF TimersInv, EventsHeld
    <3>6. QED BY <3>1, <3>2, <3>3, <3>4, <3>5, <1>1
  <2>3. QED BY <2>1, <2>2
<1>8. ClearedCancelled'
  BY <1>2 DEF NewChanges, TimersInv, TimersTypeOK, ClearedCancelled
<1>9. QED BY <1>3, <1>4, <1>5, <1>6, <1>7, <1>8 DEF TimersInv

\* The Timer of a timeout that its container refused.
LEMMA RefusedInv ==
  ASSUME TimersInv, NEW c \in Calls, NEW k \in Containers, NEW a \in Addresses,
         New(c, k, a), k \notin Pages,
         UNCHANGED <<at, events, pending, repeats>>
  PROVE  TimersInv'
<1>1. NewChanges(c, k, a)
  BY NewStep
<1>2. \A j \in Containers : objects'[j] = objects[j]
  BY <1>1 DEF NewChanges
<1>3. TimersTypeOK'
  BY <1>1 DEF NewChanges, TimersInv, TimersTypeOK, New
<1>4. CallsSettled' /\ HoldersOpen'
  BY <1>1 DEF NewChanges
<1>5. TimersPlaced'
  BY <1>1 DEF NewChanges, TimersInv, TimersTypeOK, TimersPlaced
<1>6. HeldTimersLive'
  <2> SUFFICES ASSUME NEW j \in Pages, NEW b \in objects[j]
               PROVE  /\ at[b] # NoCall /\ home'[at[b]] = {j}
                      /\ at[b] \in pending \/ (at[b] = running /\ at[b] \in events)
    BY <1>1, <1>2 DEF NewChanges, HeldTimersLive, Containers
  <2>1. at[b] \in Calls /\ at[b] # c
    BY <1>1, HeldTimer DEF NewChanges, Containers
  <2>2. QED BY <1>1, <2>1 DEF NewChanges, TimersInv, HeldTimersLive
<1>7. EventsHeld'
  BY <1>1, <1>2 DEF NewChanges, TimersInv, TimersTypeOK, EventsHeld, Containers
<1>8. ClearedCancelled'
  BY <1>1 DEF NewChanges, TimersInv, TimersTypeOK, ClearedCancelled
<1>9. QED BY <1>3, <1>4, <1>5, <1>6, <1>7, <1>8 DEF TimersInv

LEMMA SetTimeoutInv ==
  ASSUME TimersInv, NEW c \in Calls, NEW k \in Containers, NEW a \in Addresses,
         SetTimeout(c, k, a)
  PROVE  TimersInv'
<1>1. at[a] = NoCall /\ New(c, k, a)
  BY DEF SetTimeout, New
<1>2. a \in Set(k, a) <=> k \in Pages
  <2>1. Set(k, a) = IF k \in Pages THEN objects[k] \cup {a} ELSE objects[k]
    BY <1>1, SetHolds
  <2>2. a \notin objects[k]
    BY <1>1, NewStep DEF NewChanges
  <2>3. QED BY <2>1, <2>2
<1>3. CASE k \in Pages
  BY <1>1, <1>2, <1>3, ResumedInv DEF SetTimeout, TimersInv, TimersTypeOK
<1>4. CASE k \notin Pages
  BY <1>1, <1>2, <1>4, RefusedInv DEF SetTimeout
<1>5. QED BY <1>3, <1>4

LEMMA SetIntervalInv ==
  ASSUME TimersInv, NEW c \in Calls, NEW k \in Containers, NEW a \in Addresses,
         SetInterval(c, k, a)
  PROVE  TimersInv'
BY ResumedInv DEF SetInterval, TimersInv, TimersTypeOK

-----------------------------------------------------------------------------
(* Timers that are cancelled and freed. *)

\* The Timers at the addresses as, all held by k, end; k may be closed with
\* its last one, and a function may begin when none was running.
LEMMA FreedInv ==
  ASSUME TimersInv, NEW k \in Containers, NEW as \in SUBSET objects[k],
         Cancel({at[a] : a \in as}), Freed(as),
         objects' = [objects EXCEPT ![k] = objects[k] \ as],
         UNCHANGED <<id, home, repeats>>,
         open' = open \/ (open' = open \ {k} /\ as = objects[k]),
         running' = running \/ running = NoCall,
         running' \in Calls \cup {NoCall}, ran' \subseteq Calls,
         cleared' \subseteq Calls, ClearedCancelled'
  PROVE  TimersInv'
<1> DEFINE gone == {at[a] : a \in as}
<1>1. events' = events \ gone /\ pending' = pending \ gone
  BY DEF Cancel
<1>2. /\ at' \in [Addresses -> Calls \cup {NoCall}]
      /\ \A b \in Addresses \ as : at'[b] = at[b]
      /\ \A b \in as : at'[b] = NoCall
  BY DEF Freed, TimersInv, TimersTypeOK
<1>3. /\ objects' \in [Containers -> SUBSET Addresses]
      /\ objects'[k] = objects[k] \ as
      /\ \A j \in Containers : j # k => objects'[j] = objects[j]
  BY DEF TimersInv, TimersTypeOK
<1>4. \A a \in as : a \in Addresses /\ at[a] \in Calls
                   /\ id[at[a]] = {a} /\ home[at[a]] = {k}
  BY HeldTimer
<1> HIDE DEF gone
<1>5. TimersTypeOK'
  BY <1>1, <1>2, <1>3 DEF TimersInv, TimersTypeOK
<1>6. CallsSettled' /\ TimersPlaced'
  BY <1>2 DEF TimersInv, TimersTypeOK, CallsSettled, TimersPlaced
<1>7. HoldersOpen'
  BY <1>3 DEF TimersInv, HoldersOpen
<1>8. HeldTimersLive'
  <2> SUFFICES ASSUME NEW j \in Pages, NEW b \in objects'[j]
               PROVE  /\ at'[b] # NoCall /\ home[at'[b]] = {j}
                      /\ at'[b] \in pending' \/ (at'[b] = running' /\ at'[b] \in events')
    BY DEF HeldTimersLive
  <2>1. b \in objects[j] /\ (j = k => b \notin as)
    BY <1>3 DEF Containers
  <2>2. /\ b \in Addresses /\ at[b] \in Calls
        /\ id[at[b]] = {b} /\ home[at[b]] = {j}
    BY <2>1, HeldTimer DEF Containers
  <2>3. b \notin as
    BY <1>4, <2>1, <2>2
  <2>4. at'[b] = at[b] /\ at[b] \notin gone
    <3>1. ASSUME NEW a \in as PROVE at[a] # at[b]
      BY <1>4, <2>2, <2>3
    <3>2. QED BY <1>2, <2>2, <2>3, <3>1 DEF gone
  <2>5. at[b] \in pending \/ (at[b] = running /\ at[b] \in events)
    BY <2>1 DEF TimersInv, HeldTimersLive
  <2>6. QED BY <1>1, <2>2, <2>4, <2>5, TimersAssumption
<1>9. EventsHeld'
  <2> SUFFICES ASSUME NEW d \in events'
               PROVE  /\ id[d] # {}
                      /\ \A j \in Pages, b \in Addresses :
                           home[d] = {j} /\ id[d] = {b}
                             => at'[b] = d /\ b \in objects'[j]
    BY DEF EventsHeld
  <2>1. d \in events /\ d \notin gone /\ id[d] # {}
    BY <1>1 DEF TimersInv, EventsHeld
  <2>2. ASSUME NEW j \in Pages, NEW b \in Addresses, home[d] = {j}, id[d] = {b}
        PROVE  at'[b] = d /\ b \in objects'[j]
    <3>1. at[b] = d /\ b \in objects[j]
      BY <2>1, <2>2 DEF TimersInv, EventsHeld
    <3>2. b \notin as
      BY <2>1, <3>1 DEF gone
    <3>3. QED BY <1>2, <1>3, <3>1, <3>2 DEF Containers
  <2>3. QED BY <2>1, <2>2
<1>10. QED BY <1>5, <1>6, <1>7, <1>8, <1>9 DEF TimersInv

LEMMA ClearInv ==
  ASSUME TimersInv, NEW c \in Calls, NEW k \in Containers, Clear(c, k)
  PROVE  TimersInv'
<1> DEFINE a == Timer(c)
<1>1. id[c] # {} /\ a \in Addresses /\ id[c] = {a}
  BY CallMade DEF Clear
<1>2. /\ cleared' \subseteq Calls
      /\ \A d \in cleared' : d \in cleared
           \/ (home[d] = {k} /\ (d = c \/ at[a] = d))
      /\ UNCHANGED <<id, home, repeats, open, running, ran>>
  BY DEF Clear, ClearedBy, TimersInv, TimersTypeOK
<1>3. /\ a \in objects[k] => events' = events \ {at[a]}
      /\ a \notin objects[k] => events' = events
  BY DEF Clear, Cancel
<1>4. ASSUME NEW d \in Calls, home[d] = {k}, d = c \/ at[a] = d, k \in Pages
      PROVE  d \notin events'
  <2>1. SUFFICES ASSUME d \in events PROVE d \notin events'
    BY <1>3
  <2>2. id[d] = {a}
    BY <1>1, <1>4, TimersAssumption DEF TimersInv, TimersPlaced
  <2>3. at[a] = d /\ a \in objects[k]
    BY <1>1, <1>4, <2>1, <2>2 DEF TimersInv, EventsHeld
  <2>4. QED BY <1>3, <2>3
<1>5. ClearedCancelled'
  <2> SUFFICES ASSUME NEW d \in cleared', d \notin cleared
               PROVE  id[d] # {} /\ (d \in events' => \A j \in Pages : home[d] # {j})
    BY <1>2, <1>3 DEF TimersInv, ClearedCancelled
  <2>1. d \in Calls /\ home[d] = {k} /\ (d = c \/ at[a] = d)
    BY <1>2
  <2>2. id[d] # {}
    BY <2>1 DEF TimersInv, CallsSettled
  <2>3. QED BY <1>4, <2>1, <2>2
<1> HIDE DEF a
<1>6. CASE a \in objects[k]
  <2>1. {at[b] : b \in {a}} = {at[a]}
    OBVIOUS
  <2>2. Cancel({at[b] : b \in {a}}) /\ Freed({a})
        /\ objects' = [objects EXCEPT ![k] = objects[k] \ {a}]
    BY <1>6, <2>1 DEF Clear, a
  <2>3. {a} \in SUBSET objects[k] /\ running' \in Calls \cup {NoCall}
    BY <1>2, <1>6 DEF TimersInv, TimersTypeOK
  <2>4. ran' \subseteq Calls
    BY <1>2 DEF TimersInv, TimersTypeOK
  <2>5. QED BY <1>2, <1>5, <2>2, <2>3, <2>4, FreedInv
<1>7. CASE a \notin objects[k]
  <2>1. UNCHANGED <<events, pending, at, objects>>
    BY <1>7 DEF Clear, a
  <2>2. Cancel({at[b] : b \in {}}) /\ Freed({})
        /\ objects' = [objects EXCEPT ![k] = objects[k] \ {}]
    BY <2>1 DEF Cancel, Freed, TimersInv, TimersTypeOK
  <2>3. {} \in SUBSET objects[k] /\ running' \in Calls \cup {NoCall}
    BY <1>2 DEF TimersInv, TimersTypeOK
  <2>4. ran' \subseteq Calls
    BY <1>2 DEF TimersInv, TimersTypeOK
  <2>5. QED BY <1>2, <1>5, <2>2, <2>3, <2>4, FreedInv
<1>8. QED BY <1>6, <1>7

LEMMA CloseInv ==
  ASSUME TimersInv, NEW k \in Containers, Close(k)
  PROVE  TimersInv'
<1>1. ClearedCancelled'
  BY DEF Close, Cancel, TimersInv, ClearedCancelled
<1>2. objects' = [objects EXCEPT ![k] = objects[k] \ objects[k]]
  BY DEF Close
<1>3. QED BY <1>1, <1>2, FreedInv DEF Close, TimersInv, TimersTypeOK

-----------------------------------------------------------------------------
(* The loop. *)

LEMMA FireTimeoutInv ==
  ASSUME TimersInv, NEW c \in Calls, FireTimeout(c)
  PROVE  TimersInv'
<1> DEFINE a == Timer(c)
           k == CHOOSE k \in Containers : home[c] = {k}
<1>1. c \in events /\ id[c] # {}
  BY DEF FireTimeout, Begin, TimersInv, TimersTypeOK, EventsHeld
<1>2. a \in Addresses /\ id[c] = {a} /\ k \in Containers /\ home[c] = {k}
  BY <1>1, CallMade
<1>3. a \in objects[k]
  BY DEF FireTimeout
<1> HIDE DEF a, k
<1>4. at[a] = c
  BY <1>1, <1>2, <1>3, HeldTimer DEF TimersInv, EventsHeld
<1>5. {at[b] : b \in {a}} = {c}
  BY <1>4
<1>6. Cancel({at[b] : b \in {a}}) /\ Freed({a})
      /\ objects' = [objects EXCEPT ![k] = objects[k] \ {a}]
  BY <1>5 DEF FireTimeout, a, k
<1>7. /\ UNCHANGED <<id, home, repeats, open, cleared>>
      /\ running = NoCall /\ running' = c /\ ran' = ran \cup {c}
  BY DEF FireTimeout, Begin
<1>8. ClearedCancelled'
  BY <1>6, <1>7 DEF Cancel, TimersInv, ClearedCancelled
<1>9. /\ ran' \subseteq Calls /\ cleared' \subseteq Calls
      /\ {a} \in SUBSET objects[k] /\ running' \in Calls \cup {NoCall}
  BY <1>3, <1>7 DEF TimersInv, TimersTypeOK
<1>10. QED BY <1>2, <1>6, <1>7, <1>8, <1>9, FreedInv

LEMMA FireIntervalInv ==
  ASSUME TimersInv, NEW c \in Calls, FireInterval(c)
  PROVE  TimersInv'
<1>1. /\ running = NoCall /\ running' = c /\ ran' = ran \cup {c}
      /\ c \in events /\ pending' = pending \ {c}
      /\ UNCHANGED <<at, id, home, repeats, events, objects, open, cleared>>
  BY DEF FireInterval, Begin, TimersInv, TimersTypeOK
<1>2. TimersTypeOK'
  BY <1>1 DEF TimersInv, TimersTypeOK
<1>3. HeldTimersLive'
  BY <1>1, TimersAssumption DEF TimersInv, HeldTimersLive
<1>4. QED BY <1>1, <1>2, <1>3
       DEF TimersInv, CallsSettled, TimersPlaced, HoldersOpen, EventsHeld,
           ClearedCancelled

LEMMA ReturnInv ==
  ASSUME TimersInv, Return
  PROVE  TimersInv'
<1>1. /\ running' = NoCall /\ pending' = pending \cup ({running} \cap events)
      /\ UNCHANGED <<at, id, home, repeats, events, objects, open, ran, cleared>>
  BY DEF Return
<1>2. TimersTypeOK'
  BY <1>1 DEF TimersInv, TimersTypeOK
<1>3. HeldTimersLive'
  BY <1>1 DEF TimersInv, HeldTimersLive
<1>4. QED BY <1>1, <1>2, <1>3
       DEF TimersInv, CallsSettled, TimersPlaced, HoldersOpen, EventsHeld,
           ClearedCancelled

LEMMA StepInv ==
  ASSUME TimersInv, [TimersNext]_timersVars
  PROVE  TimersInv'
<1>1. CASE Script
  BY <1>1, SetTimeoutInv, SetIntervalInv, ClearInv, CloseInv DEF Script
<1>2. CASE Return
  BY <1>2, ReturnInv
<1>3. ASSUME NEW c \in Calls, FireTimer(c) PROVE TimersInv'
  BY <1>3, FireTimeoutInv, FireIntervalInv DEF FireTimer
<1>4. CASE UNCHANGED timersVars
  BY <1>4 DEF timersVars, TimersInv, TimersTypeOK, CallsSettled, TimersPlaced, HoldersOpen,
              HeldTimersLive, EventsHeld, ClearedCancelled
<1>5. QED BY <1>1, <1>2, <1>3, <1>4 DEF TimersNext

-----------------------------------------------------------------------------
(* The theorems. *)

\* The invariant, from which each of the theorems below follows.
THEOREM TimersInvariant == TimersSpec => []TimersInv
<1>1. TimersInit => TimersInv
  BY InitInv
<1>2. TimersInv /\ [TimersNext]_timersVars => TimersInv'
  BY StepInv
<1>3. QED BY <1>1, <1>2, PTL DEF TimersSpec

\* Every state of core/timer.cc's model is well typed, and only an event that
\* was not freed is in the loop.
THEOREM TimersTypeCorrect == TimersSpec => []TimersTypeOK
<1>1. TimersInv => TimersTypeOK
  BY DEF TimersInv
<1>2. QED BY <1>1, TimersInvariant, PTL

\* However addresses are reused and whatever stale ids scripts clear: what a
\* page holds in _objects is a Timer of one of its own calls, which waits in
\* the loop or is the interval whose function is running.
THEOREM HeldTimersStayLive == TimersSpec => []HeldTimersLive
<1>1. TimersInv => HeldTimersLive
  BY DEF TimersInv
<1>2. QED BY <1>1, TimersInvariant, PTL

\* An event in the loop belongs to a container that is open, if this is a page:
\* the raw Container pointer of a timeout's function is never dangling.
THEOREM PagesOutliveTimers == TimersSpec => []PageOutlivesTimers
<1>1. ASSUME TimersInv PROVE PageOutlivesTimers
  <2> SUFFICES ASSUME NEW c \in pending, NEW k \in home[c] \cap Pages
               PROVE  k \in open
    BY DEF PageOutlivesTimers
  <2>1. c \in events /\ c \in Calls /\ id[c] # {}
    BY <1>1 DEF TimersInv, TimersTypeOK, EventsHeld
  <2>2. home[c] = {k} /\ k \in Containers
    BY <1>1, <2>1 DEF TimersInv, CallsSettled
  <2>3. Timer(c) \in Addresses /\ id[c] = {Timer(c)}
    BY <1>1, <2>1, CallMade
  <2>4. Timer(c) \in objects[k]
    BY <1>1, <2>1, <2>2, <2>3 DEF TimersInv, EventsHeld
  <2>5. QED BY <1>1, <2>2, <2>4 DEF TimersInv, HoldersOpen
<1>2. QED BY <1>1, TimersInvariant, PTL

\* The function of a timer that its page's script has cleared never begins
\* again, not even one that was running when it was cleared.
THEOREM ClearedTimersStayCleared == TimersSpec => ClearedStaysCleared
<1>1. ASSUME TimersInv, [TimersNext]_timersVars, NEW c \in cleared, home[c] \subseteq Pages,
             running # c, running' = c
      PROVE  FALSE
  <2>1. c \in Calls /\ id[c] # {} /\ \E k \in Pages : home[c] = {k}
    BY <1>1, CallMade DEF TimersInv, TimersTypeOK, ClearedCancelled
  <2>2. c \notin pending
    BY <1>1, <2>1 DEF TimersInv, TimersTypeOK, ClearedCancelled
  <2>3. c # NoCall
    BY <2>1, TimersAssumption
  <2>4. CASE Script \/ UNCHANGED timersVars
    BY <1>1, <2>4 DEF Script, SetTimeout, SetInterval, New, Clear, Close, timersVars
  <2>5. CASE Return
    BY <1>1, <2>3, <2>5 DEF Return
  <2>6. ASSUME NEW d \in Calls, FireTimer(d) PROVE FALSE
    BY <1>1, <2>2, <2>6 DEF FireTimer, FireTimeout, FireInterval, Begin
  <2>7. QED BY <1>1, <2>4, <2>5, <2>6 DEF TimersNext
<1>2. TimersInv /\ [TimersNext]_timersVars
        => [\A c \in cleared : home[c] \subseteq Pages
              => ~(running # c /\ running' = c)]_timersVars
  BY <1>1
<1>3. QED BY <1>2, TimersInvariant, PTL DEF TimersSpec, ClearedStaysCleared

=============================================================================
