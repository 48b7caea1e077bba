------------------------------ MODULE RefCount ------------------------------
(***************************************************************************)
(* Reference counting of kk::Object: core/kk.cc (Object, Atomic) and the   *)
(* smart pointers of core/kk.h (Strong, Weak).                             *)
(*                                                                         *)
(* Every thread of the process shares one Atomic: a mutex around the       *)
(* counts, and a second mutex around the queue of objects to delete and    *)
(* the registry of weak pointers.  Neither mutex is held across two        *)
(* sections, so a section is one atomic step here and the interleavings    *)
(* are those between sections.  What a thread still has to execute is a    *)
(* sequence of operations, todo[t]: the C++ call stack, flattened.         *)
(* Destructors push the operations of their members in front of it, which  *)
(* is how one release() can cascade.                                       *)
(***************************************************************************)
EXTENDS Integers, Sequences, FiniteSets

CONSTANTS
  Threads,   \* the threads of the process
  Objects,   \* the kk::Object instances that may be allocated, each once
  Strongs,   \* the instances of Strong<T>
  Weaks,     \* the instances of Weak<T>
  Layouts,   \* the programs: which of the smart pointers they have, and where
  Nowhere,   \* the owner of a smart pointer the program does not have
  NoObject   \* nullptr

Slots == Strongs \cup Weaks

\* A program: the stack (a thread) or object each smart pointer lives in, and
\* the Strongs captured by a function that is sent to the thread that owns it.
ASSUME SlotsAssumption ==
  /\ Strongs \cap Weaks = {}
  /\ \A l \in Layouts :
       /\ l.owner \in [Slots -> Threads \cup Objects \cup {Nowhere}]
       /\ l.captured \subseteq {s \in Strongs : l.owner[s] \in Threads}

ASSUME ObjectsAssumption ==
  /\ NoObject \notin Objects \cup Threads
  /\ Threads \cap Objects = {}
  /\ Nowhere \notin Threads \cup Objects \cup {NoObject}

ASSUME FiniteAssumption == IsFiniteSet(Threads) /\ IsFiniteSet(Strongs)

VARIABLES
  layout,  \* the program that runs, one of Layouts
  life,    \* the Zombies record of each object: not allocated, live, dead
  count,   \* Object::_retainCount
  ref,     \* Ref::_object of each smart pointer
  weaks,   \* Atomic::_weakObjects: the Weak pointers registered per object
  queue,   \* Atomic::_objects: the objects to delete
  todo     \* the operations each thread has still to execute

vars == <<layout, life, count, ref, weaks, queue, todo>>

Owner    == layout.owner
Captured == layout.captured

-----------------------------------------------------------------------------
(***************************************************************************)
(* Operations.  A name stands for one section under a mutex, or for one    *)
(* access made outside of them.                                            *)
(***************************************************************************)

ObjectOps == [op : {"retain", "dec", "test", "check"}, obj : Objects]
DrainOps  == [op : {"drain"}]
SlotOps   == [op : {"drop"}, slot : Strongs]
StoreOps  == [op : {"store"}, slot : Strongs, obj : Objects \cup {NoObject}]
DeleteOps == [op : {"delete"}, obj : Objects, left : SUBSET Slots]

Ops == ObjectOps \cup DrainOps \cup SlotOps \cup StoreOps \cup DeleteOps

On(name, o) == [op |-> name, obj |-> o]
Drain       == [op |-> "drain"]
Drop(s)     == [op |-> "drop", slot |-> s]
Store(s, x) == [op |-> "store", slot |-> s, obj |-> x]
Delete(o, left) == [op |-> "delete", obj |-> o, left |-> left]

\* Object::retain(): Atomic::unlock() always drains the delete queue.
Retain(o) == <<On("retain", o), Drain>>

\* Mutant: the count is tested in the section that decrements it only when
\* no other release is under way, i.e. the second section is forgotten.
ReleaseUntested(o) == <<On("dec", o), Drain>>

\* Object::release(): two sections, each followed by a drain.
Release(o) == <<On("dec", o), Drain, On("test", o), Drain>>

\* Mutant: the old object is released before the new one is retained.
SetReleaseFirst(s, x) ==
  <<Drop(s)>> \o (IF x = NoObject THEN <<>> ELSE Retain(x)) \o <<Store(s, x)>>

\* Strong<T>::set(object): retain the new one, release the old, assign.
Set(s, x) ==
  (IF x = NoObject THEN <<>> ELSE Retain(x)) \o <<Drop(s), Store(s, x)>>

-----------------------------------------------------------------------------
Init ==
  /\ layout \in Layouts
  /\ life = [o \in Objects |-> "unborn"]
  /\ count = [o \in Objects |-> 0]
  /\ ref = [s \in Slots |-> NoObject]
  /\ weaks = [o \in Objects |-> {}]
  /\ queue = <<>>
  /\ todo = [t \in Threads |-> <<>>]

-----------------------------------------------------------------------------
(***************************************************************************)
(* The client: what a thread starts when it is between two operations.     *)
(***************************************************************************)

Idle(t) == todo[t] = <<>>

\* t can use a smart pointer on its own stack, and the members of an object
\* a Strong on its stack keeps.
Usable(t, s) ==
  \/ Owner[s] = t
  \/ \E q \in Strongs : Owner[q] = t /\ ref[q] = Owner[s]

\* A thread fills a captured Strong of another thread before it sends the
\* function that holds it; afterwards only the owner touches it.
Fillable(t, s) ==
  /\ ref[s] = NoObject
  /\ \A u \in Threads : \A i \in DOMAIN todo[u] :
        todo[u][i].op \in {"drop", "store"} => todo[u][i].slot # s

\* Strong<T> s = new T(): the object starts with a count of zero.
Allocate(t, s, o) ==
  /\ Idle(t) /\ Usable(t, s)
  /\ life[o] = "unborn"
  /\ life' = [life EXCEPT ![o] = "live"]
  /\ todo' = [todo EXCEPT ![t] = Set(s, o)]
  /\ UNCHANGED <<count, ref, weaks, queue>>

\* s = q.  When q is a Weak, its pointer is read under no lock and the
\* object is retained by a later step.
Assign(t, s, q) ==
  /\ Idle(t) /\ Usable(t, s) /\ Usable(t, q)
  /\ ref[q] # NoObject
  /\ todo' = [todo EXCEPT ![t] = Set(s, ref[q])]
  /\ UNCHANGED <<life, count, ref, weaks, queue>>

\* The copy of q captured by a function before it is sent to another thread.
Capture(t, s, q) ==
  /\ Idle(t) /\ Fillable(t, s) /\ Usable(t, q)
  /\ ref[q] # NoObject
  /\ todo' = [todo EXCEPT ![t] = Set(s, ref[q])]
  /\ UNCHANGED <<life, count, ref, weaks, queue>>

\* s = nullptr, and ~Strong() of a pointer on the stack.
Reset(t, s) ==
  /\ Idle(t) /\ Usable(t, s)
  /\ ref[s] # NoObject
  /\ todo' = [todo EXCEPT ![t] = Set(s, NoObject)]
  /\ UNCHANGED <<life, count, ref, weaks, queue>>

\* Atomic::unweak() and Atomic::weak() on the registry.
Unregister(reg, o, r) ==
  IF o = NoObject THEN reg ELSE [reg EXCEPT ![o] = @ \ {r}]

Register(reg, o, r) ==
  IF o = NoObject THEN reg ELSE [reg EXCEPT ![o] = @ \cup {r}]

\* Weak<T>::set(object), with object the target of a Strong or nullptr.
\* Its three accesses are one step: only t uses r.
WeakSet(t, r, x) ==
  /\ Idle(t) /\ Usable(t, r)
  /\ \/ x = NoObject
     \/ \E q \in Strongs : Owner[q] = t /\ ref[q] = x
  /\ weaks' = Register(Unregister(weaks, ref[r], r), x, r)
  /\ ref' = [ref EXCEPT ![r] = x]
  /\ UNCHANGED <<life, count, queue, todo>>

Client(t) ==
  \/ \E s \in Strongs, o \in Objects : Allocate(t, s, o)
  \/ \E s \in Strongs, q \in Slots : Assign(t, s, q)
  \/ \E s \in Captured, q \in Strongs : Capture(t, s, q)
  \/ \E s \in Strongs : Reset(t, s)
  \/ \E r \in Weaks, x \in Objects \cup {NoObject} : WeakSet(t, r, x)

-----------------------------------------------------------------------------
(***************************************************************************)
(* The steps of an operation.                                              *)
(***************************************************************************)

At(t, name) == todo[t] # <<>> /\ Head(todo[t]).op = name

\* The first operation of t is replaced by ops.
Then(t, ops) == todo' = [todo EXCEPT ![t] = ops \o Tail(@)]

DoRetain(t) ==
  /\ At(t, "retain")
  /\ count' = [count EXCEPT ![Head(todo[t]).obj] = @ + 1]
  /\ Then(t, <<>>)
  /\ UNCHANGED <<life, ref, weaks, queue>>

DoDec(t) ==
  /\ At(t, "dec")
  /\ count' = [count EXCEPT ![Head(todo[t]).obj] = @ - 1]
  /\ Then(t, <<>>)
  /\ UNCHANGED <<life, ref, weaks, queue>>

\* Mutant: the object is queued but its weak pointers are left in place.
AddObjectOnly(o) ==
  /\ queue' = Append(queue, o)
  /\ UNCHANGED <<ref, weaks>>

\* Atomic::addObject(): queue the object, clear and forget its weak pointers.
AddObject(o) ==
  /\ queue' = Append(queue, o)
  /\ ref' = [s \in Slots |-> IF s \in weaks[o] THEN NoObject ELSE ref[s]]
  /\ weaks' = [weaks EXCEPT ![o] = {}]

\* Mutant: the object is queued when one reference is left.
DoTestEarly(t) ==
  /\ At(t, "test")
  /\ IF count[Head(todo[t]).obj] <= 1
     THEN AddObject(Head(todo[t]).obj)
     ELSE UNCHANGED <<ref, weaks, queue>>
  /\ Then(t, <<>>)
  /\ UNCHANGED <<life, count>>

\* The second section of release().
DoTest(t) ==
  /\ At(t, "test")
  /\ IF count[Head(todo[t]).obj] = 0
     THEN AddObject(Head(todo[t]).obj)
     ELSE UNCHANGED <<ref, weaks, queue>>
  /\ Then(t, <<>>)
  /\ UNCHANGED <<life, count>>

\* Mutant: the drain stops after the first object, which it never checks.
DoDrainLosing(t) ==
  /\ At(t, "drain")
  /\ queue' = IF queue = <<>> THEN queue ELSE Tail(queue)
  /\ Then(t, <<>>)
  /\ UNCHANGED <<life, count, ref, weaks>>

\* Atomic::unlock(): pop until the queue is empty.
DoDrain(t) ==
  /\ At(t, "drain")
  /\ IF queue = <<>>
     THEN Then(t, <<>>) /\ UNCHANGED queue
     ELSE Then(t, <<On("check", Head(queue)), Drain>>) /\ queue' = Tail(queue)
  /\ UNCHANGED <<life, count, ref, weaks>>

Members(o) == {s \in Slots : Owner[s] = o}

\* v->retainCount(), read under no lock.  What a freed object holds there is
\* anything.
CountRead(o) == IF life[o] = "dead" THEN {0, 1} ELSE {count[o]}

\* if(v != nullptr && v->retainCount() == 0) delete v
DoCheck(t) ==
  /\ At(t, "check")
  /\ \E n \in CountRead(Head(todo[t]).obj) :
       LET o == Head(todo[t]).obj
       IN Then(t, IF n = 0 THEN <<Delete(o, Members(o))>> ELSE <<>>)
  /\ UNCHANGED <<life, count, ref, weaks, queue>>

\* Mutant: ~Weak() is skipped.
WeakMemberForgotten(t, o, left, r) ==
  /\ r \in Weaks
  /\ Then(t, <<Delete(o, left \ {r})>>)
  /\ UNCHANGED <<life, count, ref, weaks, queue>>

\* ~Weak() of a member of o.
WeakMember(t, o, left, r) ==
  /\ r \in Weaks
  /\ weaks' = Unregister(weaks, ref[r], r)
  /\ Then(t, <<Delete(o, left \ {r})>>)
  /\ UNCHANGED <<life, count, ref, queue>>

\* Mutant: every member is destroyed as if it were a Strong.
AnyMemberAsStrong(t, o, left, s) ==
  /\ Then(t, <<Drop(s), Delete(o, left \ {s})>>)
  /\ UNCHANGED <<life, count, ref, weaks, queue>>

\* ~Strong() of a member of o: releases what it points to.
StrongMember(t, o, left, s) ==
  /\ s \in Strongs
  /\ Then(t, (IF ref[s] = NoObject THEN <<>> ELSE Release(ref[s]))
             \o <<Delete(o, left \ {s})>>)
  /\ UNCHANGED <<life, count, ref, weaks, queue>>

\* delete v: the members are destroyed (in an order the class fixes), then
\* ~Object() reports to Zombies::dealloc and the memory is gone.
DoDelete(t) ==
  /\ At(t, "delete")
  /\ LET o == Head(todo[t]).obj
         left == Head(todo[t]).left
     IN \/ \E s \in left : WeakMember(t, o, left, s) \/ StrongMember(t, o, left, s)
        \/ /\ left = {}
           /\ life' = [life EXCEPT ![o] = "dead"]
           /\ ref' = [s \in Slots |-> IF Owner[s] = o THEN NoObject ELSE ref[s]]
           /\ Then(t, <<>>)
           /\ UNCHANGED <<count, weaks, queue>>

\* if(_object) _object->release(), in Strong<T>::set.
DoDrop(t) ==
  /\ At(t, "drop")
  /\ LET o == ref[Head(todo[t]).slot]
     IN Then(t, IF o = NoObject THEN <<>> ELSE Release(o))
  /\ UNCHANGED <<life, count, ref, weaks, queue>>

\* _object = object, in Strong<T>::set.
DoStore(t) ==
  /\ At(t, "store")
  /\ ref' = [ref EXCEPT ![Head(todo[t]).slot] = Head(todo[t]).obj]
  /\ Then(t, <<>>)
  /\ UNCHANGED <<life, count, weaks, queue>>

Step(t) ==
  \/ DoRetain(t) \/ DoDec(t) \/ DoTest(t) \/ DoDrain(t)
  \/ DoCheck(t) \/ DoDelete(t) \/ DoDrop(t) \/ DoStore(t)

Next == UNCHANGED layout /\ \E t \in Threads : Client(t) \/ Step(t)

Spec == Init /\ [][Next]_vars

\* Clients may stop; an operation a thread has entered runs on, because the
\* code never blocks in one (each mutex is released at the end of a section).
FairSpec == Spec /\ \A t \in Threads : WF_vars(Step(t) /\ UNCHANGED layout)

-----------------------------------------------------------------------------
(***************************************************************************)
(* Properties.                                                             *)
(***************************************************************************)

\* The type invariant: what each variable of the model ranges over.
TypeOK ==
  /\ layout \in Layouts
  /\ life \in [Objects -> {"unborn", "live", "dead"}]
  /\ count \in [Objects -> Int]
  /\ ref \in [Slots -> Objects \cup {NoObject}]
  /\ weaks \in [Objects -> SUBSET Weaks]
  /\ queue \in Seq(Objects)
  /\ todo \in [Threads -> Seq(Ops)]

\* The operation t executes next reads or writes the memory of an object.
Touches(t) ==
  /\ todo[t] # <<>>
  /\ Head(todo[t]).op \in {"retain", "dec", "test", "check", "delete"}

\* No section of retain(), release(), unlock() or a destructor touches an
\* object that was deleted.
NoUseAfterFree ==
  \A t \in Threads : Touches(t) => life[Head(todo[t]).obj] = "live"

\* core/zombies.cc:217 asserts it: ~Object() runs at most once per object.
DeallocOnce ==
  \A t \in Threads :
    At(t, "delete") /\ Head(todo[t]).left = {}
      => life[Head(todo[t]).obj] # "dead"

\* No thread is inside set() on s, nor destroying the object s is part of.
Settled(s) ==
  \A t \in Threads : \A i \in DOMAIN todo[t] :
    LET e == todo[t][i]
    IN /\ e.op \in {"drop", "store"} => e.slot # s
       /\ e.op = "delete" => e.obj # Owner[s]

\* A Strong keeps its object: allocated, counted, and not about to be deleted.
StrongKeepsAlive ==
  \A s \in Strongs :
    ref[s] # NoObject /\ Settled(s)
      => /\ life[ref[s]] = "live"
         /\ count[ref[s]] > 0
         /\ \A i \in DOMAIN queue : queue[i] # ref[s]

\* A Weak is null or points to an object that is allocated and not yet queued
\* for deletion, and exactly the pointers registered for an object point to it
\* and exist: addObject() writes through them when it queues the object.
WeaksRegistered ==
  /\ \A r \in Weaks :
       ref[r] # NoObject /\ Settled(r)
         => /\ life[ref[r]] = "live"
            /\ r \in weaks[ref[r]]
            /\ \A i \in DOMAIN queue : queue[i] # ref[r]
  /\ \A o \in Objects : \A r \in weaks[o] :
       ref[r] = o /\ (Owner[r] \in Objects => life[Owner[r]] = "live")

\* Between operations the counts are those of the pointers in existence, and
\* exactly the objects something points to are allocated.
CountsExact ==
  (\A t \in Threads : Idle(t)) =>
    \A o \in Objects : life[o] # "unborn" =>
      /\ (life[o] = "live") <=> (count[o] > 0)
      /\ count[o] = Cardinality({s \in Strongs : ref[s] = o})

\* An object whose count is zero is deleted, unless it is retained again.
Reclaimed ==
  \A o \in Objects :
    (life[o] = "live" /\ count[o] = 0) ~> (life[o] = "dead" \/ count[o] > 0)

=============================================================================
