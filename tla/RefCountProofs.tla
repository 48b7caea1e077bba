---------------------------- MODULE RefCountProofs ----------------------------
(***************************************************************************)
(* Theorems about RefCount, for every set of threads, objects and smart    *)
(* pointers, whoever owns them.                                            *)
(***************************************************************************)
EXTENDS RefCount, FiniteSetTheorems, SequenceTheorems, TLAPS

-----------------------------------------------------------------------------
(* The fields an operation has. *)

LEMMA ObjectOpFields ==
  ASSUME NEW e \in Ops, e.op \in {"retain", "dec", "test", "check"}
  PROVE  e.obj \in Objects
BY DEF Ops, ObjectOps, DrainOps, SlotOps, StoreOps, DeleteOps

LEMMA DropFields ==
  ASSUME NEW e \in Ops, e.op = "drop"
  PROVE  e.slot \in Strongs
BY DEF Ops, ObjectOps, DrainOps, SlotOps, StoreOps, DeleteOps

LEMMA StoreFields ==
  ASSUME NEW e \in Ops, e.op = "store"
  PROVE  e.slot \in Strongs /\ e.obj \in Objects \cup {NoObject}
BY DEF Ops, ObjectOps, DrainOps, SlotOps, StoreOps, DeleteOps

LEMMA DeleteFields ==
  ASSUME NEW e \in Ops, e.op = "delete"
  PROVE  e.obj \in Objects /\ e.left \in SUBSET Slots
BY DEF Ops, ObjectOps, DrainOps, SlotOps, StoreOps, DeleteOps

(* The operations the model builds. *)

LEMMA RetainType ==
  ASSUME NEW o \in Objects PROVE Retain(o) \in Seq(Ops)
BY DEF Retain, On, Drain, Ops, ObjectOps, DrainOps

LEMMA ReleaseType ==
  ASSUME NEW o \in Objects PROVE Release(o) \in Seq(Ops)
BY DEF Release, On, Drain, Ops, ObjectOps, DrainOps

LEMMA SetType ==
  ASSUME NEW s \in Strongs, NEW x \in Objects \cup {NoObject}
  PROVE  Set(s, x) \in Seq(Ops)
<1>1. <<Drop(s), Store(s, x)>> \in Seq(Ops)
  BY DEF Drop, Store, Ops, SlotOps, StoreOps
<1>2. (IF x = NoObject THEN <<>> ELSE Retain(x)) \in Seq(Ops)
  BY RetainType
<1>3. QED BY <1>1, <1>2 DEF Set

LEMMA DeleteType ==
  ASSUME NEW o \in Objects, NEW left \in SUBSET Slots
  PROVE  Delete(o, left) \in Ops
BY DEF Delete, Ops, DeleteOps

(* A step replaces the first operation of one thread by typed operations. *)
LEMMA ThenType ==
  ASSUME TypeOK, NEW t \in Threads, todo[t] # <<>>,
         NEW ops \in Seq(Ops), Then(t, ops)
  PROVE  todo' \in [Threads -> Seq(Ops)]
<1>1. todo[t] \in Seq(Ops) /\ Tail(todo[t]) \in Seq(Ops)
  BY DEF TypeOK
<1>2. ops \o Tail(todo[t]) \in Seq(Ops)
  BY <1>1
<1>3. QED BY <1>2 DEF Then, TypeOK

LEMMA HeadType ==
  ASSUME TypeOK, NEW t \in Threads, todo[t] # <<>>
  PROVE  Head(todo[t]) \in Ops
BY DEF TypeOK

-----------------------------------------------------------------------------
(* The type invariant holds initially and every step keeps it. *)

LEMMA InitType == Init => TypeOK
BY SlotsAssumption, ObjectsAssumption DEF Init, TypeOK, Slots

LEMMA RegistryType ==
  ASSUME NEW reg \in [Objects -> SUBSET Weaks], NEW r \in Weaks,
         NEW o \in Objects \cup {NoObject}
  PROVE  /\ Register(reg, o, r) \in [Objects -> SUBSET Weaks]
         /\ Unregister(reg, o, r) \in [Objects -> SUBSET Weaks]
BY DEF Register, Unregister

LEMMA ClientType ==
  ASSUME TypeOK, UNCHANGED layout, NEW t \in Threads, Client(t)
  PROVE  TypeOK'
<1>1. ASSUME NEW s \in Strongs, NEW o \in Objects, Allocate(t, s, o)
      PROVE  TypeOK'
  <2>1. Set(s, o) \in Seq(Ops)
    BY SetType
  <2>2. QED BY <1>1, <2>1 DEF Allocate, TypeOK
<1>2. ASSUME NEW s \in Strongs, NEW q \in Slots,
             Assign(t, s, q) \/ Capture(t, s, q)
      PROVE  TypeOK'
  <2>1. ref[q] \in Objects \cup {NoObject}
    BY DEF TypeOK
  <2>2. Set(s, ref[q]) \in Seq(Ops)
    BY <2>1, SetType
  <2>3. QED BY <1>2, <2>2 DEF Assign, Capture, TypeOK
<1>3. ASSUME NEW s \in Strongs, Reset(t, s)
      PROVE  TypeOK'
  <2>1. Set(s, NoObject) \in Seq(Ops)
    BY SetType
  <2>2. QED BY <1>3, <2>1 DEF Reset, TypeOK
<1>4. ASSUME NEW r \in Weaks, NEW x \in Objects \cup {NoObject}, WeakSet(t, r, x)
      PROVE  TypeOK'
  <2>1. ref[r] \in Objects \cup {NoObject}
    BY DEF TypeOK, Slots
  <2>2. Unregister(weaks, ref[r], r) \in [Objects -> SUBSET Weaks]
    BY <2>1, RegistryType DEF TypeOK
  <2>3. weaks' \in [Objects -> SUBSET Weaks]
    BY <1>4, <2>2, RegistryType DEF WeakSet
  <2>4. ref' \in [Slots -> Objects \cup {NoObject}]
    BY <1>4 DEF WeakSet, TypeOK
  <2>5. QED BY <1>4, <2>3, <2>4 DEF WeakSet, TypeOK
<1>5. QED
  BY <1>1, <1>2, <1>3, <1>4, SlotsAssumption DEF Client, Slots, Captured, TypeOK

LEMMA StepType ==
  ASSUME TypeOK, UNCHANGED layout, NEW t \in Threads, Step(t)
  PROVE  TypeOK'
<1> DEFINE e == Head(todo[t])
<1>1. <<>> \in Seq(Ops)
  OBVIOUS
<1>2. CASE DoRetain(t) \/ DoDec(t)
  <2>1. todo[t] # <<>> /\ e.op \in {"retain", "dec"} /\ Then(t, <<>>)
    BY <1>2 DEF DoRetain, DoDec, At
  <2>2. e.obj \in Objects
    BY <2>1, HeadType, ObjectOpFields
  <2>3. count' \in [Objects -> Int]
    BY <1>2, <2>2 DEF DoRetain, DoDec, TypeOK
  <2>4. todo' \in [Threads -> Seq(Ops)]
    BY <1>1, <2>1, ThenType
  <2>5. QED BY <1>2, <2>3, <2>4 DEF DoRetain, DoDec, TypeOK
<1>3. CASE DoTest(t)
  <2>1. todo[t] # <<>> /\ e.op = "test" /\ Then(t, <<>>)
    BY <1>3 DEF DoTest, At
  <2>2. e.obj \in Objects
    BY <2>1, HeadType, ObjectOpFields
  <2>3. todo' \in [Threads -> Seq(Ops)]
    BY <1>1, <2>1, ThenType
  <2>4. CASE AddObject(e.obj)
    <3>1. queue' \in Seq(Objects)
      BY <2>2, <2>4 DEF AddObject, TypeOK
    <3>2. weaks' \in [Objects -> SUBSET Weaks]
      BY <2>2, <2>4 DEF AddObject, TypeOK
    <3>3. ref' \in [Slots -> Objects \cup {NoObject}]
      BY <2>4 DEF AddObject, TypeOK
    <3>4. QED BY <1>3, <2>3, <3>1, <3>2, <3>3 DEF DoTest, TypeOK
  <2>5. CASE UNCHANGED <<ref, weaks, queue>>
    BY <1>3, <2>3, <2>5 DEF DoTest, TypeOK
  <2>6. QED BY <1>3, <2>4, <2>5 DEF DoTest
<1>4. CASE DoDrain(t)
  <2>1. CASE queue = <<>>
    <3>1. todo' \in [Threads -> Seq(Ops)]
      BY <1>1, <1>4, <2>1, ThenType DEF DoDrain, At
    <3>2. QED BY <1>4, <2>1, <3>1 DEF DoDrain, TypeOK
  <2>2. CASE queue # <<>>
    <3>1. Head(queue) \in Objects /\ Tail(queue) \in Seq(Objects)
      BY <2>2 DEF TypeOK
    <3>2. <<On("check", Head(queue)), Drain>> \in Seq(Ops)
      BY <3>1 DEF On, Drain, Ops, ObjectOps, DrainOps
    <3>3. todo' \in [Threads -> Seq(Ops)]
      BY <1>4, <2>2, <3>2, ThenType DEF DoDrain, At
    <3>4. QED BY <1>4, <2>2, <3>1, <3>3 DEF DoDrain, TypeOK
  <2>3. QED BY <2>1, <2>2
<1>5. CASE DoCheck(t)
  <2>1. todo[t] # <<>> /\ e.op = "check"
    BY <1>5 DEF DoCheck, At
  <2>2. e.obj \in Objects
    BY <2>1, HeadType, ObjectOpFields
  <2>3. Delete(e.obj, Members(e.obj)) \in Ops
    BY <2>2, DeleteType DEF Members
  <2>4. <<Delete(e.obj, Members(e.obj))>> \in Seq(Ops)
    BY <2>3
  <2>5. PICK n \in CountRead(e.obj) :
          Then(t, IF n = 0 THEN <<Delete(e.obj, Members(e.obj))>> ELSE <<>>)
    BY <1>5 DEF DoCheck
  <2>6. todo' \in [Threads -> Seq(Ops)]
    BY <1>1, <2>1, <2>4, <2>5, ThenType
  <2>7. QED BY <1>5, <2>6 DEF DoCheck, TypeOK
<1>6. CASE DoDelete(t)
  <2>1. todo[t] # <<>> /\ e.op = "delete"
    BY <1>6 DEF DoDelete, At
  <2>2. e.obj \in Objects /\ e.left \in SUBSET Slots
    BY <2>1, HeadType, DeleteFields
  <2>3. ASSUME NEW s \in e.left, WeakMember(t, e.obj, e.left, s)
        PROVE  TypeOK'
    <3>1. s \in Weaks /\ ref[s] \in Objects \cup {NoObject}
      BY <2>2, <2>3 DEF WeakMember, TypeOK
    <3>2. weaks' \in [Objects -> SUBSET Weaks]
      BY <2>3, <3>1, RegistryType DEF WeakMember, TypeOK
    <3>3. Delete(e.obj, e.left \ {s}) \in Ops
      BY <2>2, DeleteType
    <3>4. <<Delete(e.obj, e.left \ {s})>> \in Seq(Ops)
      BY <3>3
    <3>5. todo' \in [Threads -> Seq(Ops)]
      BY <2>1, <2>3, <3>4, ThenType DEF WeakMember
    <3>6. QED BY <2>3, <3>2, <3>5 DEF WeakMember, TypeOK
  <2>4. ASSUME NEW s \in e.left, StrongMember(t, e.obj, e.left, s)
        PROVE  TypeOK'
    <3> DEFINE pre == IF ref[s] = NoObject THEN <<>> ELSE Release(ref[s])
    <3>1. ref[s] \in Objects \cup {NoObject}
      BY <2>2, <2>4 DEF TypeOK
    <3>2. pre \in Seq(Ops)
      BY <1>1, <3>1, ReleaseType
    <3>3. Delete(e.obj, e.left \ {s}) \in Ops
      BY <2>2, DeleteType
    <3>4. pre \o <<Delete(e.obj, e.left \ {s})>> \in Seq(Ops)
      <4> HIDE DEF pre
      <4> QED BY <3>2, <3>3
    <3>5. todo' \in [Threads -> Seq(Ops)]
      BY <2>1, <2>4, <3>4, ThenType DEF StrongMember
    <3>6. QED BY <2>4, <3>5 DEF StrongMember, TypeOK
  <2>5. CASE /\ life' = [life EXCEPT ![e.obj] = "dead"]
             /\ ref' = [s \in Slots |-> IF Owner[s] = e.obj THEN NoObject ELSE ref[s]]
             /\ Then(t, <<>>)
             /\ UNCHANGED <<count, weaks, queue>>
    <3>1. todo' \in [Threads -> Seq(Ops)]
      BY <1>1, <2>1, <2>5, ThenType
    <3>2. life' \in [Objects -> {"unborn", "live", "dead"}]
      BY <2>2, <2>5 DEF TypeOK
    <3>3. ref' \in [Slots -> Objects \cup {NoObject}]
      BY <2>5 DEF TypeOK
    <3>4. QED BY <2>5, <3>1, <3>2, <3>3 DEF TypeOK
  <2>6. QED BY <1>6, <2>3, <2>4, <2>5 DEF DoDelete
<1>7. CASE DoDrop(t)
  <2>1. todo[t] # <<>> /\ e.op = "drop"
    BY <1>7 DEF DoDrop, At
  <2>2. e.slot \in Strongs
    BY <2>1, HeadType, DropFields
  <2>3. ref[e.slot] \in Objects \cup {NoObject}
    BY <2>2 DEF TypeOK, Slots
  <2>4. (IF ref[e.slot] = NoObject THEN <<>> ELSE Release(ref[e.slot])) \in Seq(Ops)
    BY <1>1, <2>3, ReleaseType
  <2>5. todo' \in [Threads -> Seq(Ops)]
    BY <1>7, <2>1, <2>4, ThenType DEF DoDrop
  <2>6. QED BY <1>7, <2>5 DEF DoDrop, TypeOK
<1>8. CASE DoStore(t)
  <2>1. todo[t] # <<>> /\ e.op = "store" /\ Then(t, <<>>)
    BY <1>8 DEF DoStore, At
  <2>2. e.slot \in Strongs /\ e.obj \in Objects \cup {NoObject}
    BY <2>1, HeadType, StoreFields
  <2>3. ref' \in [Slots -> Objects \cup {NoObject}]
    BY <1>8, <2>2 DEF DoStore, TypeOK
  <2>4. todo' \in [Threads -> Seq(Ops)]
    BY <1>1, <2>1, ThenType
  <2>5. QED BY <1>8, <2>3, <2>4 DEF DoStore, TypeOK
<1>9. QED
  BY <1>2, <1>3, <1>4, <1>5, <1>6, <1>7, <1>8 DEF Step

\* The operations of Object, Atomic, Strong and Weak keep every variable in
\* its type, whatever threads and pointers there are.
THEOREM TypeCorrect == Spec => []TypeOK
<1>1. TypeOK /\ UNCHANGED vars => TypeOK'
  BY DEF vars, TypeOK
<1>2. TypeOK /\ [Next]_vars => TypeOK'
  BY <1>1, ClientType, StepType DEF Next
<1>3. QED
  BY InitType, <1>2, PTL DEF Spec

-----------------------------------------------------------------------------
(***************************************************************************)
(* The programs for which the counts can be trusted.                       *)
(***************************************************************************)

\* One thread has all the smart pointers that are not in objects.
OneThread(l) ==
  \A s, q \in Slots : {l.owner[s], l.owner[q]} \subseteq Threads => l.owner[s] = l.owner[q]

\* Threads keep to their own objects, which have no members.
Separate(l) == l.captured = {} /\ \A s \in Slots : l.owner[s] \notin Objects

Safe == \A l \in Layouts : OneThread(l) \/ Separate(l)

(***************************************************************************)
(* What a thread has still to do.                                          *)
(***************************************************************************)

El(q) == {q[i] : i \in DOMAIN q}

\* The operations of one name.
Of(t, name) == {e \in El(todo[t]) : e.op = name}

Pending(t, name, o) == \E e \in Of(t, name) : e.obj = o

Setting(t, s) == \E e \in Of(t, "store") : e.slot = s

Ends == {"check", "delete"}

\* The operations of a thread: those of one set() at most, under the frames of
\* destructors, under one release() at most.
Shape(q) ==
  /\ \A i \in DOMAIN q :
       /\ q[i].op \in {"retain", "dec", "check"} => i = 1
       /\ q[i].op = "retain" => q[Len(q)].op = "store" /\ q[Len(q)].obj = q[i].obj
       /\ q[i].op = "dec" => /\ Len(q) > 3 /\ q[2].op = "drain"
                             /\ q[3].op = "test" /\ q[3].obj = q[i].obj
       /\ q[i].op = "test" => i + 1 \in DOMAIN q /\ q[i + 1].op = "drain"
       /\ q[i].op = "drop" => /\ i + 1 = Len(q) /\ q[i + 1].op = "store"
                              /\ q[i + 1].slot = q[i].slot
       /\ q[i].op = "store" => i = Len(q)
       /\ q[i].op = "delete" => q[i].left \subseteq Members(q[i].obj)
  /\ \A i, j \in DOMAIN q : q[i].op = "test" /\ q[j].op = "test" => i = j
  /\ \A i, j \in DOMAIN q :
       q[i].op \in Ends /\ q[j].op \in Ends /\ q[i].obj = q[j].obj => i = j

(***************************************************************************)
(* Who counts.                                                             *)
(***************************************************************************)

\* The Strong has released its object and not got the next one, or its
\* destructor has run.
Unlinked(t, s) == Setting(t, s) /\ Of(t, "drop") = {}

Taken(s) ==
  \E t \in Threads : \E e \in Of(t, "delete") : e.obj = Owner[s] /\ s \notin e.left

Held(o) ==
  {s \in Strongs : ref[s] = o /\ ~ Taken(s) /\ \A t \in Threads : ~ Unlinked(t, s)}

\* Retained and not stored; unlinked and not released.
Arriving(o) == {t \in Threads : Pending(t, "store", o) /\ Of(t, "retain") = {}}

Leaving(o) == {t \in Threads : Pending(t, "dec", o)}

Counted ==
  \A o \in Objects :
    count[o] = Cardinality(Held(o)) + Cardinality(Arriving(o)) + Cardinality(Leaving(o))

(***************************************************************************)
(* The end of an object.                                                   *)
(***************************************************************************)

InQueue(o) == \E i \in DOMAIN queue : queue[i] = o

Ending(t, o) == Pending(t, "check", o) \/ Pending(t, "delete", o)

Doomed(o) == InQueue(o) \/ \E t \in Threads : Ending(t, o)

\* Nobody knows an object that is to be deleted or is not allocated.
GoneForgotten ==
  \A o \in Objects : Doomed(o) \/ life[o] # "live" =>
    /\ count[o] = 0 /\ weaks[o] = {}
    /\ \A t \in Threads : ~ Pending(t, "retain", o) /\ ~ Pending(t, "test", o)

DoomedLive == \A o \in Objects : Doomed(o) => life[o] = "live"

EndsOnce ==
  /\ \A i, j \in DOMAIN queue : queue[i] = queue[j] => i = j
  /\ \A t \in Threads, o \in Objects : Ending(t, o) =>
       ~ InQueue(o) /\ \A u \in Threads : Ending(u, o) => u = t

UnbornUnknown == \A o \in Objects, s \in Slots : life[o] = "unborn" => ref[s] # o

\* An object that nothing counts is on its way out, or in.
NobodyLost ==
  \A o \in Objects : life[o] = "live" /\ count[o] = 0 =>
    \/ Doomed(o)
    \/ \E t \in Threads : Pending(t, "retain", o) \/ Pending(t, "test", o)

QueueDrained == queue # <<>> => \E t \in Threads : Of(t, "drain") # {}

(***************************************************************************)
(* Whose pointers they are.                                                *)
(***************************************************************************)

\* A thread sets its own pointers, and those of objects it keeps.
SettersKeep ==
  \A t \in Threads, s \in Slots : Setting(t, s) =>
    \/ Owner[s] = t
    \/ \E q \in Strongs : Owner[q] = t /\ ref[q] = Owner[s]

Registered ==
  /\ \A o \in Objects : \A r \in weaks[o] :
       ref[r] = o /\ ~ Taken(r) /\ (Owner[r] \in Objects => life[Owner[r]] = "live")
  /\ \A r \in Weaks : ref[r] # NoObject /\ ~ Taken(r) => r \in weaks[ref[r]]

Mentions(t, o) ==
  \/ \E s \in Slots : Owner[s] = t /\ ref[s] = o
  \/ \E name \in {"retain", "dec", "test", "store"} : Pending(t, name, o)

OneHome ==
  \A t, u \in Threads, o \in Objects : Mentions(t, o) /\ Mentions(u, o) => t = u

TestsOnTop(q) ==
  \A i, j \in DOMAIN q : q[i].op = "test" /\ j < i => q[j].op \in {"dec", "drain"}

\* With one thread a drain finds what the test before it has put there, and
\* nothing while a release() waits for its test.
Undisturbed ==
  OneThread(layout) =>
    /\ \A t \in Threads : todo[t] # <<>> => \E s \in Slots : Owner[s] = t
    /\ \A t \in Threads : TestsOnTop(todo[t])
    /\ queue # <<>> =>
         Len(queue) = 1 /\ \E t \in Threads : At(t, "drain") /\ Of(t, "test") = {}

Inv ==
  /\ TypeOK
  /\ \A t \in Threads : Shape(todo[t])
  /\ Counted
  /\ GoneForgotten /\ DoomedLive /\ EndsOnce /\ UnbornUnknown
  /\ NobodyLost /\ QueueDrained
  /\ SettersKeep /\ Registered /\ OneHome /\ Undisturbed

-----------------------------------------------------------------------------
(***************************************************************************)
(* Sequences of operations.                                                *)
(***************************************************************************)

LEMMA OpsAre ==
  ASSUME NEW o, NEW s, NEW left, NEW name
  PROVE  /\ On(name, o).op = name /\ On(name, o).obj = o
         /\ Drain.op = "drain"
         /\ Drop(s).op = "drop" /\ Drop(s).slot = s
         /\ Store(s, o).op = "store" /\ Store(s, o).slot = s /\ Store(s, o).obj = o
         /\ Delete(o, left).op = "delete" /\ Delete(o, left).obj = o
         /\ Delete(o, left).left = left
  BY DEF On, Drain, Drop, Store, Delete

LEMMA HeadFirst ==
  ASSUME NEW q \in Seq(Ops), q # <<>>
  PROVE  /\ El(q) = {Head(q)} \cup El(Tail(q))
         /\ Head(q) \in Ops /\ Tail(q) \in Seq(Ops)
         /\ Len(q) \in Nat /\ Len(q) > 0 /\ Len(Tail(q)) = Len(q) - 1
         /\ DOMAIN q = 1 .. Len(q) /\ DOMAIN Tail(q) = 1 .. Len(q) - 1
         /\ \A i \in 1 .. Len(q) - 1 : Tail(q)[i] = q[i + 1]
         /\ Head(q) = q[1]
  <1>1. /\ Head(q) \in Ops /\ Tail(q) \in Seq(Ops)
        /\ Len(q) \in Nat /\ Len(q) > 0 /\ Len(Tail(q)) = Len(q) - 1
        /\ DOMAIN q = 1 .. Len(q) /\ DOMAIN Tail(q) = 1 .. Len(q) - 1
        /\ \A i \in 1 .. Len(q) - 1 : Tail(q)[i] = q[i + 1]
        /\ Head(q) = q[1]
    OBVIOUS
  <1>2. /\ 1 \in 1 .. Len(q)
        /\ \A i \in 1 .. Len(q) : i = 1 \/ (i - 1 \in 1 .. Len(q) - 1 /\ (i - 1) + 1 = i)
        /\ \A i \in 1 .. Len(q) - 1 : i + 1 \in 1 .. Len(q)
    BY <1>1
  <1> DEFINE r == Tail(q)
  <1>3. \A i \in 1 .. Len(q) : q[i] = q[1] \/ \E j \in 1 .. Len(q) - 1 : q[i] = r[j]
    BY <1>1, <1>2
  <1>4. \A i \in 1 .. Len(q) - 1 : \E j \in 1 .. Len(q) : r[i] = q[j]
    BY <1>1, <1>2
  <1> HIDE DEF r
  <1>5. El(q) = {q[1]} \cup El(r)
    <2>1. DOMAIN r = 1 .. Len(q) - 1
      BY <1>1 DEF r
    <2>2. El(q) \subseteq {q[1]} \cup El(r)
      BY <1>1, <1>3, <2>1 DEF El
    <2>3. {q[1]} \cup El(r) \subseteq El(q)
      BY <1>1, <1>2, <1>4, <2>1 DEF El
    <2>4. QED
      BY <2>2, <2>3
  <1>6. QED
    BY <1>1, <1>5 DEF r

LEMMA ConcatIs ==
  ASSUME NEW p \in Seq(Ops), NEW q \in Seq(Ops)
  PROVE  /\ p \o q \in Seq(Ops) /\ Len(p \o q) = Len(p) + Len(q)
         /\ Len(p) \in Nat /\ Len(q) \in Nat
         /\ DOMAIN (p \o q) = 1 .. Len(p) + Len(q)
         /\ DOMAIN q = 1 .. Len(q) /\ DOMAIN p = 1 .. Len(p)
         /\ \A i \in 1 .. Len(p) : (p \o q)[i] = p[i]
         /\ \A i \in 1 .. Len(q) : (p \o q)[Len(p) + i] = q[i]
         /\ El(p \o q) = El(p) \cup El(q)
  <1> DEFINE r == p \o q
  <1>1. /\ r \in Seq(Ops) /\ Len(r) = Len(p) + Len(q)
        /\ Len(p) \in Nat /\ Len(q) \in Nat
        /\ DOMAIN r = 1 .. Len(p) + Len(q)
        /\ DOMAIN q = 1 .. Len(q) /\ DOMAIN p = 1 .. Len(p)
        /\ \A i \in 1 .. Len(p) : r[i] = p[i]
    OBVIOUS
  <1>2. \A i \in 1 .. Len(q) : r[Len(p) + i] = q[i]
    OBVIOUS
  <1> HIDE DEF r
  <1>3. /\ \A i \in 1 .. Len(p) : i \in 1 .. Len(p) + Len(q)
        /\ \A i \in 1 .. Len(q) : Len(p) + i \in 1 .. Len(p) + Len(q)
        /\ \A i \in 1 .. Len(p) + Len(q) :
             i \in 1 .. Len(p) \/ (i - Len(p) \in 1 .. Len(q) /\ Len(p) + (i - Len(p)) = i)
    BY <1>1
  <1>4. El(r) \subseteq El(p) \cup El(q)
    <2>1. \A i \in 1 .. Len(p) + Len(q) :
            \/ \E j \in 1 .. Len(p) : r[i] = p[j]
            \/ \E j \in 1 .. Len(q) : r[i] = q[j]
      BY <1>1, <1>2, <1>3
    <2>2. QED
      BY <1>1, <2>1 DEF El
  <1>5. El(p) \cup El(q) \subseteq El(r)
    <2>1. \A i \in 1 .. Len(p) : \E j \in 1 .. Len(p) + Len(q) : p[i] = r[j]
      BY <1>1, <1>3
    <2>2. \A i \in 1 .. Len(q) : \E j \in 1 .. Len(p) + Len(q) : q[i] = r[j]
      BY <1>2, <1>3
    <2>3. El(p) \subseteq El(r)
      BY <1>1, <2>1 DEF El
    <2>4. El(q) \subseteq El(r)
      BY <1>1, <2>2 DEF El
    <2>5. QED
      BY <2>3, <2>4
  <1>6. QED
    BY <1>1, <1>2, <1>4, <1>5 DEF r

LEMMA ElsOf ==
  ASSUME NEW a, NEW b, NEW c, NEW d
  PROVE  /\ El(<<>>) = {} /\ El(<<a>>) = {a} /\ El(<<a, b>>) = {a, b}
         /\ El(<<a, b, c, d>>) = {a, b, c, d}
  <1>1. /\ DOMAIN <<>> = {} /\ DOMAIN <<a>> = {1} /\ DOMAIN <<a, b>> = {1, 2}
        /\ DOMAIN <<a, b, c, d>> = {1, 2, 3, 4}
    OBVIOUS
  <1>2. QED
    BY <1>1 DEF El

\* What is under the first operation: no retain, decrement or check.
Calm(q) == \A i \in DOMAIN q : q[i].op \notin {"retain", "dec", "check"}

NoTest(q) == \A i \in DOMAIN q : q[i].op # "test"

LEMMA TailShape ==
  ASSUME NEW q \in Seq(Ops), q # <<>>, Shape(q)
  PROVE  /\ Shape(Tail(q)) /\ Calm(Tail(q))
         /\ Head(q).op = "test" => NoTest(Tail(q))
         /\ Head(q).op \in Ends =>
              \A i \in DOMAIN Tail(q) :
                ~ (Tail(q)[i].op \in Ends /\ Tail(q)[i].obj = Head(q).obj)
         /\ Head(q).op = "store" => Tail(q) = <<>>
         /\ Head(q).op = "drop" =>
              Len(Tail(q)) = 1 /\ Tail(q)[1].op = "store" /\ Tail(q)[1].slot = Head(q).slot
  <1> DEFINE r == Tail(q)
  <1>1. /\ r \in Seq(Ops) /\ Head(q) = q[1]
        /\ Len(q) \in Nat /\ Len(q) > 0 /\ Len(r) = Len(q) - 1
        /\ DOMAIN q = 1 .. Len(q) /\ DOMAIN r = 1 .. Len(q) - 1
        /\ \A i \in 1 .. Len(q) - 1 : r[i] = q[i + 1]
    BY HeadFirst
  <1> HIDE DEF r
  <1>2. /\ 1 \in 1 .. Len(q)
        /\ \A i \in 1 .. Len(q) - 1 : i + 1 \in 1 .. Len(q) /\ i + 1 # 1
        /\ \A i, j \in 1 .. Len(q) - 1 : i + 1 = j + 1 => i = j
    BY <1>1
  <1>3. Calm(r)
    BY <1>1, <1>2 DEF Calm, Shape
  <1>4. ASSUME NEW i \in 1 .. Len(q) - 1
        PROVE  /\ r[i].op = "test" => i + 1 \in DOMAIN r /\ r[i + 1].op = "drain"
               /\ r[i].op = "drop" => /\ i + 1 = Len(r) /\ r[i + 1].op = "store"
                                      /\ r[i + 1].slot = r[i].slot
               /\ r[i].op = "store" => i = Len(r)
               /\ r[i].op = "delete" => r[i].left \subseteq Members(r[i].obj)
    <2>1. r[i] = q[i + 1] /\ i + 1 \in 1 .. Len(q)
      BY <1>1, <1>2
    <2>2. CASE r[i].op = "test"
      <3>1. (i + 1) + 1 \in 1 .. Len(q) /\ q[(i + 1) + 1].op = "drain"
        BY <1>1, <2>1, <2>2 DEF Shape
      <3>2. i + 1 \in 1 .. Len(q) - 1
        BY <1>1, <3>1
      <3>3. QED
        BY <1>1, <2>2, <3>1, <3>2
    <2>3. CASE r[i].op = "drop"
      <3>1. /\ (i + 1) + 1 = Len(q) /\ q[(i + 1) + 1].op = "store"
            /\ q[(i + 1) + 1].slot = q[i + 1].slot
        BY <1>1, <2>1, <2>3 DEF Shape
      <3>2. i + 1 \in 1 .. Len(q) - 1 /\ i + 1 = Len(r)
        BY <1>1, <3>1
      <3>3. QED
        BY <1>1, <2>1, <2>3, <3>1, <3>2
    <2>4. CASE r[i].op = "store"
      <3>1. i + 1 = Len(q)
        BY <1>1, <2>1, <2>4 DEF Shape
      <3>2. QED
        BY <1>1, <2>4, <3>1
    <2>5. CASE r[i].op = "delete"
      BY <1>1, <2>1, <2>5 DEF Shape
    <2>6. CASE r[i].op \notin {"test", "drop", "store", "delete"}
      BY <2>6
    <2>7. QED
      BY <2>2, <2>3, <2>4, <2>5, <2>6
  <1>5. \A i, j \in 1 .. Len(q) - 1 : r[i].op = "test" /\ r[j].op = "test" => i = j
    <2>1. \A i, j \in 1 .. Len(q) : q[i].op = "test" /\ q[j].op = "test" => i = j
      BY <1>1 DEF Shape
    <2>2. QED
      BY <1>1, <1>2, <2>1
  <1>6. \A i, j \in 1 .. Len(q) - 1 :
          r[i].op \in Ends /\ r[j].op \in Ends /\ r[i].obj = r[j].obj => i = j
    <2>1. \A i, j \in 1 .. Len(q) :
            q[i].op \in Ends /\ q[j].op \in Ends /\ q[i].obj = q[j].obj => i = j
      BY <1>1 DEF Shape
    <2>2. QED
      BY <1>1, <1>2, <2>1
  <1>7. Shape(r)
    BY <1>1, <1>3, <1>4, <1>5, <1>6 DEF Shape, Calm
  <1>8. q[1].op = "test" => NoTest(r)
    <2>1. \A i \in 1 .. Len(q) : q[i].op = "test" /\ q[1].op = "test" => i = 1
      BY <1>1, <1>2 DEF Shape
    <2>2. QED
      BY <1>1, <1>2, <2>1 DEF NoTest
  <1>9. q[1].op \in Ends =>
          \A i \in 1 .. Len(q) - 1 : ~ (r[i].op \in Ends /\ r[i].obj = q[1].obj)
    <2>1. \A i \in 1 .. Len(q) :
            q[i].op \in Ends /\ q[1].op \in Ends /\ q[i].obj = q[1].obj => i = 1
      BY <1>1, <1>2 DEF Shape
    <2>2. QED
      BY <1>1, <1>2, <2>1
  <1>10. q[1].op = "store" => r = <<>>
    <2>1. q[1].op = "store" => Len(r) = 0
      BY <1>1, <1>2 DEF Shape
    <2>2. QED
      BY <1>1, <2>1
  <1>11. q[1].op = "drop" => Len(r) = 1 /\ r[1].op = "store" /\ r[1].slot = q[1].slot
    <2>1. SUFFICES ASSUME q[1].op = "drop" PROVE Len(r) = 1 /\ r[1].op = "store" /\ r[1].slot = q[1].slot
      OBVIOUS
    <2>2. 1 + 1 = Len(q) /\ q[1 + 1].op = "store" /\ q[1 + 1].slot = q[1].slot
      BY <1>1, <1>2, <2>1 DEF Shape
    <2>3. Len(q) = 2
      BY <2>2
    <2>4. r[1] = q[1 + 1] /\ Len(r) = 1
      BY <1>1, <2>3
    <2>5. 1 + 1 = 2 /\ r[1] = q[1 + 1] /\ q[1].slot = q[1].slot
      BY <2>4
    <2>6. QED
      BY <2>2, <2>4, <2>5
  <1>12. QED
    BY <1>1, <1>3, <1>7, <1>8, <1>9, <1>10, <1>11 DEF r

\* One operation in front.
LEMMA PushShape ==
  ASSUME NEW q \in Seq(Ops), Shape(q), Calm(q), NEW e \in Ops,
         \/ e.op = "drain"
         \/ /\ e.op \in Ends
            /\ e.op = "delete" => e.left \subseteq Members(e.obj)
            /\ \A i \in DOMAIN q : ~ (q[i].op \in Ends /\ q[i].obj = e.obj)
         \/ e.op = "test" /\ NoTest(q) /\ q # <<>> /\ q[1].op = "drain"
         \/ /\ e.op = "dec"
            /\ Len(q) > 2 /\ q[1].op = "drain" /\ q[2].op = "test" /\ q[2].obj = e.obj
  PROVE  Shape(<<e>> \o q)
  <1> DEFINE r == <<e>> \o q
  <1>1. /\ r \in Seq(Ops) /\ Len(q) \in Nat /\ Len(r) = Len(q) + 1
        /\ DOMAIN q = 1 .. Len(q) /\ DOMAIN r = 1 .. Len(q) + 1
        /\ r[1] = e
        /\ \A i \in 1 .. Len(q) : r[i + 1] = q[i]
    OBVIOUS
  <1> HIDE DEF r
  <1>2. /\ 1 \in 1 .. Len(r)
        /\ \A i \in 1 .. Len(r) : i = 1 \/ \E j \in 1 .. Len(q) : i = j + 1
        /\ \A i \in 1 .. Len(q) : i + 1 \in 1 .. Len(r) /\ i + 1 # 1
    <2>1. \A i \in 1 .. Len(r) : i = 1 \/ (i - 1 \in 1 .. Len(q) /\ (i - 1) + 1 = i)
      BY <1>1
    <2>2. QED
      BY <1>1, <2>1
  <1>3. e.op \in {"drain", "check", "delete", "test", "dec"}
    BY DEF Ends
  <1>4. ASSUME NEW j \in 1 .. Len(q)
        PROVE  /\ q[j].op \notin {"retain", "dec", "check"}
               /\ q[j].op = "test" => (j + 1) + 1 \in DOMAIN r /\ r[(j + 1) + 1].op = "drain"
               /\ q[j].op = "drop" => /\ (j + 1) + 1 = Len(r) /\ r[(j + 1) + 1].op = "store"
                                      /\ r[(j + 1) + 1].slot = q[j].slot
               /\ q[j].op = "store" => j + 1 = Len(r)
               /\ q[j].op = "delete" => q[j].left \subseteq Members(q[j].obj)
    <2>1. q[j].op \notin {"retain", "dec", "check"}
      BY <1>1 DEF Calm
    <2>2. q[j].op = "test" => j + 1 \in 1 .. Len(q) /\ q[j + 1].op = "drain"
      BY <1>1 DEF Shape
    <2>3. q[j].op = "drop" => /\ j + 1 = Len(q) /\ q[j + 1].op = "store"
                              /\ q[j + 1].slot = q[j].slot
      BY <1>1 DEF Shape
    <2>4. q[j].op = "drop" => j + 1 \in 1 .. Len(q)
      BY <1>1, <2>3
    <2>5. q[j].op = "store" => j = Len(q)
      BY <1>1 DEF Shape
    <2>6. q[j].op = "delete" => q[j].left \subseteq Members(q[j].obj)
      BY <1>1 DEF Shape
    <2>7. QED
      BY <1>1, <1>2, <2>1, <2>2, <2>3, <2>4, <2>5, <2>6
  <1>5. ASSUME NEW i \in 1 .. Len(r)
        PROVE  /\ r[i].op \in {"retain", "dec", "check"} => i = 1
               /\ r[i].op = "retain" => r[Len(r)].op = "store" /\ r[Len(r)].obj = r[i].obj
               /\ r[i].op = "dec" => /\ Len(r) > 3 /\ r[2].op = "drain"
                                     /\ r[3].op = "test" /\ r[3].obj = r[i].obj
               /\ r[i].op = "test" => i + 1 \in DOMAIN r /\ r[i + 1].op = "drain"
               /\ r[i].op = "drop" => /\ i + 1 = Len(r) /\ r[i + 1].op = "store"
                                      /\ r[i + 1].slot = r[i].slot
               /\ r[i].op = "store" => i = Len(r)
               /\ r[i].op = "delete" => r[i].left \subseteq Members(r[i].obj)
    <2>1. CASE i = 1
      <3>1. e.op = "test" => 2 \in DOMAIN r /\ r[2].op = "drain"
        <4>1. SUFFICES ASSUME e.op = "test" PROVE 2 \in DOMAIN r /\ r[2].op = "drain"
          OBVIOUS
        <4>2. q # <<>> /\ q[1].op = "drain"
          BY <4>1 DEF Ends
        <4>3. 1 \in 1 .. Len(q) /\ 2 \in 1 .. Len(q) + 1 /\ 1 + 1 = 2
          BY <1>1, <4>2
        <4>4. r[1 + 1] = q[1]
          BY <1>1, <4>3
        <4>5. QED
          BY <1>1, <4>2, <4>3, <4>4
      <3>2. e.op = "dec" => /\ Len(r) > 3 /\ r[2].op = "drain"
                            /\ r[3].op = "test" /\ r[3].obj = e.obj
        <4>1. e.op = "dec" => 1 \in 1 .. Len(q) /\ 2 \in 1 .. Len(q)
          BY <1>1 DEF Ends
        <4>2. 1 + 1 = 2 /\ 2 + 1 = 3
          OBVIOUS
        <4>3. QED
          BY <1>1, <4>1, <4>2 DEF Ends
      <3>3. e.op = "delete" => e.left \subseteq Members(e.obj)
        BY DEF Ends
      <3>4. QED
        BY <1>1, <1>3, <2>1, <3>1, <3>2, <3>3
    <2>2. ASSUME NEW j \in 1 .. Len(q), i = j + 1
          PROVE  r[i] = q[j]
      BY <1>1, <2>2
    <2>3. QED
      BY <1>2, <1>4, <2>1, <2>2
  <1>6. ASSUME NEW i \in 1 .. Len(r), NEW j \in 1 .. Len(r), r[i].op = "test", r[j].op = "test"
        PROVE  i = j
    <2>1. CASE e.op = "test"
      <3>1. \A k \in 1 .. Len(q) : r[k + 1].op # "test"
        BY <1>1, <2>1 DEF NoTest, Ends
      <3>2. QED
        BY <1>2, <1>6, <3>1
    <2>2. CASE e.op # "test"
      <3>1. \A k, l \in 1 .. Len(q) : r[k + 1].op = "test" /\ r[l + 1].op = "test" => k = l
        <4>1. \A k, l \in 1 .. Len(q) : q[k].op = "test" /\ q[l].op = "test" => k = l
          BY <1>1 DEF Shape
        <4>2. QED
          BY <1>1, <4>1
      <3>2. QED
        BY <1>1, <1>2, <1>6, <2>2, <3>1
    <2>3. QED
      BY <2>1, <2>2
  <1>7. ASSUME NEW i \in 1 .. Len(r), NEW j \in 1 .. Len(r),
               r[i].op \in Ends, r[j].op \in Ends, r[i].obj = r[j].obj
        PROVE  i = j
    <2>0. \A k, l \in 1 .. Len(q) : r[k + 1].op \in Ends /\ r[l + 1].op \in Ends
                                    /\ r[k + 1].obj = r[l + 1].obj => k = l
      <3>1. \A k, l \in 1 .. Len(q) : q[k].op \in Ends /\ q[l].op \in Ends
                                      /\ q[k].obj = q[l].obj => k = l
        BY <1>1 DEF Shape
      <3>2. QED
        BY <1>1, <3>1
    <2>1. CASE e.op \in Ends
      <3>1. \A k \in 1 .. Len(q) : ~ (r[k + 1].op \in Ends /\ r[k + 1].obj = e.obj)
        BY <1>1, <2>1 DEF Ends
      <3>2. QED
        BY <1>1, <1>2, <1>7, <2>0, <3>1
    <2>2. CASE e.op \notin Ends
      <3>1. QED
        BY <1>1, <1>2, <1>7, <2>0, <2>2
    <2>3. QED
      BY <2>1, <2>2
  <1>8. Shape(r)
    BY <1>1, <1>5, <1>6, <1>7 DEF Shape
  <1>9. QED
    BY <1>8 DEF r

LEMMA TopTail ==
  ASSUME NEW q \in Seq(Ops), q # <<>>, TestsOnTop(q)
  PROVE  /\ TestsOnTop(Tail(q))
         /\ Head(q).op \notin {"dec", "drain"} => NoTest(Tail(q))
  <1> DEFINE r == Tail(q)
  <1>1. /\ Head(q) = q[1] /\ Len(q) \in Nat /\ Len(q) > 0
        /\ DOMAIN q = 1 .. Len(q) /\ DOMAIN r = 1 .. Len(q) - 1
        /\ \A i \in 1 .. Len(q) - 1 : r[i] = q[i + 1]
    BY HeadFirst
  <1> HIDE DEF r
  <1>2. /\ 1 \in 1 .. Len(q)
        /\ \A i \in 1 .. Len(q) - 1 : i + 1 \in 1 .. Len(q) /\ 1 < i + 1
        /\ \A i, j \in 1 .. Len(q) - 1 : j < i => j + 1 < i + 1
    BY <1>1
  <1>3. \A i, j \in 1 .. Len(q) :
          q[i].op = "test" /\ j < i => q[j].op \in {"dec", "drain"}
    BY <1>1 DEF TestsOnTop
  <1>4. TestsOnTop(r)
    <2>1. ASSUME NEW i \in 1 .. Len(q) - 1, NEW j \in 1 .. Len(q) - 1, r[i].op = "test", j < i
          PROVE  r[j].op \in {"dec", "drain"}
      <3>1. q[i + 1].op = "test" /\ j + 1 < i + 1 /\ r[j] = q[j + 1]
        BY <1>1, <1>2, <2>1
      <3>2. QED
        BY <1>2, <1>3, <3>1
    <2>2. QED
      BY <1>1, <2>1 DEF TestsOnTop
  <1>5. q[1].op \notin {"dec", "drain"} => NoTest(r)
    <2>1. \A i \in 1 .. Len(q) - 1 : q[i + 1].op = "test" => q[1].op \in {"dec", "drain"}
      BY <1>2, <1>3
    <2>2. QED
      BY <1>1, <2>1 DEF NoTest
  <1>6. QED
    BY <1>1, <1>4, <1>5 DEF r

LEMMA TopPush ==
  ASSUME NEW q \in Seq(Ops), NEW e \in Ops,
         NoTest(q) \/ (TestsOnTop(q) /\ e.op \in {"dec", "drain"})
  PROVE  TestsOnTop(<<e>> \o q)
  <1> DEFINE r == <<e>> \o q
  <1>1. /\ Len(q) \in Nat /\ DOMAIN q = 1 .. Len(q) /\ DOMAIN r = 1 .. Len(q) + 1
        /\ r[1] = e
        /\ \A i \in 1 .. Len(q) : r[i + 1] = q[i]
    OBVIOUS
  <1> HIDE DEF r
  <1>2. \A i \in 1 .. Len(q) + 1 : i = 1 \/ (i - 1 \in 1 .. Len(q) /\ (i - 1) + 1 = i)
    BY <1>1
  <1>3. ASSUME NEW i \in 1 .. Len(q) + 1, NEW j \in 1 .. Len(q) + 1, r[i].op = "test", j < i
        PROVE  r[j].op \in {"dec", "drain"}
    <2>1. i # 1
      BY <1>3
    <2>2. i - 1 \in 1 .. Len(q) /\ q[i - 1].op = "test"
      BY <1>1, <1>2, <1>3, <2>1
    <2>3. TestsOnTop(q) /\ e.op \in {"dec", "drain"}
      BY <1>1, <2>2 DEF NoTest
    <2>4. CASE j = 1
      BY <1>1, <2>3, <2>4
    <2>5. CASE j # 1
      <3>1. j - 1 \in 1 .. Len(q) /\ r[j] = q[j - 1] /\ j - 1 < i - 1
        BY <1>1, <1>2, <1>3, <2>5
      <3>2. QED
        BY <1>1, <2>2, <2>3, <3>1 DEF TestsOnTop
    <2>6. QED
      BY <2>4, <2>5
  <1>4. QED
    BY <1>1, <1>3 DEF TestsOnTop, r

LEMMA Two ==
  ASSUME NEW a \in Ops, NEW b \in Ops
  PROVE  <<a>> \o <<b>> = <<a, b>>
  <1> DEFINE r == <<a>> \o <<b>>
             v == <<a, b>>
  <1>1. r \in Seq(Ops) /\ Len(r) = 2 /\ r[1] = a /\ r[2] = b
    OBVIOUS
  <1>2. v \in Seq(Ops) /\ Len(v) = 2 /\ v[1] = a /\ v[2] = b
    OBVIOUS
  <1> HIDE DEF r, v
  <1>3. \A i \in 1 .. Len(r) : i = 1 \/ i = 2
    BY <1>1
  <1>4. \A i \in 1 .. Len(r) : r[i] = v[i]
    BY <1>1, <1>2, <1>3
  <1>5. QED
    BY <1>1, <1>2, <1>4, SeqEqual DEF r, v

LEMMA Four ==
  ASSUME NEW a \in Ops, NEW b \in Ops, NEW c \in Ops, NEW d \in Ops
  PROVE  <<a, b>> \o <<c, d>> = <<a, b, c, d>>
  <1> DEFINE r == <<a, b>> \o <<c, d>>
             v == <<a, b, c, d>>
  <1>1. r \in Seq(Ops) /\ Len(r) = 4 /\ r[1] = a /\ r[2] = b /\ r[3] = c /\ r[4] = d
    OBVIOUS
  <1>2. v \in Seq(Ops) /\ Len(v) = 4 /\ v[1] = a /\ v[2] = b /\ v[3] = c /\ v[4] = d
    OBVIOUS
  <1> HIDE DEF r, v
  <1>3. \A i \in 1 .. Len(r) : i = 1 \/ i = 2 \/ i = 3 \/ i = 4
    BY <1>1
  <1>4. \A i \in 1 .. Len(r) : r[i] = v[i]
    BY <1>1, <1>2, <1>3
  <1>5. QED
    BY <1>1, <1>2, <1>4, SeqEqual DEF r, v

LEMMA Assoc ==
  ASSUME NEW p \in Seq(Ops), NEW q \in Seq(Ops), NEW r \in Seq(Ops)
  PROVE  (p \o q) \o r = p \o (q \o r)
  OBVIOUS

LEMMA OneByOne ==
  ASSUME NEW o \in Objects, NEW q \in Seq(Ops)
  PROVE  Release(o) \o q =
           <<On("dec", o)>> \o (<<Drain>> \o (<<On("test", o)>> \o (<<Drain>> \o q)))
  <1> DEFINE a == On("dec", o)
             c == On("test", o)
             A == <<a>>
             B == <<Drain>>
             C == <<c>>
             D == <<Drain>>
  <1>0. a \in Ops /\ c \in Ops /\ Drain \in Ops
    BY DEF On, Drain, Ops, ObjectOps, DrainOps
  <1> HIDE DEF a, c
  <1>1. A \in Seq(Ops) /\ B \in Seq(Ops) /\ C \in Seq(Ops) /\ D \in Seq(Ops)
    BY <1>0
  <1>2. Release(o) = (A \o B) \o (C \o D)
    <2>1. <<a, Drain>> \o <<c, Drain>> = <<a, Drain, c, Drain>>
      BY <1>0, Four
    <2>2. A \o B = <<a, Drain>> /\ C \o D = <<c, Drain>>
      BY <1>0, Two
    <2>3. QED
      BY <2>1, <2>2 DEF Release, a, c
  <1> HIDE DEF A, B, C, D
  <1>3. A \o B \in Seq(Ops) /\ C \o D \in Seq(Ops) /\ D \o q \in Seq(Ops)
        /\ (C \o D) \o q \in Seq(Ops)
    BY <1>1
  <1>4. ((A \o B) \o (C \o D)) \o q = (A \o B) \o ((C \o D) \o q)
    BY <1>3, Assoc
  <1>5. (C \o D) \o q = C \o (D \o q)
    BY <1>1, Assoc
  <1> DEFINE Y == (C \o D) \o q
  <1>6. (A \o B) \o Y = A \o (B \o Y)
    <2>1. Y \in Seq(Ops)
      BY <1>3
    <2>2. \A y \in Seq(Ops) : (A \o B) \o y = A \o (B \o y)
      <3>1. TAKE y \in Seq(Ops)
      <3>2. A \in Seq(Ops) /\ B \in Seq(Ops)
        BY <1>1
      <3>3. QED
        BY <3>2
    <2>3. QED
      BY <2>1, <2>2
  <1>7. QED
    BY <1>2, <1>4, <1>5, <1>6 DEF A, B, C, D, a, c

LEMMA ReleaseShape ==
  ASSUME NEW q \in Seq(Ops), Shape(q), Calm(q), NoTest(q), NEW o \in Objects
  PROVE  Shape(Release(o) \o q) /\ TestsOnTop(Release(o) \o q)
  <1> DEFINE d == On("dec", o)
             e == On("test", o)
             q1 == <<Drain>> \o q
             q2 == <<e>> \o q1
             q3 == <<Drain>> \o q2
             q4 == <<d>> \o q3
  <1>1. d \in Ops /\ e \in Ops /\ Drain \in Ops
    BY DEF On, Drain, Ops, ObjectOps, DrainOps
  <1>2. d.op = "dec" /\ d.obj = o /\ e.op = "test" /\ e.obj = o /\ Drain.op = "drain"
    BY OpsAre
  <1> HIDE DEF d, e
  <1>3. /\ q1 \in Seq(Ops) /\ Len(q1) = Len(q) + 1 /\ q1[1] = Drain /\ Len(q) \in Nat
        /\ \A i \in 1 .. Len(q) : q1[i + 1] = q[i]
        /\ DOMAIN q1 = 1 .. Len(q) + 1 /\ DOMAIN q = 1 .. Len(q)
        /\ \A i \in 1 .. Len(q) + 1 : i = 1 \/ (i - 1 \in 1 .. Len(q) /\ (i - 1) + 1 = i)
    BY <1>1
  <1>4. Shape(q1) /\ TestsOnTop(q1)
    BY <1>1, <1>2, PushShape, TopPush
  <1>5. Calm(q1) /\ NoTest(q1)
    <2> HIDE DEF q1
    <2>1. \A i \in 1 .. Len(q) + 1 : q1[i] = Drain \/ \E j \in 1 .. Len(q) : q1[i] = q[j]
      BY <1>3
    <2>2. \A j \in 1 .. Len(q) : q[j].op \notin {"retain", "dec", "check", "test"}
      BY <1>3 DEF Calm, NoTest
    <2>3. \A i \in 1 .. Len(q) + 1 : q1[i].op \notin {"retain", "dec", "check", "test"}
      BY <1>2, <2>1, <2>2
    <2>4. QED
      BY <1>3, <2>3 DEF Calm, NoTest
  <1> HIDE DEF q1
  <1>6. q1 # <<>>
    BY <1>3
  <1>7. Shape(q2) /\ TestsOnTop(q2)
    BY <1>1, <1>2, <1>3, <1>4, <1>5, <1>6, PushShape, TopPush
  <1>8. /\ q2 \in Seq(Ops) /\ Len(q2) = Len(q) + 2 /\ q2[1] = e
        /\ \A i \in 1 .. Len(q) + 1 : q2[i + 1] = q1[i]
        /\ DOMAIN q2 = 1 .. Len(q) + 2
        /\ \A i \in 1 .. Len(q) + 2 : i = 1 \/ (i - 1 \in 1 .. Len(q) + 1 /\ (i - 1) + 1 = i)
    BY <1>1, <1>3
  <1>9. Calm(q2)
    <2> HIDE DEF q2
    <2>1. \A i \in 1 .. Len(q) + 2 : q2[i] = e \/ \E j \in 1 .. Len(q) + 1 : q2[i] = q1[j]
      BY <1>8
    <2>2. \A j \in 1 .. Len(q) + 1 : q1[j].op \notin {"retain", "dec", "check"}
      BY <1>3, <1>5 DEF Calm
    <2>3. \A i \in 1 .. Len(q) + 2 : q2[i].op \notin {"retain", "dec", "check"}
      BY <1>2, <2>1, <2>2
    <2>4. QED
      BY <1>8, <2>3 DEF Calm
  <1> HIDE DEF q2
  <1>10. Shape(q3) /\ TestsOnTop(q3)
    BY <1>1, <1>2, <1>7, <1>8, <1>9, PushShape, TopPush
  <1>11. /\ q3 \in Seq(Ops) /\ Len(q3) = Len(q) + 3 /\ q3[1] = Drain /\ q3[2] = e
         /\ \A i \in 1 .. Len(q) + 2 : q3[i + 1] = q2[i]
         /\ DOMAIN q3 = 1 .. Len(q) + 3
         /\ \A i \in 1 .. Len(q) + 3 : i = 1 \/ (i - 1 \in 1 .. Len(q) + 2 /\ (i - 1) + 1 = i)
    BY <1>1, <1>3, <1>8
  <1>12. Calm(q3)
    <2> HIDE DEF q3
    <2>1. \A i \in 1 .. Len(q) + 3 : q3[i] = Drain \/ \E j \in 1 .. Len(q) + 2 : q3[i] = q2[j]
      BY <1>11
    <2>2. QED
      BY <1>2, <1>8, <1>9, <1>11, <2>1 DEF Calm
  <1> HIDE DEF q3
  <1>13. Len(q3) > 2
    BY <1>3, <1>11
  <1>14. Shape(q4) /\ TestsOnTop(q4)
    BY <1>1, <1>2, <1>10, <1>11, <1>12, <1>13, PushShape, TopPush
  <1>15. Release(o) \o q = q4
    <2>1. QED
      BY OneByOne DEF q1, q2, q3, q4, d, e
  <1>16. QED
    BY <1>14, <1>15

LEMMA ReleaseEls ==
  ASSUME NEW o \in Objects
  PROVE  El(Release(o)) = {On("dec", o), Drain, On("test", o)}
  <1> DEFINE q == <<On("dec", o), Drain, On("test", o), Drain>>
  <1>1. /\ DOMAIN q = {1, 2, 3, 4}
        /\ q[1] = On("dec", o) /\ q[2] = Drain /\ q[3] = On("test", o) /\ q[4] = Drain
    OBVIOUS
  <1> HIDE DEF q
  <1>2. El(q) = {On("dec", o), Drain, On("test", o)}
    BY <1>1 DEF El
  <1>3. QED
    BY <1>2 DEF Release, q

LEMMA SetShape ==
  ASSUME NEW s \in Strongs, NEW x \in Objects \cup {NoObject}
  PROVE  /\ Shape(Set(s, x)) /\ TestsOnTop(Set(s, x)) /\ Set(s, x) \in Seq(Ops)
         /\ Set(s, x) # <<>>
         /\ x = NoObject => El(Set(s, x)) = {Drop(s), Store(s, x)}
         /\ x # NoObject =>
              El(Set(s, x)) = {On("retain", x), Drain, Drop(s), Store(s, x)}
  <1> USE OpsAre
  <1>1. CASE x = NoObject
    <2>1. Set(s, x) = <<Drop(s), Store(s, x)>>
      BY <1>1 DEF Set
    <2> DEFINE q == Set(s, x)
    <2>2. /\ DOMAIN q = {1, 2} /\ Len(q) = 2 /\ q[1] = Drop(s) /\ q[2] = Store(s, x)
      BY <2>1
    <2> HIDE DEF q
    <2>3. Shape(q) /\ TestsOnTop(q)
      BY <2>2 DEF Shape, TestsOnTop, Ends
    <2>4. El(q) = {Drop(s), Store(s, x)}
      BY <2>2 DEF El
    <2>5. q # <<>>
      BY <2>2
    <2>6. QED
      BY <1>1, <2>1, <2>3, <2>4, <2>5, SetType DEF q
  <1>2. CASE x # NoObject
    <2>1. Set(s, x) = <<On("retain", x), Drain, Drop(s), Store(s, x)>>
      <3>1. /\ On("retain", x) \in Ops /\ Drain \in Ops /\ Drop(s) \in Ops
            /\ Store(s, x) \in Ops
        BY <1>2 DEF On, Drain, Drop, Store, Ops, ObjectOps, DrainOps, SlotOps, StoreOps
      <3>2. Set(s, x) = Retain(x) \o <<Drop(s), Store(s, x)>>
        BY <1>2 DEF Set
      <3>3. Retain(x) = <<On("retain", x), Drain>>
        BY DEF Retain
      <3>4. QED
        BY <3>1, <3>2, <3>3, Four
    <2> DEFINE q == Set(s, x)
    <2>2. /\ DOMAIN q = {1, 2, 3, 4} /\ Len(q) = 4
          /\ q[1] = On("retain", x) /\ q[2] = Drain /\ q[3] = Drop(s) /\ q[4] = Store(s, x)
      BY <2>1
    <2> HIDE DEF q
    <2>3. Shape(q) /\ TestsOnTop(q)
      BY <2>2 DEF Shape, TestsOnTop, Ends
    <2>4. El(q) = {On("retain", x), Drain, Drop(s), Store(s, x)}
      BY <2>2 DEF El
    <2>5. q # <<>>
      BY <2>2
    <2>6. QED
      BY <1>2, <2>1, <2>3, <2>4, <2>5, SetType DEF q
  <1>3. QED
    BY <1>1, <1>2

-----------------------------------------------------------------------------
(***************************************************************************)
(* What the first operation of a thread says of the others, and what a     *)
(* step does to them.                                                      *)
(***************************************************************************)

Now(t) == Head(todo[t])

RestOf(t, name) == {e \in El(Tail(todo[t])) : e.op = name}

LEMMA OfFirst ==
  ASSUME Inv, NEW t \in Threads, todo[t] # <<>>
  PROVE  /\ Now(t) \in Ops /\ Tail(todo[t]) \in Seq(Ops)
         /\ \A name : Of(t, name) =
              IF Now(t).op = name THEN RestOf(t, name) \cup {Now(t)} ELSE RestOf(t, name)
  <1>1. todo[t] \in Seq(Ops)
    BY DEF Inv, TypeOK
  <1>2. El(todo[t]) = {Now(t)} \cup El(Tail(todo[t])) /\ Now(t) \in Ops
        /\ Tail(todo[t]) \in Seq(Ops)
    BY <1>1, HeadFirst DEF Now
  <1>3. QED
    BY <1>2 DEF Of, RestOf

LEMMA Under ==
  ASSUME Inv, NEW t \in Threads, todo[t] # <<>>
  PROVE  /\ \A name \in {"retain", "dec", "check"} : RestOf(t, name) = {}
         /\ Now(t).op = "test" => RestOf(t, "test") = {} /\ RestOf(t, "drain") # {}
         /\ Now(t).op = "drop" =>
              /\ RestOf(t, "drop") = {} /\ RestOf(t, "test") = {}
              /\ RestOf(t, "delete") = {}
              /\ \E e \in RestOf(t, "store") : e.slot = Now(t).slot
         /\ Now(t).op = "store" => \A name : RestOf(t, name) = {}
         /\ Now(t).op \in Ends =>
              \A e \in RestOf(t, "delete") : e.obj # Now(t).obj
         /\ Now(t).op = "retain" =>
              \E e \in RestOf(t, "store") : e.obj = Now(t).obj
         /\ Now(t).op = "dec" => \E e \in RestOf(t, "test") : e.obj = Now(t).obj
         /\ Now(t).op = "delete" => Now(t).left \subseteq Members(Now(t).obj)
  <1> DEFINE q == todo[t]
             r == Tail(q)
  <1>1. q \in Seq(Ops) /\ Shape(q)
    BY DEF Inv, TypeOK
  <1>2. /\ Shape(r) /\ Calm(r)
        /\ Head(q).op = "test" => NoTest(r)
        /\ Head(q).op \in Ends =>
             \A i \in DOMAIN r : ~ (r[i].op \in Ends /\ r[i].obj = Head(q).obj)
        /\ Head(q).op = "store" => r = <<>>
        /\ Head(q).op = "drop" =>
             Len(r) = 1 /\ r[1].op = "store" /\ r[1].slot = Head(q).slot
    BY <1>1, TailShape
  <1>3. /\ Len(q) \in Nat /\ Len(q) > 0 /\ DOMAIN q = 1 .. Len(q)
        /\ DOMAIN r = 1 .. Len(q) - 1 /\ Len(r) = Len(q) - 1
        /\ \A i \in 1 .. Len(q) - 1 : r[i] = q[i + 1]
        /\ Head(q) = q[1]
    BY <1>1, HeadFirst
  <1>4. q[1].op = "retain" => Len(q) # 1 /\ q[Len(q)].op = "store" /\ q[Len(q)].obj = q[1].obj
    BY <1>1, <1>3 DEF Shape
  <1>5. q[1].op = "dec" => Len(q) > 3 /\ q[3].op = "test" /\ q[3].obj = q[1].obj
    BY <1>1, <1>3 DEF Shape
  <1>6. q[1].op = "test" => 2 \in 1 .. Len(q) /\ q[2].op = "drain"
    <2>1. q[1].op = "test" => 1 + 1 \in 1 .. Len(q) /\ q[1 + 1].op = "drain"
      BY <1>1, <1>3 DEF Shape
    <2>2. QED
      BY <2>1
  <1>7. q[1].op = "delete" => q[1].left \subseteq Members(q[1].obj)
    BY <1>1, <1>3 DEF Shape
  <1>8. Now(t) = q[1] /\ \A name : RestOf(t, name) = {e \in {r[i] : i \in DOMAIN r} : e.op = name}
    BY <1>3 DEF Now, RestOf, El
  <1> HIDE DEF r
  <1> HIDE DEF q
  <1>9. q[1].op = "retain" => \E e \in RestOf(t, "store") : e.obj = q[1].obj
    <2>1. SUFFICES ASSUME q[1].op = "retain" PROVE \E e \in RestOf(t, "store") : e.obj = q[1].obj
      OBVIOUS
    <2>2. Len(q) - 1 \in 1 .. Len(q) - 1 /\ (Len(q) - 1) + 1 = Len(q)
      BY <1>3, <1>4, <2>1
    <2>3. r[Len(q) - 1] = q[Len(q)] /\ Len(q) - 1 \in DOMAIN r
      BY <1>3, <2>2
    <2>4. QED
      BY <1>4, <1>8, <2>1, <2>3
  <1>10. q[1].op = "dec" => \E e \in RestOf(t, "test") : e.obj = q[1].obj
    <2>1. SUFFICES ASSUME q[1].op = "dec" PROVE \E e \in RestOf(t, "test") : e.obj = q[1].obj
      OBVIOUS
    <2>2. 2 \in 1 .. Len(q) - 1 /\ 2 + 1 = 3
      BY <1>3, <1>5, <2>1
    <2>3. r[2] = q[3] /\ 2 \in DOMAIN r
      BY <1>3, <2>2
    <2>4. QED
      BY <1>5, <1>8, <2>1, <2>3
  <1>11. q[1].op = "test" => RestOf(t, "test") = {} /\ RestOf(t, "drain") # {}
    <2>1. SUFFICES ASSUME q[1].op = "test" PROVE RestOf(t, "test") = {} /\ RestOf(t, "drain") # {}
      OBVIOUS
    <2>2. 1 \in 1 .. Len(q) - 1 /\ 1 + 1 = 2
      BY <1>3, <1>6, <2>1
    <2>3. r[1] = q[2] /\ 1 \in DOMAIN r
      BY <1>3, <2>2
    <2>4. RestOf(t, "drain") # {}
      BY <1>6, <1>8, <2>1, <2>3
    <2>5. QED
      BY <1>2, <1>3, <1>8, <2>1, <2>4 DEF NoTest
  <1>12. q[1].op = "drop" =>
           /\ RestOf(t, "drop") = {} /\ RestOf(t, "test") = {} /\ RestOf(t, "delete") = {}
           /\ \E e \in RestOf(t, "store") : e.slot = q[1].slot
    <2>1. SUFFICES ASSUME q[1].op = "drop"
                   PROVE  /\ RestOf(t, "drop") = {} /\ RestOf(t, "test") = {}
                          /\ RestOf(t, "delete") = {}
                          /\ \E e \in RestOf(t, "store") : e.slot = q[1].slot
      OBVIOUS
    <2>2. DOMAIN r = {1} /\ r[1].op = "store" /\ r[1].slot = q[1].slot
      BY <1>2, <1>3, <2>1
    <2>3. QED
      BY <1>8, <2>2
  <1>13. q[1].op = "store" => \A name : RestOf(t, name) = {}
    <2>1. SUFFICES ASSUME q[1].op = "store" PROVE \A name : RestOf(t, name) = {}
      OBVIOUS
    <2>2. r = <<>>
      BY <1>2, <1>3, <2>1
    <2>3. DOMAIN r = {}
      BY <2>2
    <2>4. QED
      BY <1>8, <2>3
  <1>14. q[1].op \in Ends => \A e \in RestOf(t, "delete") : e.obj # q[1].obj
    BY <1>2, <1>3, <1>8 DEF Ends
  <1>15. \A name \in {"retain", "dec", "check"} : RestOf(t, name) = {}
    BY <1>2, <1>8 DEF Calm
  <1>16. QED
    BY <1>7, <1>8, <1>9, <1>10, <1>11, <1>12, <1>13, <1>14, <1>15

\* A thread stores one pointer at a time.
LEMMA OneStore ==
  ASSUME Inv, NEW t \in Threads, NEW e \in Of(t, "store"), NEW f \in Of(t, "store")
  PROVE  e = f
  <1>1. todo[t] \in Seq(Ops) /\ Shape(todo[t])
    BY DEF Inv, TypeOK
  <1>2. \A i \in DOMAIN todo[t] : todo[t][i].op = "store" => i = Len(todo[t])
    BY <1>1 DEF Shape
  <1>3. QED
    BY <1>2 DEF Of, El

\* ... and drops the one it will store.
LEMMA DropStores ==
  ASSUME Inv, NEW t \in Threads, NEW e \in Of(t, "drop")
  PROVE  Setting(t, e.slot)
  <1>1. todo[t] \in Seq(Ops) /\ Shape(todo[t])
    BY DEF Inv, TypeOK
  <1>2. PICK i \in DOMAIN todo[t] : todo[t][i] = e /\ e.op = "drop"
    BY DEF Of, El
  <1>3. i + 1 = Len(todo[t]) /\ todo[t][i + 1].op = "store" /\ todo[t][i + 1].slot = e.slot
    BY <1>1, <1>2 DEF Shape
  <1>4. i + 1 \in DOMAIN todo[t]
    BY <1>1, <1>2, <1>3
  <1>5. QED
    BY <1>3, <1>4 DEF Setting, Of, El

LEMMA ThenOf ==
  ASSUME Inv, NEW t \in Threads, todo[t] # <<>>, NEW ops \in Seq(Ops), Then(t, ops)
  PROVE  /\ todo'[t] = ops \o Tail(todo[t])
         /\ \A u \in Threads \ {t} : todo'[u] = todo[u]
         /\ \A name : Of(t, name)' = {e \in El(ops) : e.op = name} \cup RestOf(t, name)
         /\ \A u \in Threads \ {t} : \A name : Of(u, name)' = Of(u, name)
  <1>1. /\ todo'[t] = ops \o Tail(todo[t])
        /\ \A u \in Threads \ {t} : todo'[u] = todo[u]
    BY DEF Then, Inv, TypeOK
  <1>2. Tail(todo[t]) \in Seq(Ops)
    BY OfFirst
  <1>3. El(todo'[t]) = El(ops) \cup El(Tail(todo[t]))
    <2>1. El(ops \o Tail(todo[t])) = El(ops) \cup El(Tail(todo[t]))
      BY <1>2, ConcatIs
    <2>2. QED
      BY <1>1, <2>1
  <1>4. QED
    BY <1>1, <1>3 DEF Of, RestOf

LEMMA OfOps ==
  ASSUME TypeOK, NEW t \in Threads, NEW name, NEW e \in Of(t, name)
  PROVE  e \in Ops /\ e.op = name
  <1>1. todo[t] \in Seq(Ops)
    BY DEF TypeOK
  <1>2. QED
    BY <1>1 DEF Of, El

LEMMA Owners ==
  ASSUME TypeOK
  PROVE  /\ \A s \in Slots : Owner[s] \in Threads \cup Objects \cup {Nowhere}
         /\ \A s \in Slots : Owner[s] # NoObject
         /\ Captured \subseteq {s \in Strongs : Owner[s] \in Threads}
         /\ \A t \in Threads : t \notin Objects \cup {NoObject}
         /\ Strongs \subseteq Slots /\ Weaks \subseteq Slots /\ Strongs \cap Weaks = {}
         /\ \A s \in Slots : ref[s] \in Objects \cup {NoObject}
  <1>1. layout \in Layouts
    BY DEF TypeOK
  <1>2. /\ layout.owner \in [Slots -> Threads \cup Objects \cup {Nowhere}]
        /\ layout.captured \subseteq {s \in Strongs : layout.owner[s] \in Threads}
    BY <1>1, SlotsAssumption
  <1>3. \A s \in Slots : Owner[s] \in Threads \cup Objects \cup {Nowhere}
    BY <1>2 DEF Owner
  <1>4. \A t \in Threads : t \notin Objects \cup {NoObject}
    BY ObjectsAssumption
  <1>5. QED
    BY <1>2, <1>3, <1>4, SlotsAssumption, ObjectsAssumption DEF Owner, Captured, Slots, TypeOK

LEMMA FewCount ==
  /\ \A o : /\ IsFiniteSet(Held(o)) /\ IsFiniteSet(Held(o)')
            /\ IsFiniteSet(Arriving(o)) /\ IsFiniteSet(Arriving(o)')
            /\ IsFiniteSet(Leaving(o)) /\ IsFiniteSet(Leaving(o)')
  <1>1. \A o : /\ Held(o) \in SUBSET Strongs /\ Held(o)' \in SUBSET Strongs
               /\ Arriving(o) \in SUBSET Threads /\ Arriving(o)' \in SUBSET Threads
               /\ Leaving(o) \in SUBSET Threads /\ Leaving(o)' \in SUBSET Threads
    BY DEF Held, Arriving, Leaving
  <1>2. \A S \in SUBSET Strongs : IsFiniteSet(S)
    BY FiniteAssumption, FS_Subset
  <1>3. \A S \in SUBSET Threads : IsFiniteSet(S)
    BY FiniteAssumption, FS_Subset
  <1>4. QED
    BY <1>1, <1>2, <1>3

LEMMA Cards ==
  ASSUME NEW S, IsFiniteSet(S)
  PROVE  /\ Cardinality(S) \in Nat
         /\ S # {} => Cardinality(S) > 0
         /\ \A x : x \notin S => Cardinality(S \cup {x}) = Cardinality(S) + 1
         /\ \A x \in S : Cardinality(S \ {x}) = Cardinality(S) - 1
  BY FS_CardinalityType, FS_EmptySet, FS_AddElement, FS_RemoveElement

\* Who is counted is not on its way out.
LEMMA CountedStays ==
  ASSUME Inv, NEW o \in Objects,
         Held(o) # {} \/ Arriving(o) # {} \/ Leaving(o) # {}
  PROVE  count[o] > 0 /\ ~ Doomed(o) /\ life[o] = "live"
  <1>1. count[o] = Cardinality(Held(o)) + Cardinality(Arriving(o)) + Cardinality(Leaving(o))
    BY DEF Inv, Counted
  <1>2. /\ Cardinality(Held(o)) \in Nat /\ (Held(o) # {} => Cardinality(Held(o)) > 0)
        /\ Cardinality(Arriving(o)) \in Nat /\ (Arriving(o) # {} => Cardinality(Arriving(o)) > 0)
        /\ Cardinality(Leaving(o)) \in Nat /\ (Leaving(o) # {} => Cardinality(Leaving(o)) > 0)
    BY FewCount, Cards
  <1>3. count[o] > 0
    BY <1>1, <1>2
  <1>4. QED
    BY <1>3 DEF Inv, GoneForgotten

LEMMA TakenEnds ==
  ASSUME Inv, NEW s \in Slots, Taken(s)
  PROVE  Owner[s] \in Objects /\ Doomed(Owner[s])
  <1>1. PICK t \in Threads : \E e \in Of(t, "delete") : e.obj = Owner[s] /\ s \notin e.left
    BY DEF Taken
  <1>2. PICK e \in Of(t, "delete") : e.obj = Owner[s]
    BY <1>1
  <1>3. e \in Ops /\ e.op = "delete"
    BY <1>2, OfOps DEF Inv
  <1>4. e.obj \in Objects
    BY <1>3, DeleteFields
  <1>5. QED
    BY <1>1, <1>2, <1>4 DEF Doomed, Ending, Pending

\* With one thread the others do nothing.
LEMMA BusyOwns ==
  ASSUME Inv, OneThread(layout), NEW t \in Threads, todo[t] # <<>>
  PROVE  \E s \in Slots : Owner[s] = t
  BY DEF Inv, Undisturbed

LEMMA OwnersOne ==
  ASSUME OneThread(layout), NEW s \in Slots, NEW q \in Slots,
         Owner[s] \in Threads, Owner[q] \in Threads
  PROVE  Owner[s] = Owner[q]
  BY DEF OneThread, Owner

LEMMA QueueQuiet ==
  ASSUME Inv, OneThread(layout), NEW t \in Threads, NEW s \in Slots, Owner[s] = t,
         ~ At(t, "drain")
  PROVE  queue = <<>>
  <1> SUFFICES ASSUME queue # <<>> PROVE FALSE
    OBVIOUS
  <1>1. PICK u \in Threads : At(u, "drain")
    BY DEF Inv, Undisturbed
  <1>2. PICK q \in Slots : Owner[q] = u
    BY <1>1, BusyOwns DEF At
  <1>3. QED
    BY <1>1, <1>2, OwnersOne

LEMMA HomeOne ==
  ASSUME Inv, OneThread(layout), NEW t \in Threads, NEW s \in Slots, Owner[s] = t,
         NEW u \in Threads, NEW o \in Objects, Mentions(u, o)
  PROVE  u = t
  <1>1. CASE \E q \in Slots : Owner[q] = u
    BY <1>1, OwnersOne
  <1>2. CASE \E name : Pending(u, name, o)
    <2>1. todo[u] # <<>>
      <3>1. El(<<>>) = {}
        BY DEF El
      <3>2. QED
        BY <1>2, <3>1 DEF Pending, Of
    <2>2. QED
      BY <1>1, <2>1, BusyOwns
  <1>3. QED
    BY <1>1, <1>2 DEF Mentions

\* A program is of one of the two kinds.
LEMMA Kinds ==
  ASSUME Safe, TypeOK
  PROVE  \/ OneThread(layout)
         \/ Captured = {} /\ \A s \in Slots : Owner[s] \notin Objects
  BY DEF Safe, TypeOK, Separate, Owner, Captured

LEMMA SetterAlone ==
  ASSUME Safe, Inv, NEW t \in Threads, NEW u \in Threads, NEW s \in Slots,
         Setting(t, s), Setting(u, s)
  PROVE  t = u
  <1>1. TypeOK
    BY DEF Inv
  <1>2. /\ Owner[s] = t \/ \E q \in Strongs : Owner[q] = t /\ ref[q] = Owner[s]
        /\ Owner[s] = u \/ \E q \in Strongs : Owner[q] = u /\ ref[q] = Owner[s]
    BY DEF Inv, SettersKeep
  <1>3. CASE Owner[s] \in Threads
    BY <1>1, <1>2, <1>3, Owners
  <1>4. CASE Owner[s] \notin Threads
    <2>1. PICK q \in Strongs : Owner[q] = t /\ ref[q] = Owner[s]
      BY <1>2, <1>4
    <2>2. PICK p \in Strongs : Owner[p] = u
      BY <1>2, <1>4
    <2>3. Owner[s] \in Objects
      BY <1>1, <2>1, Owners
    <2>4. OneThread(layout)
      BY <1>1, <2>3, Kinds
    <2>5. QED
      BY <1>1, <2>1, <2>2, <2>4, Owners, OwnersOne
  <1>5. QED
    BY <1>3, <1>4

\* A Strong on a stack that its thread does not set is counted.
LEMMA StackHeld ==
  ASSUME Inv, NEW t \in Threads, NEW q \in Strongs, Owner[q] = t, ~ Setting(t, q)
  PROVE  /\ q \in Held(ref[q])
         /\ ref[q] # NoObject => ~ Doomed(ref[q]) /\ life[ref[q]] = "live" /\ count[ref[q]] > 0
  <1>1. TypeOK
    BY DEF Inv
  <1>2. ~ Taken(q)
    BY <1>1, TakenEnds, Owners
  <1>3. ASSUME NEW u \in Threads PROVE ~ Setting(u, q)
    <2>1. Setting(u, q) => Owner[q] = u \/ \E p \in Strongs : ref[p] = Owner[q]
      BY <1>1, Owners DEF Inv, SettersKeep
    <2>2. QED
      BY <1>1, <2>1, Owners
  <1>4. q \in Held(ref[q])
    BY <1>2, <1>3 DEF Held, Unlinked
  <1>5. QED
    BY <1>1, <1>4, CountedStays, Owners

\* What is being set has not been destroyed.
LEMMA SetterKept ==
  ASSUME Inv, NEW t \in Threads, NEW s \in Slots, Setting(t, s)
  PROVE  ~ Taken(s)
  <1>1. TypeOK
    BY DEF Inv
  <1>2. CASE Owner[s] = t
    BY <1>1, <1>2, TakenEnds, Owners
  <1>3. CASE Owner[s] # t
    <2>1. PICK q \in Strongs : Owner[q] = t /\ ref[q] = Owner[s]
      BY <1>3 DEF Inv, SettersKeep
    <2>2. q # s
      BY <1>3, <2>1
    <2>3. ~ Setting(t, q)
      BY <2>2, OneStore DEF Setting
    <2>4. ~ Doomed(Owner[s])
      BY <1>1, <2>1, <2>3, StackHeld, Owners
    <2>5. QED
      BY <2>4, TakenEnds
  <1>4. QED
    BY <1>2, <1>3

LEMMA IdleNothing ==
  ASSUME NEW t, Idle(t)
  PROVE  \A name : Of(t, name) = {}
  BY DEF Idle, Of, El

\* Between two operations a thread finds what its pointers point to alive.
LEMMA UsableKept ==
  ASSUME Safe, Inv, NEW t \in Threads, Idle(t), NEW s \in Slots, Usable(t, s)
  PROVE  /\ ~ Taken(s)
         /\ Owner[s] \in Objects => life[Owner[s]] = "live" /\ ~ Doomed(Owner[s])
         /\ \E q \in Slots : Owner[q] = t
         /\ Owner[s] = t \/ OneThread(layout)
         /\ Owner[s] = t \/ \E q \in Strongs : Owner[q] = t /\ ref[q] = Owner[s]
  <1>1. TypeOK
    BY DEF Inv
  <1>2. \A q : ~ Setting(t, q)
    BY IdleNothing DEF Setting
  <1>3. CASE Owner[s] = t
    BY <1>1, <1>3, TakenEnds, Owners
  <1>4. CASE Owner[s] # t
    <2>1. PICK q \in Strongs : Owner[q] = t /\ ref[q] = Owner[s]
      BY <1>4 DEF Usable
    <2>2. Owner[s] \in Objects
      BY <1>1, <2>1, Owners
    <2>3. life[Owner[s]] = "live" /\ ~ Doomed(Owner[s])
      BY <1>1, <1>2, <2>1, <2>2, StackHeld, Owners
    <2>4. OneThread(layout)
      BY <1>1, <2>2, Kinds
    <2>5. QED
      BY <1>1, <2>1, <2>3, <2>4, TakenEnds, Owners
  <1>5. QED
    BY <1>3, <1>4

\* ... and nobody else knows it.
LEMMA UsableKnown ==
  ASSUME Safe, Inv, NEW t \in Threads, Idle(t), NEW s \in Slots, Usable(t, s),
         ref[s] # NoObject
  PROVE  /\ ref[s] \in Objects /\ life[ref[s]] = "live" /\ ~ Doomed(ref[s])
         /\ \A u \in Threads : Mentions(u, ref[s]) => u = t
  <1>1. TypeOK /\ ref[s] \in Objects
    BY Owners DEF Inv
  <1>2. /\ ~ Taken(s) /\ (Owner[s] = t \/ OneThread(layout))
        /\ \E q \in Slots : Owner[q] = t
    BY UsableKept
  <1>3. \A u \in Threads : Mentions(u, ref[s]) => u = t
    <2>1. CASE Owner[s] = t
      BY <1>1, <2>1 DEF Inv, OneHome, Mentions
    <2>2. CASE OneThread(layout)
      BY <1>1, <1>2, <2>2, HomeOne
    <2>3. QED
      BY <1>2, <2>1, <2>2
  <1>4. CASE s \in Strongs
    <2>1. ASSUME NEW u \in Threads, Setting(u, s) PROVE FALSE
      <3>1. \A q : ~ Setting(t, q)
        BY IdleNothing DEF Setting
      <3>2. u # t
        BY <2>1, <3>1
      <3>3. CASE Owner[s] = t
        <4>1. Owner[s] = u \/ \E q \in Strongs : ref[q] = Owner[s]
          BY <2>1 DEF Inv, SettersKeep
        <4>2. QED
          BY <1>1, <3>2, <3>3, <4>1, Owners
      <3>4. CASE OneThread(layout)
        <4>1. todo[u] # <<>>
          BY <2>1, IdleNothing DEF Idle, Setting
        <4>2. QED
          BY <1>2, <3>2, <3>4, <4>1, BusyOwns, OwnersOne
      <3>5. QED
        BY <1>2, <3>3, <3>4
    <2>2. s \in Held(ref[s])
      BY <1>2, <1>4, <2>1 DEF Held, Unlinked
    <2>3. QED
      BY <1>1, <1>3, <2>2, CountedStays
  <1>5. CASE s \in Weaks
    <2>1. s \in weaks[ref[s]]
      BY <1>2, <1>5 DEF Inv, Registered
    <2>2. QED
      BY <1>1, <1>3, <2>1 DEF Inv, GoneForgotten
  <1>6. QED
    BY <1>4, <1>5 DEF Slots

-----------------------------------------------------------------------------
(***************************************************************************)
(* The frame of a step of t: what it leaves as it was.                     *)
(***************************************************************************)

LEMMA Others ==
  ASSUME UNCHANGED layout, NEW t, NEW u \in Threads \ {t},
         \A v \in Threads \ {t} : \A name : Of(v, name)' = Of(v, name)
  PROVE  /\ \A name, o : Pending(u, name, o)' <=> Pending(u, name, o)
         /\ \A s : /\ Setting(u, s)' <=> Setting(u, s)
                   /\ Unlinked(u, s)' <=> Unlinked(u, s)
         /\ \A o : Ending(u, o)' <=> Ending(u, o)
  <1>1. \A name : Of(u, name)' = Of(u, name)
    OBVIOUS
  <1>2. \A name, o : Pending(u, name, o)' <=> Pending(u, name, o)
    BY <1>1 DEF Pending
  <1>3. \A s : Setting(u, s)' <=> Setting(u, s)
    BY <1>1 DEF Setting
  <1>4. \A s : Unlinked(u, s)' <=> Unlinked(u, s)
    BY <1>1, <1>3 DEF Unlinked
  <1>5. \A o : Ending(u, o)' <=> Ending(u, o)
    BY <1>2 DEF Ending
  <1>6. QED
    BY <1>2, <1>3, <1>4, <1>5

LEMMA ShapeNext ==
  ASSUME UNCHANGED layout, \A u \in Threads : Shape(todo'[u])
  PROVE  (\A u \in Threads : Shape(todo[u]))'
  BY DEF Shape, Members, Owner

\* The operation is done, and nothing takes its place.
LEMMA TailStep ==
  ASSUME Inv, UNCHANGED layout, NEW t \in Threads, todo[t] # <<>>, Then(t, <<>>)
  PROVE  /\ todo'[t] = Tail(todo[t])
         /\ \A u \in Threads \ {t} : todo'[u] = todo[u]
         /\ \A name : Of(t, name)' = RestOf(t, name)
         /\ \A u \in Threads \ {t} : \A name : Of(u, name)' = Of(u, name)
         /\ (\A u \in Threads : Shape(todo[u]))'
         /\ OneThread(layout) => \A u \in Threads : TestsOnTop(todo'[u])
         /\ \A u \in Threads : todo'[u] # <<>> => todo[u] # <<>>
  <1>1. <<>> \in Seq(Ops) /\ El(<<>>) = {} /\ todo[t] \in Seq(Ops)
    <2>1. <<>> \in Seq(Ops) /\ todo[t] \in Seq(Ops)
      BY DEF Inv, TypeOK
    <2>2. El(<<>>) = {}
      BY DEF El
    <2>3. QED
      BY <2>1, <2>2
  <1>2. /\ todo'[t] = <<>> \o Tail(todo[t])
        /\ \A u \in Threads \ {t} : todo'[u] = todo[u]
        /\ \A name : Of(t, name)' = {e \in El(<<>>) : e.op = name} \cup RestOf(t, name)
        /\ \A u \in Threads \ {t} : \A name : Of(u, name)' = Of(u, name)
    BY <1>1, ThenOf
  <1>3. Tail(todo[t]) \in Seq(Ops)
    BY <1>1
  <1>4. todo'[t] = Tail(todo[t])
    BY <1>2, <1>3
  <1>5. \A name : Of(t, name)' = RestOf(t, name)
    BY <1>1, <1>2
  <1>6. \A u \in Threads : Shape(todo'[u])
    <2>1. Shape(Tail(todo[t]))
      BY <1>1, TailShape DEF Inv
    <2>2. QED
      BY <1>2, <1>4, <2>1 DEF Inv
  <1>7. OneThread(layout) => \A u \in Threads : TestsOnTop(todo'[u])
    <2>1. OneThread(layout) => TestsOnTop(Tail(todo[t]))
      BY <1>1, TopTail DEF Inv, Undisturbed
    <2>2. QED
      BY <1>2, <1>4, <2>1 DEF Inv, Undisturbed
  <1>8. \A u \in Threads : todo'[u] # <<>> => todo[u] # <<>>
    BY <1>2
  <1>9. QED
    BY <1>2, <1>4, <1>5, <1>6, <1>7, <1>8, ShapeNext

\* With one thread, a step of it that finds the queue empty and leaves it so.
LEMMA Quiet ==
  ASSUME Inv, UNCHANGED <<layout, queue>>, NEW t \in Threads, ~ At(t, "drain"),
         OneThread(layout) => \E s \in Slots : Owner[s] = t,
         \A u \in Threads \ {t} : todo'[u] = todo[u],
         OneThread(layout) => TestsOnTop(todo'[t])
  PROVE  Undisturbed'
  <1>1. Owner' = Owner /\ (OneThread(layout)' <=> OneThread(layout))
    BY DEF Owner, OneThread
  <1>2. SUFFICES ASSUME OneThread(layout) PROVE Undisturbed'
    BY <1>1 DEF Undisturbed
  <1>3. queue' = <<>>
    BY <1>2, QueueQuiet
  <1>4. \A u \in Threads : todo'[u] # <<>> => \E s \in Slots : Owner[s] = u
    BY <1>2 DEF Inv, Undisturbed
  <1>5. \A u \in Threads : TestsOnTop(todo'[u])
    BY <1>2 DEF Inv, Undisturbed
  <1>6. QED
    BY <1>1, <1>3, <1>4, <1>5 DEF Undisturbed, TestsOnTop

\* What a step says of all the threads follows from what it does to its own.
LEMMA TakenSame ==
  ASSUME UNCHANGED layout, NEW t \in Threads,
         \A u \in Threads \ {t} : \A name : Of(u, name)' = Of(u, name),
         Of(t, "delete")' = Of(t, "delete")
  PROVE  \A s : Taken(s)' <=> Taken(s)
  <1>1. \A u \in Threads : Of(u, "delete")' = Of(u, "delete")
    OBVIOUS
  <1>2. QED
    BY <1>1 DEF Taken, Owner

LEMMA ShortNames ==
  ASSUME Inv, NEW t \in Threads, todo[t] # <<>>
  PROVE  /\ Now(t).op # "retain" => Of(t, "retain") = {}
         /\ Now(t).op # "dec" => Of(t, "dec") = {}
         /\ Now(t).op # "check" => Of(t, "check") = {}
         /\ \A name \in {"retain", "dec", "check"} :
              Now(t).op = name => Of(t, name) = {Now(t)}
         /\ Now(t).op = "test" => Of(t, "test") = {Now(t)}
         /\ \A name : Now(t).op # name => Of(t, name) = RestOf(t, name)
         /\ RestOf(t, "retain") = {} /\ RestOf(t, "dec") = {} /\ RestOf(t, "check") = {}
  <1>1. \A name : Of(t, name) =
           IF Now(t).op = name THEN RestOf(t, name) \cup {Now(t)} ELSE RestOf(t, name)
    BY OfFirst
  <1>2. /\ RestOf(t, "retain") = {} /\ RestOf(t, "dec") = {} /\ RestOf(t, "check") = {}
        /\ Now(t).op = "test" => RestOf(t, "test") = {}
    BY Under
  <1>3. QED
    BY <1>1, <1>2

LEMMA CountNat ==
  ASSUME Inv, NEW o \in Objects
  PROVE  /\ count[o] \in Nat
         /\ count[o] = 0 <=> Held(o) = {} /\ Arriving(o) = {} /\ Leaving(o) = {}
  <1>1. count[o] = Cardinality(Held(o)) + Cardinality(Arriving(o)) + Cardinality(Leaving(o))
    BY DEF Inv, Counted
  <1>2. /\ Cardinality(Held(o)) \in Nat /\ (Held(o) # {} => Cardinality(Held(o)) > 0)
        /\ Cardinality(Arriving(o)) \in Nat /\ (Arriving(o) # {} => Cardinality(Arriving(o)) > 0)
        /\ Cardinality(Leaving(o)) \in Nat /\ (Leaving(o) # {} => Cardinality(Leaving(o)) > 0)
    BY FewCount, Cards
  <1>3. \A S : S = {} => Cardinality(S) = 0
    BY FS_EmptySet
  <1>4. /\ Held(o) = {} <=> Cardinality(Held(o)) = 0
        /\ Arriving(o) = {} <=> Cardinality(Arriving(o)) = 0
        /\ Leaving(o) = {} <=> Cardinality(Leaving(o)) = 0
    BY <1>2, <1>3
  <1> DEFINE h == Cardinality(Held(o))
             a == Cardinality(Arriving(o))
             l == Cardinality(Leaving(o))
  <1>5. h \in Nat /\ a \in Nat /\ l \in Nat /\ count[o] = h + a + l
    BY <1>1, <1>2
  <1>6. /\ Held(o) = {} <=> h = 0
        /\ Arriving(o) = {} <=> a = 0
        /\ Leaving(o) = {} <=> l = 0
    BY <1>4
  <1> HIDE DEF h, a, l
  <1>7. count[o] \in Nat /\ (count[o] = 0 <=> h = 0 /\ a = 0 /\ l = 0)
    BY <1>5
  <1>8. QED
    BY <1>6, <1>7

-----------------------------------------------------------------------------
(***************************************************************************)
(* Every step keeps the invariant.                                         *)
(***************************************************************************)

LEMMA RetainKeeps ==
  ASSUME Safe, Inv, UNCHANGED layout, NEW t \in Threads, DoRetain(t),
         NEW o, o = Now(t).obj
  PROVE  Inv'
  <1>1. /\ todo[t] # <<>> /\ Now(t).op = "retain" /\ Then(t, <<>>)
        /\ count' = [count EXCEPT ![o] = @ + 1]
        /\ UNCHANGED <<life, ref, weaks, queue>>
    BY DEF DoRetain, At, Now
  <1>2. TypeOK /\ TypeOK' /\ Now(t) \in Ops /\ o \in Objects
    <2>1. TypeOK /\ TypeOK' /\ Now(t) \in Ops
      BY <1>1, OfFirst, StepType DEF Inv, Step
    <2>2. QED
      BY <1>1, <2>1, ObjectOpFields
  <1>3. /\ Of(t, "retain")' = {} /\ Of(t, "retain") = {Now(t)}
        /\ \A name : name # "retain" => Of(t, name)' = Of(t, name)
        /\ \A u \in Threads \ {t} : \A name : Of(u, name)' = Of(u, name)
        /\ \A u \in Threads \ {t} : todo'[u] = todo[u]
    BY <1>1, TailStep, ShortNames
  <1>4. \E e \in Of(t, "store") : e.obj = o
    <2>1. \E e \in RestOf(t, "store") : e.obj = o
      BY <1>1, Under
    <2>2. QED
      BY <1>1, <2>1, ShortNames
  <1>5. /\ \A u \in Threads : \A x : /\ Ending(u, x)' <=> Ending(u, x)
                                     /\ Pending(u, "retain", x)' <=> Pending(u, "retain", x) /\ u # t
                                     /\ \A name : name # "retain" =>
                                          (Pending(u, name, x)' <=> Pending(u, name, x))
        /\ \A u \in Threads : \A s : /\ Setting(u, s)' <=> Setting(u, s)
                                     /\ Unlinked(u, s)' <=> Unlinked(u, s)
        /\ \A x : Pending(t, "retain", x) <=> x = o
    <2>1. \A u \in Threads \ {t} :
            /\ \A x : /\ Ending(u, x)' <=> Ending(u, x)
                      /\ \A name : Pending(u, name, x)' <=> Pending(u, name, x)
            /\ \A s : /\ Setting(u, s)' <=> Setting(u, s)
                      /\ Unlinked(u, s)' <=> Unlinked(u, s)
      BY <1>3, Others
    <2>2. \A x, name : name # "retain" => (Pending(t, name, x)' <=> Pending(t, name, x))
      BY <1>3 DEF Pending
    <2>3. \A s : /\ Setting(t, s)' <=> Setting(t, s)
                 /\ Unlinked(t, s)' <=> Unlinked(t, s)
      BY <1>3 DEF Setting, Unlinked
    <2>4. \A x : ~ Pending(t, "retain", x)' /\ (Pending(t, "retain", x) <=> x = o)
      BY <1>3 DEF Pending
    <2>5. \A x : Ending(t, x)' <=> Ending(t, x)
      BY <2>2 DEF Ending
    <2>6. QED
      BY <2>1, <2>2, <2>3, <2>4, <2>5
  <1>6. \A s : Taken(s)' <=> Taken(s)
    BY <1>3, TakenSame
  <1>7. Counted'
    <2>1. \A x : Held(x)' = Held(x) /\ Leaving(x)' = Leaving(x)
      BY <1>1, <1>5, <1>6 DEF Held, Leaving
    <2>2. t \notin Arriving(o) /\ Arriving(o)' = Arriving(o) \cup {t}
      <3>1. \A u \in Threads \ {t} : Of(u, "retain")' = Of(u, "retain")
        BY <1>3
      <3>2. Of(t, "retain")' = {} /\ Of(t, "retain") # {}
        BY <1>3
      <3>3. Pending(t, "store", o)
        BY <1>4 DEF Pending
      <3>4. \A u \in Threads : u \in Arriving(o)' <=> u \in Arriving(o) \/ u = t
        <4>1. \A u \in Threads : Pending(u, "store", o)' <=> Pending(u, "store", o)
          BY <1>5
        <4>2. QED
          BY <3>1, <3>2, <3>3, <4>1 DEF Arriving
      <3>5. t \notin Arriving(o)
        BY <3>2 DEF Arriving
      <3>6. Arriving(o) \subseteq Threads /\ Arriving(o)' \subseteq Threads
        BY DEF Arriving
      <3>7. QED
        BY <3>4, <3>5, <3>6
    <2>3. \A x : x # o => Arriving(x)' = Arriving(x)
      <3>1. \A x : Pending(t, "store", x) => x = o
        BY <1>4, OneStore DEF Pending
      <3>2. \A u \in Threads \ {t} : Of(u, "retain")' = Of(u, "retain")
        BY <1>3
      <3>3. QED
        BY <1>5, <3>1, <3>2 DEF Arriving
    <2>4. /\ Cardinality(Arriving(o)') = Cardinality(Arriving(o)) + 1
          /\ Cardinality(Arriving(o)) \in Nat /\ Cardinality(Held(o)) \in Nat
          /\ Cardinality(Leaving(o)) \in Nat
      BY <2>2, FewCount, Cards
    <2>5. count'[o] = count[o] + 1 /\ \A x \in Objects \ {o} : count'[x] = count[x]
      BY <1>1, <1>2 DEF TypeOK
    <2>6. \A x \in Objects : count[x] = Cardinality(Held(x)) + Cardinality(Arriving(x))
                                        + Cardinality(Leaving(x))
      BY DEF Inv, Counted
    <2>7. \A x \in Objects : count'[x] = Cardinality(Held(x)') + Cardinality(Arriving(x)')
                                         + Cardinality(Leaving(x)')
      <3>1. TAKE x \in Objects
      <3>2. CASE x = o
        <4>1. /\ count[o] = Cardinality(Held(o)) + Cardinality(Arriving(o))
                            + Cardinality(Leaving(o))
              /\ Held(o)' = Held(o) /\ Leaving(o)' = Leaving(o)
          BY <1>2, <2>1, <2>6
        <4>2. count'[o] = Cardinality(Held(o)') + Cardinality(Arriving(o)')
                          + Cardinality(Leaving(o)')
          BY <2>4, <2>5, <4>1
        <4>3. QED
          BY <3>2, <4>2
      <3>3. CASE x # o
        BY <2>1, <2>3, <2>5, <2>6, <3>3
      <3>4. QED
        BY <3>2, <3>3
    <2>8. QED
      BY <2>7 DEF Counted
  <1>8. \A x \in Objects : Doomed(x)' <=> Doomed(x)
    BY <1>1, <1>5 DEF Doomed, InQueue
  <1>9. /\ \A x \in Objects \ {o} : count'[x] = count[x]
        /\ count[o] \in Nat /\ count'[o] = count[o] + 1
    BY <1>1, <1>2, CountNat DEF TypeOK
  <1>10. GoneForgotten'
    <2>1. ~ Doomed(o) /\ life[o] = "live"
      BY <1>2, <1>5 DEF Inv, GoneForgotten
    <2>2. QED
      BY <1>1, <1>5, <1>8, <1>9, <2>1 DEF Inv, GoneForgotten
  <1>11. DoomedLive' /\ EndsOnce' /\ UnbornUnknown'
    BY <1>1, <1>5, <1>8 DEF Inv, DoomedLive, EndsOnce, UnbornUnknown, InQueue
  <1>12. NobodyLost'
    BY <1>1, <1>5, <1>8, <1>9 DEF Inv, NobodyLost
  <1>13. QueueDrained'
    <2>1. \A u \in Threads : Of(u, "drain")' = Of(u, "drain")
      BY <1>3
    <2>2. QED
      BY <1>1, <2>1 DEF Inv, QueueDrained
  <1>14. SettersKeep' /\ Registered'
    BY <1>1, <1>5, <1>6 DEF Inv, SettersKeep, Registered, Owner
  <1>15. OneHome'
    <2>1. \A u \in Threads : \A x : Mentions(u, x)' => Mentions(u, x)
      BY <1>1, <1>5 DEF Mentions, Owner
    <2>2. QED
      BY <2>1 DEF Inv, OneHome
  <1>16. Undisturbed'
    <2>1. ~ At(t, "drain")
      BY <1>1 DEF At, Now
    <2>2. OneThread(layout) => TestsOnTop(todo'[t]) /\ \E s \in Slots : Owner[s] = t
      BY <1>1, TailStep, BusyOwns
    <2>3. QED
      BY <1>1, <1>3, <2>1, <2>2, Quiet
  <1>17. (\A u \in Threads : Shape(todo[u]))'
    BY <1>1, TailStep
  <1>18. QED
    BY <1>2, <1>7, <1>10, <1>11, <1>12, <1>13, <1>14, <1>15, <1>16, <1>17 DEF Inv

LEMMA DecKeeps ==
  ASSUME Safe, Inv, UNCHANGED layout, NEW t \in Threads, DoDec(t),
         NEW o, o = Now(t).obj
  PROVE  Inv'
  <1>1. /\ todo[t] # <<>> /\ Now(t).op = "dec" /\ Then(t, <<>>)
        /\ count' = [count EXCEPT ![o] = @ - 1]
        /\ UNCHANGED <<life, ref, weaks, queue>>
    BY DEF DoDec, At, Now
  <1>2. TypeOK /\ TypeOK' /\ Now(t) \in Ops /\ o \in Objects
    <2>1. TypeOK /\ TypeOK' /\ Now(t) \in Ops
      BY <1>1, OfFirst, StepType DEF Inv, Step
    <2>2. QED
      BY <1>1, <2>1, ObjectOpFields
  <1>3. /\ Of(t, "dec")' = {} /\ Of(t, "dec") = {Now(t)}
        /\ \A name : name # "dec" => Of(t, name)' = Of(t, name)
        /\ \A u \in Threads \ {t} : \A name : Of(u, name)' = Of(u, name)
        /\ \A u \in Threads \ {t} : todo'[u] = todo[u]
    BY <1>1, TailStep, ShortNames
  <1>4. \E e \in Of(t, "test") : e.obj = o
    <2>1. \E e \in RestOf(t, "test") : e.obj = o
      BY <1>1, Under
    <2>2. QED
      BY <1>1, <2>1, ShortNames
  <1>5. /\ \A u \in Threads : \A x : /\ Ending(u, x)' <=> Ending(u, x)
                                     /\ Pending(u, "dec", x)' <=> Pending(u, "dec", x) /\ u # t
                                     /\ \A name : name # "dec" =>
                                          (Pending(u, name, x)' <=> Pending(u, name, x))
        /\ \A u \in Threads : \A s : /\ Setting(u, s)' <=> Setting(u, s)
                                     /\ Unlinked(u, s)' <=> Unlinked(u, s)
        /\ \A x : Pending(t, "dec", x) <=> x = o
    <2>1. \A u \in Threads \ {t} :
            /\ \A x : /\ Ending(u, x)' <=> Ending(u, x)
                      /\ \A name : Pending(u, name, x)' <=> Pending(u, name, x)
            /\ \A s : /\ Setting(u, s)' <=> Setting(u, s)
                      /\ Unlinked(u, s)' <=> Unlinked(u, s)
      BY <1>3, Others
    <2>2. \A x, name : name # "dec" => (Pending(t, name, x)' <=> Pending(t, name, x))
      BY <1>3 DEF Pending
    <2>3. \A s : /\ Setting(t, s)' <=> Setting(t, s)
                 /\ Unlinked(t, s)' <=> Unlinked(t, s)
      BY <1>3 DEF Setting, Unlinked
    <2>4. \A x : ~ Pending(t, "dec", x)' /\ (Pending(t, "dec", x) <=> x = o)
      BY <1>3 DEF Pending
    <2>5. \A x : Ending(t, x)' <=> Ending(t, x)
      BY <2>2 DEF Ending
    <2>6. QED
      BY <2>1, <2>2, <2>3, <2>4, <2>5
  <1>6. \A s : Taken(s)' <=> Taken(s)
    BY <1>3, TakenSame
  <1>7. t \in Leaving(o) /\ count[o] > 0 /\ ~ Doomed(o) /\ life[o] = "live"
    <2>1. t \in Leaving(o)
      BY <1>5 DEF Leaving
    <2>2. QED
      BY <1>2, <2>1, CountedStays
  <1>8. Counted'
    <2>1. \A x : Held(x)' = Held(x) /\ Arriving(x)' = Arriving(x)
      <3>1. \A x : Held(x)' = Held(x)
        BY <1>1, <1>5, <1>6 DEF Held
      <3>2. \A u \in Threads : Of(u, "retain")' = Of(u, "retain")
        BY <1>3
      <3>3. \A u \in Threads : \A x : Pending(u, "store", x)' <=> Pending(u, "store", x)
        BY <1>5
      <3>4. QED
        BY <3>1, <3>2, <3>3 DEF Arriving
    <2>2. Leaving(o)' = Leaving(o) \ {t} /\ \A x : x # o => Leaving(x)' = Leaving(x)
      <3>1. \A u \in Threads : \A x : u \in Leaving(x)' <=> u \in Leaving(x) /\ ~ (u = t /\ x = o)
        BY <1>5 DEF Leaving
      <3>2. \A x : Leaving(x) \subseteq Threads /\ Leaving(x)' \subseteq Threads
        BY DEF Leaving
      <3>3. QED
        BY <3>1, <3>2
    <2>3. /\ Cardinality(Leaving(o)') = Cardinality(Leaving(o)) - 1
          /\ Cardinality(Arriving(o)) \in Nat /\ Cardinality(Held(o)) \in Nat
          /\ Cardinality(Leaving(o)) \in Nat
      BY <1>7, <2>2, FewCount, Cards
    <2>4. count'[o] = count[o] - 1 /\ \A x \in Objects \ {o} : count'[x] = count[x]
      BY <1>1, <1>2 DEF TypeOK
    <2>5. \A x \in Objects : count[x] = Cardinality(Held(x)) + Cardinality(Arriving(x))
                                        + Cardinality(Leaving(x))
      BY DEF Inv, Counted
    <2>6. \A x \in Objects : count'[x] = Cardinality(Held(x)') + Cardinality(Arriving(x)')
                                         + Cardinality(Leaving(x)')
      <3>1. TAKE x \in Objects
      <3>2. CASE x = o
        <4>1. /\ count[o] = Cardinality(Held(o)) + Cardinality(Arriving(o))
                            + Cardinality(Leaving(o))
              /\ Held(o)' = Held(o) /\ Arriving(o)' = Arriving(o)
          BY <1>2, <2>1, <2>5
        <4>2. count'[o] = Cardinality(Held(o)') + Cardinality(Arriving(o)')
                          + Cardinality(Leaving(o)')
          BY <2>3, <2>4, <4>1
        <4>3. QED
          BY <3>2, <4>2
      <3>3. CASE x # o
        BY <2>1, <2>2, <2>4, <2>5, <3>3
      <3>4. QED
        BY <3>2, <3>3
    <2>7. QED
      BY <2>6 DEF Counted
  <1>9. \A x \in Objects : Doomed(x)' <=> Doomed(x)
    BY <1>1, <1>5 DEF Doomed, InQueue
  <1>10. /\ \A x \in Objects \ {o} : count'[x] = count[x]
         /\ Pending(t, "test", o)'
    <2>1. Pending(t, "test", o)
      BY <1>4 DEF Pending
    <2>2. Pending(t, "test", o)'
      BY <1>5, <2>1
    <2>3. QED
      BY <1>1, <1>2, <2>2 DEF TypeOK
  <1>11. GoneForgotten'
    <2>1. ASSUME NEW x \in Objects, Doomed(x)' \/ life'[x] # "live"
          PROVE  /\ count'[x] = 0 /\ weaks'[x] = {}
                 /\ \A u \in Threads : ~ Pending(u, "retain", x)' /\ ~ Pending(u, "test", x)'
      <3>1. Doomed(x) \/ life[x] # "live"
        BY <1>1, <1>9, <2>1
      <3>2. x # o
        BY <1>7, <3>1
      <3>3. /\ count[x] = 0 /\ weaks[x] = {}
            /\ \A u \in Threads : ~ Pending(u, "retain", x) /\ ~ Pending(u, "test", x)
        BY <3>1 DEF Inv, GoneForgotten
      <3>4. QED
        BY <1>1, <1>5, <1>10, <3>2, <3>3
    <2>2. QED
      BY <2>1 DEF GoneForgotten
  <1>12. DoomedLive' /\ EndsOnce' /\ UnbornUnknown'
    BY <1>1, <1>5, <1>9 DEF Inv, DoomedLive, EndsOnce, UnbornUnknown, InQueue
  <1>13. NobodyLost'
    BY <1>1, <1>5, <1>9, <1>10 DEF Inv, NobodyLost
  <1>14. QueueDrained'
    <2>1. \A u \in Threads : Of(u, "drain")' = Of(u, "drain")
      BY <1>3
    <2>2. QED
      BY <1>1, <2>1 DEF Inv, QueueDrained
  <1>15. SettersKeep' /\ Registered'
    BY <1>1, <1>5, <1>6 DEF Inv, SettersKeep, Registered, Owner
  <1>16. OneHome'
    <2>1. \A u \in Threads : \A x : Mentions(u, x)' => Mentions(u, x)
      BY <1>1, <1>5 DEF Mentions, Owner
    <2>2. QED
      BY <2>1 DEF Inv, OneHome
  <1>17. Undisturbed'
    <2>1. ~ At(t, "drain")
      BY <1>1 DEF At, Now
    <2>2. OneThread(layout) => TestsOnTop(todo'[t]) /\ \E s \in Slots : Owner[s] = t
      BY <1>1, TailStep, BusyOwns
    <2>3. QED
      BY <1>1, <1>3, <2>1, <2>2, Quiet
  <1>18. (\A u \in Threads : Shape(todo[u]))'
    BY <1>1, TailStep
  <1>19. QED
    BY <1>2, <1>8, <1>11, <1>12, <1>13, <1>14, <1>15, <1>16, <1>17, <1>18 DEF Inv

LEMMA TestKeeps ==
  ASSUME Safe, Inv, UNCHANGED layout, NEW t \in Threads, DoTest(t),
         NEW o, o = Now(t).obj
  PROVE  Inv'
  <1>1. /\ todo[t] # <<>> /\ Now(t).op = "test" /\ Then(t, <<>>)
        /\ IF count[o] = 0 THEN AddObject(o) ELSE UNCHANGED <<ref, weaks, queue>>
        /\ UNCHANGED <<life, count>>
    BY DEF DoTest, At, Now
  <1>2. TypeOK /\ TypeOK' /\ Now(t) \in Ops /\ o \in Objects
    <2>1. TypeOK /\ TypeOK' /\ Now(t) \in Ops
      BY <1>1, OfFirst, StepType DEF Inv, Step
    <2>2. QED
      BY <1>1, <2>1, ObjectOpFields
  <1>3. /\ Of(t, "test")' = {} /\ Of(t, "test") = {Now(t)} /\ Of(t, "drain")' # {}
        /\ \A name : name # "test" => Of(t, name)' = Of(t, name)
        /\ \A u \in Threads \ {t} : \A name : Of(u, name)' = Of(u, name)
        /\ \A u \in Threads \ {t} : todo'[u] = todo[u]
    BY <1>1, TailStep, ShortNames, Under
  <1>4. /\ \A u \in Threads : \A x : /\ Ending(u, x)' <=> Ending(u, x)
                                     /\ Pending(u, "test", x)' <=> Pending(u, "test", x) /\ u # t
                                     /\ \A name : name # "test" =>
                                          (Pending(u, name, x)' <=> Pending(u, name, x))
        /\ \A u \in Threads : \A s : /\ Setting(u, s)' <=> Setting(u, s)
                                     /\ Unlinked(u, s)' <=> Unlinked(u, s)
        /\ \A x : Pending(t, "test", x) <=> x = o
    <2>1. \A u \in Threads \ {t} :
            /\ \A x : /\ Ending(u, x)' <=> Ending(u, x)
                      /\ \A name : Pending(u, name, x)' <=> Pending(u, name, x)
            /\ \A s : /\ Setting(u, s)' <=> Setting(u, s)
                      /\ Unlinked(u, s)' <=> Unlinked(u, s)
      BY <1>3, Others
    <2>2. \A x, name : name # "test" => (Pending(t, name, x)' <=> Pending(t, name, x))
      BY <1>3 DEF Pending
    <2>3. \A s : /\ Setting(t, s)' <=> Setting(t, s)
                 /\ Unlinked(t, s)' <=> Unlinked(t, s)
      BY <1>3 DEF Setting, Unlinked
    <2>4. \A x : ~ Pending(t, "test", x)' /\ (Pending(t, "test", x) <=> x = o)
      BY <1>3 DEF Pending
    <2>5. \A x : Ending(t, x)' <=> Ending(t, x)
      BY <2>2 DEF Ending
    <2>6. QED
      BY <2>1, <2>2, <2>3, <2>4, <2>5
  <1>5. \A s : Taken(s)' <=> Taken(s)
    BY <1>3, TakenSame
  <1>6. (\A u \in Threads : Shape(todo[u]))'
    BY <1>1, TailStep
  <1>7. ~ Doomed(o) /\ life[o] = "live"
    BY <1>2, <1>4 DEF Inv, GoneForgotten
  <1>8. /\ \A s \in Strongs : ref'[s] = ref[s]
        /\ \A s \in Slots, x \in Objects : ref'[s] = x => ref[s] = x
    <2>1. CASE count[o] = 0
      <3>1. \A s \in Slots : ref'[s] = IF s \in weaks[o] THEN NoObject ELSE ref[s]
        BY <1>1, <2>1 DEF AddObject
      <3>2. weaks[o] \subseteq Weaks
        BY <1>2 DEF TypeOK
      <3>3. QED
        BY <1>2, <3>1, <3>2, Owners, ObjectsAssumption
    <2>2. CASE count[o] # 0
      BY <1>1, <2>2
    <2>3. QED
      BY <2>1, <2>2
  <1>9. Counted'
    <2>1. \A x : Held(x)' = Held(x)
      BY <1>4, <1>5, <1>8 DEF Held
    <2>2. \A x : Leaving(x)' = Leaving(x)
      <3>1. \A u \in Threads : \A x : Pending(u, "dec", x)' <=> Pending(u, "dec", x)
        BY <1>4
      <3>2. QED
        BY <3>1 DEF Leaving
    <2>3. \A x : Arriving(x)' = Arriving(x)
      <3>1. \A u \in Threads : Of(u, "retain")' = Of(u, "retain")
        BY <1>3
      <3>2. \A u \in Threads : \A x : Pending(u, "store", x)' <=> Pending(u, "store", x)
        BY <1>4
      <3>3. QED
        BY <3>1, <3>2 DEF Arriving
    <2>4. QED
      BY <1>1, <2>1, <2>2, <2>3 DEF Inv, Counted
  <1>10. UnbornUnknown' /\ SettersKeep'
    <2>1. UnbornUnknown'
      BY <1>1, <1>8 DEF Inv, UnbornUnknown
    <2>2. SettersKeep'
      BY <1>4, <1>8 DEF Inv, SettersKeep, Owner
    <2>3. QED
      BY <2>1, <2>2
  <1>11. OneHome'
    <2>1. \A u \in Threads, x \in Objects : Mentions(u, x)' => Mentions(u, x)
      BY <1>4, <1>8 DEF Mentions, Owner
    <2>2. QED
      BY <2>1 DEF Inv, OneHome
  <1>12. ~ At(t, "drain") /\ (OneThread(layout) => TestsOnTop(todo'[t]))
    BY <1>1, TailStep DEF At, Now
  <1>13. CASE count[o] # 0
    <2>1. UNCHANGED <<ref, weaks, queue>>
      BY <1>1, <1>13
    <2>2. \A x \in Objects : Doomed(x)' <=> Doomed(x)
      BY <1>4, <2>1 DEF Doomed, InQueue
    <2>3. GoneForgotten'
      BY <1>1, <1>4, <2>1, <2>2 DEF Inv, GoneForgotten
    <2>4. DoomedLive' /\ EndsOnce'
      BY <1>1, <1>4, <2>1, <2>2 DEF Inv, DoomedLive, EndsOnce, InQueue
    <2>5. NobodyLost'
      BY <1>1, <1>4, <1>13, <2>2 DEF Inv, NobodyLost
    <2>6. QueueDrained'
      BY <1>3 DEF QueueDrained
    <2>7. Registered'
      BY <1>1, <1>5, <2>1 DEF Inv, Registered, Owner
    <2>8. Undisturbed'
      <3>1. OneThread(layout) => \E s \in Slots : Owner[s] = t
        BY <1>1, BusyOwns
      <3>2. QED
        BY <1>3, <1>12, <2>1, <3>1, Quiet
    <2>9. QED
      BY <1>2, <1>6, <1>9, <1>10, <1>11, <2>3, <2>4, <2>5, <2>6, <2>7, <2>8 DEF Inv
  <1>14. CASE count[o] = 0
    <2>1. /\ queue' = Append(queue, o)
          /\ ref' = [s \in Slots |-> IF s \in weaks[o] THEN NoObject ELSE ref[s]]
          /\ weaks' = [weaks EXCEPT ![o] = {}]
      BY <1>1, <1>14 DEF AddObject
    <2>2. /\ queue \in Seq(Objects) /\ Len(queue) \in Nat /\ DOMAIN queue = 1 .. Len(queue)
          /\ DOMAIN queue' = 1 .. Len(queue) + 1 /\ queue'[Len(queue) + 1] = o
          /\ \A i \in 1 .. Len(queue) : queue'[i] = queue[i]
          /\ \A i \in 1 .. Len(queue) + 1 : i \in 1 .. Len(queue) \/ i = Len(queue) + 1
          /\ \A i \in 1 .. Len(queue) : i \in 1 .. Len(queue) + 1
          /\ Len(queue) + 1 \in 1 .. Len(queue) + 1
          /\ Len(queue') = Len(queue) + 1
      <3>1. queue \in Seq(Objects) /\ Len(queue) \in Nat
        BY <1>2 DEF TypeOK
      <3>2. QED
        BY <1>2, <2>1, <3>1
    <2>3. \A x : InQueue(x)' <=> InQueue(x) \/ x = o
      BY <2>2 DEF InQueue
    <2>4. \A x : Doomed(x)' <=> Doomed(x) \/ x = o
      BY <1>4, <2>3 DEF Doomed
    <2>5. weaks'[o] = {} /\ \A x \in Objects \ {o} : weaks'[x] = weaks[x]
      BY <1>2, <2>1 DEF TypeOK
    <2>6. GoneForgotten'
      <3>1. \A u \in Threads : ~ Pending(u, "retain", o)' /\ ~ Pending(u, "test", o)'
        <4>1. Mentions(t, o)
          BY <1>4 DEF Mentions
        <4>2. ASSUME NEW u \in Threads,
                     Pending(u, "retain", o) \/ Pending(u, "test", o)
              PROVE  u = t
          <5>1. Mentions(u, o)
            BY <4>2 DEF Mentions
          <5>2. QED
            BY <1>2, <4>1, <5>1 DEF Inv, OneHome
        <4>3. ~ Pending(t, "retain", o)
          <5>1. Of(t, "retain") = {}
            BY <1>1, ShortNames
          <5>2. QED
            BY <5>1 DEF Pending
        <4>4. \A u \in Threads : Pending(u, "retain", o)' => Pending(u, "retain", o)
          BY <1>4
        <4>5. \A u \in Threads : Pending(u, "test", o)' => Pending(u, "test", o) /\ u # t
          BY <1>4
        <4>6. QED
          BY <4>2, <4>3, <4>4, <4>5
      <3>2. ASSUME NEW x \in Objects, x # o, Doomed(x)' \/ life'[x] # "live"
            PROVE  /\ count'[x] = 0 /\ weaks'[x] = {}
                   /\ \A u \in Threads : ~ Pending(u, "retain", x)' /\ ~ Pending(u, "test", x)'
        <4>1. Doomed(x) \/ life[x] # "live"
          BY <1>1, <2>4, <3>2
        <4>2. /\ count[x] = 0 /\ weaks[x] = {}
              /\ \A u \in Threads : ~ Pending(u, "retain", x) /\ ~ Pending(u, "test", x)
          BY <4>1 DEF Inv, GoneForgotten
        <4>3. QED
          BY <1>1, <1>4, <2>5, <3>2, <4>2
      <3>3. QED
        BY <1>1, <1>14, <2>5, <3>1, <3>2 DEF GoneForgotten
    <2>7. DoomedLive'
      BY <1>1, <1>7, <2>4 DEF Inv, DoomedLive
    <2>8. EndsOnce'
      <3>1. \A i \in 1 .. Len(queue) : queue[i] # o
        BY <1>7, <2>2 DEF Doomed, InQueue
      <3>2. \A i, j \in 1 .. Len(queue) : queue[i] = queue[j] => i = j
        BY <2>2 DEF Inv, EndsOnce
      <3>3. \A i, j \in DOMAIN queue' : queue'[i] = queue'[j] => i = j
        BY <2>2, <3>1, <3>2
      <3>4. ASSUME NEW u \in Threads, NEW x \in Objects, Ending(u, x)'
            PROVE  ~ InQueue(x)' /\ \A v \in Threads : Ending(v, x)' => v = u
        <4>1. Ending(u, x)
          BY <1>4, <3>4
        <4>2. x # o
          BY <1>7, <4>1 DEF Doomed
        <4>3. ~ InQueue(x) /\ \A v \in Threads : Ending(v, x) => v = u
          BY <4>1 DEF Inv, EndsOnce
        <4>4. QED
          BY <1>4, <2>3, <4>2, <4>3
      <3>5. QED
        BY <3>3, <3>4 DEF EndsOnce
    <2>9. NobodyLost'
      BY <1>1, <1>4, <2>4 DEF Inv, NobodyLost
    <2>10. QueueDrained'
      BY <1>3 DEF QueueDrained
    <2>11. Registered'
      <3>1. ASSUME NEW x \in Objects, NEW r \in weaks'[x]
            PROVE  /\ ref'[r] = x /\ ~ Taken(r)'
                   /\ Owner'[r] \in Objects => life'[Owner'[r]] = "live"
        <4>1. x # o /\ r \in weaks[x]
          BY <2>5, <3>1
        <4>2. /\ ref[r] = x /\ ~ Taken(r)
              /\ Owner[r] \in Objects => life[Owner[r]] = "live"
          BY <4>1 DEF Inv, Registered
        <4>3. r \notin weaks[o]
          BY <1>2, <4>1, <4>2 DEF Inv, Registered
        <4>4. r \in Slots
          BY <1>2, <4>1 DEF TypeOK, Slots
        <4>5. QED
          BY <1>1, <1>5, <2>1, <4>2, <4>3, <4>4 DEF Owner
      <3>2. ASSUME NEW r \in Weaks, ref'[r] # NoObject, ~ Taken(r)'
            PROVE  r \in weaks'[ref'[r]]
        <4>1. r \in Slots
          BY DEF Slots
        <4>2. r \notin weaks[o] /\ ref'[r] = ref[r]
          BY <2>1, <3>2, <4>1
        <4>3. r \in weaks[ref[r]] /\ ref[r] \in Objects
          BY <1>2, <1>5, <3>2, <4>1, <4>2, Owners DEF Inv, Registered
        <4>4. ref[r] # o
          BY <4>2, <4>3
        <4>5. QED
          BY <2>5, <4>2, <4>3, <4>4
      <3>3. QED
        BY <3>1, <3>2 DEF Registered
    <2>12. Undisturbed'
      <3>1. Owner' = Owner /\ (OneThread(layout)' <=> OneThread(layout))
        BY DEF Owner, OneThread
      <3>2. SUFFICES ASSUME OneThread(layout) PROVE Undisturbed'
        BY <3>1 DEF Undisturbed
      <3>3. PICK s \in Slots : Owner[s] = t
        BY <1>1, <3>2, BusyOwns
      <3>4. queue = <<>>
        BY <1>12, <3>2, <3>3, QueueQuiet
      <3>5. Len(queue') = 1
        BY <2>2, <3>4
      <3>6. (At(t, "drain"))'
        <4>1. todo[t] \in Seq(Ops) /\ Shape(todo[t])
          BY DEF Inv, TypeOK
        <4>2. 1 \in DOMAIN todo[t] /\ todo[t][1] = Now(t)
          BY <1>1, <4>1 DEF Now
        <4>3. 1 + 1 \in DOMAIN todo[t] /\ todo[t][1 + 1].op = "drain"
          BY <1>1, <4>1, <4>2 DEF Shape
        <4>4. todo'[t] = Tail(todo[t])
          BY <1>1, TailStep
        <4>5. Tail(todo[t]) # <<>> /\ Head(Tail(todo[t])) = todo[t][2]
          <5> DEFINE r == Tail(todo[t])
          <5>1. /\ Len(todo[t]) \in Nat /\ r \in Seq(Ops) /\ Len(r) = Len(todo[t]) - 1
                /\ DOMAIN todo[t] = 1 .. Len(todo[t])
                /\ \A i \in 1 .. Len(todo[t]) - 1 : r[i] = todo[t][i + 1]
            BY <1>1, <4>1, HeadFirst
          <5> HIDE DEF r
          <5>2. 1 \in 1 .. Len(todo[t]) - 1 /\ 1 + 1 = 2
            BY <4>3, <5>1
          <5>3. r[1] = todo[t][2] /\ Len(r) > 0
            BY <5>1, <5>2
          <5>4. r # <<>> /\ Head(r) = r[1]
            BY <5>1, <5>3
          <5>5. QED
            BY <5>3, <5>4 DEF r
        <4>6. QED
          BY <4>3, <4>4, <4>5 DEF At
      <3>7. \A u \in Threads : todo'[u] # <<>> => \E q \in Slots : Owner[q] = u
        BY <1>1, <3>2, TailStep, BusyOwns
      <3>8. \A u \in Threads : TestsOnTop(todo'[u])
        BY <1>1, <3>2, TailStep
      <3>9. QED
        BY <1>3, <3>1, <3>5, <3>6, <3>7, <3>8 DEF Undisturbed, TestsOnTop
    <2>13. QED
      BY <1>2, <1>6, <1>9, <1>10, <1>11, <2>6, <2>7, <2>8, <2>9, <2>10, <2>11, <2>12 DEF Inv
  <1>15. QED
    BY <1>13, <1>14

\* unlock() finds nothing to delete.
LEMMA DrainEmptyKeeps ==
  ASSUME Safe, Inv, UNCHANGED layout, NEW t \in Threads, DoDrain(t), queue = <<>>
  PROVE  Inv'
  <1>1. /\ todo[t] # <<>> /\ Now(t).op = "drain" /\ Then(t, <<>>)
        /\ UNCHANGED <<life, count, ref, weaks, queue>>
    BY DEF DoDrain, At, Now
  <1>2. TypeOK /\ TypeOK'
    BY StepType DEF Inv, Step
  <1>3. /\ \A name : name # "drain" => Of(t, name)' = Of(t, name)
        /\ \A u \in Threads \ {t} : \A name : Of(u, name)' = Of(u, name)
        /\ \A u \in Threads \ {t} : todo'[u] = todo[u]
    BY <1>1, TailStep, ShortNames
  <1>4. /\ \A u \in Threads : \A x : /\ Ending(u, x)' <=> Ending(u, x)
                                     /\ \A name : name # "drain" =>
                                          (Pending(u, name, x)' <=> Pending(u, name, x))
        /\ \A u \in Threads : \A s : /\ Setting(u, s)' <=> Setting(u, s)
                                     /\ Unlinked(u, s)' <=> Unlinked(u, s)
    <2>1. \A u \in Threads \ {t} :
            /\ \A x : /\ Ending(u, x)' <=> Ending(u, x)
                      /\ \A name : Pending(u, name, x)' <=> Pending(u, name, x)
            /\ \A s : /\ Setting(u, s)' <=> Setting(u, s)
                      /\ Unlinked(u, s)' <=> Unlinked(u, s)
      BY <1>3, Others
    <2>2. \A x, name : name # "drain" => (Pending(t, name, x)' <=> Pending(t, name, x))
      BY <1>3 DEF Pending
    <2>3. \A s : /\ Setting(t, s)' <=> Setting(t, s)
                 /\ Unlinked(t, s)' <=> Unlinked(t, s)
      BY <1>3 DEF Setting, Unlinked
    <2>4. \A x : Ending(t, x)' <=> Ending(t, x)
      BY <2>2 DEF Ending
    <2>5. QED
      BY <2>1, <2>2, <2>3, <2>4
  <1>5. \A s : Taken(s)' <=> Taken(s)
    BY <1>3, TakenSame
  <1>6. \A x \in Objects : Doomed(x)' <=> Doomed(x)
    BY <1>1, <1>4 DEF Doomed, InQueue
  <1>7. Counted'
    <2>1. \A x : Held(x)' = Held(x)
      BY <1>1, <1>4, <1>5 DEF Held
    <2>2. \A x : Leaving(x)' = Leaving(x)
      <3>1. \A u \in Threads : \A x : Pending(u, "dec", x)' <=> Pending(u, "dec", x)
        BY <1>4
      <3>2. QED
        BY <3>1 DEF Leaving
    <2>3. \A x : Arriving(x)' = Arriving(x)
      <3>1. \A u \in Threads : Of(u, "retain")' = Of(u, "retain")
        BY <1>3
      <3>2. \A u \in Threads : \A x : Pending(u, "store", x)' <=> Pending(u, "store", x)
        BY <1>4
      <3>3. QED
        BY <3>1, <3>2 DEF Arriving
    <2>4. QED
      BY <1>1, <2>1, <2>2, <2>3 DEF Inv, Counted
  <1>8. GoneForgotten'
    BY <1>1, <1>4, <1>6 DEF Inv, GoneForgotten
  <1>9. DoomedLive' /\ EndsOnce' /\ UnbornUnknown'
    BY <1>1, <1>4, <1>6 DEF Inv, DoomedLive, EndsOnce, UnbornUnknown, InQueue
  <1>10. NobodyLost'
    BY <1>1, <1>4, <1>6 DEF Inv, NobodyLost
  <1>11. QueueDrained'
    BY <1>1 DEF QueueDrained
  <1>12. SettersKeep' /\ Registered'
    BY <1>1, <1>4, <1>5 DEF Inv, SettersKeep, Registered, Owner
  <1>13. OneHome'
    <2>1. \A u \in Threads : \A x : Mentions(u, x)' => Mentions(u, x)
      BY <1>1, <1>4 DEF Mentions, Owner
    <2>2. QED
      BY <2>1 DEF Inv, OneHome
  <1>14. Undisturbed'
    <2>1. Owner' = Owner /\ (OneThread(layout)' <=> OneThread(layout))
      BY DEF Owner, OneThread
    <2>2. SUFFICES ASSUME OneThread(layout) PROVE Undisturbed'
      BY <2>1 DEF Undisturbed
    <2>3. \A u \in Threads : todo'[u] # <<>> => \E q \in Slots : Owner[q] = u
      BY <1>1, <2>2, TailStep, BusyOwns
    <2>4. \A u \in Threads : TestsOnTop(todo'[u])
      BY <1>1, <2>2, TailStep
    <2>5. QED
      BY <1>1, <2>1, <2>3, <2>4 DEF Undisturbed, TestsOnTop
  <1>15. (\A u \in Threads : Shape(todo[u]))'
    BY <1>1, TailStep
  <1>16. QED
    BY <1>2, <1>7, <1>8, <1>9, <1>10, <1>11, <1>12, <1>13, <1>14, <1>15 DEF Inv

\* unlock() takes an object from the queue.
LEMMA DrainPopKeeps ==
  ASSUME Safe, Inv, UNCHANGED layout, NEW t \in Threads, DoDrain(t), queue # <<>>,
         NEW o, o = Head(queue)
  PROVE  Inv'
  <1> DEFINE ops == <<On("check", o), Drain>>
             rest == Tail(todo[t])
  <1>1. /\ todo[t] # <<>> /\ Now(t).op = "drain" /\ Then(t, ops) /\ queue' = Tail(queue)
        /\ UNCHANGED <<life, count, ref, weaks>>
    BY DEF DoDrain, At, Now
  <1>2. TypeOK /\ TypeOK' /\ queue \in Seq(Objects) /\ o \in Objects
    <2>1. TypeOK /\ TypeOK'
      BY StepType DEF Inv, Step
    <2>2. QED
      BY <2>1 DEF TypeOK
  <1>3. /\ Len(queue) \in Nat /\ Len(queue) > 0
        /\ DOMAIN queue = 1 .. Len(queue) /\ DOMAIN queue' = 1 .. Len(queue) - 1
        /\ queue[1] = o /\ \A i \in 1 .. Len(queue) - 1 : queue'[i] = queue[i + 1]
        /\ 1 \in 1 .. Len(queue)
        /\ \A i \in 1 .. Len(queue) - 1 : i + 1 \in 1 .. Len(queue) /\ i + 1 # 1
        /\ \A i \in 1 .. Len(queue) : i = 1 \/ (i - 1 \in 1 .. Len(queue) - 1 /\ (i - 1) + 1 = i)
    BY <1>1, <1>2
  <1>4. \A i, j \in 1 .. Len(queue) : queue[i] = queue[j] => i = j
    BY <1>3 DEF Inv, EndsOnce
  <1>5. InQueue(o) /\ \A x : InQueue(x)' <=> InQueue(x) /\ x # o
    <2>1. InQueue(o)
      BY <1>3 DEF InQueue
    <2>2. ~ InQueue(o)'
      BY <1>3, <1>4 DEF InQueue
    <2>3. \A x : InQueue(x)' => InQueue(x)
      BY <1>3 DEF InQueue
    <2>4. \A x : InQueue(x) /\ x # o => InQueue(x)'
      <3>1. SUFFICES ASSUME NEW x, InQueue(x), x # o PROVE InQueue(x)'
        OBVIOUS
      <3>2. PICK i \in 1 .. Len(queue) : queue[i] = x
        BY <1>3, <3>1 DEF InQueue
      <3>3. i - 1 \in 1 .. Len(queue) - 1 /\ (i - 1) + 1 = i
        BY <1>3, <3>1, <3>2
      <3>4. queue'[i - 1] = x
        BY <1>3, <3>2, <3>3
      <3>5. QED
        BY <1>3, <3>3, <3>4 DEF InQueue
    <2>5. QED
      BY <2>1, <2>2, <2>3, <2>4
  <1>6. \A u \in Threads : ~ Ending(u, o)
    BY <1>2, <1>5 DEF Inv, EndsOnce
  <1>7. ops \in Seq(Ops) /\ On("check", o) \in Ops /\ Drain \in Ops /\ rest \in Seq(Ops)
        /\ El(ops) = {On("check", o), Drain}
    <2>1. On("check", o) \in Ops /\ Drain \in Ops
      BY <1>2 DEF On, Drain, Ops, ObjectOps, DrainOps
    <2>2. rest \in Seq(Ops)
      BY <1>1, OfFirst
    <2>3. \A a, b : El(<<a, b>>) = {a, b}
      BY ElsOf
    <2>4. QED
      BY <2>1, <2>2, <2>3
  <1> HIDE DEF rest
  <1>8. /\ todo'[t] = ops \o rest
        /\ \A u \in Threads \ {t} : todo'[u] = todo[u]
        /\ \A name : Of(t, name)' = {e \in {On("check", o), Drain} : e.op = name}
                                      \cup RestOf(t, name)
        /\ \A u \in Threads \ {t} : \A name : Of(u, name)' = Of(u, name)
    <2> HIDE DEF ops
    <2>1. QED
      BY <1>1, <1>7, ThenOf DEF rest
  <1>9. On("check", o).op = "check" /\ On("check", o).obj = o /\ Drain.op = "drain"
    BY OpsAre
  <1>10. /\ Of(t, "check")' = {On("check", o)} /\ Of(t, "check") = {}
         /\ Of(t, "drain")' # {}
         /\ \A name : name \notin {"check", "drain"} => Of(t, name)' = Of(t, name)
    <2>1. /\ Of(t, "check") = {} /\ RestOf(t, "check") = {}
          /\ \A name : name # "drain" => Of(t, name) = RestOf(t, name)
      BY <1>1, ShortNames
    <2>2. \A name : name \notin {"check", "drain"} =>
            {e \in {On("check", o), Drain} : e.op = name} = {}
      BY <1>9
    <2>3. {e \in {On("check", o), Drain} : e.op = "check"} = {On("check", o)}
      BY <1>9
    <2>4. Drain \in {e \in {On("check", o), Drain} : e.op = "drain"}
      BY <1>9
    <2>5. Of(t, "check")' = {On("check", o)} /\ Of(t, "drain")' # {}
      BY <1>8, <2>1, <2>3, <2>4
    <2>6. \A name : name \notin {"check", "drain"} => Of(t, name)' = RestOf(t, name)
      <3>1. SUFFICES ASSUME NEW name, name \notin {"check", "drain"}
                     PROVE  Of(t, name)' = RestOf(t, name)
        OBVIOUS
      <3>2. {e \in {On("check", o), Drain} : e.op = name} = {}
        BY <2>2, <3>1
      <3>3. Of(t, name)' = {e \in {On("check", o), Drain} : e.op = name} \cup RestOf(t, name)
        BY <1>8
      <3>4. Of(t, name)' = {} \cup RestOf(t, name)
        BY <3>2, <3>3
      <3>5. QED
        BY <3>4
    <2>7. QED
      BY <2>1, <2>5, <2>6
  <1>11. /\ \A u \in Threads : \A x : /\ Ending(u, x)' <=> Ending(u, x) \/ (u = t /\ x = o)
                                      /\ \A name : name \notin {"check", "drain"} =>
                                           (Pending(u, name, x)' <=> Pending(u, name, x))
         /\ \A u \in Threads : \A s : /\ Setting(u, s)' <=> Setting(u, s)
                                      /\ Unlinked(u, s)' <=> Unlinked(u, s)
    <2>1. \A u \in Threads \ {t} :
            /\ \A x : /\ Ending(u, x)' <=> Ending(u, x)
                      /\ \A name : Pending(u, name, x)' <=> Pending(u, name, x)
            /\ \A s : /\ Setting(u, s)' <=> Setting(u, s)
                      /\ Unlinked(u, s)' <=> Unlinked(u, s)
      BY <1>8, Others
    <2>2. \A x, name : name \notin {"check", "drain"} =>
            (Pending(t, name, x)' <=> Pending(t, name, x))
      BY <1>10 DEF Pending
    <2>3. \A s : /\ Setting(t, s)' <=> Setting(t, s)
                 /\ Unlinked(t, s)' <=> Unlinked(t, s)
      <3>1. Of(t, "store")' = Of(t, "store") /\ Of(t, "drop")' = Of(t, "drop")
        BY <1>10
      <3>2. QED
        BY <3>1 DEF Setting, Unlinked
    <2>4. \A x : Ending(t, x)' <=> Ending(t, x) \/ x = o
      <3>1. \A x : (Pending(t, "check", x)' <=> x = o) /\ ~ Pending(t, "check", x)
        BY <1>9, <1>10 DEF Pending
      <3>2. \A x : Pending(t, "delete", x)' <=> Pending(t, "delete", x)
        BY <2>2
      <3>3. QED
        BY <3>1, <3>2 DEF Ending
    <2>5. QED
      BY <2>1, <2>2, <2>3, <2>4
  <1>12. \A s : Taken(s)' <=> Taken(s)
    <2>1. Of(t, "delete")' = Of(t, "delete")
      BY <1>10
    <2>2. QED
      BY <1>8, <2>1, TakenSame
  <1>13. \A x \in Objects : Doomed(x)' <=> Doomed(x)
    BY <1>5, <1>11 DEF Doomed
  <1>14. Counted'
    <2>1. \A x : Held(x)' = Held(x)
      BY <1>1, <1>11, <1>12 DEF Held
    <2>2. \A x : Leaving(x)' = Leaving(x)
      <3>1. \A u \in Threads : \A x : Pending(u, "dec", x)' <=> Pending(u, "dec", x)
        BY <1>11
      <3>2. QED
        BY <3>1 DEF Leaving
    <2>3. \A x : Arriving(x)' = Arriving(x)
      <3>1. \A u \in Threads : Of(u, "retain")' = Of(u, "retain")
        BY <1>8, <1>10
      <3>2. \A u \in Threads : \A x : Pending(u, "store", x)' <=> Pending(u, "store", x)
        BY <1>11
      <3>3. QED
        BY <3>1, <3>2 DEF Arriving
    <2>4. QED
      BY <1>1, <2>1, <2>2, <2>3 DEF Inv, Counted
  <1>15. GoneForgotten'
    BY <1>1, <1>11, <1>13 DEF Inv, GoneForgotten
  <1>16. DoomedLive' /\ UnbornUnknown'
    BY <1>1, <1>13 DEF Inv, DoomedLive, UnbornUnknown
  <1>17. EndsOnce'
    <2>1. \A i, j \in DOMAIN queue' : queue'[i] = queue'[j] => i = j
      <3>1. \A i, j \in 1 .. Len(queue) - 1 : queue[i + 1] = queue[j + 1] => i = j
        <4>1. TAKE i, j \in 1 .. Len(queue) - 1
        <4>2. queue[i + 1] = queue[j + 1] => i + 1 = j + 1
          BY <1>3, <1>4
        <4>3. QED
          BY <1>3, <4>2
      <3>2. \A i, j \in 1 .. Len(queue) - 1 : queue'[i] = queue'[j] => i = j
        <4>1. TAKE i, j \in 1 .. Len(queue) - 1
        <4>2. queue'[i] = queue[i + 1] /\ queue'[j] = queue[j + 1]
          BY <1>3
        <4>3. QED
          BY <3>1, <4>2
      <3>3. QED
        BY <1>3, <3>2
    <2>2. ASSUME NEW u \in Threads, NEW x \in Objects, Ending(u, x)'
          PROVE  ~ InQueue(x)' /\ \A v \in Threads : Ending(v, x)' => v = u
      <3>1. CASE x = o
        BY <1>5, <1>6, <1>11, <2>2, <3>1
      <3>2. CASE x # o
        <4>1. Ending(u, x)
          BY <1>11, <2>2, <3>2
        <4>2. ~ InQueue(x) /\ \A v \in Threads : Ending(v, x) => v = u
          BY <4>1 DEF Inv, EndsOnce
        <4>3. QED
          BY <1>5, <1>11, <3>2, <4>2
      <3>3. QED
        BY <3>1, <3>2
    <2>3. QED
      BY <2>1, <2>2 DEF EndsOnce
  <1>18. NobodyLost'
    BY <1>1, <1>11, <1>13 DEF Inv, NobodyLost
  <1>19. QueueDrained'
    BY <1>10 DEF QueueDrained
  <1>20. SettersKeep' /\ Registered'
    BY <1>1, <1>11, <1>12 DEF Inv, SettersKeep, Registered, Owner
  <1>21. OneHome'
    <2>1. \A u \in Threads : \A x : Mentions(u, x)' => Mentions(u, x)
      BY <1>1, <1>11 DEF Mentions, Owner
    <2>2. QED
      BY <2>1 DEF Inv, OneHome
  <1>22. Shape(todo'[t]) /\ (NoTest(rest) => TestsOnTop(todo'[t]))
    <2> DEFINE c == On("check", o)
               q == <<Drain>> \o rest
    <2>1. Shape(rest) /\ Calm(rest) /\ todo[t] \in Seq(Ops)
      BY <1>1, TailShape DEF Inv, TypeOK, rest
    <2>2. q \in Seq(Ops) /\ Shape(q)
      BY <1>7, <1>9, <2>1, PushShape
    <2>3. /\ Len(rest) \in Nat /\ DOMAIN q = 1 .. Len(rest) + 1 /\ q[1] = Drain
          /\ DOMAIN rest = 1 .. Len(rest)
          /\ \A i \in 1 .. Len(rest) : q[i + 1] = rest[i]
          /\ \A i \in 1 .. Len(rest) + 1 : i = 1 \/ (i - 1 \in 1 .. Len(rest) /\ (i - 1) + 1 = i)
      BY <1>7
    <2>4. todo'[t] = <<c>> \o q
      <3>1. ops = <<c>> \o <<Drain>>
        BY <1>7, Two
      <3>2. <<c>> \in Seq(Ops) /\ <<Drain>> \in Seq(Ops)
        BY <1>7
      <3> DEFINE A == <<c>>
                 B == <<Drain>>
      <3>3. A \in Seq(Ops) /\ B \in Seq(Ops) /\ ops = A \o B
        BY <3>1, <3>2
      <3> HIDE DEF A, B
      <3>4. (A \o B) \o rest = A \o (B \o rest)
        BY <1>7, <3>3, Assoc
      <3>5. QED
        BY <1>8, <3>3, <3>4 DEF A, B
    <2> HIDE DEF c, q
    <2>5. \A i \in 1 .. Len(rest) + 1 : q[i] = Drain \/ \E j \in 1 .. Len(rest) : q[i] = rest[j]
      BY <2>3
    <2>6. Calm(q)
      BY <1>9, <2>1, <2>3, <2>5 DEF Calm
    <2>7. \A i \in DOMAIN q : ~ (q[i].op \in Ends /\ q[i].obj = o)
      <3>1. \A j \in 1 .. Len(rest) : ~ (rest[j].op \in Ends /\ rest[j].obj = o)
        <4>1. SUFFICES ASSUME NEW j \in 1 .. Len(rest), rest[j].op \in Ends, rest[j].obj = o
                       PROVE  FALSE
          OBVIOUS
        <4>2. rest[j] \in El(rest)
          BY <2>3 DEF El
        <4>3. rest[j] \in RestOf(t, rest[j].op)
          BY <4>2 DEF RestOf, rest
        <4>4. rest[j] \in Of(t, rest[j].op)
          BY <1>1, <4>1, <4>3, ShortNames DEF Ends
        <4>5. Ending(t, o)
          BY <4>1, <4>4 DEF Ending, Pending, Ends
        <4>6. QED
          BY <1>6, <4>5
      <3>2. QED
        BY <1>9, <2>3, <2>5, <3>1 DEF Ends
    <2>8. Shape(<<c>> \o q)
      <3>1. c \in Ops /\ c.op = "check" /\ c.obj = o
        BY <1>7, <1>9 DEF c
      <3>2. c.op \in Ends
        BY <3>1 DEF Ends
      <3>3. QED
        BY <2>2, <2>6, <2>7, <3>1, <3>2, PushShape
    <2>9. NoTest(rest) => TestsOnTop(<<c>> \o q)
      <3>1. NoTest(rest) => NoTest(q)
        BY <1>9, <2>3, <2>5 DEF NoTest
      <3>2. c \in Ops
        BY <1>7 DEF c
      <3>3. QED
        BY <2>2, <3>1, <3>2, TopPush
    <2>10. QED
      BY <2>4, <2>8, <2>9
  <1>23. Undisturbed'
    <2>1. Owner' = Owner /\ (OneThread(layout)' <=> OneThread(layout))
      BY DEF Owner, OneThread
    <2>2. SUFFICES ASSUME OneThread(layout) PROVE Undisturbed'
      BY <2>1 DEF Undisturbed
    <2>3. PICK s \in Slots : Owner[s] = t
      BY <1>1, <2>2, BusyOwns
    <2>4. \A u \in Threads : todo'[u] # <<>> => \E q \in Slots : Owner[q] = u
      BY <1>8, <2>2, <2>3, BusyOwns
    <2>5. PICK u \in Threads : At(u, "drain") /\ Of(u, "test") = {}
      BY <2>2 DEF Inv, Undisturbed
    <2>6. u = t
      <3>1. PICK q \in Slots : Owner[q] = u
        BY <2>2, <2>5, BusyOwns DEF At
      <3>2. QED
        BY <2>2, <2>3, <3>1, OwnersOne
    <2>7. NoTest(rest)
      <3>1. RestOf(t, "test") = {}
        BY <1>1, <2>5, <2>6, ShortNames
      <3>2. QED
        BY <3>1 DEF RestOf, El, NoTest, rest
    <2>8. \A v \in Threads : TestsOnTop(todo'[v])
      BY <1>8, <1>22, <2>2, <2>7 DEF Inv, Undisturbed
    <2>9. Len(queue) = 1
      BY <2>2 DEF Inv, Undisturbed
    <2>10. queue' = <<>>
      BY <1>1, <1>2, <2>9
    <2>11. QED
      BY <2>1, <2>4, <2>8, <2>10 DEF Undisturbed, TestsOnTop
  <1>24. (\A u \in Threads : Shape(todo[u]))'
    BY <1>8, <1>22, ShapeNext DEF Inv
  <1>25. QED
    BY <1>2, <1>14, <1>15, <1>16, <1>17, <1>18, <1>19, <1>20, <1>21, <1>23, <1>24 DEF Inv

\* An operation that is put in front of those under the first one.
LEMMA PushStep ==
  ASSUME Inv, NEW t \in Threads, todo[t] # <<>>, NEW d \in Ops, Then(t, <<d>>)
  PROVE  /\ todo'[t] = <<d>> \o Tail(todo[t])
         /\ \A u \in Threads \ {t} : todo'[u] = todo[u]
         /\ Of(t, d.op)' = RestOf(t, d.op) \cup {d}
         /\ \A name : name # d.op => Of(t, name)' = RestOf(t, name)
         /\ \A u \in Threads \ {t} : \A name : Of(u, name)' = Of(u, name)
  <1> DEFINE ops == <<d>>
  <1>1. ops \in Seq(Ops) /\ El(ops) = {d}
    <2>1. \A a : El(<<a>>) = {a}
      BY ElsOf
    <2>2. QED
      BY <2>1
  <1>2. Then(t, ops)
    OBVIOUS
  <1> HIDE DEF ops
  <1>3. /\ todo'[t] = ops \o Tail(todo[t])
        /\ \A u \in Threads \ {t} : todo'[u] = todo[u]
        /\ \A name : Of(t, name)' = {e \in El(ops) : e.op = name} \cup RestOf(t, name)
        /\ \A u \in Threads \ {t} : \A name : Of(u, name)' = Of(u, name)
    BY <1>1, <1>2, ThenOf
  <1>4. \A name : Of(t, name)' = {e \in {d} : e.op = name} \cup RestOf(t, name)
    BY <1>1, <1>3
  <1>5. Of(t, d.op)' = RestOf(t, d.op) \cup {d}
    <2>1. {e \in {d} : e.op = d.op} = {d}
      OBVIOUS
    <2>2. QED
      BY <1>4, <2>1
  <1>6. ASSUME NEW name, name # d.op PROVE Of(t, name)' = RestOf(t, name)
    <2>1. {e \in {d} : e.op = name} = {}
      BY <1>6
    <2>2. Of(t, name)' = {} \cup RestOf(t, name)
      BY <1>4, <2>1
    <2>3. QED
      BY <2>2
  <1>7. QED
    BY <1>3, <1>5, <1>6 DEF ops

\* A destructor starts, or goes on without a release().
LEMMA DeletePushed ==
  ASSUME Inv, UNCHANGED layout, NEW t \in Threads, todo[t] # <<>>, Now(t).op \in Ends,
         NEW o \in Objects, o = Now(t).obj, NEW left \in SUBSET Members(o),
         Then(t, <<Delete(o, left)>>)
  PROVE  /\ \A u \in Threads \ {t} : todo'[u] = todo[u]
         /\ \A u \in Threads \ {t} : \A name : Of(u, name)' = Of(u, name)
         /\ Of(t, "check")' = {}
         /\ Of(t, "delete")' = RestOf(t, "delete") \cup {Delete(o, left)}
         /\ \A name : name \notin Ends => Of(t, name)' = Of(t, name)
         /\ (\A u \in Threads : Shape(todo[u]))'
         /\ OneThread(layout) => TestsOnTop(todo'[t])
  <1> DEFINE d == Delete(o, left)
  <1>1. d \in Ops /\ d.op = "delete" /\ d.obj = o /\ d.left = left
    <2>1. left \in SUBSET Slots
      BY DEF Members
    <2>2. d \in Ops
      BY <2>1, DeleteType
    <2>3. d.op = "delete" /\ d.obj = o /\ d.left = left
      BY DEF Delete
    <2>4. QED
      BY <2>2, <2>3
  <1>2. Then(t, <<d>>)
    OBVIOUS
  <1> HIDE DEF d
  <1>3. /\ todo'[t] = <<d>> \o Tail(todo[t])
        /\ \A u \in Threads \ {t} : todo'[u] = todo[u]
        /\ Of(t, "delete")' = RestOf(t, "delete") \cup {d}
        /\ \A name : name # "delete" => Of(t, name)' = RestOf(t, name)
        /\ \A u \in Threads \ {t} : \A name : Of(u, name)' = Of(u, name)
    BY <1>1, <1>2, PushStep
  <1>4. /\ RestOf(t, "check") = {}
        /\ \A name : name \notin Ends => Of(t, name) = RestOf(t, name)
    BY ShortNames
  <1>5. /\ todo[t] \in Seq(Ops) /\ Shape(todo[t])
        /\ OneThread(layout) => TestsOnTop(todo[t])
    BY DEF Inv, TypeOK, Undisturbed
  <1>6. /\ Tail(todo[t]) \in Seq(Ops)
        /\ Shape(Tail(todo[t])) /\ Calm(Tail(todo[t]))
        /\ \A i \in DOMAIN Tail(todo[t]) :
             ~ (Tail(todo[t])[i].op \in Ends /\ Tail(todo[t])[i].obj = o)
    BY <1>5, TailShape, HeadFirst DEF Now
  <1>7. Shape(<<d>> \o Tail(todo[t]))
    BY <1>1, <1>6, PushShape DEF Ends
  <1>8. OneThread(layout) => TestsOnTop(<<d>> \o Tail(todo[t]))
    <2>1. OneThread(layout) => NoTest(Tail(todo[t]))
      BY <1>5, TopTail DEF Ends, Now
    <2>2. QED
      BY <1>1, <1>6, <2>1, TopPush
  <1>9. \A u \in Threads : Shape(todo'[u])
    BY <1>3, <1>7 DEF Inv
  <1>10. (\A u \in Threads : Shape(todo[u]))'
    BY <1>9, ShapeNext
  <1>11. \A name : name \notin Ends => Of(t, name)' = Of(t, name)
    BY <1>3, <1>4 DEF Ends
  <1>12. Of(t, "check")' = {}
    BY <1>3, <1>4
  <1>13. QED
    BY <1>3, <1>8, <1>10, <1>11, <1>12 DEF d

LEMMA DeleteKeeps ==
  ASSUME Safe, Inv, TypeOK', UNCHANGED <<layout, life, count, ref, queue>>,
         NEW t \in Threads, todo[t] # <<>>, NEW o \in Objects, o = Now(t).obj,
         NEW left \in SUBSET Members(o), Then(t, <<Delete(o, left)>>),
         NEW gone \in SUBSET Slots,
         \/ Now(t).op = "check" /\ left = Members(o) /\ gone = {}
         \/ Now(t).op = "delete" /\ left = Now(t).left \ gone /\ gone \subseteq Now(t).left,
         \A s \in gone \cap Strongs : ref[s] = NoObject,
         \A x \in Objects : weaks'[x] = weaks[x] \ gone
  PROVE  Inv'
  <1>1. TypeOK /\ Now(t).op \in Ends
    BY DEF Inv, Ends
  <1>2. /\ \A u \in Threads \ {t} : todo'[u] = todo[u]
        /\ \A u \in Threads \ {t} : \A name : Of(u, name)' = Of(u, name)
        /\ Of(t, "check")' = {}
        /\ Of(t, "delete")' = RestOf(t, "delete") \cup {Delete(o, left)}
        /\ \A name : name \notin Ends => Of(t, name)' = Of(t, name)
        /\ (\A u \in Threads : Shape(todo[u]))'
        /\ OneThread(layout) => TestsOnTop(todo'[t])
    BY <1>1, DeletePushed
  <1>3. Delete(o, left).obj = o /\ Delete(o, left).left = left
    BY OpsAre
  <1>4. /\ Now(t).op = "check" => Of(t, "check") = {Now(t)} /\ Of(t, "delete") = RestOf(t, "delete")
        /\ Now(t).op = "delete" => Of(t, "check") = {}
                                   /\ Of(t, "delete") = RestOf(t, "delete") \cup {Now(t)}
    BY ShortNames, OfFirst
  <1>5. /\ \A u \in Threads : \A x : /\ Ending(u, x)' <=> Ending(u, x)
                                     /\ \A name : name \notin Ends =>
                                          (Pending(u, name, x)' <=> Pending(u, name, x))
        /\ \A u \in Threads : \A s : /\ Setting(u, s)' <=> Setting(u, s)
                                     /\ Unlinked(u, s)' <=> Unlinked(u, s)
    <2>1. \A u \in Threads \ {t} :
            /\ \A x : /\ Ending(u, x)' <=> Ending(u, x)
                      /\ \A name : Pending(u, name, x)' <=> Pending(u, name, x)
            /\ \A s : /\ Setting(u, s)' <=> Setting(u, s)
                      /\ Unlinked(u, s)' <=> Unlinked(u, s)
      BY <1>2, Others
    <2>2. \A x, name : name \notin Ends => (Pending(t, name, x)' <=> Pending(t, name, x))
      BY <1>2 DEF Pending
    <2>3. \A s : /\ Setting(t, s)' <=> Setting(t, s)
                 /\ Unlinked(t, s)' <=> Unlinked(t, s)
      <3>1. Of(t, "store")' = Of(t, "store") /\ Of(t, "drop")' = Of(t, "drop")
        BY <1>2 DEF Ends
      <3>2. QED
        BY <3>1 DEF Setting, Unlinked
    <2>4. \A x : Ending(t, x)' <=> Ending(t, x)
      <3>1. \A x : Ending(t, x) <=> x = o \/ \E e \in RestOf(t, "delete") : e.obj = x
        BY <1>1, <1>4 DEF Ending, Pending, Ends
      <3>2. \A x : Ending(t, x)' <=> x = o \/ \E e \in RestOf(t, "delete") : e.obj = x
        BY <1>2, <1>3 DEF Ending, Pending
      <3>3. QED
        BY <3>1, <3>2
    <2>5. \A u \in Threads : \A x : Ending(u, x)' <=> Ending(u, x)
      BY <2>1, <2>4
    <2>6. \A u \in Threads : \A x, name :
            name \notin Ends => (Pending(u, name, x)' <=> Pending(u, name, x))
      <3>1. ASSUME NEW u \in Threads, NEW x, NEW name, name \notin Ends
            PROVE  Pending(u, name, x)' <=> Pending(u, name, x)
        <4>1. CASE u = t
          BY <2>2, <3>1, <4>1
        <4>2. CASE u # t
          <5>1. u \in Threads \ {t}
            BY <4>2
          <5>2. QED
            BY <2>1, <5>1
        <4>3. QED
          BY <4>1, <4>2
      <3>2. QED
        BY <3>1
    <2>7. \A u \in Threads : \A s : /\ Setting(u, s)' <=> Setting(u, s)
                                    /\ Unlinked(u, s)' <=> Unlinked(u, s)
      BY <2>1, <2>3
    <2>8. QED
      BY <2>5, <2>6, <2>7
  <1>6. \A s \in Slots : Taken(s)' <=> Taken(s) \/ s \in gone
    <2>1. TAKE s \in Slots
    <2>2. (\E u \in Threads \ {t} : \E e \in Of(u, "delete") : e.obj = Owner[s] /\ s \notin e.left)' <=>
          (\E u \in Threads \ {t} : \E e \in Of(u, "delete") : e.obj = Owner[s] /\ s \notin e.left)
      BY <1>2 DEF Owner
    <2>3. (\E e \in Of(t, "delete") : e.obj = Owner[s] /\ s \notin e.left)' <=>
            \/ \E e \in RestOf(t, "delete") : e.obj = Owner[s] /\ s \notin e.left
            \/ o = Owner[s] /\ s \notin left
      BY <1>2, <1>3 DEF Owner
    <2>4. CASE Now(t).op = "check"
      <3>1. o = Owner[s] => s \in left
        BY <2>4 DEF Members
      <3>2. QED
        BY <1>4, <2>2, <2>3, <2>4, <3>1 DEF Taken
    <2>5. CASE Now(t).op = "delete"
      <3>1. (\E e \in Of(t, "delete") : e.obj = Owner[s] /\ s \notin e.left) <=>
              \/ \E e \in RestOf(t, "delete") : e.obj = Owner[s] /\ s \notin e.left
              \/ o = Owner[s] /\ s \notin Now(t).left
        BY <1>4, <2>5
      <3>2. s \notin left <=> s \notin Now(t).left \/ s \in gone
        BY <2>5
      <3>3. s \in gone => o = Owner[s]
        <4>1. Now(t).left \subseteq Members(o)
          BY <2>5, Under
        <4>2. QED
          BY <2>5, <4>1 DEF Members
      <3>4. QED
        BY <2>2, <2>3, <3>1, <3>2, <3>3 DEF Taken
    <2>6. QED
      BY <2>4, <2>5
  <1>7. \A x \in Objects : Doomed(x)' <=> Doomed(x)
    BY <1>5 DEF Doomed, InQueue
  <1>8. Counted'
    <2>1. \A x \in Objects : Held(x)' = Held(x)
      <3>1. \A s \in Strongs, x \in Objects : ref[s] = x => s \notin gone
        BY ObjectsAssumption
      <3>2. \A s \in Strongs : Taken(s)' <=> Taken(s) \/ s \in gone
        BY <1>6 DEF Slots
      <3>3. QED
        BY <1>5, <3>1, <3>2 DEF Held
    <2>2. \A x : Leaving(x)' = Leaving(x)
      <3>1. \A u \in Threads : \A x : Pending(u, "dec", x)' <=> Pending(u, "dec", x)
        BY <1>5 DEF Ends
      <3>2. QED
        BY <3>1 DEF Leaving
    <2>3. \A x : Arriving(x)' = Arriving(x)
      <3>1. \A u \in Threads : Of(u, "retain")' = Of(u, "retain")
        BY <1>2 DEF Ends
      <3>2. \A u \in Threads : \A x : Pending(u, "store", x)' <=> Pending(u, "store", x)
        BY <1>5 DEF Ends
      <3>3. QED
        BY <3>1, <3>2 DEF Arriving
    <2>4. QED
      BY <2>1, <2>2, <2>3 DEF Inv, Counted
  <1>9. \A u \in Threads : \A x : /\ Pending(u, "retain", x)' <=> Pending(u, "retain", x)
                                  /\ Pending(u, "test", x)' <=> Pending(u, "test", x)
                                  /\ Pending(u, "dec", x)' <=> Pending(u, "dec", x)
                                  /\ Pending(u, "store", x)' <=> Pending(u, "store", x)
    BY <1>5 DEF Ends
  <1>10. GoneForgotten' /\ NobodyLost'
    <2>1. ASSUME NEW x \in Objects, Doomed(x)' \/ life'[x] # "live"
          PROVE  /\ count'[x] = 0 /\ weaks'[x] = {}
                 /\ \A u \in Threads : ~ Pending(u, "retain", x)' /\ ~ Pending(u, "test", x)'
      <3>1. Doomed(x) \/ life[x] # "live"
        BY <1>7, <2>1
      <3>2. /\ count[x] = 0 /\ weaks[x] = {}
            /\ \A u \in Threads : ~ Pending(u, "retain", x) /\ ~ Pending(u, "test", x)
        BY <3>1 DEF Inv, GoneForgotten
      <3>3. QED
        BY <1>9, <3>2
    <2>2. GoneForgotten'
      BY <2>1 DEF GoneForgotten
    <2>3. NobodyLost'
      BY <1>7, <1>9 DEF Inv, NobodyLost
    <2>4. QED
      BY <2>2, <2>3
  <1>11. DoomedLive' /\ EndsOnce' /\ UnbornUnknown'
    BY <1>5, <1>7 DEF Inv, DoomedLive, EndsOnce, UnbornUnknown, InQueue
  <1>12. QueueDrained'
    <2>1. \A u \in Threads : Of(u, "drain")' = Of(u, "drain")
      BY <1>2 DEF Ends
    <2>2. QED
      BY <2>1 DEF Inv, QueueDrained
  <1>13. SettersKeep'
    BY <1>5 DEF Inv, SettersKeep, Owner
  <1>14. Registered'
    <2>1. ASSUME NEW x \in Objects, NEW r \in weaks'[x]
          PROVE  /\ ref'[r] = x /\ ~ Taken(r)'
                 /\ Owner'[r] \in Objects => life'[Owner'[r]] = "live"
      <3>1. r \in weaks[x] /\ r \notin gone /\ r \in Slots
        BY <1>1, <2>1 DEF TypeOK, Slots
      <3>2. QED
        BY <1>6, <3>1 DEF Inv, Registered, Owner
    <2>2. ASSUME NEW r \in Weaks, ref'[r] # NoObject, ~ Taken(r)'
          PROVE  r \in weaks'[ref'[r]]
      <3>1. r \notin gone /\ ~ Taken(r) /\ r \in Slots
        BY <1>6, <2>2 DEF Slots
      <3>2. r \in weaks[ref[r]] /\ ref[r] \in Objects
        BY <1>1, <2>2, <3>1, Owners DEF Inv, Registered
      <3>3. QED
        BY <3>1, <3>2
    <2>3. QED
      BY <2>1, <2>2 DEF Registered
  <1>15. OneHome'
    <2>1. \A u \in Threads : \A x : Mentions(u, x)' => Mentions(u, x)
      BY <1>9 DEF Mentions, Owner
    <2>2. QED
      BY <2>1 DEF Inv, OneHome
  <1>16. Undisturbed'
    <2>1. ~ At(t, "drain")
      BY <1>1 DEF At, Now, Ends
    <2>2. OneThread(layout) => \E s \in Slots : Owner[s] = t
      BY BusyOwns
    <2>3. QED
      BY <1>2, <2>1, <2>2, Quiet
  <1>17. QED
    BY <1>2, <1>8, <1>10, <1>11, <1>12, <1>13, <1>14, <1>15, <1>16 DEF Inv

\* The check finds the count of an object that is still allocated, and nobody
\* has retained it.
LEMMA CheckKeeps ==
  ASSUME Safe, Inv, UNCHANGED layout, NEW t \in Threads, DoCheck(t),
         NEW o, o = Now(t).obj
  PROVE  Inv'
  <1>1. /\ todo[t] # <<>> /\ Now(t).op = "check"
        /\ \E n \in CountRead(o) : Then(t, IF n = 0 THEN <<Delete(o, Members(o))>> ELSE <<>>)
        /\ UNCHANGED <<life, count, ref, weaks, queue>>
    BY DEF DoCheck, At, Now
  <1>2. TypeOK /\ TypeOK' /\ Now(t) \in Ops /\ o \in Objects
    <2>1. TypeOK /\ TypeOK' /\ Now(t) \in Ops
      BY <1>1, OfFirst, StepType DEF Inv, Step
    <2>2. QED
      BY <1>1, <2>1, ObjectOpFields
  <1>3. Doomed(o)
    <2>1. Of(t, "check") = {Now(t)}
      BY <1>1, ShortNames
    <2>2. Pending(t, "check", o)
      BY <2>1 DEF Pending
    <2>3. QED
      BY <2>2 DEF Doomed, Ending
  <1>4. life[o] = "live" /\ count[o] = 0
    BY <1>2, <1>3 DEF Inv, DoomedLive, GoneForgotten
  <1>5. Then(t, <<Delete(o, Members(o))>>)
    BY <1>1, <1>4 DEF CountRead
  <1>6. Members(o) \in SUBSET Members(o) /\ {} \in SUBSET Slots
    OBVIOUS
  <1>7. \A x \in Objects : weaks'[x] = weaks[x] \ {}
    BY <1>1
  <1>8. QED
    BY <1>1, <1>2, <1>5, <1>6, <1>7, DeleteKeeps

\* ~Weak() of a member.
LEMMA WeakMemberKeeps ==
  ASSUME Safe, Inv, UNCHANGED layout, NEW t \in Threads, At(t, "delete"), Step(t),
         NEW o, o = Now(t).obj, NEW r \in Now(t).left, WeakMember(t, o, Now(t).left, r)
  PROVE  Inv'
  <1>1. /\ todo[t] # <<>> /\ Now(t).op = "delete" /\ r \in Weaks
        /\ weaks' = Unregister(weaks, ref[r], r)
        /\ Then(t, <<Delete(o, Now(t).left \ {r})>>)
        /\ UNCHANGED <<life, count, ref, queue>>
    BY DEF WeakMember, At, Now
  <1>2. TypeOK /\ TypeOK' /\ Now(t) \in Ops /\ o \in Objects /\ Now(t).left \subseteq Members(o)
    <2>1. TypeOK /\ TypeOK' /\ Now(t) \in Ops
      BY <1>1, OfFirst, StepType DEF Inv
    <2>2. QED
      BY <1>1, <2>1, DeleteFields, Under
  <1>3. r \in Slots /\ r \notin Strongs
    BY <1>1, SlotsAssumption DEF Slots
  <1>4. \A x \in Objects : weaks'[x] = weaks[x] \ {r}
    <2>1. TAKE x \in Objects
    <2>2. r \in weaks[x] => ref[r] = x
      BY DEF Inv, Registered
    <2>3. weaks'[x] = IF ref[r] = x THEN weaks[x] \ {r} ELSE weaks[x]
      <3>1. CASE ref[r] = NoObject
        BY <1>1, <3>1, ObjectsAssumption DEF Unregister
      <3>2. CASE ref[r] # NoObject
        BY <1>1, <1>2, <3>2 DEF Unregister, TypeOK
      <3>3. QED
        BY <3>1, <3>2
    <2>4. QED
      BY <2>2, <2>3
  <1> DEFINE left == Now(t).left \ {r}
             gone == {r}
  <1>5. left \in SUBSET Members(o) /\ gone \in SUBSET Slots /\ left = Now(t).left \ gone
        /\ gone \subseteq Now(t).left /\ gone \cap Strongs = {}
    BY <1>2, <1>3
  <1>6. /\ Then(t, <<Delete(o, left)>>)
        /\ \A x \in Objects : weaks'[x] = weaks[x] \ gone
    BY <1>1, <1>4
  <1> HIDE DEF left, gone
  <1>7. QED
    BY <1>1, <1>2, <1>5, <1>6, DeleteKeeps

\* ~Strong() of a member that is null.
LEMMA NullMemberKeeps ==
  ASSUME Safe, Inv, UNCHANGED layout, NEW t \in Threads, At(t, "delete"), Step(t),
         NEW o, o = Now(t).obj, NEW s \in Now(t).left, StrongMember(t, o, Now(t).left, s),
         ref[s] = NoObject
  PROVE  Inv'
  <1> DEFINE left == Now(t).left \ {s}
             gone == {s}
             ops == <<Delete(o, left)>>
  <1>1. /\ todo[t] # <<>> /\ Now(t).op = "delete" /\ s \in Strongs
        /\ Then(t, <<>> \o ops)
        /\ UNCHANGED <<life, count, ref, weaks, queue>>
    BY DEF StrongMember, At, Now
  <1>2. TypeOK /\ TypeOK' /\ Now(t) \in Ops /\ o \in Objects /\ Now(t).left \subseteq Members(o)
    <2>1. TypeOK /\ TypeOK' /\ Now(t) \in Ops
      BY <1>1, OfFirst, StepType DEF Inv
    <2>2. QED
      BY <1>1, <2>1, DeleteFields, Under
  <1>3. Then(t, ops)
    <2>1. ops \in Seq({Delete(o, left)})
      OBVIOUS
    <2> HIDE DEF ops
    <2>2. <<>> \o ops = ops
      BY <2>1
    <2>3. QED
      BY <1>1, <2>2
  <1>4. s \in Slots /\ s \notin Weaks
    BY <1>1, SlotsAssumption DEF Slots
  <1>5. left \in SUBSET Members(o) /\ gone \in SUBSET Slots /\ left = Now(t).left \ gone
        /\ gone \subseteq Now(t).left /\ \A q \in gone \cap Strongs : ref[q] = NoObject
    BY <1>2, <1>4
  <1>6. \A x \in Objects : weaks'[x] = weaks[x] \ gone
    BY <1>1, <1>2, <1>4 DEF TypeOK
  <1>7. Then(t, <<Delete(o, left)>>)
    BY <1>3
  <1> HIDE DEF left, gone, ops
  <1>8. QED
    BY <1>1, <1>2, <1>5, <1>6, <1>7, DeleteKeeps

\* ~Object(): the memory is gone, and with it the pointers in it, all of them
\* destroyed before.
LEMMA DeallocKeeps ==
  ASSUME Safe, Inv, UNCHANGED layout, NEW t \in Threads, At(t, "delete"), Step(t),
         NEW o, o = Now(t).obj, Now(t).left = {},
         life' = [life EXCEPT ![o] = "dead"],
         ref' = [s \in Slots |-> IF Owner[s] = o THEN NoObject ELSE ref[s]],
         Then(t, <<>>), UNCHANGED <<count, weaks, queue>>
  PROVE  Inv'
  <1>1. todo[t] # <<>> /\ Now(t).op = "delete"
    BY DEF At, Now
  <1>2. TypeOK /\ TypeOK' /\ Now(t) \in Ops /\ o \in Objects
    <2>1. TypeOK /\ TypeOK' /\ Now(t) \in Ops
      BY <1>1, OfFirst, StepType DEF Inv
    <2>2. QED
      BY <1>1, <2>1, DeleteFields
  <1>3. /\ Of(t, "delete")' = RestOf(t, "delete")
        /\ Of(t, "delete") = RestOf(t, "delete") \cup {Now(t)}
        /\ \A name : name # "delete" => Of(t, name)' = Of(t, name)
        /\ \A u \in Threads \ {t} : \A name : Of(u, name)' = Of(u, name)
        /\ \A u \in Threads \ {t} : todo'[u] = todo[u]
        /\ Of(t, "check") = {} /\ \A e \in RestOf(t, "delete") : e.obj # o
    BY <1>1, TailStep, ShortNames, OfFirst, Under DEF Ends
  <1>4. Pending(t, "delete", o) /\ Ending(t, o) /\ Doomed(o)
    <2>1. Pending(t, "delete", o)
      BY <1>3 DEF Pending
    <2>2. QED
      BY <2>1 DEF Ending, Doomed
  <1>5. /\ ~ InQueue(o) /\ \A u \in Threads : Ending(u, o) => u = t
        /\ life[o] = "live" /\ count[o] = 0 /\ weaks[o] = {}
        /\ \A u \in Threads : ~ Pending(u, "retain", o) /\ ~ Pending(u, "test", o)
    BY <1>2, <1>4 DEF Inv, EndsOnce, DoomedLive, GoneForgotten
  <1>6. /\ \A u \in Threads : \A x : Ending(u, x)' <=> Ending(u, x) /\ x # o
        /\ \A u \in Threads : \A x, name : name # "delete" =>
             (Pending(u, name, x)' <=> Pending(u, name, x))
        /\ \A u \in Threads : \A s : /\ Setting(u, s)' <=> Setting(u, s)
                                     /\ Unlinked(u, s)' <=> Unlinked(u, s)
    <2>1. \A u \in Threads \ {t} :
            /\ \A x : /\ Ending(u, x)' <=> Ending(u, x)
                      /\ \A name : Pending(u, name, x)' <=> Pending(u, name, x)
            /\ \A s : /\ Setting(u, s)' <=> Setting(u, s)
                      /\ Unlinked(u, s)' <=> Unlinked(u, s)
      BY <1>3, Others
    <2>2. \A x, name : name # "delete" => (Pending(t, name, x)' <=> Pending(t, name, x))
      BY <1>3 DEF Pending
    <2>3. \A s : /\ Setting(t, s)' <=> Setting(t, s)
                 /\ Unlinked(t, s)' <=> Unlinked(t, s)
      BY <1>3 DEF Setting, Unlinked
    <2>4. \A x : Ending(t, x)' <=> Ending(t, x) /\ x # o
      <3>1. \A x : ~ Pending(t, "check", x) /\ ~ Pending(t, "check", x)'
        BY <1>3 DEF Pending
      <3>2. \A x : Pending(t, "delete", x)' <=> Pending(t, "delete", x) /\ x # o
        BY <1>3 DEF Pending
      <3>3. QED
        BY <3>1, <3>2 DEF Ending
    <2>5. \A u \in Threads : \A x : Ending(u, x)' <=> Ending(u, x) /\ x # o
      BY <1>5, <2>1, <2>4
    <2>6. \A u \in Threads : \A x, name : name # "delete" =>
            (Pending(u, name, x)' <=> Pending(u, name, x))
      <3>1. ASSUME NEW u \in Threads, NEW x, NEW name, name # "delete"
            PROVE  Pending(u, name, x)' <=> Pending(u, name, x)
        <4>1. CASE u = t
          BY <2>2, <3>1, <4>1
        <4>2. CASE u # t
          <5>1. u \in Threads \ {t}
            BY <4>2
          <5>2. QED
            BY <2>1, <5>1
        <4>3. QED
          BY <4>1, <4>2
      <3>2. QED
        BY <3>1
    <2>7. QED
      BY <2>1, <2>3, <2>5, <2>6
  <1>7. \A s \in Slots : /\ Owner[s] = o => Taken(s) /\ ~ Taken(s)'
                         /\ Owner[s] # o => (Taken(s)' <=> Taken(s))
    <2>1. TAKE s \in Slots
    <2>2. (\E u \in Threads \ {t} : \E e \in Of(u, "delete") : e.obj = Owner[s] /\ s \notin e.left)' <=>
          (\E u \in Threads \ {t} : \E e \in Of(u, "delete") : e.obj = Owner[s] /\ s \notin e.left)
      BY <1>3 DEF Owner
    <2>3. CASE Owner[s] = o
      <3>1. Taken(s)
        BY <1>3, <2>3 DEF Taken
      <3>2. \A u \in Threads : ~ Pending(u, "delete", o)'
        BY <1>6 DEF Ending
      <3>3. ~ Taken(s)'
        BY <2>3, <3>2 DEF Taken, Pending, Owner
      <3>4. QED
        BY <2>3, <3>1, <3>3
    <2>4. CASE Owner[s] # o
      <3>1. (\E e \in Of(t, "delete") : e.obj = Owner[s] /\ s \notin e.left)' <=>
            (\E e \in Of(t, "delete") : e.obj = Owner[s] /\ s \notin e.left)
        BY <1>3, <2>4 DEF Owner
      <3>2. QED
        BY <2>2, <2>4, <3>1 DEF Taken
    <2>5. QED
      BY <2>3, <2>4
  <1>8. /\ \A s \in Slots : ref'[s] = IF Owner[s] = o THEN NoObject ELSE ref[s]
        /\ \A s \in Slots, x \in Objects : ref'[s] = x => ref[s] = x /\ Owner[s] # o
    BY <1>2, ObjectsAssumption
  <1>9. /\ life'[o] = "dead" /\ \A x \in Objects \ {o} : life'[x] = life[x]
    BY <1>2 DEF TypeOK
  <1>10. \A x \in Objects : Doomed(x)' <=> Doomed(x) /\ x # o
    BY <1>5, <1>6 DEF Doomed, InQueue
  <1>11. Counted'
    <2>1. \A x \in Objects : Held(x)' = Held(x)
      <3>1. ASSUME NEW x \in Objects, NEW s \in Strongs
            PROVE  (ref'[s] = x /\ ~ Taken(s)') <=> (ref[s] = x /\ ~ Taken(s))
        BY <1>7, <1>8, Owners DEF Slots
      <3>2. QED
        BY <1>6, <3>1 DEF Held
    <2>2. \A x : Leaving(x)' = Leaving(x)
      <3>1. \A u \in Threads : \A x : Pending(u, "dec", x)' <=> Pending(u, "dec", x)
        BY <1>6
      <3>2. QED
        BY <3>1 DEF Leaving
    <2>3. \A x : Arriving(x)' = Arriving(x)
      <3>1. \A u \in Threads : Of(u, "retain")' = Of(u, "retain")
        BY <1>3
      <3>2. \A u \in Threads : \A x : Pending(u, "store", x)' <=> Pending(u, "store", x)
        BY <1>6
      <3>3. QED
        BY <3>1, <3>2 DEF Arriving
    <2>4. QED
      BY <2>1, <2>2, <2>3 DEF Inv, Counted
  <1>12. \A u \in Threads : \A x : /\ Pending(u, "retain", x)' <=> Pending(u, "retain", x)
                                   /\ Pending(u, "test", x)' <=> Pending(u, "test", x)
                                   /\ Pending(u, "dec", x)' <=> Pending(u, "dec", x)
                                   /\ Pending(u, "store", x)' <=> Pending(u, "store", x)
    BY <1>6
  <1>13. GoneForgotten'
    <2>1. ASSUME NEW x \in Objects, Doomed(x)' \/ life'[x] # "live"
          PROVE  /\ count'[x] = 0 /\ weaks'[x] = {}
                 /\ \A u \in Threads : ~ Pending(u, "retain", x)' /\ ~ Pending(u, "test", x)'
      <3>1. CASE x = o
        BY <1>5, <1>12, <3>1
      <3>2. CASE x # o
        <4>1. Doomed(x) \/ life[x] # "live"
          BY <1>9, <1>10, <2>1, <3>2
        <4>2. /\ count[x] = 0 /\ weaks[x] = {}
              /\ \A u \in Threads : ~ Pending(u, "retain", x) /\ ~ Pending(u, "test", x)
          BY <4>1 DEF Inv, GoneForgotten
        <4>3. QED
          BY <1>12, <4>2
      <3>3. QED
        BY <3>1, <3>2
    <2>2. QED
      BY <2>1 DEF GoneForgotten
  <1>14. DoomedLive' /\ EndsOnce'
    <2>1. DoomedLive'
      BY <1>9, <1>10 DEF Inv, DoomedLive
    <2>2. EndsOnce'
      BY <1>6 DEF Inv, EndsOnce, InQueue
    <2>3. QED
      BY <2>1, <2>2
  <1>15. UnbornUnknown' /\ NobodyLost'
    <2>1. UnbornUnknown'
      BY <1>8, <1>9 DEF Inv, UnbornUnknown
    <2>2. NobodyLost'
      BY <1>9, <1>10, <1>12 DEF Inv, NobodyLost
    <2>3. QED
      BY <2>1, <2>2
  <1>16. QueueDrained'
    <2>1. \A u \in Threads : Of(u, "drain")' = Of(u, "drain")
      BY <1>3
    <2>2. QED
      BY <2>1 DEF Inv, QueueDrained
  <1>17. SettersKeep'
    <2>1. \A u \in Threads, q \in Strongs : Owner[q] = u => ref'[q] = ref[q]
      BY <1>2, <1>8, Owners DEF Slots
    <2>2. QED
      BY <1>6, <2>1 DEF Inv, SettersKeep, Owner
  <1>18. Registered'
    <2>1. ASSUME NEW x \in Objects, NEW r \in weaks'[x]
          PROVE  /\ ref'[r] = x /\ ~ Taken(r)'
                 /\ Owner'[r] \in Objects => life'[Owner'[r]] = "live"
      <3>1. /\ ref[r] = x /\ ~ Taken(r) /\ (Owner[r] \in Objects => life[Owner[r]] = "live")
        BY <2>1 DEF Inv, Registered
      <3>2. r \in Slots
        BY <1>2, <2>1 DEF TypeOK, Slots
      <3>3. Owner[r] # o
        BY <1>7, <3>1, <3>2
      <3>4. QED
        BY <1>7, <1>8, <1>9, <3>1, <3>2, <3>3 DEF Owner
    <2>2. ASSUME NEW r \in Weaks, ref'[r] # NoObject, ~ Taken(r)'
          PROVE  r \in weaks'[ref'[r]]
      <3>1. r \in Slots /\ Owner[r] # o /\ ref'[r] = ref[r]
        BY <1>8, <2>2 DEF Slots
      <3>2. ~ Taken(r)
        BY <1>7, <2>2, <3>1
      <3>3. QED
        BY <2>2, <3>1, <3>2 DEF Inv, Registered
    <2>3. QED
      BY <2>1, <2>2 DEF Registered
  <1>19. OneHome'
    <2>1. \A u \in Threads, x \in Objects : Mentions(u, x)' => Mentions(u, x)
      BY <1>8, <1>12 DEF Mentions, Owner
    <2>2. QED
      BY <2>1 DEF Inv, OneHome
  <1>20. Undisturbed'
    <2>1. ~ At(t, "drain")
      BY <1>1 DEF At, Now
    <2>2. OneThread(layout) => TestsOnTop(todo'[t]) /\ \E s \in Slots : Owner[s] = t
      BY <1>1, TailStep, BusyOwns
    <2>3. QED
      BY <1>3, <2>1, <2>2, Quiet
  <1>21. (\A u \in Threads : Shape(todo[u]))'
    BY <1>1, TailStep
  <1>22. QED
    BY <1>2, <1>11, <1>13, <1>14, <1>15, <1>16, <1>17, <1>18, <1>19, <1>20, <1>21 DEF Inv

\* A release() takes the place of the Strong in what counts y.
LEMMA UnlinkKeeps ==
  ASSUME Safe, Inv, TypeOK', UNCHANGED <<layout, life, count, ref, weaks, queue>>,
         NEW t \in Threads, todo[t] # <<>>, ~ At(t, "drain"),
         NEW y \in Objects, NEW s \in Strongs, s \in Held(y),
         (\A u \in Threads : Shape(todo[u]))',
         OneThread(layout) => TestsOnTop(todo'[t]),
         OneThread(layout) \/ Owner[s] = t,
         \A u \in Threads \ {t} : todo'[u] = todo[u],
         \A u \in Threads \ {t} : \A name : Of(u, name)' = Of(u, name),
         Of(t, "dec") = {}, Of(t, "retain") = {}, Of(t, "retain")' = {},
         Of(t, "store")' = Of(t, "store"), Of(t, "drain")' # {},
         \A x : /\ Pending(t, "dec", x)' <=> x = y
                /\ Pending(t, "test", x)' <=> Pending(t, "test", x) \/ x = y
                /\ Ending(t, x)' <=> Ending(t, x),
         \A q \in Strongs : (~ Taken(q)' /\ ~ Unlinked(t, q)') <=>
                            (~ Taken(q) /\ ~ Unlinked(t, q) /\ q # s),
         \A r \in Weaks : Taken(r)' <=> Taken(r)
  PROVE  Inv'
  <1>1. TypeOK
    BY DEF Inv
  <1>2. count[y] > 0 /\ ~ Doomed(y) /\ life[y] = "live"
    BY CountedStays
  <1>3. \A u \in Threads \ {t} :
            /\ \A x : /\ Ending(u, x)' <=> Ending(u, x)
                      /\ \A name : Pending(u, name, x)' <=> Pending(u, name, x)
            /\ \A q : /\ Setting(u, q)' <=> Setting(u, q)
                      /\ Unlinked(u, q)' <=> Unlinked(u, q)
    BY Others
  <1>4. /\ \A x : Pending(t, "store", x)' <=> Pending(t, "store", x)
        /\ \A q : Setting(t, q)' <=> Setting(t, q)
        /\ \A x : ~ Pending(t, "retain", x) /\ ~ Pending(t, "retain", x)' /\ ~ Pending(t, "dec", x)
    BY DEF Pending, Setting
  <1>5. /\ \A u \in Threads : \A x : /\ Ending(u, x)' <=> Ending(u, x)
                                     /\ Pending(u, "retain", x)' <=> Pending(u, "retain", x)
                                     /\ Pending(u, "store", x)' <=> Pending(u, "store", x)
                                     /\ Pending(u, "dec", x)' <=> Pending(u, "dec", x) \/ (u = t /\ x = y)
                                     /\ Pending(u, "test", x)' <=> Pending(u, "test", x) \/ (u = t /\ x = y)
        /\ \A u \in Threads : \A q : Setting(u, q)' <=> Setting(u, q)
    BY <1>3, <1>4
  <1>6. \A x \in Objects : Doomed(x)' <=> Doomed(x)
    BY <1>5 DEF Doomed, InQueue
  <1>7. Counted'
    <2>1. \A x : Held(x)' = Held(x) \ {s}
      <3>1. \A q \in Strongs :
              (~ Taken(q)' /\ \A u \in Threads : ~ Unlinked(u, q)') <=>
              (~ Taken(q) /\ (\A u \in Threads : ~ Unlinked(u, q)) /\ q # s)
        BY <1>3
      <3>2. ASSUME NEW x PROVE Held(x)' = Held(x) \ {s}
        BY <3>1 DEF Held
      <3>3. QED
        BY <3>2
    <2>2. \A x : x # y => Held(x)' = Held(x)
      <3>1. \A x : x # y => s \notin Held(x)
        BY DEF Held
      <3>2. QED
        BY <2>1, <3>1
    <2>3. t \notin Leaving(y) /\ Leaving(y)' = Leaving(y) \cup {t}
          /\ \A x : x # y => Leaving(x)' = Leaving(x)
      <3>1. t \notin Leaving(y)
        BY <1>4 DEF Leaving
      <3>2. \A u \in Threads : \A x : u \in Leaving(x)' <=> u \in Leaving(x) \/ (u = t /\ x = y)
        BY <1>5 DEF Leaving
      <3>3. \A x : Leaving(x) \subseteq Threads /\ Leaving(x)' \subseteq Threads
        BY DEF Leaving
      <3>4. Leaving(y)' = Leaving(y) \cup {t}
        BY <3>2, <3>3
      <3>5. ASSUME NEW x, x # y PROVE Leaving(x)' = Leaving(x)
        <4>1. \A u \in Threads : u \in Leaving(x)' <=> u \in Leaving(x)
          BY <3>2, <3>5
        <4>2. Leaving(x) \subseteq Threads /\ Leaving(x)' \subseteq Threads
          BY <3>3
        <4>3. QED
          BY <4>1, <4>2
      <3>6. QED
        BY <3>1, <3>4, <3>5
    <2>4. \A x : Arriving(x)' = Arriving(x)
      <3>1. \A u \in Threads : Of(u, "retain")' = Of(u, "retain")
        OBVIOUS
      <3>2. \A u \in Threads : \A x : Pending(u, "store", x)' <=> Pending(u, "store", x)
        BY <1>5
      <3>3. QED
        BY <3>1, <3>2 DEF Arriving
    <2>5. /\ Cardinality(Held(y)') = Cardinality(Held(y)) - 1
          /\ Cardinality(Leaving(y)') = Cardinality(Leaving(y)) + 1
          /\ Cardinality(Held(y)) \in Nat /\ Cardinality(Leaving(y)) \in Nat
          /\ Cardinality(Arriving(y)) \in Nat
      BY <2>1, <2>3, FewCount, Cards
    <2>6. \A x \in Objects : count[x] = Cardinality(Held(x)) + Cardinality(Arriving(x))
                                        + Cardinality(Leaving(x))
      BY DEF Inv, Counted
    <2>7. \A x \in Objects : count'[x] = Cardinality(Held(x)') + Cardinality(Arriving(x)')
                                         + Cardinality(Leaving(x)')
      <3>1. TAKE x \in Objects
      <3>2. CASE x = y
        <4>1. /\ count[y] = Cardinality(Held(y)) + Cardinality(Arriving(y))
                            + Cardinality(Leaving(y))
              /\ Arriving(y)' = Arriving(y) /\ count' = count
          BY <2>4, <2>6
        <4>2. count'[y] = Cardinality(Held(y)') + Cardinality(Arriving(y)')
                          + Cardinality(Leaving(y)')
          BY <2>5, <4>1
        <4>3. QED
          BY <3>2, <4>2
      <3>3. CASE x # y
        BY <2>2, <2>3, <2>4, <2>6, <3>3
      <3>4. QED
        BY <3>2, <3>3
    <2>8. QED
      BY <2>7 DEF Counted
  <1>8. GoneForgotten' /\ NobodyLost'
    <2>1. ASSUME NEW x \in Objects, Doomed(x)' \/ life'[x] # "live"
          PROVE  /\ count'[x] = 0 /\ weaks'[x] = {}
                 /\ \A u \in Threads : ~ Pending(u, "retain", x)' /\ ~ Pending(u, "test", x)'
      <3>1. Doomed(x) \/ life[x] # "live"
        BY <1>6, <2>1
      <3>2. /\ count[x] = 0 /\ weaks[x] = {}
            /\ \A u \in Threads : ~ Pending(u, "retain", x) /\ ~ Pending(u, "test", x)
        BY <3>1 DEF Inv, GoneForgotten
      <3>3. x # y
        BY <1>2, <3>1
      <3>4. QED
        BY <1>5, <3>2, <3>3
    <2>2. GoneForgotten'
      BY <2>1 DEF GoneForgotten
    <2>3. NobodyLost'
      BY <1>5, <1>6 DEF Inv, NobodyLost
    <2>4. QED
      BY <2>2, <2>3
  <1>9. DoomedLive' /\ EndsOnce' /\ UnbornUnknown'
    BY <1>5, <1>6 DEF Inv, DoomedLive, EndsOnce, UnbornUnknown, InQueue
  <1>10. QueueDrained'
    BY DEF QueueDrained
  <1>11. SettersKeep' /\ Registered'
    <2>1. SettersKeep'
      BY <1>5 DEF Inv, SettersKeep, Owner
    <2>2. \A x \in Objects : weaks[x] \subseteq Weaks
      BY <1>1 DEF TypeOK
    <2>3. Registered'
      BY <2>2 DEF Inv, Registered, Owner
    <2>4. QED
      BY <2>1, <2>3
  <1>12. OneHome'
    <2>1. \A u \in Threads : \A x : Mentions(u, x)' => Mentions(u, x) \/ (u = t /\ x = y)
      BY <1>5 DEF Mentions, Owner
    <2>2. \A u \in Threads : Mentions(u, y) => u = t
      <3>1. CASE Owner[s] = t
        <4>1. Mentions(t, y)
          BY <3>1 DEF Mentions, Held, Slots
        <4>2. QED
          BY <4>1 DEF Inv, OneHome
      <3>2. CASE OneThread(layout)
        <4>1. PICK q \in Slots : Owner[q] = t
          BY <3>2, BusyOwns
        <4>2. QED
          BY <3>2, <4>1, HomeOne
      <3>3. QED
        BY <3>1, <3>2
    <2>3. ASSUME NEW u \in Threads, NEW v \in Threads, NEW x \in Objects,
                 Mentions(u, x)', Mentions(v, x)'
          PROVE  u = v
      <3>1. CASE x = y
        BY <2>1, <2>2, <2>3, <3>1
      <3>2. CASE x # y
        <4>1. Mentions(u, x) /\ Mentions(v, x)
          BY <2>1, <2>3, <3>2
        <4>2. QED
          BY <4>1 DEF Inv, OneHome
      <3>3. QED
        BY <3>1, <3>2
    <2>4. QED
      BY <2>3 DEF OneHome
  <1>13. Undisturbed'
    <2>1. OneThread(layout) => \E q \in Slots : Owner[q] = t
      BY BusyOwns
    <2>2. QED
      BY <2>1, Quiet
  <1>14. QED
    BY <1>7, <1>8, <1>9, <1>10, <1>11, <1>12, <1>13 DEF Inv

\* ~Strong() of a member that points to y.
LEMMA StrongMemberKeeps ==
  ASSUME Safe, Inv, UNCHANGED layout, NEW t \in Threads, At(t, "delete"), Step(t),
         NEW o, o = Now(t).obj, NEW s \in Now(t).left, StrongMember(t, o, Now(t).left, s),
         NEW y, y = ref[s], y # NoObject
  PROVE  Inv'
  <1> DEFINE d == Delete(o, Now(t).left \ {s})
             rest == Tail(todo[t])
             q == <<d>> \o rest
             ops == Release(y) \o <<d>>
  <1>1. /\ todo[t] # <<>> /\ Now(t).op = "delete" /\ s \in Strongs
        /\ Then(t, ops)
        /\ UNCHANGED <<life, count, ref, weaks, queue>>
    BY DEF StrongMember, At, Now
  <1>2. TypeOK /\ TypeOK' /\ Now(t) \in Ops /\ o \in Objects /\ Now(t).left \subseteq Members(o)
    <2>1. TypeOK /\ TypeOK' /\ Now(t) \in Ops
      BY <1>1, OfFirst, StepType DEF Inv
    <2>2. QED
      BY <1>1, <2>1, DeleteFields, Under
  <1>3. y \in Objects /\ Owner[s] = o /\ OneThread(layout)
    <2>1. y \in Objects /\ Owner[s] = o
      BY <1>1, <1>2, Owners DEF Members
    <2>2. QED
      BY <1>1, <1>2, <2>1, Kinds DEF Slots
  <1>4. d \in Ops /\ d.op = "delete" /\ d.obj = o /\ d.left = Now(t).left \ {s}
    <2>1. Now(t).left \ {s} \in SUBSET Slots
      BY <1>2 DEF Members
    <2>2. d \in Ops
      BY <1>2, <2>1, DeleteType
    <2>3. QED
      BY <2>2 DEF Delete
  <1> HIDE DEF d
  <1>5. /\ todo[t] \in Seq(Ops) /\ Shape(todo[t]) /\ TestsOnTop(todo[t]) /\ rest \in Seq(Ops)
    BY <1>1, <1>3, OfFirst DEF Inv, TypeOK, Undisturbed
  <1>6. /\ Shape(rest) /\ Calm(rest) /\ NoTest(rest)
        /\ \A i \in DOMAIN rest : ~ (rest[i].op \in Ends /\ rest[i].obj = o)
    <2>1. Now(t).op \in Ends /\ Now(t) = Head(todo[t])
      BY <1>1 DEF Ends, Now
    <2>2. QED
      BY <1>1, <1>5, <2>1, TailShape, TopTail
  <1>7. Release(y) \in Seq(Ops) /\ <<d>> \in Seq(Ops) /\ ops \in Seq(Ops) /\ q \in Seq(Ops)
    BY <1>3, <1>4, <1>5, ReleaseType
  <1>8. El(ops) = {On("dec", y), Drain, On("test", y), d}
    <2>1. El(Release(y)) = {On("dec", y), Drain, On("test", y)}
      BY <1>3, ReleaseEls
    <2>2. \A a : El(<<a>>) = {a}
      BY ElsOf
    <2> DEFINE b == <<d>>
    <2>3. El(b) = {d} /\ b \in Seq(Ops)
      BY <1>7, <2>2
    <2> HIDE DEF b
    <2>4. El(Release(y) \o b) = El(Release(y)) \cup El(b)
      BY <1>7, <2>3, ConcatIs
    <2>5. QED
      BY <2>1, <2>3, <2>4 DEF b
  <1>9. Shape(q) /\ Calm(q) /\ NoTest(q)
    <2>1. /\ Len(rest) \in Nat /\ DOMAIN q = 1 .. Len(rest) + 1 /\ q[1] = d
          /\ DOMAIN rest = 1 .. Len(rest)
          /\ \A i \in 1 .. Len(rest) : q[i + 1] = rest[i]
          /\ \A i \in 1 .. Len(rest) + 1 : i = 1 \/ (i - 1 \in 1 .. Len(rest) /\ (i - 1) + 1 = i)
      BY <1>4, <1>5
    <2>2. d.left \subseteq Members(d.obj) /\ d.op \in Ends
      BY <1>2, <1>4 DEF Ends
    <2>3. Shape(q)
      <3> HIDE DEF rest
      <3>1. QED
        BY <1>4, <1>5, <1>6, <2>2, PushShape
    <2> HIDE DEF q
    <2>4. \A i \in 1 .. Len(rest) + 1 : q[i] = d \/ \E j \in 1 .. Len(rest) : q[i] = rest[j]
      BY <2>1
    <2>5. Calm(q)
      BY <1>4, <1>6, <2>1, <2>4 DEF Calm
    <2>6. NoTest(q)
      <3>1. \A i \in 1 .. Len(rest) : rest[i].op # "test"
        BY <1>6, <2>1 DEF NoTest
      <3>2. \A i \in 1 .. Len(rest) + 1 : q[i].op # "test"
        BY <1>4, <2>4, <3>1
      <3>3. QED
        BY <2>1, <3>2 DEF NoTest
    <2>7. QED
      BY <2>3, <2>5, <2>6
  <1>10. /\ todo'[t] = ops \o rest
         /\ \A u \in Threads \ {t} : todo'[u] = todo[u]
         /\ \A name : Of(t, name)' = {e \in El(ops) : e.op = name} \cup RestOf(t, name)
         /\ \A u \in Threads \ {t} : \A name : Of(u, name)' = Of(u, name)
    <2> HIDE DEF ops
    <2>1. QED
      BY <1>1, <1>7, ThenOf
  <1>11. Shape(todo'[t]) /\ TestsOnTop(todo'[t])
    <2>1. todo'[t] = Release(y) \o q
      <3> DEFINE A == Release(y)
                 B == <<d>>
      <3>1. A \in Seq(Ops) /\ B \in Seq(Ops)
        BY <1>7
      <3> HIDE DEF A, B
      <3>2. (A \o B) \o rest = A \o (B \o rest)
        BY <1>5, <3>1, Assoc
      <3>3. QED
        BY <1>10, <3>2 DEF A, B
    <2> HIDE DEF q
    <2>2. QED
      BY <1>3, <1>7, <1>9, <2>1, ReleaseShape
  <1>12. (\A u \in Threads : Shape(todo[u]))'
    BY <1>10, <1>11, ShapeNext DEF Inv
  <1> HIDE DEF ops, q, rest
  <1>13. /\ RestOf(t, "dec") = {} /\ RestOf(t, "retain") = {} /\ RestOf(t, "check") = {}
         /\ Of(t, "dec") = {} /\ Of(t, "retain") = {} /\ Of(t, "check") = {}
         /\ Of(t, "delete") = RestOf(t, "delete") \cup {Now(t)}
         /\ \A name : name # "delete" => Of(t, name) = RestOf(t, name)
         /\ \A e \in RestOf(t, "delete") : e.obj # o
    BY <1>1, ShortNames, OfFirst, Under DEF Ends
  <1>14. /\ On("dec", y).op = "dec" /\ On("dec", y).obj = y /\ Drain.op = "drain"
         /\ On("test", y).op = "test" /\ On("test", y).obj = y
    BY OpsAre
  <1>15. /\ Of(t, "dec")' = {On("dec", y)} /\ Of(t, "retain")' = {} /\ Of(t, "check")' = {}
         /\ Of(t, "test")' = Of(t, "test") \cup {On("test", y)}
         /\ Of(t, "delete")' = RestOf(t, "delete") \cup {d}
         /\ Of(t, "store")' = Of(t, "store") /\ Of(t, "drop")' = Of(t, "drop")
         /\ Of(t, "drain")' # {}
    <2>1. /\ {e \in El(ops) : e.op = "dec"} = {On("dec", y)}
          /\ {e \in El(ops) : e.op = "retain"} = {} /\ {e \in El(ops) : e.op = "check"} = {}
          /\ {e \in El(ops) : e.op = "test"} = {On("test", y)}
          /\ {e \in El(ops) : e.op = "delete"} = {d}
          /\ {e \in El(ops) : e.op = "store"} = {} /\ {e \in El(ops) : e.op = "drop"} = {}
          /\ {e \in El(ops) : e.op = "drain"} = {Drain}
      BY <1>4, <1>8, <1>14
    <2>2. /\ Of(t, "dec")' = {e \in El(ops) : e.op = "dec"} \cup RestOf(t, "dec")
          /\ Of(t, "retain")' = {e \in El(ops) : e.op = "retain"} \cup RestOf(t, "retain")
          /\ Of(t, "check")' = {e \in El(ops) : e.op = "check"} \cup RestOf(t, "check")
          /\ Of(t, "test")' = {e \in El(ops) : e.op = "test"} \cup RestOf(t, "test")
          /\ Of(t, "delete")' = {e \in El(ops) : e.op = "delete"} \cup RestOf(t, "delete")
          /\ Of(t, "store")' = {e \in El(ops) : e.op = "store"} \cup RestOf(t, "store")
          /\ Of(t, "drop")' = {e \in El(ops) : e.op = "drop"} \cup RestOf(t, "drop")
          /\ Of(t, "drain")' = {e \in El(ops) : e.op = "drain"} \cup RestOf(t, "drain")
      BY <1>10
    <2>3. /\ Of(t, "test") = RestOf(t, "test") /\ Of(t, "store") = RestOf(t, "store")
          /\ Of(t, "drop") = RestOf(t, "drop")
      BY <1>13
    <2>4. /\ Of(t, "dec")' = {On("dec", y)} /\ Of(t, "retain")' = {} /\ Of(t, "check")' = {}
      BY <1>13, <2>1, <2>2
    <2>5. /\ Of(t, "test")' = Of(t, "test") \cup {On("test", y)}
          /\ Of(t, "delete")' = RestOf(t, "delete") \cup {d}
      BY <2>1, <2>2, <2>3
    <2>6. Of(t, "store")' = Of(t, "store") /\ Of(t, "drop")' = Of(t, "drop")
      BY <2>1, <2>2, <2>3
    <2>7. Of(t, "drain")' # {}
      BY <2>1, <2>2
    <2>8. QED
      BY <2>4, <2>5, <2>6, <2>7
  <1>16. \A x : /\ Pending(t, "dec", x)' <=> x = y
                /\ Pending(t, "test", x)' <=> Pending(t, "test", x) \/ x = y
                /\ Ending(t, x)' <=> Ending(t, x)
    <2>1. \A x : /\ Pending(t, "dec", x)' <=> x = y
                 /\ Pending(t, "test", x)' <=> Pending(t, "test", x) \/ x = y
      BY <1>14, <1>15 DEF Pending
    <2>2. \A x : Pending(t, "delete", x)' <=> Pending(t, "delete", x)
      BY <1>4, <1>13, <1>15 DEF Pending
    <2>3. \A x : ~ Pending(t, "check", x)' /\ ~ Pending(t, "check", x)
      BY <1>13, <1>15 DEF Pending
    <2>4. QED
      BY <2>1, <2>2, <2>3 DEF Ending
  <1>17. Pending(t, "delete", o) /\ Ending(t, o) /\ Doomed(o)
    <2>1. Pending(t, "delete", o)
      BY <1>13 DEF Pending
    <2>2. QED
      BY <2>1 DEF Ending, Doomed
  <1>18. ~ Taken(s)
    <2>1. SUFFICES ASSUME NEW u \in Threads, NEW e \in Of(u, "delete"),
                          e.obj = o, s \notin e.left
                   PROVE  FALSE
      BY <1>3 DEF Taken
    <2>2. Ending(u, o)
      BY <2>1 DEF Ending, Pending
    <2>3. u = t
      BY <1>2, <1>17, <2>2 DEF Inv, EndsOnce
    <2>4. e = Now(t)
      BY <1>13, <2>1, <2>3
    <2>5. QED
      BY <2>1, <2>4
  <1>19. \A u \in Threads : ~ Setting(u, s)
    <2>1. SUFFICES ASSUME NEW u \in Threads, Setting(u, s) PROVE FALSE
      OBVIOUS
    <2>2. Owner[s] # u
      BY <1>2, <1>3, Owners
    <2>3. PICK p \in Strongs : Owner[p] = u /\ ref[p] = o
      BY <1>1, <1>3, <2>1, <2>2 DEF Inv, SettersKeep, Slots
    <2>4. ~ Setting(u, p)
      <3>1. p # s
        BY <2>2, <2>3
      <3>2. QED
        BY <2>1, <3>1, OneStore DEF Setting
    <2>5. ~ Doomed(o)
      BY <1>2, <2>3, <2>4, StackHeld, ObjectsAssumption
    <2>6. QED
      BY <1>17, <2>5
  <1>20. s \in Held(y)
    BY <1>1, <1>18, <1>19 DEF Held, Unlinked
  <1>21. \A p \in Slots : Taken(p)' <=> Taken(p) \/ p = s
    <2>1. TAKE p \in Slots
    <2>2. (\E u \in Threads \ {t} : \E e \in Of(u, "delete") : e.obj = Owner[p] /\ p \notin e.left)' <=>
          (\E u \in Threads \ {t} : \E e \in Of(u, "delete") : e.obj = Owner[p] /\ p \notin e.left)
      BY <1>10 DEF Owner
    <2>3. (\E e \in Of(t, "delete") : e.obj = Owner[p] /\ p \notin e.left)' <=>
            \/ \E e \in RestOf(t, "delete") : e.obj = Owner[p] /\ p \notin e.left
            \/ o = Owner[p] /\ (p \notin Now(t).left \/ p = s)
      BY <1>4, <1>15 DEF Owner
    <2>4. (\E e \in Of(t, "delete") : e.obj = Owner[p] /\ p \notin e.left) <=>
            \/ \E e \in RestOf(t, "delete") : e.obj = Owner[p] /\ p \notin e.left
            \/ o = Owner[p] /\ p \notin Now(t).left
      BY <1>13
    <2>5. QED
      BY <1>3, <2>2, <2>3, <2>4 DEF Taken
  <1>22. \A p \in Strongs : (~ Taken(p)' /\ ~ Unlinked(t, p)') <=>
                            (~ Taken(p) /\ ~ Unlinked(t, p) /\ p # s)
    <2>1. \A p : Unlinked(t, p)' <=> Unlinked(t, p)
      BY <1>15 DEF Unlinked, Setting
    <2>2. QED
      BY <1>21, <2>1 DEF Slots
  <1>23. \A r \in Weaks : Taken(r)' <=> Taken(r)
    BY <1>1, <1>21, SlotsAssumption DEF Slots
  <1>24. ~ At(t, "drain")
    BY <1>1 DEF At, Now
  <1>25. /\ TypeOK' /\ UNCHANGED <<layout, life, count, ref, weaks, queue>>
         /\ t \in Threads /\ todo[t] # <<>> /\ ~ At(t, "drain")
         /\ y \in Objects /\ s \in Strongs /\ s \in Held(y)
         /\ (\A u \in Threads : Shape(todo[u]))'
         /\ OneThread(layout) => TestsOnTop(todo'[t])
         /\ OneThread(layout) \/ Owner[s] = t
    BY <1>1, <1>2, <1>3, <1>11, <1>12, <1>20, <1>24
  <1>26. /\ \A u \in Threads \ {t} : todo'[u] = todo[u]
         /\ \A u \in Threads \ {t} : \A name : Of(u, name)' = Of(u, name)
         /\ Of(t, "dec") = {} /\ Of(t, "retain") = {} /\ Of(t, "retain")' = {}
         /\ Of(t, "store")' = Of(t, "store") /\ Of(t, "drain")' # {}
    BY <1>10, <1>13, <1>15
  <1>27. QED
    BY <1>16, <1>22, <1>23, <1>25, <1>26, UnlinkKeeps

\* The old object of a set() is released.
LEMMA DropKeeps ==
  ASSUME Safe, Inv, UNCHANGED layout, NEW t \in Threads, DoDrop(t),
         NEW s, s = Now(t).slot, NEW y, y = ref[s], y # NoObject
  PROVE  Inv'
  <1> DEFINE rest == Tail(todo[t])
             ops == Release(y)
  <1>1. /\ todo[t] # <<>> /\ Now(t).op = "drop" /\ Then(t, ops)
        /\ UNCHANGED <<life, count, ref, weaks, queue>>
    BY DEF DoDrop, At, Now
  <1>2. TypeOK /\ TypeOK' /\ Now(t) \in Ops /\ s \in Strongs /\ s \in Slots
    <2>1. TypeOK /\ TypeOK' /\ Now(t) \in Ops
      BY <1>1, OfFirst, StepType DEF Inv, Step
    <2>2. QED
      BY <1>1, <2>1, DropFields DEF Slots
  <1>3. y \in Objects
    BY <1>2, Owners
  <1>4. /\ Now(t) \in Of(t, "drop") /\ Setting(t, s)
    <2>1. Now(t) \in Of(t, "drop")
      BY <1>1, OfFirst
    <2>2. QED
      BY <2>1, DropStores
  <1>5. ~ Taken(s)
    BY <1>2, <1>4, SetterKept
  <1>6. s \in Held(y)
    <2>1. ~ Unlinked(t, s)
      BY <1>4 DEF Unlinked
    <2>2. \A u \in Threads : Setting(u, s) => u = t
      BY <1>2, <1>4, SetterAlone
    <2>3. QED
      BY <1>2, <1>5, <2>1, <2>2 DEF Held, Unlinked
  <1>7. OneThread(layout) \/ Owner[s] = t
    <2>1. Owner[s] = t \/ \E q \in Strongs : Owner[q] = t /\ ref[q] = Owner[s]
      BY <1>2, <1>4 DEF Inv, SettersKeep
    <2>2. CASE Owner[s] # t
      <3>1. Owner[s] \in Objects
        BY <1>2, <2>1, <2>2, Owners
      <3>2. QED
        BY <1>2, <3>1, Kinds
    <2>3. QED
      BY <2>2
  <1>8. /\ todo[t] \in Seq(Ops) /\ Shape(todo[t]) /\ rest \in Seq(Ops) /\ ops \in Seq(Ops)
    BY <1>1, <1>3, OfFirst, ReleaseType DEF Inv, TypeOK
  <1>9. Shape(rest) /\ Calm(rest) /\ NoTest(rest)
    <2>1. /\ Shape(rest) /\ Calm(rest)
          /\ Len(rest) = 1 /\ rest[1].op = "store"
      BY <1>1, <1>8, TailShape DEF Now
    <2>2. DOMAIN rest = {1}
      <3>1. rest \in Seq(Ops) /\ Len(rest) = 1
        BY <1>8, <2>1
      <3> HIDE DEF rest
      <3>2. QED
        BY <3>1
    <2>3. QED
      BY <2>1, <2>2 DEF NoTest
  <1>10. /\ todo'[t] = ops \o rest
         /\ \A u \in Threads \ {t} : todo'[u] = todo[u]
         /\ \A name : Of(t, name)' = {e \in El(ops) : e.op = name} \cup RestOf(t, name)
         /\ \A u \in Threads \ {t} : \A name : Of(u, name)' = Of(u, name)
    <2> HIDE DEF ops
    <2>1. QED
      BY <1>1, <1>8, ThenOf
  <1>11. Shape(todo'[t]) /\ TestsOnTop(todo'[t])
    <2> HIDE DEF rest
    <2>1. QED
      BY <1>3, <1>8, <1>9, <1>10, ReleaseShape
  <1>12. (\A u \in Threads : Shape(todo[u]))'
    BY <1>10, <1>11, ShapeNext DEF Inv
  <1>13. El(ops) = {On("dec", y), Drain, On("test", y)}
    BY <1>3, ReleaseEls
  <1> HIDE DEF ops, rest
  <1>14. /\ RestOf(t, "dec") = {} /\ RestOf(t, "retain") = {} /\ RestOf(t, "check") = {}
         /\ Of(t, "dec") = {} /\ Of(t, "retain") = {} /\ Of(t, "check") = {}
         /\ RestOf(t, "drop") = {}
         /\ \A name : name # "drop" => Of(t, name) = RestOf(t, name)
    BY <1>1, ShortNames, Under
  <1>15. /\ On("dec", y).op = "dec" /\ On("dec", y).obj = y /\ Drain.op = "drain"
         /\ On("test", y).op = "test" /\ On("test", y).obj = y
    BY OpsAre
  <1>16. /\ Of(t, "dec")' = {On("dec", y)} /\ Of(t, "retain")' = {} /\ Of(t, "check")' = {}
         /\ Of(t, "test")' = Of(t, "test") \cup {On("test", y)}
         /\ Of(t, "delete")' = Of(t, "delete")
         /\ Of(t, "store")' = Of(t, "store") /\ Of(t, "drop")' = {}
         /\ Of(t, "drain")' # {}
    <2>1. /\ {e \in El(ops) : e.op = "dec"} = {On("dec", y)}
          /\ {e \in El(ops) : e.op = "retain"} = {} /\ {e \in El(ops) : e.op = "check"} = {}
          /\ {e \in El(ops) : e.op = "test"} = {On("test", y)}
          /\ {e \in El(ops) : e.op = "delete"} = {}
          /\ {e \in El(ops) : e.op = "store"} = {} /\ {e \in El(ops) : e.op = "drop"} = {}
          /\ {e \in El(ops) : e.op = "drain"} = {Drain}
      BY <1>13, <1>15
    <2>2. /\ Of(t, "dec")' = {e \in El(ops) : e.op = "dec"} \cup RestOf(t, "dec")
          /\ Of(t, "retain")' = {e \in El(ops) : e.op = "retain"} \cup RestOf(t, "retain")
          /\ Of(t, "check")' = {e \in El(ops) : e.op = "check"} \cup RestOf(t, "check")
          /\ Of(t, "test")' = {e \in El(ops) : e.op = "test"} \cup RestOf(t, "test")
          /\ Of(t, "delete")' = {e \in El(ops) : e.op = "delete"} \cup RestOf(t, "delete")
          /\ Of(t, "store")' = {e \in El(ops) : e.op = "store"} \cup RestOf(t, "store")
          /\ Of(t, "drop")' = {e \in El(ops) : e.op = "drop"} \cup RestOf(t, "drop")
          /\ Of(t, "drain")' = {e \in El(ops) : e.op = "drain"} \cup RestOf(t, "drain")
      BY <1>10
    <2>3. /\ Of(t, "test") = RestOf(t, "test") /\ Of(t, "store") = RestOf(t, "store")
          /\ Of(t, "delete") = RestOf(t, "delete")
      BY <1>14
    <2>4. /\ Of(t, "dec")' = {On("dec", y)} /\ Of(t, "retain")' = {} /\ Of(t, "check")' = {}
      BY <1>14, <2>1, <2>2
    <2>5. /\ Of(t, "test")' = Of(t, "test") \cup {On("test", y)}
      BY <2>1, <2>2, <2>3
    <2>6. /\ Of(t, "store")' = Of(t, "store") /\ Of(t, "delete")' = Of(t, "delete")
          /\ Of(t, "drop")' = {}
      BY <1>14, <2>1, <2>2, <2>3
    <2>7. Of(t, "drain")' # {}
      BY <2>1, <2>2
    <2>8. QED
      BY <2>4, <2>5, <2>6, <2>7
  <1>17. \A x : /\ Pending(t, "dec", x)' <=> x = y
                /\ Pending(t, "test", x)' <=> Pending(t, "test", x) \/ x = y
                /\ Ending(t, x)' <=> Ending(t, x)
    <2>1. \A x : /\ Pending(t, "dec", x)' <=> x = y
                 /\ Pending(t, "test", x)' <=> Pending(t, "test", x) \/ x = y
      BY <1>15, <1>16 DEF Pending
    <2>2. \A x : Pending(t, "delete", x)' <=> Pending(t, "delete", x)
      BY <1>16 DEF Pending
    <2>3. \A x : ~ Pending(t, "check", x)' /\ ~ Pending(t, "check", x)
      BY <1>14, <1>16 DEF Pending
    <2>4. QED
      BY <2>1, <2>2, <2>3 DEF Ending
  <1>18. \A p : Taken(p)' <=> Taken(p)
    BY <1>10, <1>16, TakenSame
  <1>19. \A p \in Strongs : (~ Taken(p)' /\ ~ Unlinked(t, p)') <=>
                            (~ Taken(p) /\ ~ Unlinked(t, p) /\ p # s)
    <2>1. \A p : Unlinked(t, p)' <=> p = s
      <3>1. \A p : Setting(t, p) <=> p = s
        BY <1>4, OneStore DEF Setting
      <3>2. \A p : Setting(t, p)' <=> Setting(t, p)
        BY <1>16 DEF Setting
      <3>3. QED
        BY <1>16, <3>1, <3>2 DEF Unlinked
    <2>2. \A p : ~ Unlinked(t, p)
      BY <1>4 DEF Unlinked
    <2>3. QED
      BY <1>18, <2>1, <2>2
  <1>20. /\ TypeOK' /\ UNCHANGED <<layout, life, count, ref, weaks, queue>>
         /\ t \in Threads /\ todo[t] # <<>> /\ ~ At(t, "drain")
         /\ y \in Objects /\ s \in Strongs /\ s \in Held(y)
         /\ (\A u \in Threads : Shape(todo[u]))'
         /\ OneThread(layout) => TestsOnTop(todo'[t])
         /\ OneThread(layout) \/ Owner[s] = t
    <2>1. ~ At(t, "drain")
      BY <1>1 DEF At, Now
    <2>2. QED
      BY <1>1, <1>2, <1>3, <1>6, <1>7, <1>11, <1>12, <2>1
  <1>21. /\ \A u \in Threads \ {t} : todo'[u] = todo[u]
         /\ \A u \in Threads \ {t} : \A name : Of(u, name)' = Of(u, name)
         /\ Of(t, "dec") = {} /\ Of(t, "retain") = {} /\ Of(t, "retain")' = {}
         /\ Of(t, "store")' = Of(t, "store") /\ Of(t, "drain")' # {}
    BY <1>10, <1>14, <1>16
  <1>22. QED
    BY <1>17, <1>18, <1>19, <1>20, <1>21, UnlinkKeeps

\* There is no old object.
LEMMA DropNullKeeps ==
  ASSUME Safe, Inv, UNCHANGED layout, NEW t \in Threads, DoDrop(t),
         NEW s, s = Now(t).slot, ref[s] = NoObject
  PROVE  Inv'
  <1>1. /\ todo[t] # <<>> /\ Now(t).op = "drop" /\ Then(t, <<>>)
        /\ UNCHANGED <<life, count, ref, weaks, queue>>
    BY DEF DoDrop, At, Now
  <1>2. TypeOK /\ TypeOK' /\ Now(t) \in Of(t, "drop")
    <2>1. TypeOK /\ TypeOK'
      BY StepType DEF Inv, Step
    <2>2. QED
      BY <1>1, <2>1, OfFirst
  <1>3. /\ \A name : name # "drop" => Of(t, name)' = Of(t, name)
        /\ \A u \in Threads \ {t} : \A name : Of(u, name)' = Of(u, name)
        /\ \A u \in Threads \ {t} : todo'[u] = todo[u]
    BY <1>1, TailStep, ShortNames
  <1>4. /\ \A u \in Threads : \A x : /\ Ending(u, x)' <=> Ending(u, x)
                                     /\ Pending(u, "retain", x)' <=> Pending(u, "retain", x)
                                     /\ Pending(u, "test", x)' <=> Pending(u, "test", x)
                                     /\ Pending(u, "dec", x)' <=> Pending(u, "dec", x)
                                     /\ Pending(u, "store", x)' <=> Pending(u, "store", x)
        /\ \A u \in Threads : \A p : Setting(u, p)' <=> Setting(u, p)
        /\ \A u \in Threads : \A p : p # s => (Unlinked(u, p)' <=> Unlinked(u, p))
    <2>1. \A u \in Threads \ {t} :
            /\ \A x : /\ Ending(u, x)' <=> Ending(u, x)
                      /\ \A name : Pending(u, name, x)' <=> Pending(u, name, x)
            /\ \A p : /\ Setting(u, p)' <=> Setting(u, p)
                      /\ Unlinked(u, p)' <=> Unlinked(u, p)
      BY <1>3, Others
    <2>2. \A x, name : name # "drop" => (Pending(t, name, x)' <=> Pending(t, name, x))
      BY <1>3 DEF Pending
    <2>3. \A p : Setting(t, p)' <=> Setting(t, p)
      BY <1>3 DEF Setting
    <2>4. \A x : Ending(t, x)' <=> Ending(t, x)
      BY <2>2 DEF Ending
    <2>5. \A p : p # s => ~ Unlinked(t, p)' /\ ~ Unlinked(t, p)
      <3>1. Setting(t, s)
        BY <1>2, DropStores
      <3>2. \A p : Setting(t, p) => p = s
        BY <3>1, OneStore DEF Setting
      <3>3. QED
        BY <2>3, <3>2 DEF Unlinked
    <2>6. \A x : /\ Pending(t, "retain", x)' <=> Pending(t, "retain", x)
                 /\ Pending(t, "test", x)' <=> Pending(t, "test", x)
                 /\ Pending(t, "dec", x)' <=> Pending(t, "dec", x)
                 /\ Pending(t, "store", x)' <=> Pending(t, "store", x)
      BY <2>2
    <2>7. QED
      BY <2>1, <2>3, <2>4, <2>5, <2>6
  <1>5. \A p : Taken(p)' <=> Taken(p)
    BY <1>3, TakenSame
  <1>6. \A x \in Objects : Doomed(x)' <=> Doomed(x)
    BY <1>1, <1>4 DEF Doomed, InQueue
  <1>7. Counted'
    <2>1. \A x \in Objects : Held(x)' = Held(x)
      <3>1. \A p \in Strongs, x \in Objects : ref[p] = x => p # s
        BY ObjectsAssumption
      <3>2. QED
        BY <1>1, <1>4, <1>5, <3>1 DEF Held
    <2>2. \A x : Leaving(x)' = Leaving(x)
      BY <1>4 DEF Leaving
    <2>3. \A x : Arriving(x)' = Arriving(x)
      <3>1. \A u \in Threads : Of(u, "retain")' = Of(u, "retain")
        BY <1>3
      <3>2. \A u \in Threads : \A x : Pending(u, "store", x)' <=> Pending(u, "store", x)
        BY <1>4
      <3>3. QED
        BY <3>1, <3>2 DEF Arriving
    <2>4. QED
      BY <1>1, <2>1, <2>2, <2>3 DEF Inv, Counted
  <1>8. GoneForgotten' /\ NobodyLost'
    <2>1. GoneForgotten'
      BY <1>1, <1>4, <1>6 DEF Inv, GoneForgotten
    <2>2. NobodyLost'
      BY <1>1, <1>4, <1>6 DEF Inv, NobodyLost
    <2>3. QED
      BY <2>1, <2>2
  <1>9. DoomedLive' /\ EndsOnce' /\ UnbornUnknown'
    BY <1>1, <1>4, <1>6 DEF Inv, DoomedLive, EndsOnce, UnbornUnknown, InQueue
  <1>10. QueueDrained'
    <2>1. \A u \in Threads : Of(u, "drain")' = Of(u, "drain")
      BY <1>3
    <2>2. QED
      BY <1>1, <2>1 DEF Inv, QueueDrained
  <1>11. SettersKeep' /\ Registered'
    BY <1>1, <1>4, <1>5 DEF Inv, SettersKeep, Registered, Owner
  <1>12. OneHome'
    <2>1. \A u \in Threads : \A x : Mentions(u, x)' => Mentions(u, x)
      BY <1>1, <1>4 DEF Mentions, Owner
    <2>2. QED
      BY <2>1 DEF Inv, OneHome
  <1>13. Undisturbed'
    <2>1. ~ At(t, "drain")
      BY <1>1 DEF At, Now
    <2>2. OneThread(layout) => TestsOnTop(todo'[t]) /\ \E q \in Slots : Owner[q] = t
      BY <1>1, TailStep, BusyOwns
    <2>3. QED
      BY <1>1, <1>3, <2>1, <2>2, Quiet
  <1>14. (\A u \in Threads : Shape(todo[u]))'
    BY <1>1, TailStep
  <1>15. QED
    BY <1>2, <1>7, <1>8, <1>9, <1>10, <1>11, <1>12, <1>13, <1>14 DEF Inv

\* The new object of a set() is assigned.
LEMMA StoreKeeps ==
  ASSUME Safe, Inv, UNCHANGED layout, NEW t \in Threads, DoStore(t),
         NEW s, s = Now(t).slot, NEW y, y = Now(t).obj
  PROVE  Inv'
  <1>1. /\ todo[t] # <<>> /\ Now(t).op = "store" /\ Then(t, <<>>)
        /\ ref' = [ref EXCEPT ![s] = y]
        /\ UNCHANGED <<life, count, weaks, queue>>
    BY DEF DoStore, At, Now
  <1>2. TypeOK /\ TypeOK' /\ s \in Strongs /\ s \in Slots /\ y \in Objects \cup {NoObject}
        /\ s \notin Weaks
    <2>1. TypeOK /\ TypeOK' /\ Now(t) \in Ops
      BY <1>1, OfFirst, StepType DEF Inv, Step
    <2>2. QED
      BY <1>1, <2>1, StoreFields, SlotsAssumption DEF Slots
  <1>3. /\ \A name : Of(t, name)' = {}
        /\ \A name : name # "store" => Of(t, name) = {}
        /\ Of(t, "store") = {Now(t)}
        /\ \A u \in Threads \ {t} : \A name : Of(u, name)' = Of(u, name)
        /\ \A u \in Threads \ {t} : todo'[u] = todo[u]
    <2>1. \A name : RestOf(t, name) = {}
      BY <1>1, Under
    <2>2. Of(t, "store") = RestOf(t, "store") \cup {Now(t)}
      BY <1>1, OfFirst
    <2>3. QED
      BY <1>1, <2>1, <2>2, TailStep, ShortNames
  <1>4. /\ \A x : Pending(t, "store", x) <=> x = y
        /\ \A p : Setting(t, p) <=> p = s
        /\ Unlinked(t, s)
        /\ \A x, name : ~ Pending(t, name, x)'
        /\ \A x : ~ Pending(t, "retain", x) /\ ~ Pending(t, "dec", x) /\ ~ Pending(t, "test", x)
                  /\ ~ Ending(t, x) /\ ~ Ending(t, x)'
        /\ \A p : ~ Setting(t, p)' /\ ~ Unlinked(t, p)'
    <2>1. /\ \A x : Pending(t, "store", x) <=> x = y
          /\ \A p : Setting(t, p) <=> p = s
      BY <1>3 DEF Pending, Setting
    <2>2. Unlinked(t, s)
      BY <1>3, <2>1 DEF Unlinked
    <2>3. \A x, name : ~ Pending(t, name, x)'
      BY <1>3 DEF Pending
    <2>4. \A x, name : name # "store" => ~ Pending(t, name, x)
      BY <1>3 DEF Pending
    <2>5. \A p : ~ Setting(t, p)' /\ ~ Unlinked(t, p)'
      BY <1>3 DEF Setting, Unlinked
    <2>6. \A x : ~ Ending(t, x) /\ ~ Ending(t, x)'
      BY <2>3, <2>4 DEF Ending
    <2>7. QED
      BY <2>1, <2>2, <2>3, <2>4, <2>5, <2>6
  <1>5. \A u \in Threads \ {t} :
            /\ \A x : /\ Ending(u, x)' <=> Ending(u, x)
                      /\ \A name : Pending(u, name, x)' <=> Pending(u, name, x)
            /\ \A q : /\ Setting(u, q)' <=> Setting(u, q)
                      /\ Unlinked(u, q)' <=> Unlinked(u, q)
    BY <1>3, Others
  <1>6. /\ \A u \in Threads : \A x : /\ Ending(u, x)' <=> Ending(u, x)
                                     /\ Pending(u, "retain", x)' <=> Pending(u, "retain", x)
                                     /\ Pending(u, "test", x)' <=> Pending(u, "test", x)
                                     /\ Pending(u, "dec", x)' <=> Pending(u, "dec", x)
                                     /\ Pending(u, "store", x)' <=> Pending(u, "store", x) /\ u # t
        /\ \A u \in Threads : \A p : Setting(u, p)' <=> Setting(u, p) /\ u # t
    BY <1>4, <1>5
  <1>7. \A p : Taken(p)' <=> Taken(p)
    <2>1. Of(t, "delete")' = Of(t, "delete")
      BY <1>3
    <2>2. QED
      BY <1>3, <2>1, TakenSame
  <1>8. ~ Taken(s)
    BY <1>2, <1>4, SetterKept
  <1>9. \A u \in Threads : Setting(u, s) => u = t
    BY <1>2, <1>4, SetterAlone
  <1>10. ref'[s] = y /\ \A p \in Slots : p # s => ref'[p] = ref[p]
    BY <1>1, <1>2 DEF TypeOK
  <1>11. \A x : s \notin Held(x) /\ Held(x)' = IF x = y THEN Held(x) \cup {s} ELSE Held(x)
    <2>1. \A x : s \notin Held(x)
      BY <1>4 DEF Held
    <2>2. \A u \in Threads : ~ Unlinked(u, s)'
      BY <1>4, <1>5, <1>9 DEF Unlinked
    <2>3. \A p \in Strongs : p # s =>
            ((\A u \in Threads : ~ Unlinked(u, p)') <=> (\A u \in Threads : ~ Unlinked(u, p)))
      <3>1. \A p : p # s => ~ Unlinked(t, p) /\ ~ Unlinked(t, p)'
        BY <1>4 DEF Unlinked
      <3>2. QED
        BY <1>5, <3>1
    <2>4. ASSUME NEW x, NEW p \in Strongs
          PROVE  p \in Held(x)' <=> p \in Held(x) \/ (p = s /\ x = y)
      <3>1. CASE p = s
        BY <1>2, <1>7, <1>8, <1>10, <2>1, <2>2, <3>1 DEF Held
      <3>2. CASE p # s
        BY <1>7, <1>10, <2>3, <3>2 DEF Held, Slots
      <3>3. QED
        BY <3>1, <3>2
    <2>5. \A x : Held(x) \subseteq Strongs /\ Held(x)' \subseteq Strongs
      BY DEF Held
    <2>6. ASSUME NEW x
          PROVE  Held(x)' = IF x = y THEN Held(x) \cup {s} ELSE Held(x)
      <3>1. Held(x) \subseteq Strongs /\ Held(x)' \subseteq Strongs
        BY <2>5
      <3>2. \A p \in Strongs : p \in Held(x)' <=> p \in Held(x) \/ (p = s /\ x = y)
        BY <2>4
      <3>3. CASE x = y
        BY <1>2, <3>1, <3>2, <3>3
      <3>4. CASE x # y
        BY <3>1, <3>2, <3>4
      <3>5. QED
        BY <3>3, <3>4
    <2>7. QED
      BY <2>1, <2>6
  <1>12. \A x : /\ x = y => t \in Arriving(x) /\ Arriving(x)' = Arriving(x) \ {t}
                /\ x # y => Arriving(x)' = Arriving(x)
                /\ Leaving(x)' = Leaving(x)
    <2>1. \A x : Leaving(x)' = Leaving(x)
      BY <1>6 DEF Leaving
    <2>2. \A u \in Threads : Of(u, "retain")' = Of(u, "retain")
      BY <1>3
    <2>3. \A u \in Threads : \A x : Pending(u, "store", x)' <=> Pending(u, "store", x) /\ u # t
      BY <1>6
    <2>4. \A x : Arriving(x)' = Arriving(x) \ {t}
      BY <2>2, <2>3 DEF Arriving
    <2>5. t \in Arriving(y)
      BY <1>3, <1>4 DEF Arriving
    <2>6. \A x : x # y => t \notin Arriving(x)
      BY <1>4 DEF Arriving
    <2>7. \A x : x # y => Arriving(x)' = Arriving(x)
      BY <2>4, <2>6
    <2>8. QED
      BY <2>1, <2>4, <2>5, <2>7
  <1>13. Counted'
    <2>1. \A x \in Objects : count[x] = Cardinality(Held(x)) + Cardinality(Arriving(x))
                                        + Cardinality(Leaving(x))
      BY DEF Inv, Counted
    <2>2. \A x \in Objects : count'[x] = Cardinality(Held(x)') + Cardinality(Arriving(x)')
                                         + Cardinality(Leaving(x)')
      <3>1. TAKE x \in Objects
      <3>2. CASE x = y
        <4>1. /\ s \notin Held(x) /\ Held(x)' = Held(x) \cup {s}
              /\ t \in Arriving(x) /\ Arriving(x)' = Arriving(x) \ {t}
              /\ Leaving(x)' = Leaving(x)
          BY <1>11, <1>12, <3>2
        <4>2. /\ Cardinality(Held(x)') = Cardinality(Held(x)) + 1
              /\ Cardinality(Arriving(x)') = Cardinality(Arriving(x)) - 1
              /\ Cardinality(Held(x)) \in Nat /\ Cardinality(Arriving(x)) \in Nat
              /\ Cardinality(Leaving(x)) \in Nat
          BY <4>1, FewCount, Cards
        <4>3. count[x] = Cardinality(Held(x)) + Cardinality(Arriving(x))
                         + Cardinality(Leaving(x))
          BY <2>1
        <4>4. count'[x] = count[x] /\ Cardinality(Leaving(x)') = Cardinality(Leaving(x))
          BY <1>1, <4>1
        <4>5. QED
          BY <4>2, <4>3, <4>4
      <3>3. CASE x # y
        BY <1>1, <1>11, <1>12, <2>1, <3>3
      <3>4. QED
        BY <3>2, <3>3
    <2>3. QED
      BY <2>2 DEF Counted
  <1>14. \A x \in Objects : Doomed(x)' <=> Doomed(x)
    BY <1>1, <1>6 DEF Doomed, InQueue
  <1>15. GoneForgotten' /\ NobodyLost'
    <2>1. GoneForgotten'
      BY <1>1, <1>6, <1>14 DEF Inv, GoneForgotten
    <2>2. NobodyLost'
      BY <1>1, <1>6, <1>14 DEF Inv, NobodyLost
    <2>3. QED
      BY <2>1, <2>2
  <1>16. DoomedLive' /\ EndsOnce'
    BY <1>1, <1>6, <1>14 DEF Inv, DoomedLive, EndsOnce, InQueue
  <1>17. UnbornUnknown'
    <2>1. y \in Objects => life[y] = "live"
      BY <1>12, CountedStays
    <2>2. QED
      BY <1>1, <1>10, <2>1 DEF Inv, UnbornUnknown
  <1>18. QueueDrained'
    <2>1. \A u \in Threads : Of(u, "drain")' = Of(u, "drain")
      BY <1>3
    <2>2. QED
      BY <1>1, <2>1 DEF Inv, QueueDrained
  <1>19. Owner[s] \in Threads => Owner[s] = t
    <2>1. Owner[s] = t \/ \E q \in Strongs : ref[q] = Owner[s]
      BY <1>2, <1>4 DEF Inv, SettersKeep
    <2>2. QED
      BY <1>2, <2>1, Owners
  <1>20. SettersKeep'
    <2>1. ASSUME NEW u \in Threads, NEW p \in Slots, Setting(u, p)'
          PROVE  Owner[p] = u \/ \E q \in Strongs : Owner[q] = u /\ ref'[q] = Owner[p]
      <3>1. Setting(u, p) /\ u # t
        BY <1>6, <2>1
      <3>2. Owner[p] = u \/ \E q \in Strongs : Owner[q] = u /\ ref[q] = Owner[p]
        BY <3>1 DEF Inv, SettersKeep
      <3>3. \A q \in Strongs : Owner[q] = u => ref'[q] = ref[q]
        BY <1>10, <1>19, <3>1 DEF Slots
      <3>4. QED
        BY <3>2, <3>3
    <2>2. QED
      BY <2>1 DEF SettersKeep, Owner
  <1>21. Registered'
    <2>1. \A r \in Weaks : r # s /\ ref'[r] = ref[r]
      BY <1>2, <1>10 DEF Slots
    <2>2. \A x \in Objects : weaks[x] \subseteq Weaks
      BY <1>2 DEF TypeOK
    <2>3. QED
      BY <1>1, <1>7, <2>1, <2>2 DEF Inv, Registered, Owner
  <1>22. OneHome'
    <2>1. \A u \in Threads : \A x : Mentions(u, x)' => Mentions(u, x)
      <3>1. SUFFICES ASSUME NEW u \in Threads, NEW x, Mentions(u, x)' PROVE Mentions(u, x)
        OBVIOUS
      <3>2. CASE \E p \in Slots : Owner[p] = u /\ ref'[p] = x
        <4>1. PICK p \in Slots : Owner[p] = u /\ ref'[p] = x
          BY <3>2
        <4>2. CASE p = s
          <5>1. u = t /\ x = y
            BY <1>10, <1>19, <4>1, <4>2
          <5>2. QED
            BY <1>4, <5>1 DEF Mentions
        <4>3. CASE p # s
          BY <1>10, <4>1, <4>3 DEF Mentions
        <4>4. QED
          BY <4>2, <4>3
      <3>3. CASE (\E name \in {"retain", "dec", "test", "store"} : Pending(u, name, x))'
        BY <1>6, <3>3 DEF Mentions
      <3>4. QED
        BY <3>1, <3>2, <3>3 DEF Mentions, Owner
    <2>2. QED
      BY <2>1 DEF Inv, OneHome
  <1>23. Undisturbed'
    <2>1. ~ At(t, "drain")
      BY <1>1 DEF At, Now
    <2>2. OneThread(layout) => TestsOnTop(todo'[t]) /\ \E q \in Slots : Owner[q] = t
      BY <1>1, TailStep, BusyOwns
    <2>3. QED
      BY <1>1, <1>3, <2>1, <2>2, Quiet
  <1>24. (\A u \in Threads : Shape(todo[u]))'
    BY <1>1, TailStep
  <1>25. QED
    BY <1>2, <1>13, <1>15, <1>16, <1>17, <1>18, <1>20, <1>21, <1>22, <1>23, <1>24 DEF Inv

-----------------------------------------------------------------------------
(* What a thread starts between two operations. *)

\* Who retains an object has still to store it.
LEMMA RetainStores ==
  ASSUME Inv, NEW t \in Threads, NEW o, Pending(t, "store", o)
  PROVE  Pending(t, "retain", o) \/ t \in Arriving(o)
  <1>1. CASE Of(t, "retain") = {}
    BY <1>1 DEF Arriving
  <1>2. CASE Of(t, "retain") # {}
    <2>1. todo[t] # <<>>
      BY <1>2, IdleNothing DEF Idle
    <2>2. Now(t).op = "retain" /\ Of(t, "retain") = {Now(t)}
      BY <1>2, <2>1, ShortNames
    <2>3. \E e \in Of(t, "store") : e.obj = Now(t).obj
      BY <2>1, <2>2, Under, ShortNames
    <2>4. Now(t).obj = o
      BY <2>3, OneStore DEF Pending
    <2>5. QED
      BY <2>2, <2>4 DEF Pending
  <1>3. QED
    BY <1>1, <1>2

\* Nobody mentions an object that is not allocated.
LEMMA UnbornUnmentioned ==
  ASSUME Inv, NEW o \in Objects, life[o] = "unborn"
  PROVE  ~ Doomed(o) /\ \A u \in Threads : ~ Mentions(u, o)
  <1>1. ~ Doomed(o)
    BY DEF Inv, DoomedLive
  <1>2. \A u \in Threads : ~ Pending(u, "retain", o) /\ ~ Pending(u, "test", o)
    BY DEF Inv, GoneForgotten
  <1>3. Held(o) = {} /\ Arriving(o) = {} /\ Leaving(o) = {}
    BY CountedStays
  <1>4. \A u \in Threads : ~ Pending(u, "dec", o)
    BY <1>3 DEF Leaving
  <1>5. \A u \in Threads : ~ Pending(u, "store", o)
    BY <1>2, <1>3, RetainStores
  <1>6. \A s \in Slots : ref[s] # o
    BY DEF Inv, UnbornUnknown
  <1>7. QED
    BY <1>1, <1>2, <1>4, <1>5, <1>6 DEF Mentions

\* A set() begins: nobody else knows its object, and it is kept.
LEMMA SetBegins ==
  ASSUME Safe, Inv, TypeOK', UNCHANGED <<layout, count, ref, weaks, queue>>,
         NEW t \in Threads, Idle(t),
         NEW s \in Strongs, NEW x \in Objects \cup {NoObject},
         todo' = [todo EXCEPT ![t] = Set(s, x)],
         \/ UNCHANGED life
         \/ x \in Objects /\ life[x] = "unborn" /\ life' = [life EXCEPT ![x] = "live"],
         x # NoObject => /\ life'[x] = "live" /\ ~ Doomed(x)
                         /\ \A u \in Threads : Mentions(u, x) => u = t,
         Owner[s] = t \/ \E q \in Strongs : Owner[q] = t /\ ref[q] = Owner[s],
         \E q \in Slots : Owner[q] = t
  PROVE  Inv'
  <1>1. /\ Shape(Set(s, x)) /\ TestsOnTop(Set(s, x)) /\ Set(s, x) # <<>>
        /\ x = NoObject => El(Set(s, x)) = {Drop(s), Store(s, x)}
        /\ x # NoObject => El(Set(s, x)) = {On("retain", x), Drain, Drop(s), Store(s, x)}
    BY SetShape
  <1>2. /\ todo'[t] = Set(s, x) /\ \A u \in Threads \ {t} : todo'[u] = todo[u]
    BY DEF Inv, TypeOK
  <1>3. /\ On("retain", x).op = "retain" /\ On("retain", x).obj = x /\ Drain.op = "drain"
        /\ Drop(s).op = "drop" /\ Drop(s).slot = s
        /\ Store(s, x).op = "store" /\ Store(s, x).slot = s /\ Store(s, x).obj = x
    BY OpsAre
  <1>4. \A name : Of(t, name) = {} /\ Of(t, name)' = {e \in El(Set(s, x)) : e.op = name}
    BY <1>2, IdleNothing DEF Of
  <1>5. \A u \in Threads \ {t} : \A name : Of(u, name)' = Of(u, name)
    BY <1>2 DEF Of
  <1>6. /\ Of(t, "store")' = {Store(s, x)} /\ Of(t, "drop")' = {Drop(s)}
        /\ Of(t, "retain")' = IF x = NoObject THEN {} ELSE {On("retain", x)}
        /\ Of(t, "dec")' = {} /\ Of(t, "test")' = {}
        /\ Of(t, "check")' = {} /\ Of(t, "delete")' = {}
    <2>1. CASE x = NoObject
      <3>1. El(Set(s, x)) = {Drop(s), Store(s, x)}
        BY <1>1, <2>1
      <3>2. /\ {e \in El(Set(s, x)) : e.op = "store"} = {Store(s, x)}
            /\ {e \in El(Set(s, x)) : e.op = "drop"} = {Drop(s)}
            /\ \A name \in {"retain", "dec", "test", "check", "delete"} :
                 {e \in El(Set(s, x)) : e.op = name} = {}
        BY <1>3, <3>1
      <3>3. QED
        BY <1>4, <2>1, <3>2
    <2>2. CASE x # NoObject
      <3>1. El(Set(s, x)) = {On("retain", x), Drain, Drop(s), Store(s, x)}
        BY <1>1, <2>2
      <3>2. /\ {e \in El(Set(s, x)) : e.op = "store"} = {Store(s, x)}
            /\ {e \in El(Set(s, x)) : e.op = "drop"} = {Drop(s)}
            /\ {e \in El(Set(s, x)) : e.op = "retain"} = {On("retain", x)}
            /\ \A name \in {"dec", "test", "check", "delete"} :
                 {e \in El(Set(s, x)) : e.op = name} = {}
        BY <1>3, <3>1
      <3>3. QED
        BY <1>4, <2>2, <3>2
    <2>3. QED
      BY <2>1, <2>2
  <1>7. \A u \in Threads \ {t} :
            /\ \A z : /\ Ending(u, z)' <=> Ending(u, z)
                      /\ \A name : Pending(u, name, z)' <=> Pending(u, name, z)
            /\ \A q : /\ Setting(u, q)' <=> Setting(u, q)
                      /\ Unlinked(u, q)' <=> Unlinked(u, q)
    BY <1>5, Others
  <1>8. /\ \A z, name : ~ Pending(t, name, z)
        /\ \A z : ~ Ending(t, z) /\ ~ Ending(t, z)'
        /\ \A z : Pending(t, "store", z)' <=> z = x
        /\ \A z : Pending(t, "retain", z)' <=> z = x /\ x # NoObject
        /\ \A z : ~ Pending(t, "dec", z)' /\ ~ Pending(t, "test", z)'
        /\ \A q : ~ Setting(t, q) /\ ~ Unlinked(t, q) /\ ~ Unlinked(t, q)'
                  /\ (Setting(t, q)' <=> q = s)
    <2>1. \A z, name : ~ Pending(t, name, z)
      BY <1>4 DEF Pending
    <2>2. \A z : ~ Pending(t, "check", z)' /\ ~ Pending(t, "delete", z)'
      BY <1>6 DEF Pending
    <2>3. \A z : ~ Ending(t, z) /\ ~ Ending(t, z)'
      BY <2>1, <2>2 DEF Ending
    <2>4. \A z : /\ Pending(t, "store", z)' <=> z = x
                 /\ Pending(t, "retain", z)' <=> z = x /\ x # NoObject
                 /\ ~ Pending(t, "dec", z)' /\ ~ Pending(t, "test", z)'
      BY <1>3, <1>6 DEF Pending
    <2>5. \A q : ~ Setting(t, q) /\ ~ Unlinked(t, q)
      BY <1>4 DEF Setting, Unlinked
    <2>6. \A q : ~ Unlinked(t, q)' /\ (Setting(t, q)' <=> q = s)
      BY <1>3, <1>6 DEF Setting, Unlinked
    <2>7. QED
      BY <2>1, <2>3, <2>4, <2>5, <2>6
  <1>9. \A p : Taken(p)' <=> Taken(p)
    <2>1. Of(t, "delete")' = Of(t, "delete")
      BY <1>4, <1>6
    <2>2. QED
      BY <1>5, <2>1, TakenSame
  <1>10. \A z : Doomed(z)' <=> Doomed(z)
    <2>1. \A u \in Threads : \A z : Ending(u, z)' <=> Ending(u, z)
      BY <1>7, <1>8
    <2>2. QED
      BY <2>1 DEF Doomed, InQueue
  <1>11. \A z \in Objects : /\ life'[z] = life[z] \/ (z = x /\ life'[z] = "live")
                            /\ life[z] = "live" => life'[z] = "live"
    BY DEF Inv, TypeOK
  <1>12. Counted'
    <2>1. \A z : Held(z)' = Held(z)
      <3>1. \A p : (\A u \in Threads : ~ Unlinked(u, p)') <=> (\A u \in Threads : ~ Unlinked(u, p))
        BY <1>7, <1>8
      <3>2. QED
        BY <1>9, <3>1 DEF Held
    <2>2. \A z : Leaving(z)' = Leaving(z)
      <3>1. \A u \in Threads : \A z : Pending(u, "dec", z)' <=> Pending(u, "dec", z)
        BY <1>7, <1>8
      <3>2. QED
        BY <3>1 DEF Leaving
    <2>3. \A z \in Objects : Arriving(z)' = Arriving(z)
      <3>1. \A z \in Objects : ~ (Pending(t, "store", z)' /\ Of(t, "retain")' = {})
        BY <1>6, <1>8, ObjectsAssumption
      <3>2. \A u \in Threads \ {t} : Of(u, "retain")' = Of(u, "retain")
        BY <1>5
      <3>3. \A u \in Threads \ {t} : \A z : Pending(u, "store", z)' <=> Pending(u, "store", z)
        BY <1>7
      <3>4. \A z : ~ Pending(t, "store", z)
        BY <1>8
      <3>5. QED
        BY <3>1, <3>2, <3>3, <3>4 DEF Arriving
    <2>4. QED
      BY <2>1, <2>2, <2>3 DEF Inv, Counted
  <1>13. /\ \A u \in Threads : \A z :
              /\ Pending(u, "retain", z)' <=> Pending(u, "retain", z) \/ (u = t /\ z = x /\ x # NoObject)
              /\ Pending(u, "store", z)' <=> Pending(u, "store", z) \/ (u = t /\ z = x)
              /\ Pending(u, "test", z)' <=> Pending(u, "test", z)
              /\ Pending(u, "dec", z)' <=> Pending(u, "dec", z)
    BY <1>7, <1>8
  <1>14. GoneForgotten'
    <2>1. ASSUME NEW z \in Objects, Doomed(z)' \/ life'[z] # "live"
          PROVE  /\ count'[z] = 0 /\ weaks'[z] = {}
                 /\ \A u \in Threads : ~ Pending(u, "retain", z)' /\ ~ Pending(u, "test", z)'
      <3>1. Doomed(z) \/ life[z] # "live"
        BY <1>10, <1>11, <2>1
      <3>2. z # x
        BY <1>10, <2>1, ObjectsAssumption
      <3>3. /\ count[z] = 0 /\ weaks[z] = {}
            /\ \A u \in Threads : ~ Pending(u, "retain", z) /\ ~ Pending(u, "test", z)
        BY <3>1 DEF Inv, GoneForgotten
      <3>4. QED
        BY <1>13, <3>2, <3>3
    <2>2. QED
      BY <2>1 DEF GoneForgotten
  <1>15. DoomedLive' /\ UnbornUnknown'
    <2>1. DoomedLive'
      BY <1>10, <1>11 DEF Inv, DoomedLive
    <2>2. \A z \in Objects : life'[z] = "unborn" => life[z] = "unborn"
      BY <1>11
    <2>3. UnbornUnknown'
      BY <2>2 DEF Inv, UnbornUnknown
    <2>4. QED
      BY <2>1, <2>3
  <1>16. EndsOnce'
    <2>1. \A u \in Threads : \A z : Ending(u, z)' <=> Ending(u, z)
      BY <1>7, <1>8
    <2>2. QED
      BY <2>1 DEF Inv, EndsOnce, InQueue
  <1>17. NobodyLost'
    <2>1. ASSUME NEW z \in Objects, life'[z] = "live", count'[z] = 0
          PROVE  \/ Doomed(z)'
                 \/ \E u \in Threads : Pending(u, "retain", z)' \/ Pending(u, "test", z)'
      <3>1. CASE z = x
        BY <1>13, <3>1, ObjectsAssumption
      <3>2. CASE z # x
        <4>1. life[z] = "live" /\ count[z] = 0
          BY <1>11, <2>1, <3>2
        <4>2. QED
          BY <1>10, <1>13, <4>1 DEF Inv, NobodyLost
      <3>3. QED
        BY <3>1, <3>2
    <2>2. QED
      BY <2>1 DEF NobodyLost
  <1>18. QueueDrained'
    <2>1. queue # <<>> => \E u \in Threads \ {t} : Of(u, "drain") # {}
      BY <1>4 DEF Inv, QueueDrained
    <2>2. \A u \in Threads \ {t} : Of(u, "drain")' = Of(u, "drain")
      BY <1>5
    <2>3. QED
      BY <2>1, <2>2 DEF QueueDrained
  <1>19. SettersKeep'
    <2>1. \A u \in Threads : \A p : Setting(u, p)' <=> Setting(u, p) \/ (u = t /\ p = s)
      BY <1>7, <1>8
    <2>2. QED
      BY <2>1 DEF Inv, SettersKeep, Owner
  <1>20. Registered'
    <2>1. \A z \in Objects : \A r \in weaks[z] :
            ref[r] = z /\ ~ Taken(r)' /\ (Owner[r] \in Objects => life'[Owner[r]] = "live")
      BY <1>9, <1>11 DEF Inv, Registered
    <2>2. \A r \in Weaks : ref[r] # NoObject /\ ~ Taken(r)' => r \in weaks[ref[r]]
      BY <1>9 DEF Inv, Registered
    <2>3. QED
      BY <2>1, <2>2 DEF Registered, Owner
  <1>21. OneHome'
    <2>1. \A u \in Threads : \A z : Mentions(u, z)' => Mentions(u, z) \/ (u = t /\ z = x)
      BY <1>13 DEF Mentions, Owner
    <2>2. ASSUME NEW u \in Threads, NEW v \in Threads, NEW z \in Objects,
                 Mentions(u, z)', Mentions(v, z)'
          PROVE  u = v
      <3>1. CASE z = x
        BY <2>1, <2>2, <3>1, ObjectsAssumption
      <3>2. CASE z # x
        <4>1. Mentions(u, z) /\ Mentions(v, z)
          BY <2>1, <2>2, <3>2
        <4>2. QED
          BY <4>1 DEF Inv, OneHome
      <3>3. QED
        BY <3>1, <3>2
    <2>3. QED
      BY <2>2 DEF OneHome
  <1>22. Undisturbed'
    <2>1. ~ At(t, "drain")
      BY DEF At, Idle
    <2>2. QED
      BY <1>1, <1>2, <2>1, Quiet
  <1>23. (\A u \in Threads : Shape(todo[u]))'
    <2>1. \A u \in Threads : Shape(todo'[u])
      BY <1>1, <1>2 DEF Inv
    <2>2. QED
      BY <2>1, ShapeNext
  <1>24. QED
    BY <1>12, <1>14, <1>15, <1>16, <1>17, <1>18, <1>19, <1>20, <1>21, <1>22, <1>23 DEF Inv

\* Weak<T>::set() of an object that a Strong on the stack keeps.
LEMMA WeakSetKeeps ==
  ASSUME Safe, Inv, UNCHANGED layout, NEW t \in Threads, NEW r \in Weaks,
         NEW x \in Objects \cup {NoObject}, WeakSet(t, r, x)
  PROVE  Inv'
  <1>1. /\ Idle(t) /\ Usable(t, r)
        /\ weaks' = Register(Unregister(weaks, ref[r], r), x, r)
        /\ ref' = [ref EXCEPT ![r] = x]
        /\ UNCHANGED <<life, count, queue, todo>>
        /\ x = NoObject \/ \E q \in Strongs : Owner[q] = t /\ ref[q] = x
    BY DEF WeakSet
  <1>2. TypeOK /\ TypeOK' /\ r \in Slots /\ r \notin Strongs
    <2>1. TypeOK
      BY DEF Inv
    <2>2. Client(t)
      BY DEF Client
    <2>3. TypeOK'
      BY <2>1, <2>2, ClientType
    <2>4. QED
      BY <2>1, <2>3, SlotsAssumption DEF Slots
  <1>3. \A u, name : Of(u, name)' = Of(u, name)
    BY <1>1 DEF Of
  <1>4. /\ \A u, name, z : Pending(u, name, z)' <=> Pending(u, name, z)
        /\ \A u, p : /\ Setting(u, p)' <=> Setting(u, p)
                     /\ Unlinked(u, p)' <=> Unlinked(u, p)
        /\ \A u, z : Ending(u, z)' <=> Ending(u, z)
    <2>1. \A u, name, z : Pending(u, name, z)' <=> Pending(u, name, z)
      BY <1>3 DEF Pending
    <2>2. \A u, p : /\ Setting(u, p)' <=> Setting(u, p)
                    /\ Unlinked(u, p)' <=> Unlinked(u, p)
      BY <1>3 DEF Setting, Unlinked
    <2>3. QED
      BY <2>1, <2>2 DEF Ending
  <1>5. \A p : Taken(p)' <=> Taken(p)
    BY <1>3 DEF Taken, Owner
  <1>6. \A z : Doomed(z)' <=> Doomed(z)
    BY <1>1, <1>4 DEF Doomed, InQueue
  <1>7. ref'[r] = x /\ \A p \in Slots : p # r => ref'[p] = ref[p]
    BY <1>1, <1>2 DEF TypeOK
  <1>8. \A p \in Strongs : p \in Slots /\ ref'[p] = ref[p]
    BY <1>2, <1>7 DEF Slots
  <1>9. x # NoObject => /\ x \in Objects /\ life[x] = "live" /\ ~ Doomed(x)
                        /\ \A u \in Threads : Mentions(u, x) => u = t
    <2>1. SUFFICES ASSUME x # NoObject
                   PROVE  /\ x \in Objects /\ life[x] = "live" /\ ~ Doomed(x)
                          /\ \A u \in Threads : Mentions(u, x) => u = t
      OBVIOUS
    <2>2. PICK q \in Strongs : Owner[q] = t /\ ref[q] = x
      BY <1>1, <2>1
    <2>3. q \in Slots /\ Usable(t, q)
      BY <2>2 DEF Usable, Slots
    <2>4. QED
      BY <1>1, <2>1, <2>2, <2>3, UsableKnown
  <1>10. ~ Taken(r) /\ (Owner[r] \in Objects => life[Owner[r]] = "live")
    BY <1>1, <1>2, UsableKept
  <1>11. \A z \in Objects : weaks'[z] = IF z = x THEN weaks[z] \cup {r} ELSE weaks[z] \ {r}
    <2> DEFINE reg == Unregister(weaks, ref[r], r)
    <2>1. reg \in [Objects -> SUBSET Weaks]
      BY <1>2, Owners, RegistryType DEF TypeOK
    <2>2. \A z \in Objects : reg[z] = weaks[z] \ {r}
      <3>1. TAKE z \in Objects
      <3>2. r \in weaks[z] => ref[r] = z
        BY DEF Inv, Registered
      <3>3. reg[z] = IF ref[r] = z THEN weaks[z] \ {r} ELSE weaks[z]
        <4>1. CASE ref[r] = NoObject
          BY <4>1, ObjectsAssumption DEF Unregister
        <4>2. CASE ref[r] # NoObject
          BY <1>2, <4>2 DEF Unregister, TypeOK
        <4>3. QED
          BY <4>1, <4>2
      <3>4. QED
        BY <3>2, <3>3
    <2>3. weaks' = Register(reg, x, r)
      BY <1>1
    <2> HIDE DEF reg
    <2>4. \A z \in Objects : weaks'[z] = IF z = x THEN reg[z] \cup {r} ELSE reg[z]
      <3>1. CASE x = NoObject
        BY <2>3, <3>1, ObjectsAssumption DEF Register
      <3>2. CASE x # NoObject
        BY <2>1, <2>3, <3>2 DEF Register
      <3>3. QED
        BY <3>1, <3>2
    <2>5. ASSUME NEW z \in Objects
          PROVE  weaks'[z] = IF z = x THEN weaks[z] \cup {r} ELSE weaks[z] \ {r}
      <3>1. CASE z = x
        <4>1. weaks'[z] = (weaks[z] \ {r}) \cup {r}
          BY <2>2, <2>4, <3>1
        <4>2. QED
          BY <3>1, <4>1
      <3>2. CASE z # x
        BY <2>2, <2>4, <3>2
      <3>3. QED
        BY <3>1, <3>2
    <2>6. QED
      BY <2>5
  <1>12. Counted'
    <2>1. \A z : Held(z)' = Held(z)
      BY <1>4, <1>5, <1>8 DEF Held
    <2>2. \A z : Leaving(z)' = Leaving(z)
      BY <1>4 DEF Leaving
    <2>3. \A z : Arriving(z)' = Arriving(z)
      BY <1>3, <1>4 DEF Arriving
    <2>4. QED
      BY <1>1, <2>1, <2>2, <2>3 DEF Inv, Counted
  <1>13. GoneForgotten'
    <2>1. ASSUME NEW z \in Objects, Doomed(z)' \/ life'[z] # "live"
          PROVE  /\ count'[z] = 0 /\ weaks'[z] = {}
                 /\ \A u \in Threads : ~ Pending(u, "retain", z)' /\ ~ Pending(u, "test", z)'
      <3>1. Doomed(z) \/ life[z] # "live"
        BY <1>1, <1>6, <2>1
      <3>2. z # x
        BY <1>9, <3>1, ObjectsAssumption
      <3>3. /\ count[z] = 0 /\ weaks[z] = {}
            /\ \A u \in Threads : ~ Pending(u, "retain", z) /\ ~ Pending(u, "test", z)
        BY <3>1 DEF Inv, GoneForgotten
      <3>4. QED
        BY <1>1, <1>4, <1>11, <3>2, <3>3
    <2>2. QED
      BY <2>1 DEF GoneForgotten
  <1>14. DoomedLive' /\ EndsOnce' /\ NobodyLost' /\ QueueDrained'
    <2>1. DoomedLive'
      BY <1>1, <1>6 DEF Inv, DoomedLive
    <2>2. EndsOnce'
      BY <1>1, <1>4 DEF Inv, EndsOnce, InQueue
    <2>3. NobodyLost'
      BY <1>1, <1>4, <1>6 DEF Inv, NobodyLost
    <2>4. QueueDrained'
      BY <1>1, <1>3 DEF Inv, QueueDrained
    <2>5. QED
      BY <2>1, <2>2, <2>3, <2>4
  <1>15. UnbornUnknown'
    BY <1>1, <1>7, <1>9, ObjectsAssumption DEF Inv, UnbornUnknown
  <1>16. SettersKeep'
    BY <1>4, <1>8 DEF Inv, SettersKeep, Owner
  <1>17. Registered'
    <2>1. ASSUME NEW z \in Objects, NEW p \in weaks'[z]
          PROVE  /\ ref'[p] = z /\ ~ Taken(p)'
                 /\ Owner'[p] \in Objects => life'[Owner'[p]] = "live"
      <3>1. CASE p = r
        <4>1. z = x
          BY <1>11, <2>1, <3>1
        <4>2. QED
          BY <1>1, <1>5, <1>7, <1>10, <3>1, <4>1 DEF Owner
      <3>2. CASE p # r
        <4>1. p \in weaks[z]
          BY <1>11, <2>1, <3>2
        <4>2. p \in Slots
          BY <1>2, <4>1 DEF TypeOK, Slots
        <4>3. QED
          BY <1>1, <1>5, <1>7, <3>2, <4>1, <4>2 DEF Inv, Registered, Owner
      <3>3. QED
        BY <3>1, <3>2
    <2>2. ASSUME NEW p \in Weaks, ref'[p] # NoObject, ~ Taken(p)'
          PROVE  p \in weaks'[ref'[p]]
      <3>1. CASE p = r
        BY <1>7, <1>9, <1>11, <2>2, <3>1
      <3>2. CASE p # r
        <4>1. p \in Slots /\ ref'[p] = ref[p] /\ ~ Taken(p)
          BY <1>5, <1>7, <2>2, <3>2 DEF Slots
        <4>2. p \in weaks[ref[p]] /\ ref[p] \in Objects
          BY <1>2, <2>2, <4>1, Owners DEF Inv, Registered
        <4>3. QED
          BY <1>11, <3>2, <4>1, <4>2
      <3>3. QED
        BY <3>1, <3>2
    <2>3. QED
      BY <2>1, <2>2 DEF Registered
  <1>18. OneHome'
    <2>1. \A u \in Threads, z \in Objects : Mentions(u, z)' => Mentions(u, z) \/ (u = Owner[r] /\ z = x)
      BY <1>4, <1>7 DEF Mentions, Owner
    <2>2. \A u \in Threads : u = Owner[r] => u = t
      BY <1>1, <1>2, Owners, UsableKept
    <2>3. ASSUME NEW u \in Threads, NEW v \in Threads, NEW z \in Objects,
                 Mentions(u, z)', Mentions(v, z)'
          PROVE  u = v
      <3>1. CASE z = x
        <4>1. Mentions(u, z) \/ u = t
          BY <2>1, <2>2, <2>3
        <4>2. Mentions(v, z) \/ v = t
          BY <2>1, <2>2, <2>3
        <4>3. QED
          BY <1>9, <3>1, <4>1, <4>2, ObjectsAssumption
      <3>2. CASE z # x
        <4>1. Mentions(u, z) /\ Mentions(v, z)
          BY <2>1, <2>3, <3>2
        <4>2. QED
          BY <4>1 DEF Inv, OneHome
      <3>3. QED
        BY <3>1, <3>2
    <2>4. QED
      BY <2>3 DEF OneHome
  <1>19. Undisturbed'
    BY <1>1, <1>3 DEF Inv, Undisturbed, OneThread, Owner, At, TestsOnTop
  <1>20. (\A u \in Threads : Shape(todo[u]))'
    <2>1. \A u \in Threads : Shape(todo'[u])
      BY <1>1 DEF Inv
    <2>2. QED
      BY <2>1, ShapeNext
  <1>21. QED
    BY <1>2, <1>12, <1>13, <1>14, <1>15, <1>16, <1>17, <1>18, <1>19, <1>20 DEF Inv

LEMMA ClientKeeps ==
  ASSUME Safe, Inv, UNCHANGED layout, NEW t \in Threads, Client(t)
  PROVE  Inv'
  <1>1. TypeOK /\ TypeOK'
    BY ClientType DEF Inv
  <1>2. ASSUME NEW s \in Strongs, NEW o \in Objects, Allocate(t, s, o)
        PROVE  Inv'
    <2>1. /\ Idle(t) /\ Usable(t, s) /\ life[o] = "unborn"
          /\ life' = [life EXCEPT ![o] = "live"]
          /\ todo' = [todo EXCEPT ![t] = Set(s, o)]
          /\ UNCHANGED <<count, ref, weaks, queue>>
      BY <1>2 DEF Allocate
    <2>2. ~ Doomed(o) /\ \A u \in Threads : ~ Mentions(u, o)
      BY <2>1, UnbornUnmentioned
    <2>3. /\ \E q \in Slots : Owner[q] = t
          /\ Owner[s] = t \/ \E q \in Strongs : Owner[q] = t /\ ref[q] = Owner[s]
      BY <2>1, UsableKept DEF Slots
    <2>4. life'[o] = "live" /\ o \in Objects \cup {NoObject}
      BY <1>1, <2>1 DEF TypeOK
    <2>5. QED
      BY <1>1, <2>1, <2>2, <2>3, <2>4, SetBegins
  <1>3. ASSUME NEW s \in Strongs, NEW q \in Slots, Assign(t, s, q) \/ Capture(t, s, q),
               Usable(t, s) \/ s \in Captured
        PROVE  Inv'
    <2>1. /\ Idle(t) /\ Usable(t, q) /\ ref[q] # NoObject
          /\ todo' = [todo EXCEPT ![t] = Set(s, ref[q])]
          /\ UNCHANGED <<life, count, ref, weaks, queue>>
      BY <1>3 DEF Assign, Capture
    <2>2. PICK x : x = ref[q]
      OBVIOUS
    <2>3. /\ x \in Objects /\ life[x] = "live" /\ ~ Doomed(x)
          /\ \A u \in Threads : Mentions(u, x) => u = t
      BY <2>1, <2>2, UsableKnown
    <2>4. \E p \in Slots : Owner[p] = t
      BY <2>1, UsableKept
    <2>5. Owner[s] = t \/ \E p \in Strongs : Owner[p] = t /\ ref[p] = Owner[s]
      <3>1. CASE Usable(t, s)
        BY <2>1, <3>1, UsableKept DEF Slots
      <3>2. CASE s \in Captured
        <4>1. Owner[s] \in Threads /\ OneThread(layout)
          BY <1>1, <3>2, Owners, Kinds
        <4>2. PICK p \in Slots : Owner[p] = t
          BY <2>4
        <4>3. s \in Slots
          BY DEF Slots
        <4>4. Owner[s] = t
          BY <4>1, <4>2, <4>3, OwnersOne
        <4>5. QED
          BY <4>4
      <3>3. QED
        BY <1>3, <3>1, <3>2
    <2>6. /\ todo' = [todo EXCEPT ![t] = Set(s, x)] /\ life'[x] = "live"
          /\ x \in Objects \cup {NoObject}
      BY <2>1, <2>2, <2>3
    <2>7. QED
      BY <1>1, <2>1, <2>3, <2>4, <2>5, <2>6, SetBegins
  <1>4. ASSUME NEW s \in Strongs, Reset(t, s)
        PROVE  Inv'
    <2>1. /\ Idle(t) /\ Usable(t, s)
          /\ todo' = [todo EXCEPT ![t] = Set(s, NoObject)]
          /\ UNCHANGED <<life, count, ref, weaks, queue>>
      BY <1>4 DEF Reset
    <2>2. /\ \E q \in Slots : Owner[q] = t
          /\ Owner[s] = t \/ \E q \in Strongs : Owner[q] = t /\ ref[q] = Owner[s]
      BY <2>1, UsableKept DEF Slots
    <2>3. QED
      BY <1>1, <2>1, <2>2, SetBegins
  <1>5. ASSUME NEW r \in Weaks, NEW x \in Objects \cup {NoObject}, WeakSet(t, r, x)
        PROVE  Inv'
    BY <1>5, WeakSetKeeps
  <1>6. CASE \E s \in Strongs, o \in Objects : Allocate(t, s, o)
    BY <1>2, <1>6
  <1>7. CASE \E s \in Strongs, q \in Slots : Assign(t, s, q)
    <2>1. PICK s \in Strongs, q \in Slots : Assign(t, s, q)
      BY <1>7
    <2>2. Usable(t, s)
      BY <2>1 DEF Assign
    <2>3. QED
      BY <1>3, <2>1, <2>2
  <1>8. CASE \E s \in Captured, q \in Strongs : Capture(t, s, q)
    <2>1. PICK s \in Captured, q \in Strongs : Capture(t, s, q)
      BY <1>8
    <2>2. s \in Strongs /\ q \in Slots
      BY <1>1, Owners
    <2>3. QED
      BY <1>3, <2>1, <2>2
  <1>9. CASE \E s \in Strongs : Reset(t, s)
    BY <1>4, <1>9
  <1>10. CASE \E r \in Weaks, x \in Objects \cup {NoObject} : WeakSet(t, r, x)
    BY <1>5, <1>10
  <1>11. QED
    BY <1>6, <1>7, <1>8, <1>9, <1>10 DEF Client

LEMMA StepKeeps ==
  ASSUME Safe, Inv, UNCHANGED layout, NEW t \in Threads, Step(t)
  PROVE  Inv'
  <1>1. PICK o : o = Now(t).obj
    OBVIOUS
  <1>2. PICK s : s = Now(t).slot
    OBVIOUS
  <1>3. CASE DoRetain(t)
    BY <1>1, <1>3, RetainKeeps
  <1>4. CASE DoDec(t)
    BY <1>1, <1>4, DecKeeps
  <1>5. CASE DoTest(t)
    BY <1>1, <1>5, TestKeeps
  <1>6. CASE DoDrain(t)
    <2>1. PICK x : x = Head(queue)
      OBVIOUS
    <2>2. QED
      BY <1>6, <2>1, DrainEmptyKeeps, DrainPopKeeps
  <1>7. CASE DoCheck(t)
    BY <1>1, <1>7, CheckKeeps
  <1>8. CASE DoDelete(t)
    <2>1. At(t, "delete")
      BY <1>8 DEF DoDelete
    <2>2. ASSUME NEW r \in Now(t).left, WeakMember(t, o, Now(t).left, r)
          PROVE  Inv'
      BY <1>1, <2>1, <2>2, WeakMemberKeeps
    <2>3. ASSUME NEW r \in Now(t).left, StrongMember(t, o, Now(t).left, r)
          PROVE  Inv'
      <3>1. PICK y : y = ref[r]
        OBVIOUS
      <3>2. QED
        BY <1>1, <2>1, <2>3, <3>1, NullMemberKeeps, StrongMemberKeeps
    <2>4. CASE /\ Now(t).left = {}
               /\ life' = [life EXCEPT ![o] = "dead"]
               /\ ref' = [q \in Slots |-> IF Owner[q] = o THEN NoObject ELSE ref[q]]
               /\ Then(t, <<>>)
               /\ UNCHANGED <<count, weaks, queue>>
      BY <1>1, <2>1, <2>4, DeallocKeeps
    <2>5. QED
      BY <1>1, <1>8, <2>2, <2>3, <2>4 DEF DoDelete, Now
  <1>9. CASE DoDrop(t)
    <2>1. PICK y : y = ref[s]
      OBVIOUS
    <2>2. QED
      BY <1>2, <1>9, <2>1, DropKeeps, DropNullKeeps
  <1>10. CASE DoStore(t)
    BY <1>1, <1>2, <1>10, StoreKeeps
  <1>11. QED
    BY <1>3, <1>4, <1>5, <1>6, <1>7, <1>8, <1>9, <1>10 DEF Step

LEMMA InitInv == Init => Inv
  <1> SUFFICES ASSUME Init PROVE Inv
    OBVIOUS
  <1>1. TypeOK
    BY InitType
  <1>2. \A t \in Threads : todo[t] = <<>> /\ Idle(t)
    BY DEF Init, Idle
  <1>3. \A t \in Threads : /\ \A name : Of(t, name) = {}
                           /\ \A name, o : ~ Pending(t, name, o)
                           /\ \A s : ~ Setting(t, s) /\ ~ Unlinked(t, s)
                           /\ \A o : ~ Ending(t, o)
    <2>1. \A t \in Threads : \A name : Of(t, name) = {}
      BY <1>2, IdleNothing
    <2>2. QED
      BY <2>1 DEF Pending, Setting, Unlinked, Ending
  <1>4. /\ \A o \in Objects : life[o] = "unborn" /\ count[o] = 0 /\ weaks[o] = {}
        /\ \A s \in Slots : ref[s] = NoObject
        /\ queue = <<>>
    BY DEF Init
  <1>5. \A s : ~ Taken(s)
    BY <1>3 DEF Taken
  <1>6. \A o : ~ Doomed(o) /\ ~ InQueue(o)
    BY <1>3, <1>4 DEF Doomed, InQueue
  <1>7. \A t \in Threads : Shape(todo[t])
    <2>1. DOMAIN <<>> = {}
      OBVIOUS
    <2>2. QED
      BY <1>2, <2>1 DEF Shape
  <1>8. Counted
    <2>1. \A o \in Objects : Held(o) = {} /\ Arriving(o) = {} /\ Leaving(o) = {}
      BY <1>3, <1>4, ObjectsAssumption DEF Held, Arriving, Leaving, Slots
    <2>2. \A S : S = {} => Cardinality(S) = 0
      BY FS_EmptySet
    <2>3. QED
      BY <1>4, <2>1, <2>2 DEF Counted
  <1>9. GoneForgotten /\ DoomedLive /\ NobodyLost /\ QueueDrained
    BY <1>3, <1>4, <1>6 DEF GoneForgotten, DoomedLive, NobodyLost, QueueDrained
  <1>10. EndsOnce /\ UnbornUnknown
    <2>1. DOMAIN queue = {}
      BY <1>4
    <2>2. QED
      BY <1>3, <1>4, <2>1, ObjectsAssumption DEF EndsOnce, UnbornUnknown
  <1>11. SettersKeep /\ Registered
    BY <1>3, <1>4 DEF SettersKeep, Registered, Slots
  <1>12. OneHome
    BY <1>3, <1>4, ObjectsAssumption DEF OneHome, Mentions
  <1>13. Undisturbed
    <2>1. DOMAIN <<>> = {}
      OBVIOUS
    <2>2. QED
      BY <1>2, <1>4, <2>1 DEF Undisturbed, TestsOnTop
  <1>14. QED
    BY <1>1, <1>7, <1>8, <1>9, <1>10, <1>11, <1>12, <1>13 DEF Inv

LEMMA NextKeeps == Safe /\ Inv /\ [Next]_vars => Inv'
  <1> SUFFICES ASSUME Safe, Inv, [Next]_vars PROVE Inv'
    OBVIOUS
  <1>1. CASE Next
    BY <1>1, ClientKeeps, StepKeeps DEF Next
  <1>2. CASE UNCHANGED vars
    <2>1. UNCHANGED <<layout, life, count, ref, weaks, queue, todo>>
      BY <1>2 DEF vars
    <2>2. \A u, name : Of(u, name)' = Of(u, name)
      BY <2>1 DEF Of
    <2>3. \A u, name, z : Pending(u, name, z)' <=> Pending(u, name, z)
      BY <2>2 DEF Pending
    <2>4. \A u, p : /\ Setting(u, p)' <=> Setting(u, p)
                    /\ Unlinked(u, p)' <=> Unlinked(u, p)
      BY <2>2 DEF Setting, Unlinked
    <2>5. \A p : Taken(p)' <=> Taken(p)
      BY <2>1, <2>2 DEF Taken, Owner
    <2>6. \A u, z : Ending(u, z)' <=> Ending(u, z)
      BY <2>3 DEF Ending
    <2>7. \A z : (InQueue(z)' <=> InQueue(z)) /\ (Doomed(z)' <=> Doomed(z))
      BY <2>1, <2>6 DEF Doomed, InQueue
    <2>8. \A u, z : Mentions(u, z)' <=> Mentions(u, z)
      BY <2>1, <2>3 DEF Mentions, Owner
    <2>9. \A z : /\ Held(z)' = Held(z)
                 /\ Arriving(z)' = Arriving(z)
                 /\ Leaving(z)' = Leaving(z)
      <3>1. \A z : Held(z)' = Held(z)
        BY <2>1, <2>4, <2>5 DEF Held
      <3>2. \A z : Arriving(z)' = Arriving(z)
        BY <2>2, <2>3 DEF Arriving
      <3>3. \A z : Leaving(z)' = Leaving(z)
        BY <2>3 DEF Leaving
      <3>4. QED
        BY <3>1, <3>2, <3>3
    <2>10. TypeOK'
      BY <2>1 DEF Inv, TypeOK
    <2>11. \A u \in Threads : Shape(todo[u])'
      BY <2>1 DEF Inv, Shape, Members, Owner
    <2>12. Counted'
      BY <2>1, <2>9 DEF Inv, Counted
    <2>13. GoneForgotten'
      BY <2>1, <2>3, <2>7 DEF Inv, GoneForgotten
    <2>14. DoomedLive' /\ UnbornUnknown'
      BY <2>1, <2>7 DEF Inv, DoomedLive, UnbornUnknown
    <2>15. EndsOnce'
      BY <2>1, <2>6, <2>7 DEF Inv, EndsOnce
    <2>16. NobodyLost'
      BY <2>1, <2>3, <2>7 DEF Inv, NobodyLost
    <2>17. QueueDrained'
      BY <2>1, <2>2 DEF Inv, QueueDrained
    <2>18. SettersKeep'
      BY <2>1, <2>4 DEF Inv, SettersKeep, Owner
    <2>19. Registered'
      BY <2>1, <2>5 DEF Inv, Registered, Owner
    <2>20. OneHome'
      BY <2>8 DEF Inv, OneHome
    <2>21. Undisturbed'
      BY <2>1, <2>2 DEF Inv, Undisturbed, OneThread, TestsOnTop, At, Owner
    <2>22. QED
      BY <2>10, <2>11, <2>12, <2>13, <2>14, <2>15, <2>16, <2>17, <2>18, <2>19,
         <2>20, <2>21 DEF Inv
  <1>3. QED
    BY <1>1, <1>2

\* The counts, the queue, the registry and what the threads have still to do
\* agree in every state of a safe program.
THEOREM CountsKept ==
  ASSUME Safe
  PROVE  Spec => []Inv
  <1>1. Inv /\ [Next]_vars => Inv'
    BY NextKeeps
  <1>2. QED
    BY InitInv, <1>1, PTL DEF Spec

\* In a safe program retain(), release(), unlock() and the destructors touch
\* only objects that are still allocated.
THEOREM UseIsSafe ==
  ASSUME Safe
  PROVE  Spec => []NoUseAfterFree
  <1>1. Inv => NoUseAfterFree
    <2>1. SUFFICES ASSUME Inv, NEW t \in Threads, Touches(t)
                   PROVE  life[Now(t).obj] = "live"
      BY DEF NoUseAfterFree, Now
    <2>2. /\ todo[t] # <<>> /\ Now(t).op \in {"retain", "dec", "test", "check", "delete"}
          /\ Now(t) \in Ops
      BY <2>1, OfFirst DEF Touches, Now
    <2>3. PICK o : o = Now(t).obj
      OBVIOUS
    <2>4. o \in Objects
      BY <2>2, <2>3, ObjectOpFields, DeleteFields
    <2>5. Pending(t, Now(t).op, o)
      BY <2>1, <2>2, <2>3, OfFirst DEF Pending
    <2>6. CASE Now(t).op \in {"retain", "test"}
      BY <2>1, <2>3, <2>4, <2>5, <2>6 DEF Inv, GoneForgotten
    <2>7. CASE Now(t).op = "dec"
      <3>1. t \in Leaving(o)
        BY <2>5, <2>7 DEF Leaving
      <3>2. QED
        BY <2>1, <2>3, <2>4, <3>1, CountedStays
    <2>8. CASE Now(t).op \in Ends
      <3>1. Doomed(o)
        BY <2>5, <2>8 DEF Doomed, Ending, Ends
      <3>2. QED
        BY <2>1, <2>3, <2>4, <3>1 DEF Inv, DoomedLive
    <2>9. QED
      BY <2>2, <2>6, <2>7, <2>8 DEF Ends
  <1>2. QED
    BY CountsKept, <1>1, PTL

\* In a safe program ~Object() runs at most once per object.
THEOREM DeletedOnce ==
  ASSUME Safe
  PROVE  Spec => []DeallocOnce
  <1>1. NoUseAfterFree => DeallocOnce
    BY DEF NoUseAfterFree, DeallocOnce, Touches, At
  <1>2. QED
    BY UseIsSafe, <1>1, PTL

\* In a safe program the object of a Strong that nobody is assigning is
\* allocated, counted and not queued for deletion.
THEOREM StrongIsSafe ==
  ASSUME Safe
  PROVE  Spec => []StrongKeepsAlive
  <1>1. Inv => StrongKeepsAlive
    <2>1. SUFFICES ASSUME Inv, NEW s \in Strongs, ref[s] # NoObject, Settled(s)
                   PROVE  /\ life[ref[s]] = "live" /\ count[ref[s]] > 0
                          /\ \A i \in DOMAIN queue : queue[i] # ref[s]
      BY DEF StrongKeepsAlive
    <2>2. ref[s] \in Objects
      BY <2>1, Owners DEF Inv
    <2>3. ~ Taken(s) /\ \A t \in Threads : ~ Unlinked(t, s)
      <3>1. \A t \in Threads : \A e \in El(todo[t]) :
              /\ e.op \in {"drop", "store"} => e.slot # s
              /\ e.op = "delete" => e.obj # Owner[s]
        BY <2>1 DEF Settled, El
      <3>2. QED
        BY <3>1 DEF Taken, Unlinked, Setting, Of
    <2>4. s \in Held(ref[s])
      BY <2>3 DEF Held
    <2>5. QED
      BY <2>1, <2>2, <2>4, CountedStays DEF Doomed, InQueue
  <1>2. QED
    BY CountsKept, <1>1, PTL

\* In a safe program a Weak is null or points to an object that is allocated
\* and not queued, and the registry holds exactly the pointers that exist.
THEOREM WeakIsSafe ==
  ASSUME Safe
  PROVE  Spec => []WeaksRegistered
  <1>1. Inv => WeaksRegistered
    <2>1. SUFFICES ASSUME Inv PROVE WeaksRegistered
      OBVIOUS
    <2>2. ASSUME NEW r \in Weaks, ref[r] # NoObject, Settled(r)
          PROVE  /\ life[ref[r]] = "live" /\ r \in weaks[ref[r]]
                 /\ \A i \in DOMAIN queue : queue[i] # ref[r]
      <3>1. ref[r] \in Objects
        BY <2>1, <2>2, Owners DEF Inv
      <3>2. ~ Taken(r)
        <4>1. \A t \in Threads : \A e \in El(todo[t]) : e.op = "delete" => e.obj # Owner[r]
          BY <2>2 DEF Settled, El
        <4>2. QED
          BY <4>1 DEF Taken, Of
      <3>3. r \in weaks[ref[r]]
        BY <2>1, <2>2, <3>2 DEF Inv, Registered
      <3>4. life[ref[r]] = "live" /\ ~ Doomed(ref[r])
        BY <2>1, <3>1, <3>3 DEF Inv, GoneForgotten
      <3>5. QED
        BY <3>3, <3>4 DEF Doomed, InQueue
    <2>3. QED
      BY <2>1, <2>2 DEF WeaksRegistered, Inv, Registered
  <1>2. QED
    BY CountsKept, <1>1, PTL

\* When a safe program has no operation under way, each count is the number of
\* Strongs that point to the object, and what nothing points to is gone.
THEOREM CountIsExact ==
  ASSUME Safe
  PROVE  Spec => []CountsExact
  <1>1. Inv => CountsExact
    <2>1. SUFFICES ASSUME Inv, \A t \in Threads : Idle(t),
                          NEW o \in Objects, life[o] # "unborn"
                   PROVE  /\ (life[o] = "live") <=> (count[o] > 0)
                          /\ count[o] = Cardinality({s \in Strongs : ref[s] = o})
      BY DEF CountsExact
    <2>2. \A t \in Threads : \A name : Of(t, name) = {}
      BY <2>1, IdleNothing
    <2>3. /\ Held(o) = {s \in Strongs : ref[s] = o}
          /\ Arriving(o) = {} /\ Leaving(o) = {}
      <3>1. \A s : ~ Taken(s) /\ \A t \in Threads : ~ Unlinked(t, s)
        BY <2>2 DEF Taken, Unlinked, Setting
      <3>2. \A t \in Threads : \A name : ~ Pending(t, name, o)
        BY <2>2 DEF Pending
      <3>3. QED
        BY <3>1, <3>2 DEF Held, Arriving, Leaving
    <2>4. count[o] = Cardinality({s \in Strongs : ref[s] = o})
      <3>1. count[o] = Cardinality(Held(o)) + Cardinality(Arriving(o)) + Cardinality(Leaving(o))
        BY <2>1 DEF Inv, Counted
      <3>2. Cardinality(Arriving(o)) = 0 /\ Cardinality(Leaving(o)) = 0
        BY <2>3, FS_EmptySet
      <3>3. Cardinality(Held(o)) \in Nat
        BY FewCount, Cards
      <3>4. QED
        BY <2>3, <3>1, <3>2, <3>3
    <2>5. count[o] \in Nat
      BY <2>1, CountNat
    <2>6. life[o] = "live" => count[o] > 0
      <3>1. queue = <<>>
        BY <2>1, <2>2 DEF Inv, QueueDrained
      <3>2. ~ Doomed(o) /\ \A t \in Threads : \A name : ~ Pending(t, name, o)
        BY <2>2, <3>1 DEF Doomed, InQueue, Ending, Pending
      <3>3. life[o] = "live" => count[o] # 0
        BY <2>1, <3>2 DEF Inv, NobodyLost
      <3>4. QED
        BY <2>5, <3>3
    <2>7. count[o] > 0 => life[o] = "live"
      BY <2>1 DEF Inv, GoneForgotten
    <2>8. QED
      BY <2>4, <2>6, <2>7
  <1>2. QED
    BY CountsKept, <1>1, PTL

=============================================================================
