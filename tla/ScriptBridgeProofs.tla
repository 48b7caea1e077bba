------------------------- MODULE ScriptBridgeProofs -------------------------
(***************************************************************************)
(* Proofs about JITContext and ScriptBridge.  The tables: what the         *)
(* operations on them change, and that the heap keeps the function of every *)
(* JSObject that they know.  The queues: get() sees the writes before it,   *)
(* and no function runs in the heap of a worker that was destroyed.         *)
(***************************************************************************)
EXTENDS ScriptBridge, TLAPS

(***************************************************************************)
(* The tables.                                                             *)
(***************************************************************************)

Tables(T) == T = [strong |-> T.strong, weak |-> T.weak, objs |-> T.objs]

\* weak() of a new key gives its object that value, and changes no other object's.
LEMMA WeakEnters ==
  ASSUME NEW T, Tables(T), NEW ctx, NEW h, NEW o, h \notin DOMAIN T.weak
  PROVE  /\ Tables(Weak(T, ctx, h, o))
         /\ DOMAIN Weak(T, ctx, h, o).weak = DOMAIN T.weak \cup {h}
         /\ Weak(T, ctx, h, o).strong = T.strong
         /\ DOMAIN Weak(T, ctx, h, o).objs = DOMAIN T.objs \cup {o}
         /\ GetHeapptr(Weak(T, ctx, h, o), o, ctx) = h
         /\ \A p, c : <<p, c>> # <<o, ctx>> =>
              GetHeapptr(Weak(T, ctx, h, o), p, c) = GetHeapptr(T, p, c)
  <1> DEFINE U == Weak(T, ctx, h, o)
  <1> DEFINE of == With(IF o \in DOMAIN T.objs THEN T.objs[o] ELSE <<>>, ctx, h)
  <1>1. U = [strong |-> T.strong, weak |-> With(T.weak, h, o), objs |-> With(T.objs, o, of)]
    BY DEF Weak, Entered, Tables
  <1>2. DOMAIN of = (IF o \in DOMAIN T.objs THEN DOMAIN T.objs[o] ELSE {}) \cup {ctx}
    BY DEF With
  <1>3. of[ctx] = h /\ \A c \in DOMAIN of : c # ctx => of[c] = T.objs[o][c]
    BY DEF With
  <1> HIDE DEF of
  <1>4. DOMAIN U.objs = DOMAIN T.objs \cup {o} /\ U.objs[o] = of
    BY <1>1 DEF With
  <1>5. \A p \in DOMAIN T.objs : p # o => U.objs[p] = T.objs[p]
    BY <1>1 DEF With
  <1>6. DOMAIN U.weak = DOMAIN T.weak \cup {h}
    BY <1>1 DEF With
  <1>7. Tables(U) /\ U.strong = T.strong
    BY <1>1 DEF Tables
  <1> HIDE DEF U
  <1>8. GetHeapptr(U, o, ctx) = h
    BY <1>2, <1>3, <1>4 DEF GetHeapptr
  <1>9. ASSUME NEW p, NEW c, <<p, c>> # <<o, ctx>>
        PROVE  GetHeapptr(U, p, c) = GetHeapptr(T, p, c)
    <2>1. CASE p # o
      BY <2>1, <1>4, <1>5 DEF GetHeapptr
    <2>2. CASE p = o /\ c # ctx
      BY <2>2, <1>2, <1>3, <1>4 DEF GetHeapptr
    <2>3. QED
      BY <2>1, <2>2, <1>9
  <1>10. QED
    BY <1>4, <1>6, <1>7, <1>8, <1>9 DEF U

\* strong() gives its object the value or leaves it the one it had.
LEMMA StrongEnters ==
  ASSUME NEW T, Tables(T), NEW ctx, NEW h, NEW o
  PROVE  /\ Tables(Strong(T, ctx, h, o))
         /\ Strong(T, ctx, h, o).weak = T.weak
         /\ DOMAIN Strong(T, ctx, h, o).objs \subseteq DOMAIN T.objs \cup {o}
         /\ \A x \in DOMAIN Strong(T, ctx, h, o).strong :
              \/ x = h /\ Strong(T, ctx, h, o).strong[x] = o
              \/ x \in DOMAIN T.strong /\ Strong(T, ctx, h, o).strong[x] = T.strong[x]
         /\ GetHeapptr(Strong(T, ctx, h, o), o, ctx) \in {h, GetHeapptr(T, o, ctx)}
         /\ \A p, c : <<p, c>> # <<o, ctx>> =>
              GetHeapptr(Strong(T, ctx, h, o), p, c) = GetHeapptr(T, p, c)
  <1> DEFINE U == Strong(T, ctx, h, o)
  <1> DEFINE of == With(IF o \in DOMAIN T.objs THEN T.objs[o] ELSE <<>>, ctx, h)
  <1>1. CASE h \in DOMAIN T.strong
    BY <1>1 DEF Strong, Tables
  <1>2. CASE h \notin DOMAIN T.strong
    <2>1. U = [strong |-> With(T.strong, h, o), weak |-> T.weak, objs |-> With(T.objs, o, of)]
      BY <1>2 DEF Strong, Entered, Tables
    <2>2. DOMAIN of = (IF o \in DOMAIN T.objs THEN DOMAIN T.objs[o] ELSE {}) \cup {ctx}
      BY DEF With
    <2>3. of[ctx] = h /\ \A c \in DOMAIN of : c # ctx => of[c] = T.objs[o][c]
      BY DEF With
    <2> HIDE DEF of
    <2>4. DOMAIN U.objs = DOMAIN T.objs \cup {o} /\ U.objs[o] = of
      BY <2>1 DEF With
    <2>5. \A p \in DOMAIN T.objs : p # o => U.objs[p] = T.objs[p]
      BY <2>1 DEF With
    <2>6. \A x \in DOMAIN U.strong :
            \/ x = h /\ U.strong[x] = o
            \/ x \in DOMAIN T.strong /\ U.strong[x] = T.strong[x]
      BY <2>1 DEF With
    <2>7. Tables(U) /\ U.weak = T.weak
      BY <2>1 DEF Tables
    <2> HIDE DEF U
    <2>8. GetHeapptr(U, o, ctx) = h
      BY <2>2, <2>3, <2>4 DEF GetHeapptr
    <2>9. ASSUME NEW p, NEW c, <<p, c>> # <<o, ctx>>
          PROVE  GetHeapptr(U, p, c) = GetHeapptr(T, p, c)
      <3>1. CASE p # o
        BY <3>1, <2>4, <2>5 DEF GetHeapptr
      <3>2. CASE p = o /\ c # ctx
        BY <3>2, <2>2, <2>3, <2>4 DEF GetHeapptr
      <3>3. QED
        BY <3>1, <3>2, <2>9
    <2>10. QED
      BY <2>4, <2>6, <2>7, <2>8, <2>9 DEF U
  <1>3. QED
    BY <1>1, <1>2

\* remove(object): no context has a value for it, and the others keep theirs.
LEMMA RemoveObjectForgets ==
  ASSUME NEW T, NEW o
  PROVE  /\ Tables(RemoveObject(T, o))
         /\ DOMAIN RemoveObject(T, o).weak = DOMAIN T.weak \ Values(T, o)
         /\ \A x \in DOMAIN RemoveObject(T, o).strong :
              x \in DOMAIN T.strong /\ RemoveObject(T, o).strong[x] = T.strong[x]
         /\ DOMAIN RemoveObject(T, o).objs = DOMAIN T.objs \ {o}
         /\ \A c : GetHeapptr(RemoveObject(T, o), o, c) = NoHeapptr
         /\ \A p, c : p # o => GetHeapptr(RemoveObject(T, o), p, c) = GetHeapptr(T, p, c)
  <1> DEFINE V == Values(T, o)
  <1> DEFINE U == RemoveObject(T, o)
  <1>1. U = [strong |-> Without(T.strong, V), weak |-> Without(T.weak, V),
             objs |-> Without(T.objs, {o})]
    BY DEF RemoveObject
  <1> HIDE DEF V
  <1>2. DOMAIN U.weak = DOMAIN T.weak \ V
    BY <1>1 DEF Without
  <1>3. \A x \in DOMAIN U.strong : x \in DOMAIN T.strong /\ U.strong[x] = T.strong[x]
    BY <1>1 DEF Without
  <1>4. DOMAIN U.objs = DOMAIN T.objs \ {o} /\ \A p \in DOMAIN U.objs : U.objs[p] = T.objs[p]
    BY <1>1 DEF Without
  <1>5. Tables(U)
    BY <1>1 DEF Tables
  <1> HIDE DEF U
  <1>6. \A c : GetHeapptr(U, o, c) = NoHeapptr
    BY <1>4 DEF GetHeapptr
  <1>7. \A p, c : p # o => GetHeapptr(U, p, c) = GetHeapptr(T, p, c)
    BY <1>4 DEF GetHeapptr
  <1>8. QED
    BY <1>2, <1>3, <1>4, <1>5, <1>6, <1>7 DEF U, V

\* remove(heapptr) of a value that is in the strong table: its object has no value.
LEMMA RemoveHeapptrForgets ==
  ASSUME NEW T, NEW h, h \notin DOMAIN T.weak, h \in DOMAIN T.strong
  PROVE  /\ Tables(RemoveHeapptr(T, h))
         /\ DOMAIN RemoveHeapptr(T, h).weak = DOMAIN T.weak
         /\ \A x \in DOMAIN RemoveHeapptr(T, h).strong :
              x \in DOMAIN T.strong /\ RemoveHeapptr(T, h).strong[x] = T.strong[x]
         /\ DOMAIN RemoveHeapptr(T, h).objs = DOMAIN T.objs \ {T.strong[h]}
         /\ \A c : GetHeapptr(RemoveHeapptr(T, h), T.strong[h], c) = NoHeapptr
         /\ \A p, c : p # T.strong[h] =>
              GetHeapptr(RemoveHeapptr(T, h), p, c) = GetHeapptr(T, p, c)
  <1> DEFINE U == RemoveHeapptr(T, h)
  <1>1. U = [strong |-> Without(T.strong, {h}), weak |-> Without(T.weak, {h}),
             objs |-> Without(T.objs, {T.strong[h]})]
    <2>1. {T.weak[x] : x \in DOMAIN T.weak \cap {h}} = {}
      OBVIOUS
    <2>2. {T.strong[x] : x \in DOMAIN T.strong \cap {h}} = {T.strong[h]}
      OBVIOUS
    <2>3. QED
      BY <2>1, <2>2 DEF RemoveHeapptr
  <1>2. DOMAIN U.weak = DOMAIN T.weak
    BY <1>1 DEF Without
  <1>3. \A x \in DOMAIN U.strong : x \in DOMAIN T.strong /\ U.strong[x] = T.strong[x]
    BY <1>1 DEF Without
  <1>4. /\ DOMAIN U.objs = DOMAIN T.objs \ {T.strong[h]}
        /\ \A p \in DOMAIN U.objs : U.objs[p] = T.objs[p]
    BY <1>1 DEF Without
  <1>5. Tables(U)
    BY <1>1 DEF Tables
  <1> HIDE DEF U
  <1>6. \A c : GetHeapptr(U, T.strong[h], c) = NoHeapptr
    BY <1>4 DEF GetHeapptr
  <1>7. \A p, c : p # T.strong[h] => GetHeapptr(U, p, c) = GetHeapptr(T, p, c)
    BY <1>4 DEF GetHeapptr
  <1>8. QED
    BY <1>2, <1>3, <1>4, <1>5, <1>6, <1>7 DEF U

\* An object that is being destroyed keeps its value until remove().
LEMMA ClearedKeeps ==
  ASSUME NEW T, Tables(T), NEW o
  PROVE  /\ Tables(Cleared(T, o))
         /\ DOMAIN Cleared(T, o).weak = DOMAIN T.weak
         /\ Cleared(T, o).strong = T.strong
         /\ Cleared(T, o).objs = T.objs
  BY DEF Cleared, Tables

(***************************************************************************)
(* The inductive invariant.  FunctionsKept alone is not inductive: it must *)
(* be known that two JSObjects never have the same value, that a value in   *)
(* the weak table always has its JSObject, living or dying, and that a      *)
(* function is under its own key in the stash.                              *)
(***************************************************************************)

\* The tables are those of one context, and only the Worker is strong.
Shape ==
  /\ Tables(tables)
  /\ DOMAIN tables.weak \subseteq Callbacks
  /\ \A x \in DOMAIN tables.strong : tables.strong[x] = TheWorker
  /\ \A o \in DOMAIN tables.objs : \A c \in DOMAIN tables.objs[o] :
       c # Context => tables.objs[o][c] = NoHeapptr

Typed ==
  /\ object \in [JSObjects -> {"free", "live", "dying"}]
  /\ made \in [JSObjects -> Callbacks \cup {NoHeapptr}]

\* A JSObject that has a value: the function it was made for, kept by the heap.
Named(j) ==
  /\ object[j] # "free" /\ Heapptr(j) = made[j]
  /\ Heapptr(j) \in DOMAIN tables.weak /\ Stashed(Heapptr(j))

AllNamed == \A j \in JSObjects : Heapptr(j) # NoHeapptr => Named(j)

Distinct ==
  \A i, j \in JSObjects : Heapptr(i) = Heapptr(j) /\ Heapptr(i) # NoHeapptr => i = j

AllFound == \A f \in DOMAIN tables.weak : \E j \in JSObjects : Heapptr(j) = f

AllOwned ==
  \A k \in DOMAIN stash :
    /\ stash[k] \in Callbacks /\ k = StashKey[stash[k]]
    /\ \E j \in JSObjects : Heapptr(j) = stash[k]

KeptInv == Shape /\ Typed /\ AllNamed /\ Distinct /\ AllFound /\ AllOwned

kept == <<tables, stash, object, made>>

LEMMA KeptInvImplies == KeptInv => FunctionsKept
  <1> SUFFICES ASSUME KeptInv PROVE FunctionsKept
    OBVIOUS
  <1>1. \A j \in JSObjects : Heapptr(j) # NoHeapptr =>
          object[j] # "free" /\ Heapptr(j) = made[j] /\ Stashed(Heapptr(j))
    BY DEF KeptInv, AllNamed, Named
  <1>2. ASSUME NEW k \in DOMAIN stash
        PROVE  \E j \in JSObjects : object[j] # "free" /\ made[j] = stash[k]
    <2>1. PICK j \in JSObjects : Heapptr(j) = stash[k]
      BY DEF KeptInv, AllOwned
    <2>2. Heapptr(j) # NoHeapptr
      BY <2>1, ValuesDiffer DEF KeptInv, AllOwned
    <2>3. QED
      BY <2>1, <2>2, <1>1
  <1>3. QED
    BY <1>1, <1>2 DEF FunctionsKept

LEMMA KeptInvInit == Init => KeptInv
  <1> SUFFICES ASSUME StorageInit PROVE KeptInv
    BY DEF Init
  <1> USE DEF StorageInit, NoEntries
  <1>1. tables = [strong |-> <<>>, weak |-> <<>>, objs |-> <<>>]
    OBVIOUS
  <1>2. DOMAIN tables.weak = {} /\ DOMAIN tables.strong = {} /\ DOMAIN tables.objs = {}
    BY <1>1
  <1>3. \A j : Heapptr(j) = NoHeapptr
    BY <1>2 DEF Heapptr, GetHeapptr
  <1>4. Shape
    BY <1>1, <1>2 DEF Shape, Tables
  <1>5. DOMAIN stash = {}
    OBVIOUS
  <1>6. Typed
    BY DEF Typed
  <1>7. QED
    BY <1>2, <1>3, <1>4, <1>5, <1>6 DEF KeptInv, AllNamed, Distinct, AllFound, AllOwned

LEMMA KeptInvStutter == KeptInv /\ UNCHANGED kept => KeptInv'
  BY DEF KeptInv, Shape, Typed, AllNamed, Named, Distinct, AllFound, AllOwned, kept,
         Heapptr, Stashed

\* One context: what Shape says of the objects, in terms of GetHeapptr.
LEMMA OneContext ==
  ASSUME NEW T
  PROVE  (\A o \in DOMAIN T.objs : \A c \in DOMAIN T.objs[o] :
            c # Context => T.objs[o][c] = NoHeapptr)
         <=> (\A o, c : c # Context => GetHeapptr(T, o, c) = NoHeapptr)
  BY DEF GetHeapptr

\* If the JSObjects keep their values, and the weak table its keys, so do the facts.
LEMMA SameValues ==
  ASSUME KeptInv, Shape', Typed',
         \A j \in JSObjects : Heapptr(j)' = Heapptr(j),
         DOMAIN tables'.weak = DOMAIN tables.weak,
         stash' = stash, made' = made,
         \A j \in JSObjects : object[j] # "free" => object'[j] # "free"
  PROVE  KeptInv'
  <1>1. AllNamed'
    BY DEF KeptInv, AllNamed, Named, Stashed
  <1>2. Distinct'
    BY DEF KeptInv, Distinct
  <1>3. AllFound'
    BY DEF KeptInv, AllFound
  <1>4. AllOwned'
    BY DEF KeptInv, AllOwned
  <1>5. QED
    BY <1>1, <1>2, <1>3, <1>4 DEF KeptInv


LEMMA ObtainKeeps ==
  ASSUME KeptInv, NEW f \in Callbacks, NEW j \in JSObjects, Obtain(f, j)
  PROVE  KeptInv'
  <1>1. CASE GetObject(tables, f) # NoObject
    BY <1>1, KeptInvStutter DEF Obtain, kept
  <1>2. CASE GetObject(tables, f) = NoObject
    <2>1. /\ object[j] = "free"
          /\ object' = [object EXCEPT ![j] = "live"]
          /\ made' = [made EXCEPT ![j] = f]
          /\ stash' = With(stash, StashKey[f], f)
          /\ tables' = Weak(tables, Context, f, j)
      BY <1>2 DEF Obtain
    <2>2. Heapptr(j) = NoHeapptr
      BY <2>1 DEF KeptInv, AllNamed, Named
    <2>3. Typed'
      BY <2>1 DEF KeptInv, Typed
    <2>4. DOMAIN stash' = DOMAIN stash \cup {StashKey[f]}
      BY <2>1 DEF With
    <2>5. stash'[StashKey[f]] = f
          /\ \A k \in DOMAIN stash : k # StashKey[f] => stash'[k] = stash[k]
      BY <2>1 DEF With
    <2>6. \A i \in JSObjects : i # j => object'[i] = object[i] /\ made'[i] = made[i]
      BY <2>1 DEF KeptInv, Typed
    <2>7. object'[j] = "live" /\ made'[j] = f
      BY <2>1 DEF KeptInv, Typed
    <2>8. CASE f \in DOMAIN tables.weak
      <3>1. tables' = tables
        BY <2>1, <2>8 DEF Weak
      <3>2. \A i : Heapptr(i)' = Heapptr(i)
        BY <3>1 DEF Heapptr
      <3>3. AllNamed'
        <4> SUFFICES ASSUME NEW i \in JSObjects, Heapptr(i) # NoHeapptr
                     PROVE  Named(i)'
          BY <3>2 DEF AllNamed
        <4>1. Named(i) /\ i # j
          BY <2>2 DEF KeptInv, AllNamed
        <4>2. Heapptr(i) \in Callbacks
          BY <4>1 DEF Named, KeptInv, Shape
        <4>3. Stashed(Heapptr(i))'
          BY <4>1, <4>2, <3>2, <2>4, <2>5, KeysDiffer DEF Named, Stashed
        <4>4. QED
          BY <4>1, <4>3, <3>1, <3>2, <2>6 DEF Named
      <3>4. PICK i \in JSObjects : Heapptr(i) = f
        BY <2>8 DEF KeptInv, AllFound
      <3>5. AllOwned'
        <4> SUFFICES ASSUME NEW k \in DOMAIN stash'
                     PROVE  /\ stash'[k] \in Callbacks /\ k = StashKey[stash'[k]]
                            /\ \E l \in JSObjects : Heapptr(l) = stash'[k]
          BY <3>2 DEF AllOwned
        <4>1. CASE k = StashKey[f]
          BY <4>1, <2>5, <3>4
        <4>2. CASE k # StashKey[f]
          BY <4>2, <2>4, <2>5 DEF KeptInv, AllOwned
        <4>3. QED
          BY <4>1, <4>2
      <3>6. Shape' /\ Distinct' /\ AllFound'
        BY <3>1, <3>2 DEF KeptInv, Shape, Distinct, AllFound
      <3>7. QED
        BY <2>3, <3>3, <3>5, <3>6 DEF KeptInv
    <2>9. CASE f \notin DOMAIN tables.weak
      <3>0. Tables(tables)
        BY DEF KeptInv, Shape
      <3>1. /\ Tables(tables')
            /\ DOMAIN tables'.weak = DOMAIN tables.weak \cup {f}
            /\ tables'.strong = tables.strong
            /\ GetHeapptr(tables', j, Context) = f
            /\ \A p, c : <<p, c>> # <<j, Context>> =>
                 GetHeapptr(tables', p, c) = GetHeapptr(tables, p, c)
        BY <2>1, <2>9, <3>0, WeakEnters
      <3>2. Heapptr(j)' = f
        BY <3>1 DEF Heapptr
      <3>3. \A i : i # j => Heapptr(i)' = Heapptr(i)
        BY <3>1 DEF Heapptr
      <3>4. \A o, c : c # Context => GetHeapptr(tables, o, c) = NoHeapptr
        BY OneContext DEF KeptInv, Shape
      <3>5. \A o, c : c # Context => GetHeapptr(tables', o, c) = NoHeapptr
        BY <3>1, <3>4
      <3>6. Shape'
        BY <3>1, <3>5, OneContext DEF KeptInv, Shape
      <3>7. \A i \in JSObjects : Heapptr(i) # NoHeapptr =>
              Named(i) /\ i # j /\ Heapptr(i) \in Callbacks /\ Heapptr(i) # f
        BY <2>2, <2>9 DEF KeptInv, AllNamed, Named, Shape
      <3>8. AllNamed'
        <4>1. Named(j)'
          BY <3>1, <3>2, <2>4, <2>5, <2>7 DEF Named, Stashed
        <4>2. ASSUME NEW i \in JSObjects, i # j, Heapptr(i)' # NoHeapptr
              PROVE  Named(i)'
          <5>1. Heapptr(i)' = Heapptr(i) /\ Named(i) /\ Heapptr(i) \in Callbacks
                /\ Heapptr(i) # f
            BY <4>2, <3>3, <3>7
          <5>2. Stashed(Heapptr(i))'
            BY <5>1, <2>4, <2>5, KeysDiffer DEF Named, Stashed
          <5>3. QED
            BY <5>1, <5>2, <3>1, <2>6, <4>2 DEF Named
        <4>3. QED
          BY <4>1, <4>2 DEF AllNamed
      <3>9. Distinct'
        BY <3>2, <3>3, <3>7 DEF KeptInv, Distinct
      <3>10. ASSUME NEW i \in JSObjects, Heapptr(i) \in Callbacks
             PROVE  Heapptr(i)' = Heapptr(i)
        BY <3>10, <3>3, <2>2, ValuesDiffer
      <3>11. AllFound'
        <4> SUFFICES ASSUME NEW g \in DOMAIN tables'.weak
                     PROVE  \E i \in JSObjects : Heapptr(i)' = g
          BY DEF AllFound
        <4>1. CASE g = f
          BY <4>1, <3>2
        <4>2. CASE g # f
          BY <4>2, <3>1, <3>10 DEF KeptInv, AllFound, Shape
        <4>3. QED
          BY <4>1, <4>2
      <3>12. AllOwned'
        <4> SUFFICES ASSUME NEW k \in DOMAIN stash'
                     PROVE  /\ stash'[k] \in Callbacks /\ k = StashKey[stash'[k]]
                            /\ \E l \in JSObjects : Heapptr(l)' = stash'[k]
          BY DEF AllOwned
        <4>1. CASE k = StashKey[f]
          BY <4>1, <2>5, <3>2
        <4>2. CASE k # StashKey[f]
          BY <4>2, <2>4, <2>5, <3>10 DEF KeptInv, AllOwned
        <4>3. QED
          BY <4>1, <4>2
      <3>13. QED
        BY <2>3, <3>6, <3>8, <3>9, <3>11, <3>12 DEF KeptInv
    <2>10. QED
      BY <2>8, <2>9
  <1>3. QED
    BY <1>1, <1>2


LEMMA ForgetKeeps ==
  ASSUME KeptInv, NEW j \in JSObjects, Forget(j), made' = made
  PROVE  KeptInv'
  <1> DEFINE C == Cleared(tables, j)
  <1> DEFINE h == Heapptr(j)
  <1>1. /\ stash' = Unstashed(h)
        /\ tables' = RemoveObject(C, j)
        /\ object' = [object EXCEPT ![j] = "free"]
    BY DEF Forget
  <1>2. DOMAIN C.weak = DOMAIN tables.weak /\ C.strong = tables.strong /\ C.objs = tables.objs
    BY ClearedKeeps DEF KeptInv, Shape
  <1> HIDE DEF C
  <1>3. \A p, c : GetHeapptr(C, p, c) = GetHeapptr(tables, p, c)
    BY <1>2 DEF GetHeapptr
  <1>4. /\ Tables(tables')
        /\ DOMAIN tables'.weak = DOMAIN tables.weak \ Values(C, j)
        /\ \A x \in DOMAIN tables'.strong :
             x \in DOMAIN tables.strong /\ tables'.strong[x] = tables.strong[x]
        /\ \A c : GetHeapptr(tables', j, c) = NoHeapptr
        /\ \A p, c : p # j => GetHeapptr(tables', p, c) = GetHeapptr(tables, p, c)
    BY <1>1, <1>2, <1>3, RemoveObjectForgets
  <1>5. \A o, c : c # Context => GetHeapptr(tables, o, c) = NoHeapptr
    BY OneContext DEF KeptInv, Shape
  <1>6. Heapptr(j)' = NoHeapptr /\ \A i : i # j => Heapptr(i)' = Heapptr(i)
    BY <1>4 DEF Heapptr
  <1>7. \A v \in Values(C, j) : v \in {h, NoHeapptr}
    <2> SUFFICES ASSUME NEW v \in Values(C, j) PROVE v \in {h, NoHeapptr}
      OBVIOUS
    <2>1. PICK c \in DOMAIN tables.objs[j] : j \in DOMAIN tables.objs /\ v = tables.objs[j][c]
      BY <1>2 DEF Values
    <2>2. v = GetHeapptr(tables, j, c)
      BY <2>1 DEF GetHeapptr
    <2>3. QED
      BY <2>2, <1>5 DEF Heapptr
  <1>8. h # NoHeapptr => h \in Values(C, j)
    BY <1>2 DEF Values, Heapptr, GetHeapptr
  <1>9. DOMAIN tables'.weak = DOMAIN tables.weak \ {h}
    <2>1. NoHeapptr \notin DOMAIN tables.weak
      BY ValuesDiffer DEF KeptInv, Shape
    <2>2. QED
      BY <2>1, <1>4, <1>7, <1>8
  <1>10. Typed'
    BY <1>1 DEF KeptInv, Typed
  <1>11. Shape'
    <2>1. \A o, c : c # Context => GetHeapptr(tables', o, c) = NoHeapptr
      BY <1>4, <1>5
    <2>2. QED
      BY <2>1, <1>4, OneContext DEF KeptInv, Shape
  <1>12. \A i \in JSObjects : i # j /\ Heapptr(i) # NoHeapptr =>
           Named(i) /\ Heapptr(i) \in Callbacks /\ Heapptr(i) # h
    BY DEF KeptInv, AllNamed, Named, Shape, Distinct
  <1>13. h # NoHeapptr => h \in Callbacks
    BY DEF KeptInv, AllNamed, Named, Shape
  <1>14. \A f \in Callbacks : f # h =>
           /\ Stashed(f) => StashKey[f] \in DOMAIN stash' /\ stash'[StashKey[f]] = f
    BY <1>1, <1>13, KeysDiffer DEF Unstashed, Without, Stashed
  <1>15. \A k \in DOMAIN stash' :
           k \in DOMAIN stash /\ stash'[k] = stash[k] /\ (h # NoHeapptr => k # StashKey[h])
    BY <1>1 DEF Unstashed, Without
  <1> HIDE DEF h
  <1>16. AllNamed'
    <2> SUFFICES ASSUME NEW i \in JSObjects, Heapptr(i)' # NoHeapptr PROVE Named(i)'
      BY DEF AllNamed
    <2>1. i # j /\ Heapptr(i)' = Heapptr(i)
      BY <1>6
    <2>2. Named(i) /\ Heapptr(i) \in Callbacks /\ Heapptr(i) # h
      BY <2>1, <1>12
    <2>3. Stashed(Heapptr(i))'
      BY <2>1, <2>2, <1>14 DEF Named, Stashed
    <2>4. object'[i] = object[i]
      BY <2>1, <1>1 DEF KeptInv, Typed
    <2>5. QED
      BY <2>1, <2>2, <2>3, <2>4, <1>9 DEF Named
  <1>17. Distinct'
    BY <1>6 DEF KeptInv, Distinct
  <1>18. \A i \in JSObjects : Heapptr(i) # h => Heapptr(i)' = Heapptr(i)
    BY <1>6 DEF h
  <1>19. AllFound'
    BY <1>9, <1>18 DEF KeptInv, AllFound
  <1>20. AllOwned'
    <2> SUFFICES ASSUME NEW k \in DOMAIN stash'
                 PROVE  /\ stash'[k] \in Callbacks /\ k = StashKey[stash'[k]]
                        /\ \E l \in JSObjects : Heapptr(l)' = stash'[k]
      BY DEF AllOwned
    <2>1. k \in DOMAIN stash /\ stash'[k] = stash[k]
      BY <1>15
    <2>2. stash[k] \in Callbacks /\ k = StashKey[stash[k]]
          /\ \E l \in JSObjects : Heapptr(l) = stash[k]
      BY <2>1 DEF KeptInv, AllOwned
    <2>3. stash[k] # h
      BY <2>2, <1>15, ValuesDiffer
    <2>4. QED
      BY <2>1, <2>2, <2>3, <1>18
  <1>21. QED
    BY <1>10, <1>11, <1>16, <1>17, <1>19, <1>20 DEF KeptInv

\* The last closure is freed on the IO queue: the JSObject is dying, and known yet.
LEMMA DyingKeeps ==
  ASSUME KeptInv, NEW j \in JSObjects, tables' = Cleared(tables, j),
         object' = [object EXCEPT ![j] = "dying"], UNCHANGED <<stash, made>>
  PROVE  KeptInv'
  <1>1. /\ Tables(tables')
        /\ DOMAIN tables'.weak = DOMAIN tables.weak
        /\ tables'.strong = tables.strong
        /\ tables'.objs = tables.objs
    BY ClearedKeeps DEF KeptInv, Shape
  <1>2. \A i : Heapptr(i)' = Heapptr(i)
    BY <1>1 DEF Heapptr, GetHeapptr
  <1>3. Shape'
    BY <1>1 DEF KeptInv, Shape
  <1>4. Typed'
    BY DEF KeptInv, Typed
  <1>5. \A i \in JSObjects : object[i] # "free" => object'[i] # "free"
    BY DEF KeptInv, Typed
  <1>6. QED
    BY <1>1, <1>2, <1>3, <1>4, <1>5, SameValues

LEMMA CreatedKeeps ==
  ASSUME KeptInv, Created
  PROVE  KeptInv'
  <1>1. tables' = Strong(tables, Context, Proxy, TheWorker)
        /\ UNCHANGED <<stash, object, made>>
    BY DEF Created, storage
  <1>2. /\ Tables(tables')
        /\ tables'.weak = tables.weak
        /\ \A x \in DOMAIN tables'.strong :
             \/ tables'.strong[x] = TheWorker
             \/ x \in DOMAIN tables.strong /\ tables'.strong[x] = tables.strong[x]
        /\ \A p, c : <<p, c>> # <<TheWorker, Context>> =>
             GetHeapptr(tables', p, c) = GetHeapptr(tables, p, c)
    BY <1>1, StrongEnters DEF KeptInv, Shape
  <1>3. \A j \in JSObjects : Heapptr(j)' = Heapptr(j)
    BY <1>2, ValuesDiffer DEF Heapptr
  <1>4. \A o, c : c # Context => GetHeapptr(tables', o, c) = NoHeapptr
    BY <1>2, OneContext DEF KeptInv, Shape
  <1>5. Shape'
    BY <1>2, <1>4, OneContext DEF KeptInv, Shape
  <1>6. Typed'
    BY <1>1 DEF KeptInv, Typed
  <1>7. QED
    BY <1>1, <1>2, <1>3, <1>5, <1>6, SameValues

LEMMA CollectKeeps ==
  ASSUME KeptInv, Collect
  PROVE  KeptInv'
  <1>1. /\ Proxy \in DOMAIN tables.strong
        /\ tables' = RemoveHeapptr(tables, Proxy)
        /\ UNCHANGED <<stash, object, made>>
    BY DEF Collect, Kept, storage
  <1>2. Proxy \notin DOMAIN tables.weak /\ tables.strong[Proxy] = TheWorker
    BY <1>1, ValuesDiffer DEF KeptInv, Shape
  <1>3. /\ Tables(tables')
        /\ DOMAIN tables'.weak = DOMAIN tables.weak
        /\ \A x \in DOMAIN tables'.strong :
             x \in DOMAIN tables.strong /\ tables'.strong[x] = tables.strong[x]
        /\ \A c : GetHeapptr(tables', TheWorker, c) = NoHeapptr
        /\ \A p, c : p # TheWorker => GetHeapptr(tables', p, c) = GetHeapptr(tables, p, c)
    BY <1>1, <1>2, RemoveHeapptrForgets
  <1>4. \A j \in JSObjects : Heapptr(j)' = Heapptr(j)
    BY <1>3, ValuesDiffer DEF Heapptr
  <1>5. \A o, c : c # Context => GetHeapptr(tables', o, c) = NoHeapptr
    BY <1>3, OneContext DEF KeptInv, Shape
  <1>6. Shape'
    BY <1>3, <1>5, OneContext DEF KeptInv, Shape
  <1>7. Typed'
    BY <1>1 DEF KeptInv, Typed
  <1>8. QED
    BY <1>1, <1>3, <1>4, <1>6, <1>7, SameValues


\* Only the calls of scripts, the end of JSObjects and the Worker's value change it.
LEMMA KeptInvStep ==
  ASSUME KeptInv, [Next]_vars
  PROVE  KeptInv'
  <1>1. CASE UNCHANGED vars
    BY <1>1, KeptInvStutter DEF vars, storage, kept
  <1>2. CASE Queued \/ \E q \in Queues : Return(q)
    BY <1>2, KeptInvStutter DEF Queued, Return, storage, kept
  <1>3. CASE StorageCalls
    <2>1. CASE \E f \in Callbacks, j \in JSObjects : Load(f, j) \/ LoadKeys(f, j)
      BY <2>1, ObtainKeeps DEF Load, LoadKeys, Asked
    <2>2. CASE (\E v \in {Missing, calls + 1} : Put(v)) \/ GetValue
      BY <2>2, KeptInvStutter DEF Put, GetValue, storage, kept
    <2>3. QED
      BY <1>3, <2>1, <2>2 DEF StorageCalls
  <1>4. CASE OnMain
    <2>1. CASE Got \/ AskedKeys \/ Invoke \/ Release(Main)
      BY <2>1, KeptInvStutter DEF Got, AskedKeys, Invoke, Release, storage, kept
    <2>2. CASE ReleaseLast
      BY <2>2, ForgetKeeps DEF ReleaseLast
    <2>3. CASE Delete
      BY <2>3, ForgetKeeps DEF Delete
    <2>4. QED
      BY <1>4, <2>1, <2>2, <2>3 DEF OnMain
  <1>5. CASE OnIO
    <2>1. CASE Answer \/ Write \/ Read \/ Release(IO)
      BY <2>1, KeptInvStutter DEF Answer, Write, Read, Release, storage, kept
    <2>2. CASE ReleaseLastAway
      BY <2>2, DyingKeeps DEF ReleaseLastAway
    <2>3. QED
      BY <1>5, <2>1, <2>2 DEF OnIO
  <1>6. CASE WorkerCalls
    <2>1. CASE CreateWorker \/ Post \/ Terminate
      BY <2>1, KeptInvStutter DEF CreateWorker, Post, Terminate, storage, kept
    <2>2. CASE Collect
      BY <2>2, CollectKeeps
    <2>3. QED
      BY <1>6, <2>1, <2>2 DEF WorkerCalls
  <1>7. CASE OnMainToo
    <2>1. CASE Created
      BY <2>1, CreatedKeeps
    <2>2. CASE Close \/ OnMessage \/ Handled
      BY <2>2, KeptInvStutter DEF Close, OnMessage, Handled, storage, kept
    <2>3. QED
      BY <1>7, <2>1, <2>2 DEF OnMainToo
  <1>8. CASE OnWork
    <2>1. UNCHANGED <<tables, storage>>
      BY <1>8 DEF OnWork, Setup, OnPost, PostUp, PostedOn, Posted, PostedLast, PostedFalling,
         Leave, LetGoContext
    <2>2. QED
      BY <2>1, KeptInvStutter DEF storage, kept
  <1>9. QED
    BY <1>1, <1>2, <1>3, <1>4, <1>5, <1>6, <1>7, <1>8 DEF Next

\* The heap keeps the function of every JSObject that the tables know, and no other
\* (core/jit.cc: JSObject::JSObject, ~JSObject), whatever the scripts call.
THEOREM FunctionsSafe == Spec => []FunctionsKept
  <1>1. Init => KeptInv
    BY KeptInvInit
  <1>2. KeptInv /\ [Next]_vars => KeptInv'
    BY KeptInvStep
  <1>3. KeptInv => FunctionsKept
    BY KeptInvImplies
  <1>4. QED
    BY <1>1, <1>2, <1>3, PTL DEF Spec

-----------------------------------------------------------------------------

(***************************************************************************)
(* Sequences without repetition.                                           *)
(***************************************************************************)

Elems(s) == {s[i] : i \in DOMAIN s}

Injective(s) == \A i, j \in DOMAIN s : s[i] = s[j] => i = j

LEMMA ElemsAppend ==
  ASSUME NEW S, NEW s \in Seq(S), NEW x \in S, Injective(s), x \notin Elems(s)
  PROVE  /\ Append(s, x) \in Seq(S)
         /\ Elems(Append(s, x)) = Elems(s) \cup {x}
         /\ Injective(Append(s, x))
  <1> DEFINE r == Append(s, x)
  <1>1. /\ r \in Seq(S) /\ Len(s) \in Nat /\ Len(r) = Len(s) + 1
        /\ \A i \in 1 .. Len(s) : r[i] = s[i]
        /\ r[Len(s) + 1] = x
    OBVIOUS
  <1>2. DOMAIN s = 1 .. Len(s) /\ DOMAIN r = 1 .. Len(s) + 1
    BY <1>1
  <1> HIDE DEF r
  <1>3. \A i \in 1 .. Len(s) + 1 : i \in 1 .. Len(s) \/ i = Len(s) + 1
    BY <1>1
  <1>4. Len(s) + 1 \in 1 .. Len(s) + 1 /\ \A i \in 1 .. Len(s) : i \in 1 .. Len(s) + 1
    BY <1>1
  <1>5. Elems(r) = Elems(s) \cup {x}
    BY <1>1, <1>2, <1>3, <1>4 DEF Elems
  <1>6. Injective(r)
    BY <1>1, <1>2, <1>3 DEF Injective, Elems
  <1>7. QED
    BY <1>1, <1>5, <1>6 DEF r

LEMMA ElemsTail ==
  ASSUME NEW S, NEW s \in Seq(S), s # <<>>, Injective(s)
  PROVE  /\ Tail(s) \in Seq(S) /\ Head(s) \in S
         /\ Head(s) \in Elems(s)
         /\ Elems(Tail(s)) = Elems(s) \ {Head(s)}
         /\ Injective(Tail(s))
  <1> DEFINE r == Tail(s)
  <1>1. /\ r \in Seq(S) /\ Len(s) \in Nat /\ Len(s) > 0 /\ Len(r) = Len(s) - 1
        /\ \A i \in 1 .. Len(r) : r[i] = s[i + 1]
        /\ Head(s) = s[1] /\ s[1] \in S
    OBVIOUS
  <1>2. DOMAIN s = 1 .. Len(s) /\ DOMAIN r = 1 .. Len(s) - 1
    BY <1>1
  <1>3. 1 \in DOMAIN s
    BY <1>1, <1>2
  <1> HIDE DEF r
  <1>4. \A i \in DOMAIN r : i + 1 \in DOMAIN s /\ i + 1 # 1 /\ r[i] = s[i + 1]
    BY <1>1, <1>2
  <1>5. \A i \in DOMAIN s : i # 1 => i - 1 \in DOMAIN r /\ r[i - 1] = s[i]
    BY <1>1, <1>2
  <1>6. Elems(r) = Elems(s) \ {s[1]}
    <2>1. ASSUME NEW e \in Elems(r) PROVE e \in Elems(s) \ {s[1]}
      BY <1>3, <1>4 DEF Elems, Injective
    <2>2. ASSUME NEW e \in Elems(s) \ {s[1]} PROVE e \in Elems(r)
      BY <1>5 DEF Elems
    <2>3. QED
      BY <2>1, <2>2
  <1>7. Injective(r)
    <2> SUFFICES ASSUME NEW i \in DOMAIN r, NEW j \in DOMAIN r, r[i] = r[j] PROVE i = j
      BY DEF Injective
    <2>1. i + 1 = j + 1
      BY <1>4 DEF Injective
    <2>2. i \in Nat /\ j \in Nat
      BY <1>1, <1>2
    <2>3. QED
      BY <2>1, <2>2
  <1>8. QED
    BY <1>1, <1>3, <1>6, <1>7 DEF r, Elems

LEMMA TailFacts ==
  ASSUME NEW S, NEW s \in Seq(S), s # <<>>
  PROVE  /\ \A i \in DOMAIN Tail(s) :
              /\ i + 1 \in DOMAIN s /\ Tail(s)[i] = s[i + 1]
              /\ i + 1 = Len(s) => i = Len(Tail(s))
         /\ 1 \in DOMAIN s /\ Head(s) = s[1]
         /\ 1 = Len(s) => Tail(s) = <<>>
  <1> DEFINE r == Tail(s)
  <1>1. /\ r \in Seq(S) /\ Len(s) \in Nat /\ Len(s) > 0 /\ Len(r) = Len(s) - 1
        /\ \A i \in 1 .. Len(r) : r[i] = s[i + 1]
        /\ Head(s) = s[1]
    OBVIOUS
  <1>2. DOMAIN s = 1 .. Len(s) /\ DOMAIN r = 1 .. Len(s) - 1
    BY <1>1
  <1>3. \A u \in Seq(S) : Len(u) = 0 => u = <<>>
    OBVIOUS
  <1> HIDE DEF r
  <1>4. 1 \in DOMAIN s
    BY <1>1, <1>2
  <1>5. \A i \in DOMAIN r : i + 1 \in DOMAIN s /\ r[i] = s[i + 1] /\ (i + 1 = Len(s) => i = Len(r))
    BY <1>1, <1>2
  <1>6. 1 = Len(s) => r = <<>>
    BY <1>1, <1>3
  <1>7. QED
    BY <1>1, <1>4, <1>5, <1>6 DEF r

(***************************************************************************)
(* Where the functions are: each is fresh, in one place of one queue, or    *)
(* finished.                                                               *)
(***************************************************************************)

Kinds ==
  {"none", "load", "put", "get", "setup", "post", "release", "worker", "posting", "over",
   "leaving", "script", "getting", "asking", "creating", "closing", "ending", "reply",
   "delete", "message"}

Closures ==
  [kind : Kinds, fn : JSObjects \cup {NoObject}, worker : BOOLEAN, req : Nat, val : Nat]

QueuesTyped ==
  /\ fresh \subseteq Tasks /\ finished \subseteq Tasks
  /\ pending \in [Queues -> Seq(Tasks)]
  /\ stack \in [Queues -> Seq(Tasks)]
  /\ \A q \in Queues : stack[q] # <<>> => \E t \in Tasks : stack[q] = <<t>>
  /\ blocked \in [Queues -> Tasks \cup {NoTask}]

CodeTyped == code \in [Tasks -> Closures] /\ calls \in Nat /\ stored \in Nat

In(q) == Elems(pending[q]) \cup Elems(stack[q])

Placed ==
  /\ fresh \cap finished = {}
  /\ \A q \in Queues :
       /\ Injective(pending[q])
       /\ Elems(pending[q]) \cap Elems(stack[q]) = {}
       /\ In(q) \cap fresh = {} /\ In(q) \cap finished = {}
  /\ \A q, r \in Queues : q # r => In(q) \cap In(r) = {}

\* A queue that goes with the function it runs.
Dropped(q) ==
  /\ stack[q] # <<>> /\ finished' = finished \cup {Top(q)}
  /\ stack' = [stack EXCEPT ![q] = <<>>] /\ pending' = [pending EXCEPT ![q] = <<>>]
  /\ UNCHANGED <<fresh, blocked>>

\* The steps of the queues that the program takes.
QueueStep ==
  \/ \E q \in Queues, f \in Tasks : Serial!Submit(q, f)
  \/ \E r, q \in Queues, f \in Tasks : Serial!SubmitAndWait(r, q, f)
  \/ \E q \in Queues : Serial!Begin(q) \/ Serial!End(q) \/ Serial!Return(q) \/ Serial!Close(q)
  \/ \E q \in Queues : Dropped(q)

LEMMA QueuesStart == Init => QueuesTyped /\ Placed
  <1> SUFFICES ASSUME Serial!Init PROVE QueuesTyped /\ Placed
    BY DEF Init, QueuesInit
  <1>1. /\ fresh = Tasks /\ finished = {}
        /\ pending = [q \in Queues |-> <<>>] /\ stack = [q \in Queues |-> <<>>]
        /\ blocked = [q \in Queues |-> NoTask]
    BY DEF Serial!Init, Serial!Runners
  <1>2. Elems(<<>>) = {} /\ Injective(<<>>)
    BY DEF Elems, Injective
  <1>3. QueuesTyped
    BY <1>1 DEF QueuesTyped
  <1>4. Placed
    BY <1>1, <1>2 DEF Placed, In
  <1>5. QED
    BY <1>3, <1>4

LEMMA Submitted ==
  ASSUME QueuesTyped, Placed, NEW q \in Queues, NEW f \in fresh,
         fresh' = fresh \ {f}, pending' = [pending EXCEPT ![q] = Append(@, f)],
         blocked' \in [Queues -> Tasks \cup {NoTask}], UNCHANGED <<stack, finished>>
  PROVE  QueuesTyped' /\ Placed'
  <1>1. f \in Tasks /\ pending[q] \in Seq(Tasks) /\ f \notin Elems(pending[q])
    BY DEF QueuesTyped, Placed, In
  <1>2. /\ pending'[q] = Append(pending[q], f)
        /\ \A r \in Queues : r # q => pending'[r] = pending[r]
    BY DEF QueuesTyped
  <1>3. /\ pending'[q] \in Seq(Tasks) /\ Injective(pending'[q])
        /\ Elems(pending'[q]) = Elems(pending[q]) \cup {f}
    BY <1>1, <1>2, ElemsAppend DEF Placed
  <1>4. QueuesTyped'
    BY <1>2, <1>3 DEF QueuesTyped
  <1>5. In(q)' = In(q) \cup {f} /\ \A r \in Queues : r # q => In(r)' = In(r)
    BY <1>2, <1>3 DEF In
  <1>6. \A r \in Queues : f \notin In(r)
    BY DEF Placed
  <1>7. f \notin finished
    BY DEF Placed
  <1>8. Placed'
    <2>1. \A r \in Queues : Injective(pending'[r])
      BY <1>2, <1>3 DEF Placed
    <2>2. \A r \in Queues : Elems(pending'[r]) \cap Elems(stack[r]) = {}
      BY <1>2, <1>3, <1>6 DEF Placed, In
    <2>3. \A r \in Queues : In(r)' \cap fresh' = {} /\ In(r)' \cap finished' = {}
      BY <1>5, <1>6, <1>7 DEF Placed
    <2>4. \A r, p \in Queues : r # p => In(r)' \cap In(p)' = {}
      BY <1>5, <1>6 DEF Placed
    <2>5. fresh' \cap finished' = {}
      BY DEF Placed
    <2>6. QED
      BY <2>1, <2>2, <2>3, <2>4, <2>5 DEF Placed
  <1>9. QED
    BY <1>4, <1>8


LEMMA Begun ==
  ASSUME QueuesTyped, Placed, NEW q \in Queues, Serial!Begin(q)
  PROVE  QueuesTyped' /\ Placed' /\ \A r \in Queues : In(r)' = In(r)
  <1> DEFINE h == Head(pending[q])
  <1>1. /\ stack[q] = <<>> /\ pending[q] # <<>> /\ pending[q] \in Seq(Tasks)
        /\ stack' = [stack EXCEPT ![q] = <<h>>]
        /\ pending' = [pending EXCEPT ![q] = Tail(@)]
        /\ UNCHANGED <<fresh, blocked, finished>>
    BY DEF Serial!Begin, QueuesTyped
  <1>2. /\ Tail(pending[q]) \in Seq(Tasks) /\ h \in Tasks
        /\ h \in Elems(pending[q])
        /\ Elems(Tail(pending[q])) = Elems(pending[q]) \ {h}
        /\ Injective(Tail(pending[q]))
    BY <1>1, ElemsTail DEF Placed
  <1> HIDE DEF h
  <1>3. /\ pending'[q] = Tail(pending[q]) /\ stack'[q] = <<h>>
        /\ \A r \in Queues : r # q => pending'[r] = pending[r] /\ stack'[r] = stack[r]
    BY <1>1 DEF QueuesTyped
  <1>4. Elems(<<h>>) = {h} /\ Elems(<<>>) = {}
    BY DEF Elems
  <1>5. QueuesTyped'
    <2>1. \A r \in Queues : stack'[r] # <<>> => \E t \in Tasks : stack'[r] = <<t>>
      BY <1>2, <1>3 DEF QueuesTyped
    <2>2. stack' \in [Queues -> Seq(Tasks)]
      BY <1>1, <1>2 DEF QueuesTyped
    <2>3. pending' \in [Queues -> Seq(Tasks)]
      BY <1>1, <1>2 DEF QueuesTyped
    <2>4. QED
      BY <2>1, <2>2, <2>3, <1>1 DEF QueuesTyped
  <1>6. \A r \in Queues : In(r)' = In(r)
    BY <1>1, <1>2, <1>3, <1>4 DEF In
  <1>7. Placed'
    <2>1. \A r \in Queues : Injective(pending'[r])
      BY <1>2, <1>3 DEF Placed
    <2>2. \A r \in Queues : Elems(pending'[r]) \cap Elems(stack'[r]) = {}
      BY <1>2, <1>3, <1>4 DEF Placed
    <2>3. QED
      BY <2>1, <2>2, <1>1, <1>6 DEF Placed
  <1>8. QED
    BY <1>5, <1>6, <1>7

LEMMA Ended ==
  ASSUME QueuesTyped, Placed, NEW q \in Queues, Serial!End(q)
  PROVE  /\ QueuesTyped' /\ Placed' /\ stack'[q] = <<>>
         /\ \A r \in Queues : In(r)' \subseteq In(r)
  <1>1. PICK t \in Tasks : stack[q] = <<t>>
    BY DEF Serial!End, QueuesTyped
  <1>2. /\ stack' = [stack EXCEPT ![q] = <<>>]
        /\ finished' = finished \cup {t}
        /\ UNCHANGED <<fresh, pending, blocked>>
    BY <1>1 DEF Serial!End
  <1>3. Elems(<<t>>) = {t} /\ Elems(<<>>) = {}
    BY DEF Elems
  <1>4. stack'[q] = <<>> /\ \A r \in Queues : r # q => stack'[r] = stack[r]
    BY <1>2 DEF QueuesTyped
  <1>5. QueuesTyped'
    <2>1. \A r \in Queues : stack'[r] # <<>> => \E u \in Tasks : stack'[r] = <<u>>
      BY <1>4 DEF QueuesTyped
    <2>2. stack' \in [Queues -> Seq(Tasks)]
      BY <1>2 DEF QueuesTyped
    <2>3. QED
      BY <2>1, <2>2, <1>2 DEF QueuesTyped
  <1>6. In(q)' = In(q) \ {t} /\ t \in In(q) /\ \A r \in Queues : r # q => In(r)' = In(r)
    BY <1>1, <1>2, <1>3, <1>4 DEF In, Placed
  <1>7. Placed'
    <2>1. fresh' \cap finished' = {}
      BY <1>2, <1>6 DEF Placed
    <2>2. \A r \in Queues : Injective(pending'[r]) /\ Elems(pending'[r]) \cap Elems(stack'[r]) = {}
      BY <1>2, <1>3, <1>4 DEF Placed
    <2>3. \A r \in Queues : In(r)' \cap fresh' = {} /\ In(r)' \cap finished' = {}
      BY <1>2, <1>6 DEF Placed
    <2>4. \A r, p \in Queues : r # p => In(r)' \cap In(p)' = {}
      BY <1>6 DEF Placed
    <2>5. QED
      BY <2>1, <2>2, <2>3, <2>4 DEF Placed
  <1>8. QED
    BY <1>4, <1>5, <1>6, <1>7

LEMMA Returned ==
  ASSUME QueuesTyped, Placed, NEW q \in Queues, Serial!Return(q)
  PROVE  QueuesTyped' /\ Placed'
  <1>1. blocked' \in [Queues -> Tasks \cup {NoTask}] /\ UNCHANGED <<fresh, pending, stack, finished>>
    BY DEF Serial!Return, QueuesTyped
  <1>2. QED
    BY <1>1 DEF QueuesTyped, Placed, In

LEMMA ClosedDown ==
  ASSUME QueuesTyped, Placed, NEW q \in Queues, Serial!Close(q)
  PROVE  /\ QueuesTyped' /\ Placed'
         /\ \A r \in Queues : In(r)' \subseteq In(r)
  <1>1. pending' = [pending EXCEPT ![q] = <<>>] /\ UNCHANGED <<fresh, stack, blocked, finished>>
    BY DEF Serial!Close
  <1>2. pending'[q] = <<>> /\ \A r \in Queues : r # q => pending'[r] = pending[r]
    BY <1>1 DEF QueuesTyped
  <1>3. Elems(<<>>) = {} /\ Injective(<<>>)
    BY DEF Elems, Injective
  <1>4. QueuesTyped'
    BY <1>1 DEF QueuesTyped
  <1>5. \A r \in Queues : In(r)' \subseteq In(r)
    BY <1>1, <1>2, <1>3 DEF In
  <1>6. Placed'
    <2>1. \A r \in Queues : Injective(pending'[r]) /\ Elems(pending'[r]) \cap Elems(stack'[r]) = {}
      BY <1>1, <1>2, <1>3 DEF Placed
    <2>2. \A r \in Queues : In(r)' \cap fresh' = {} /\ In(r)' \cap finished' = {}
      BY <1>1, <1>5 DEF Placed
    <2>3. \A r, p \in Queues : r # p => In(r)' \cap In(p)' = {}
      BY <1>5 DEF Placed
    <2>4. QED
      BY <2>1, <2>2, <2>3, <1>1 DEF Placed
  <1>7. QED
    BY <1>4, <1>5, <1>6

LEMMA DroppedDown ==
  ASSUME QueuesTyped, Placed, NEW q \in Queues, Dropped(q)
  PROVE  /\ QueuesTyped' /\ Placed' /\ In(q)' = {} /\ stack'[q] = <<>> /\ pending'[q] = <<>>
         /\ \A r \in Queues : r # q =>
              In(r)' = In(r) /\ pending'[r] = pending[r] /\ stack'[r] = stack[r]
  <1>1. PICK t \in Tasks : stack[q] = <<t>>
    BY DEF Dropped, QueuesTyped
  <1>2. /\ stack' = [stack EXCEPT ![q] = <<>>] /\ pending' = [pending EXCEPT ![q] = <<>>]
        /\ finished' = finished \cup {t}
        /\ UNCHANGED <<fresh, blocked>>
    BY <1>1 DEF Dropped, Top
  <1>3. Elems(<<t>>) = {t} /\ Elems(<<>>) = {} /\ Injective(<<>>)
    BY DEF Elems, Injective
  <1>4. /\ stack'[q] = <<>> /\ pending'[q] = <<>>
        /\ \A r \in Queues : r # q => stack'[r] = stack[r] /\ pending'[r] = pending[r]
    BY <1>2 DEF QueuesTyped
  <1>5. QueuesTyped'
    <2>1. \A r \in Queues : stack'[r] # <<>> => \E u \in Tasks : stack'[r] = <<u>>
      BY <1>4 DEF QueuesTyped
    <2>2. stack' \in [Queues -> Seq(Tasks)] /\ pending' \in [Queues -> Seq(Tasks)]
      BY <1>2 DEF QueuesTyped
    <2>3. QED
      BY <2>1, <2>2, <1>2 DEF QueuesTyped
  <1>6. In(q)' = {} /\ t \in In(q) /\ \A r \in Queues : r # q => In(r)' = In(r)
    BY <1>1, <1>3, <1>4 DEF In
  <1>7. Placed'
    <2>1. fresh' \cap finished' = {}
      BY <1>2, <1>6 DEF Placed
    <2>2. \A r \in Queues : Injective(pending'[r]) /\ Elems(pending'[r]) \cap Elems(stack'[r]) = {}
      BY <1>3, <1>4 DEF Placed
    <2>3. \A r \in Queues : In(r)' \cap fresh' = {} /\ In(r)' \cap finished' = {}
      BY <1>2, <1>6 DEF Placed
    <2>4. \A r, p \in Queues : r # p => In(r)' \cap In(p)' = {}
      BY <1>6 DEF Placed
    <2>5. QED
      BY <2>1, <2>2, <2>3, <2>4 DEF Placed
  <1>8. QED
    BY <1>4, <1>5, <1>6, <1>7

LEMMA QueueStepKeeps ==
  ASSUME QueuesTyped, Placed, QueueStep \/ UNCHANGED queues
  PROVE  QueuesTyped' /\ Placed'
  <1>1. CASE UNCHANGED queues
    BY <1>1 DEF queues, QueuesTyped, Placed, In
  <1>2. CASE \E q \in Queues, f \in Tasks : Serial!Submit(q, f)
    BY <1>2, Submitted DEF Serial!Submit, QueuesTyped
  <1>3. CASE \E r, q \in Queues, f \in Tasks : Serial!SubmitAndWait(r, q, f)
    <2>1. PICK r \in Queues, q \in Queues, f \in fresh : Serial!SubmitAndWait(r, q, f)
      BY <1>3 DEF Serial!SubmitAndWait
    <2>2. /\ fresh' = fresh \ {f}
          /\ pending' = [pending EXCEPT ![q] = Append(@, f)]
          /\ blocked' = [blocked EXCEPT ![r] = f]
          /\ UNCHANGED <<stack, finished>>
      BY <2>1 DEF Serial!SubmitAndWait
    <2>3. blocked' \in [Queues -> Tasks \cup {NoTask}]
      BY <2>2 DEF QueuesTyped
    <2>4. QED
      BY <2>2, <2>3, Submitted
  <1>4. CASE \E q \in Queues :
               Serial!Begin(q) \/ Serial!End(q) \/ Serial!Return(q) \/ Serial!Close(q)
    BY <1>4, Begun, Ended, Returned, ClosedDown
  <1>5. CASE \E q \in Queues : Dropped(q)
    BY <1>5, DroppedDown
  <1>6. QED
    BY <1>1, <1>2, <1>3, <1>4, <1>5 DEF QueueStep

\* Every step of the program is a step of the queues or leaves them alone.
LEMMA StepsAreQueueSteps ==
  ASSUME QueuesTyped, [Next]_vars
  PROVE  QueueStep \/ UNCHANGED queues
  <1>1. Main \in Queues /\ IO \in Queues /\ Work \in Queues
    BY DEF Queues
  <1>2. \A q, f : Serial!Submit(q, f) => f \in Tasks
    BY DEF Serial!Submit, QueuesTyped
  <1>3. \A r, q, f : Serial!SubmitAndWait(r, q, f) => f \in Tasks
    BY DEF Serial!SubmitAndWait, QueuesTyped
  <1>4. ASSUME NEW q \in Queues, NEW c, NEW now, Async(q, c, now) PROVE QueueStep
    BY <1>2, <1>4 DEF Async, QueueStep
  <1>5. ASSUME NEW r \in Queues, NEW q \in Queues, NEW c, NEW now, Sync(r, q, c, now)
        PROVE  QueueStep
    BY <1>3, <1>5 DEF Sync, QueueStep
  <1>6. ASSUME NEW now, NEW waiting, LetGo(now, waiting) PROVE QueueStep \/ UNCHANGED queues
    BY <1>1, <1>5, <1>6 DEF LetGo
  <1>7. CASE UNCHANGED vars
    BY <1>7 DEF vars, queues
  <1>8. CASE Queued \/ \E q \in Queues : Return(q)
    BY <1>8, <1>1, <1>4 DEF Queued, Event, Begin, End, Return, QueueStep
  <1>9. CASE StorageCalls
    BY <1>9, <1>1, <1>4, <1>5 DEF StorageCalls, Load, LoadKeys, Put, GetValue
  <1>10. CASE OnMain
    BY <1>10 DEF OnMain, Got, AskedKeys, Invoke, Release, ReleaseLast, Delete, GoesOn
  <1>11. CASE OnIO
    BY <1>11, <1>1, <1>4, <1>5 DEF OnIO, Answer, Write, Read, Release, ReleaseLastAway, GoesOn
  <1>12. CASE WorkerCalls
    BY <1>12, <1>1, <1>4, <1>5, <1>6 DEF WorkerCalls, CreateWorker, Post, Terminate, Collect
  <1>13. CASE OnMainToo
    BY <1>13, <1>1, <1>6 DEF OnMainToo, Created, Close, OnMessage, Handled, GoesOn, QueueStep
  <1>14. CASE OnWork
    <2>1. CASE Setup \/ OnPost \/ PostUp \/ LetGoContext
      BY <2>1 DEF Setup, OnPost, PostUp, LetGoContext, GoesOn
    <2>2. ASSUME NEW kind, PostedOn(kind) PROVE QueueStep
      BY <2>2, <1>1, <1>4 DEF PostedOn
    <2>3. CASE Leave
      BY <2>3, <1>1 DEF Leave, Runs, Running, Abandon, Dropped, QueueStep
    <2>4. QED
      BY <1>14, <2>1, <2>2, <2>3 DEF OnWork, Posted, PostedLast, PostedFalling
  <1>15. QED
    BY <1>7, <1>8, <1>9, <1>10, <1>11, <1>12, <1>13, <1>14 DEF Next


(***************************************************************************)
(* The closures.                                                           *)
(***************************************************************************)

LEMMA TopIn ==
  ASSUME QueuesTyped, NEW q \in Queues, stack[q] # <<>>
  PROVE  /\ Top(q) \in Tasks /\ stack[q] = <<Top(q)>> /\ Elems(stack[q]) = {Top(q)}
         /\ Top(q) \in In(q)
  <1>1. PICK t \in Tasks : stack[q] = <<t>>
    BY DEF QueuesTyped
  <1>2. Top(q) = t /\ Elems(<<t>>) = {t}
    BY <1>1 DEF Top, Elems
  <1>3. QED
    BY <1>1, <1>2 DEF In

LEMMA ClosureTyped ==
  ASSUME NEW kind \in Kinds
  PROVE  Closure(kind) \in Closures /\ Closure(kind).kind = kind /\ Closure(kind).val = 0
  BY DEF Closure, Closures

LEMMA NowTyped ==
  ASSUME code \in [Tasks -> Closures], NEW q, NEW kind \in Kinds
  PROVE  /\ Now(q, kind) \in [Tasks -> Closures]
         /\ \A t \in Tasks : t # Top(q) => Now(q, kind)[t] = code[t]
         /\ Top(q) \in Tasks => Now(q, kind)[Top(q)].kind = kind
  <1> DEFINE next(c) == [c EXCEPT !.kind = kind]
             t0 == Top(q)
             g == Now(q, kind)
  <1>1. \A c \in Closures : next(c) \in Closures /\ next(c).kind = kind
    BY DEF Closures
  <1>2. g = [code EXCEPT ![t0] = next(@)]
    BY DEF Now
  <1> HIDE DEF next, t0, g
  <1>3. g \in [Tasks -> Closures]
    BY <1>1, <1>2
  <1>4. \A t \in Tasks : t # t0 => g[t] = code[t]
    BY <1>2
  <1>5. t0 \in Tasks => g[t0] = next(code[t0])
    BY <1>2
  <1>6. t0 \in Tasks => g[t0].kind = kind
    BY <1>1, <1>5
  <1>7. QED
    BY <1>3, <1>4, <1>6 DEF g, t0

\* The closure of t with or without its Strong to the Worker.
Hold(f, t, b) == [f EXCEPT ![t].worker = b]

LEMMA HoldTyped ==
  ASSUME NEW f \in [Tasks -> Closures], NEW t, NEW b \in BOOLEAN
  PROVE  /\ Hold(f, t, b) \in [Tasks -> Closures]
         /\ \A u \in Tasks : u # t => Hold(f, t, b)[u] = f[u]
         /\ t \in Tasks => Hold(f, t, b)[t].kind = f[t].kind
  <1> DEFINE hold(c) == [c EXCEPT !.worker = b]
             g == Hold(f, t, b)
  <1>1. \A c \in Closures : hold(c) \in Closures /\ hold(c).kind = c.kind
    BY DEF Closures
  <1>2. g = [f EXCEPT ![t] = hold(@)]
    BY DEF Hold
  <1> HIDE DEF hold, g
  <1>3. g \in [Tasks -> Closures]
    BY <1>1, <1>2
  <1>4. \A u \in Tasks : u # t => g[u] = f[u]
    BY <1>2
  <1>5. t \in Tasks => g[t] = hold(f[t])
    BY <1>2
  <1>6. t \in Tasks => g[t].kind = f[t].kind
    BY <1>1, <1>5
  <1>7. QED
    BY <1>3, <1>4, <1>6 DEF g

LEMMA FreedTyped ==
  ASSUME code \in [Tasks -> Closures], NEW q
  PROVE  /\ Freed(q) \in [Tasks -> Closures]
         /\ \A t \in Tasks : t # Top(q) => Freed(q)[t] = code[t]
         /\ Top(q) \in Tasks => Freed(q)[Top(q)].kind = "over"
  <1> DEFINE free(c) == [c EXCEPT !.fn = NoObject]
  <1> DEFINE end(c) == [c EXCEPT !.kind = "over"]
  <1>1. \A c \in Closures : free(c) \in Closures
    BY DEF Closures
  <1>2. \A c \in Closures : end(c) \in Closures /\ end(c).kind = "over"
    BY DEF Closures, Kinds
  <1>3. Freed(q) = [[code EXCEPT ![Top(q)] = free(@)] EXCEPT ![Top(q)] = end(@)]
    BY DEF Freed
  <1> HIDE DEF free, end
  <1> DEFINE f == [code EXCEPT ![Top(q)] = free(@)]
  <1>4. f \in [Tasks -> Closures] /\ \A t \in Tasks : t # Top(q) => f[t] = code[t]
    BY <1>1
  <1>5. Freed(q) = [f EXCEPT ![Top(q)] = end(@)]
    BY <1>3
  <1> HIDE DEF f
  <1>6. Freed(q) \in [Tasks -> Closures]
    BY <1>2, <1>4, <1>5
  <1>7. \A t \in Tasks : t # Top(q) => Freed(q)[t] = f[t]
    BY <1>4, <1>5
  <1>8. Top(q) \in Tasks => Freed(q)[Top(q)] = end(f[Top(q)])
    BY <1>4, <1>5
  <1>9. QED
    BY <1>2, <1>4, <1>6, <1>7, <1>8

LEMMA CodeTypedStart == Init => CodeTyped
  <1>1. "none" \in Kinds
    BY DEF Kinds
  <1>2. Closure("none") \in Closures
    BY <1>1, ClosureTyped
  <1>3. QED
    BY <1>1, <1>2 DEF Init, QueuesInit, StorageInit, CodeTyped, Missing


(***************************************************************************)
(* What a step does to the closures.                                       *)
(***************************************************************************)

\* The running function of q goes on, and gives no function to a queue.
GoesAlone(q) ==
  /\ stack[q] # <<>> /\ blocked[q] = NoTask
  /\ UNCHANGED queues
  /\ code' \in [Tasks -> Closures]
  /\ \A t \in Tasks : t # Top(q) => code'[t] = code[t]

\* The running function of q gives the closure c to r.
Gives(q, r, n, c) ==
  /\ stack[q] # <<>> /\ blocked[q] = NoTask
  /\ n \in fresh /\ fresh' = fresh \ {n}
  /\ pending' = [pending EXCEPT ![r] = Append(@, n)]
  /\ UNCHANGED <<stack, finished, closed>>
  /\ blocked' = blocked \/ blocked' = [blocked EXCEPT ![q] = n]
  /\ code' \in [Tasks -> Closures]
  /\ code'[n] = c
  /\ \A t \in Tasks : t # n /\ t # Top(q) => code'[t] = code[t]

LEMMA AsyncGives ==
  ASSUME QueuesTyped, NEW q \in Queues, NEW r \in Queues, NEW c \in Closures, NEW now,
         now \in [Tasks -> Closures], \A t \in Tasks : t # Top(q) => now[t] = code[t],
         Running(q), Async(r, c, now)
  PROVE  Gives(q, r, New, c) /\ blocked' = blocked
         /\ \A t \in Tasks : t # New => code'[t] = now[t]
  BY DEF Async, Serial!Submit, Gives, QueuesTyped, Running

LEMMA SyncGives ==
  ASSUME QueuesTyped, NEW q \in Queues, NEW r \in Queues, NEW c \in Closures, NEW now,
         now \in [Tasks -> Closures], \A t \in Tasks : t # Top(q) => now[t] = code[t],
         Running(q), Sync(q, r, c, now)
  PROVE  Gives(q, r, New, c) /\ blocked' = [blocked EXCEPT ![q] = New]
         /\ \A t \in Tasks : t # New => code'[t] = now[t]
  BY DEF Sync, Serial!SubmitAndWait, Gives, QueuesTyped, Running

LEMMA GoesOnAlone ==
  ASSUME CodeTyped, NEW q \in Queues, NEW kind \in Kinds, Running(q), GoesOn(q, kind)
  PROVE  GoesAlone(q) /\ (Top(q) \in Tasks => code'[Top(q)].kind = kind)
  BY NowTyped DEF GoesOn, GoesAlone, CodeTyped, Running

\* The app's queue.
LEMMA MainAlone ==
  ASSUME QueuesTyped, CodeTyped,
         Got \/ AskedKeys \/ Invoke \/ Release(Main) \/ ReleaseLast \/ Delete
         \/ Created \/ OnMessage
  PROVE  GoesAlone(Main) /\ CodeTyped'
  <1>0. Main \in Queues /\ {"script", "over"} \subseteq Kinds
    BY DEF Queues, Kinds
  <1>1. CASE Got \/ AskedKeys \/ Created
    <2>1. Running(Main) /\ GoesOn(Main, "script") /\ UNCHANGED <<calls, stored>>
      BY <1>1 DEF Got, AskedKeys, Created, Runs, storage
    <2>2. QED
      BY <1>0, <2>1, GoesOnAlone DEF GoesAlone, CodeTyped
  <1>2. CASE Invoke
    <2>1. Running(Main) /\ UNCHANGED <<calls, stored>>
          /\ (GoesOn(Main, "script") \/ GoesOn(Main, "over"))
      BY <1>2 DEF Invoke, Runs
    <2>2. QED
      BY <1>0, <2>1, GoesOnAlone DEF GoesAlone, CodeTyped
  <1>3. CASE Release(Main) \/ ReleaseLast \/ Delete
    <2>1. Running(Main) /\ UNCHANGED <<queues, calls, stored>> /\ code' = Freed(Main)
      BY <1>3 DEF Release, ReleaseLast, Delete, Leaving, Runs, storage
    <2>2. QED
      BY <2>1, FreedTyped DEF GoesAlone, CodeTyped, Running
  <1>4. CASE OnMessage
    <2>1. Running(Main) /\ UNCHANGED <<queues, calls, stored>>
          /\ \/ code' = [Now(Main, "script") EXCEPT ![Top(Main)].worker = TRUE]
             \/ code' = Now(Main, "over")
      BY <1>4 DEF OnMessage, Runs, storage
    <2>2. CASE code' = Now(Main, "over")
      BY <1>0, <2>1, <2>2, NowTyped DEF GoesAlone, CodeTyped, Running
    <2>3. CASE code' = [Now(Main, "script") EXCEPT ![Top(Main)].worker = TRUE]
      <3>1. Now(Main, "script") \in [Tasks -> Closures]
            /\ \A t \in Tasks : t # Top(Main) => Now(Main, "script")[t] = code[t]
        BY <1>0, NowTyped DEF CodeTyped
      <3>2. code' \in [Tasks -> Closures]
            /\ \A t \in Tasks : t # Top(Main) => code'[t] = Now(Main, "script")[t]
        <4>1. code' = Hold(Now(Main, "script"), Top(Main), TRUE)
          BY <2>3 DEF Hold
        <4>2. QED
          BY <3>1, <4>1, HoldTyped
      <3>3. QED
        BY <2>1, <3>1, <3>2 DEF GoesAlone, CodeTyped, Running
    <2>4. QED
      BY <2>1, <2>2, <2>3
  <1>5. QED
    BY <1>1, <1>2, <1>3, <1>4

LEMMA LoadGives ==
  ASSUME QueuesTyped, CodeTyped, Placed, NEW j \in JSObjects, NEW f,
         Load(f, j) \/ LoadKeys(f, j)
  PROVE  /\ CodeTyped'
         /\ \E c \in Closures : c.kind = "load" /\ Gives(Main, IO, New, c)
         /\ code'[Top(Main)].kind \in {"script", "asking"}
  <1>1. Main \in Queues /\ IO \in Queues /\ "load" \in Kinds /\ "asking" \in Kinds
    BY DEF Queues, Kinds
  <1>2. Running(Main) /\ code[Top(Main)].kind = "script" /\ calls' = calls + 1
        /\ UNCHANGED stored
    BY DEF Load, LoadKeys, Asked, Calling, Runs
  <1>3. Question(j) \in Closures /\ Question(j).kind = "load"
    <2>1. Closure("load") \in Closures /\ Closure("load").kind = "load" /\ calls' \in Nat
      BY <1>1, <1>2, ClosureTyped DEF CodeTyped
    <2>2. QED
      BY <2>1 DEF Question, Closures
  <1>4. Top(Main) \in Tasks /\ Top(Main) \notin fresh
    BY <1>1, <1>2, TopIn DEF Running, Placed
  <1>5. CASE Load(f, j)
    <2>1. Async(IO, Question(j), code)
      BY <1>5 DEF Load
    <2>2. Gives(Main, IO, New, Question(j)) /\ \A t \in Tasks : t # New => code'[t] = code[t]
      BY <2>1, <1>1, <1>2, <1>3, AsyncGives DEF CodeTyped
    <2>3. New \in fresh
      BY <2>2 DEF Gives
    <2>4. QED
      BY <2>2, <2>3, <1>2, <1>3, <1>4 DEF CodeTyped, Gives
  <1>6. CASE LoadKeys(f, j)
    <2>1. Sync(Main, IO, Question(j), Now(Main, "asking"))
      BY <1>6 DEF LoadKeys
    <2>2. /\ Now(Main, "asking") \in [Tasks -> Closures]
          /\ \A t \in Tasks : t # Top(Main) => Now(Main, "asking")[t] = code[t]
          /\ Now(Main, "asking")[Top(Main)].kind = "asking"
      BY <1>1, <1>4, NowTyped DEF CodeTyped
    <2>3. Gives(Main, IO, New, Question(j))
          /\ \A t \in Tasks : t # New => code'[t] = Now(Main, "asking")[t]
      BY <2>1, <2>2, <1>1, <1>2, <1>3, SyncGives
    <2>4. New \in fresh
      BY <2>3 DEF Gives
    <2>5. QED
      BY <2>2, <2>3, <2>4, <1>2, <1>3, <1>4 DEF CodeTyped, Gives
  <1>7. QED
    BY <1>5, <1>6

LEMMA PutGives ==
  ASSUME QueuesTyped, CodeTyped, Placed, NEW v \in Nat, Put(v)
  PROVE  /\ CodeTyped'
         /\ \E c \in Closures : c.kind = "put" /\ c.val = v /\ Gives(Main, IO, New, c)
         /\ blocked' = blocked
         /\ code'[Top(Main)].kind = "script"
  <1> DEFINE c == [Closure("put") EXCEPT !.val = v]
  <1>1. Main \in Queues /\ IO \in Queues /\ "put" \in Kinds
    BY DEF Queues, Kinds
  <1>2. Running(Main) /\ code[Top(Main)].kind = "script" /\ calls' = calls + 1
        /\ UNCHANGED stored /\ Async(IO, c, code)
    BY DEF Put, Calling, Runs
  <1>3. c \in Closures /\ c.kind = "put" /\ c.val = v
    <2>1. Closure("put") \in Closures /\ Closure("put").kind = "put"
      BY <1>1, ClosureTyped
    <2>2. QED
      BY <2>1 DEF Closures
  <1> HIDE DEF c
  <1>4. Top(Main) \in Tasks /\ Top(Main) \notin fresh
    BY <1>1, <1>2, TopIn DEF Running, Placed
  <1>5. Gives(Main, IO, New, c) /\ blocked' = blocked
        /\ \A t \in Tasks : t # New => code'[t] = code[t]
    BY <1>1, <1>2, <1>3, AsyncGives DEF CodeTyped
  <1>6. New \in fresh
    BY <1>5 DEF Gives
  <1>7. QED
    BY <1>2, <1>3, <1>4, <1>5, <1>6 DEF CodeTyped, Gives

LEMMA GetGives ==
  ASSUME QueuesTyped, CodeTyped, Placed, GetValue
  PROVE  /\ CodeTyped'
         /\ \E c \in Closures : c.kind = "get" /\ Gives(Main, IO, New, c)
         /\ blocked' = [blocked EXCEPT ![Main] = New]
  <1> DEFINE c == Closure("get")
  <1>1. Main \in Queues /\ IO \in Queues /\ "get" \in Kinds /\ "getting" \in Kinds
    BY DEF Queues, Kinds
  <1>2. Running(Main) /\ calls' = calls + 1
        /\ UNCHANGED stored /\ Sync(Main, IO, c, Now(Main, "getting"))
    BY DEF GetValue, Calling, Runs, storage
  <1>3. c \in Closures /\ c.kind = "get"
    BY <1>1, ClosureTyped
  <1> HIDE DEF c
  <1>4. /\ Now(Main, "getting") \in [Tasks -> Closures]
        /\ \A t \in Tasks : t # Top(Main) => Now(Main, "getting")[t] = code[t]
    BY <1>1, NowTyped DEF CodeTyped
  <1>5. Gives(Main, IO, New, c) /\ blocked' = [blocked EXCEPT ![Main] = New]
    BY <1>1, <1>2, <1>3, <1>4, SyncGives
  <1>6. QED
    BY <1>2, <1>3, <1>5 DEF CodeTyped, Gives

\* A closure for the worker's queue that carries nothing.
LEMMA WorkerGives ==
  ASSUME QueuesTyped, CodeTyped, Placed, CreateWorker \/ Post
  PROVE  /\ CodeTyped'
         /\ \E c \in Closures :
              /\ c.kind \in {"setup", "post"} /\ (c.kind = "post" => heap = "alive" /\ Kept)
              /\ Gives(Main, Work, New, c)
         /\ code'[Top(Main)].kind \in {"script", "creating"}
  <1>1. Main \in Queues /\ Work \in Queues /\ {"setup", "post", "creating"} \subseteq Kinds
    BY DEF Queues, Kinds
  <1>2. Running(Main) /\ code[Top(Main)].kind = "script" /\ calls' = calls + 1
        /\ UNCHANGED stored
    BY DEF CreateWorker, Post, Calling, Runs, storage
  <1>3. /\ Closure("setup") \in Closures /\ Closure("setup").kind = "setup"
        /\ Closure("post") \in Closures /\ Closure("post").kind = "post"
    BY <1>1, ClosureTyped
  <1>4. Top(Main) \in Tasks /\ Top(Main) \notin fresh
    BY <1>1, <1>2, TopIn DEF Running, Placed
  <1>5. CASE Post
    <2>1. Async(Work, Closure("post"), code) /\ heap = "alive" /\ Kept
      BY <1>5 DEF Post
    <2>2. Gives(Main, Work, New, Closure("post"))
          /\ \A t \in Tasks : t # New => code'[t] = code[t]
      BY <2>1, <1>1, <1>2, <1>3, AsyncGives DEF CodeTyped
    <2>3. New \in fresh
      BY <2>2 DEF Gives
    <2>4. QED
      BY <2>1, <2>2, <2>3, <1>2, <1>3, <1>4 DEF CodeTyped, Gives
  <1>6. CASE CreateWorker
    <2>1. Sync(Main, Work, Closure("setup"), Now(Main, "creating"))
      BY <1>6 DEF CreateWorker
    <2>2. /\ Now(Main, "creating") \in [Tasks -> Closures]
          /\ \A t \in Tasks : t # Top(Main) => Now(Main, "creating")[t] = code[t]
          /\ Now(Main, "creating")[Top(Main)].kind = "creating"
      BY <1>1, <1>4, NowTyped DEF CodeTyped
    <2>3. Gives(Main, Work, New, Closure("setup"))
          /\ \A t \in Tasks : t # New => code'[t] = Now(Main, "creating")[t]
      BY <2>1, <2>2, <1>1, <1>2, <1>3, SyncGives
    <2>4. New \in fresh
      BY <2>3 DEF Gives
    <2>5. QED
      BY <2>2, <2>3, <2>4, <1>2, <1>3, <1>4 DEF CodeTyped, Gives
  <1>7. QED
    BY <1>5, <1>6


LEMMA LetGoGives ==
  ASSUME QueuesTyped, CodeTyped, Placed, Running(Main),
         NEW now \in [Tasks -> Closures], \A t \in Tasks : t # Top(Main) => now[t] = code[t],
         now[Top(Main)].kind \in {"script", "over"},
         NEW waiting \in {"closing", "ending"}, LetGo(now, waiting)
  PROVE  /\ code' \in [Tasks -> Closures] /\ heap' = heap
         /\ code'[Top(Main)].kind # "getting"
         /\ \/ GoesAlone(Main)
            \/ /\ \E c \in Closures : c.kind = "release" /\ Gives(Main, Work, New, c)
               /\ blocked' = [blocked EXCEPT ![Main] = New]
  <1>1. Main \in Queues /\ Work \in Queues /\ {"release", "closing", "ending"} \subseteq Kinds
    BY DEF Queues, Kinds
  <1>2. Top(Main) \in Tasks /\ Top(Main) \notin fresh
    BY <1>1, TopIn DEF Running, Placed
  <1>3. CASE heap = "alive"
    <2> DEFINE then == [now EXCEPT ![Top(Main)].kind = waiting]
    <2>1. Sync(Main, Work, Closure("release"), then) /\ heap' = heap
      BY <1>3 DEF LetGo
    <2>2. Closure("release") \in Closures /\ Closure("release").kind = "release"
      BY <1>1, ClosureTyped
    <2>3. \A c \in Closures : [c EXCEPT !.kind = waiting] \in Closures
                              /\ [c EXCEPT !.kind = waiting].kind = waiting
      BY <1>1 DEF Closures
    <2>4. then = [now EXCEPT ![Top(Main)] = [@ EXCEPT !.kind = waiting]]
      OBVIOUS
    <2> HIDE DEF then
    <2>5. /\ then \in [Tasks -> Closures] /\ then[Top(Main)].kind = waiting
          /\ \A t \in Tasks : t # Top(Main) => then[t] = now[t]
      BY <2>3, <2>4, <1>2
    <2>6. /\ Gives(Main, Work, New, Closure("release"))
          /\ blocked' = [blocked EXCEPT ![Main] = New]
          /\ \A t \in Tasks : t # New => code'[t] = then[t]
      BY <2>1, <2>2, <2>5, <1>1, SyncGives
    <2>7. New \in fresh
      BY <2>6 DEF Gives
    <2>8. QED
      BY <2>1, <2>2, <2>5, <2>6, <2>7, <1>2 DEF Gives
  <1>4. CASE heap # "alive"
    BY <1>4 DEF LetGo, GoesAlone, Running
  <1>5. QED
    BY <1>3, <1>4

\* terminate(), the collection of the Worker's value, and the end of a handler.
LEMMA LettingGo ==
  ASSUME QueuesTyped, CodeTyped, Placed, Terminate \/ Collect \/ Handled
  PROVE  /\ CodeTyped' /\ heap' = heap
         /\ code'[Top(Main)].kind # "getting"
         /\ \/ GoesAlone(Main)
            \/ /\ \E c \in Closures : c.kind = "release" /\ Gives(Main, Work, New, c)
               /\ blocked' = [blocked EXCEPT ![Main] = New]
  <1>1. Main \in Queues /\ "over" \in Kinds
    BY DEF Queues, Kinds
  <1>2. Running(Main) /\ code[Top(Main)].kind = "script" /\ calls' \in Nat /\ stored' = stored
    BY DEF Terminate, Collect, Handled, Calling, Runs, storage, CodeTyped
  <1>3. Top(Main) \in Tasks
    BY <1>1, <1>2, TopIn DEF Running
  <1>4. CASE Terminate
    BY <1>2, <1>4, LetGoGives DEF Terminate, CodeTyped
  <1>5. CASE Collect
    <2>1. LetGo(code, "closing") \/ UNCHANGED <<queues, code, heap>>
      BY <1>5 DEF Collect
    <2>2. CASE UNCHANGED <<queues, code, heap>>
      BY <1>2, <2>2 DEF GoesAlone, CodeTyped, Running
    <2>3. CASE LetGo(code, "closing")
      BY <1>2, <2>3, LetGoGives DEF CodeTyped
    <2>4. QED
      BY <2>1, <2>2, <2>3
  <1>6. CASE Handled
    <2> DEFINE now == [Now(Main, "over") EXCEPT ![Top(Main)].worker = FALSE]
    <2>1. /\ Now(Main, "over") \in [Tasks -> Closures]
          /\ \A t \in Tasks : t # Top(Main) => Now(Main, "over")[t] = code[t]
          /\ Now(Main, "over")[Top(Main)].kind = "over"
      BY <1>1, <1>3, NowTyped DEF CodeTyped
    <2>2. LetGo(now, "ending") \/ (code' = now /\ UNCHANGED <<queues, heap>>)
      BY <1>6 DEF Handled
    <2>3. /\ now \in [Tasks -> Closures]
          /\ \A t \in Tasks : t # Top(Main) => now[t] = code[t]
          /\ now[Top(Main)].kind = "over"
      <3>1. now = Hold(Now(Main, "over"), Top(Main), FALSE)
        BY DEF Hold
      <3> HIDE DEF now
      <3>2. QED
        BY <2>1, <3>1, <1>3, HoldTyped
    <2> HIDE DEF now
    <2>4. CASE code' = now /\ UNCHANGED <<queues, heap>>
      BY <1>2, <2>3, <2>4 DEF GoesAlone, CodeTyped, Running
    <2>5. CASE LetGo(now, "ending")
      BY <1>2, <2>3, <2>5, LetGoGives DEF CodeTyped
    <2>6. QED
      BY <2>2, <2>4, <2>5
  <1>7. QED
    BY <1>4, <1>5, <1>6

\* The IO queue.
LEMMA IOAlone ==
  ASSUME QueuesTyped, CodeTyped, Write \/ Read \/ Release(IO)
  PROVE  /\ GoesAlone(IO) /\ CodeTyped'
         /\ Top(IO) \in Tasks /\ code'[Top(IO)].kind = "over"
  <1>1. IO \in Queues /\ "over" \in Kinds
    BY DEF Queues, Kinds
  <1>2. Running(IO) /\ UNCHANGED calls
    BY DEF Write, Read, Release, Leaving, Runs
  <1>3. Top(IO) \in Tasks
    BY <1>1, <1>2, TopIn DEF Running
  <1>4. CASE Write \/ Read
    <2>1. GoesAlone(IO) /\ code'[Top(IO)].kind = "over"
      BY <1>1, <1>2, <1>3, <1>4, GoesOnAlone DEF Write, Read
    <2>2. code[Top(IO)].val \in Nat
      BY <1>3 DEF CodeTyped, Closures
    <2>3. stored' \in Nat
      BY <1>4, <2>2 DEF Write, Read, CodeTyped
    <2>4. QED
      BY <2>1, <2>3, <1>2, <1>3 DEF GoesAlone, CodeTyped
  <1>5. CASE Release(IO)
    <2>1. UNCHANGED <<queues, stored>> /\ code' = Freed(IO)
      BY <1>5 DEF Release, storage
    <2>2. QED
      BY <2>1, <1>2, <1>3, FreedTyped DEF GoesAlone, CodeTyped, Running
  <1>6. QED
    BY <1>4, <1>5

LEMMA IOGives ==
  ASSUME QueuesTyped, CodeTyped, Placed, Answer \/ ReleaseLastAway
  PROVE  /\ CodeTyped'
         /\ \E c \in Closures : c.kind \in {"reply", "delete"} /\ Gives(IO, Main, New, c)
         /\ Top(IO) \in Tasks /\ code'[Top(IO)].kind = "over"
         /\ UNCHANGED <<stored, last, got>>
         /\ blocked'[Main] = blocked[Main]
  <1>1. IO \in Queues /\ Main \in Queues /\ {"over", "reply", "delete"} \subseteq Kinds
        /\ IO # Main
    BY QueuesAssumption DEF Queues, Kinds
  <1>2. Running(IO) /\ UNCHANGED <<calls, stored, last, got>>
    BY DEF Answer, ReleaseLastAway, Leaving, Runs, storage
  <1>3. Top(IO) \in Tasks /\ Top(IO) \notin fresh
    BY <1>1, <1>2, TopIn DEF Running, Placed
  <1>4. CASE Answer
    <2> DEFINE c == [code[Top(IO)] EXCEPT !.kind = "reply", !.val = stored]
    <2>1. Async(Main, c, Now(IO, "over"))
      BY <1>4 DEF Answer
    <2>2. c \in Closures /\ c.kind = "reply"
      <3>1. code[Top(IO)] \in Closures /\ stored \in Nat
        BY <1>3 DEF CodeTyped
      <3>2. QED
        BY <3>1, <1>1 DEF Closures
    <2> HIDE DEF c
    <2>3. /\ Now(IO, "over") \in [Tasks -> Closures]
          /\ \A t \in Tasks : t # Top(IO) => Now(IO, "over")[t] = code[t]
          /\ Now(IO, "over")[Top(IO)].kind = "over"
      BY <1>1, <1>3, NowTyped DEF CodeTyped
    <2>4. Gives(IO, Main, New, c) /\ blocked' = blocked
          /\ \A t \in Tasks : t # New => code'[t] = Now(IO, "over")[t]
      BY <2>1, <2>2, <2>3, <1>1, <1>2, AsyncGives
    <2>5. New \in fresh
      BY <2>4 DEF Gives
    <2>6. QED
      BY <2>2, <2>3, <2>4, <2>5, <1>2, <1>3 DEF CodeTyped, Gives
  <1>5. CASE ReleaseLastAway
    <2>1. PICK j \in JSObjects :
            Sync(IO, Main, [Closure("delete") EXCEPT !.fn = j], Freed(IO))
      BY <1>5 DEF ReleaseLastAway
    <2> DEFINE c == [Closure("delete") EXCEPT !.fn = j]
    <2>2. c \in Closures /\ c.kind = "delete"
      <3>1. Closure("delete") \in Closures /\ Closure("delete").kind = "delete"
        BY <1>1, ClosureTyped
      <3>2. QED
        BY <3>1 DEF Closures
    <2>3. Sync(IO, Main, c, Freed(IO))
      BY <2>1
    <2> HIDE DEF c
    <2>4. /\ Freed(IO) \in [Tasks -> Closures]
          /\ \A t \in Tasks : t # Top(IO) => Freed(IO)[t] = code[t]
          /\ Freed(IO)[Top(IO)].kind = "over"
      BY <1>3, FreedTyped DEF CodeTyped
    <2>5. Gives(IO, Main, New, c) /\ blocked' = [blocked EXCEPT ![IO] = New]
          /\ \A t \in Tasks : t # New => code'[t] = Freed(IO)[t]
      BY <2>2, <2>3, <2>4, <1>1, <1>2, SyncGives
    <2>6. New \in fresh
      BY <2>5 DEF Gives
    <2>7. blocked'[Main] = blocked[Main]
      BY <2>5, <1>1 DEF QueuesTyped
    <2>8. QED
      BY <2>2, <2>4, <2>5, <2>6, <2>7, <1>2, <1>3 DEF CodeTyped, Gives
  <1>6. QED
    BY <1>4, <1>5


\* The worker's queue.
LEMMA WorkAlone ==
  ASSUME QueuesTyped, CodeTyped, NEW kind \in {"worker", "posting", "over"},
         \/ (Setup \/ OnPost) /\ kind = "worker"
         \/ PostUp /\ kind = "posting"
         \/ LetGoContext /\ kind = "over"
  PROVE  /\ GoesAlone(Work) /\ CodeTyped'
         /\ Top(Work) \in Tasks /\ code'[Top(Work)].kind = kind
  <1>1. Work \in Queues /\ kind \in Kinds
    BY DEF Queues, Kinds
  <1>2. Running(Work) /\ UNCHANGED <<calls, stored>>
    BY DEF Setup, OnPost, PostUp, LetGoContext, Runs, storage
  <1>3. Top(Work) \in Tasks
    BY <1>1, <1>2, TopIn DEF Running
  <1>4. CASE Setup \/ OnPost \/ LetGoContext
    <2>1. GoesOn(Work, kind) \/ PostUp
      BY <1>4 DEF Setup, OnPost, LetGoContext
    <2>2. CASE GoesOn(Work, kind)
      BY <2>2, <1>1, <1>2, <1>3, GoesOnAlone DEF GoesAlone, CodeTyped
    <2>3. CASE PostUp
      <3>1. Runs(Work, "worker") /\ ~Runs(Work, "setup") /\ ~Runs(Work, "post")
            /\ ~Runs(Work, "release")
        BY <2>3 DEF PostUp, Runs
      <3>2. QED
        BY <3>1, <1>4 DEF Setup, OnPost, LetGoContext
    <2>4. QED
      BY <2>1, <2>2, <2>3
  <1>5. CASE PostUp /\ kind = "posting"
    <2>1. code' = [Now(Work, "posting") EXCEPT ![Top(Work)].worker = TRUE] /\ UNCHANGED queues
      BY <1>5 DEF PostUp
    <2>2. /\ Now(Work, "posting") \in [Tasks -> Closures]
          /\ \A t \in Tasks : t # Top(Work) => Now(Work, "posting")[t] = code[t]
          /\ Now(Work, "posting")[Top(Work)].kind = "posting"
      BY <1>1, <1>3, <1>5, NowTyped DEF CodeTyped
    <2>3. /\ code' \in [Tasks -> Closures] /\ code'[Top(Work)].kind = "posting"
          /\ \A t \in Tasks : t # Top(Work) => code'[t] = Now(Work, "posting")[t]
      <3>1. code' = Hold(Now(Work, "posting"), Top(Work), TRUE)
        BY <2>1 DEF Hold
      <3>2. QED
        BY <2>2, <3>1, <1>3, HoldTyped
    <2>4. QED
      BY <2>1, <2>2, <2>3, <1>2, <1>3, <1>5 DEF GoesAlone, CodeTyped, Running
  <1>6. QED
    BY <1>4, <1>5

LEMMA PostedGives ==
  ASSUME QueuesTyped, CodeTyped, Placed, NEW kind \in {"worker", "leaving"}, PostedOn(kind)
  PROVE  /\ CodeTyped'
         /\ \E c \in Closures : c.kind = "message" /\ Gives(Work, Main, New, c)
         /\ Top(Work) \in Tasks /\ code'[Top(Work)].kind = kind
         /\ blocked' = blocked
  <1> DEFINE c == Closure("message")
  <1> DEFINE now == [Now(Work, kind) EXCEPT ![Top(Work)].worker = FALSE]
  <1>1. Work \in Queues /\ Main \in Queues /\ "message" \in Kinds /\ kind \in Kinds
    BY DEF Queues, Kinds
  <1>2. Running(Work) /\ UNCHANGED <<calls, stored>> /\ Async(Main, c, now)
    BY DEF PostedOn, Runs, storage
  <1>3. Top(Work) \in Tasks /\ Top(Work) \notin fresh
    BY <1>1, <1>2, TopIn DEF Running, Placed
  <1>4. c \in Closures /\ c.kind = "message"
    BY <1>1, ClosureTyped
  <1>5. /\ Now(Work, kind) \in [Tasks -> Closures]
        /\ \A t \in Tasks : t # Top(Work) => Now(Work, kind)[t] = code[t]
        /\ Now(Work, kind)[Top(Work)].kind = kind
    BY <1>1, <1>3, NowTyped DEF CodeTyped
  <1>6. /\ now \in [Tasks -> Closures]
        /\ \A t \in Tasks : t # Top(Work) => now[t] = code[t]
        /\ now[Top(Work)].kind = kind
    <2>1. now = Hold(Now(Work, kind), Top(Work), FALSE)
      BY DEF Hold
    <2> HIDE DEF now
    <2>2. QED
      BY <1>5, <2>1, <1>3, HoldTyped
  <1> HIDE DEF c, now
  <1>7. Gives(Work, Main, New, c) /\ blocked' = blocked
        /\ \A t \in Tasks : t # New => code'[t] = now[t]
    BY <1>1, <1>2, <1>4, <1>6, AsyncGives
  <1>8. New \in fresh
    BY <1>7 DEF Gives
  <1>9. QED
    BY <1>2, <1>3, <1>4, <1>6, <1>7, <1>8 DEF CodeTyped, Gives

\* The function of a message that was last leaves, and its queue with it.
LEMMA LeaveDrops ==
  ASSUME QueuesTyped, CodeTyped, Leave
  PROVE  CodeTyped' /\ Dropped(Work) /\ \A t \in Tasks : t # Top(Work) => code'[t] = code[t]
  <1>1. "none" \in Kinds
    BY DEF Kinds
  <1>2. Closure("none") \in Closures
    BY <1>1, ClosureTyped
  <1>3. /\ Abandon(Work) /\ stack[Work] # <<>> /\ UNCHANGED <<calls, stored>>
        /\ code' = [code EXCEPT ![Top(Work)] = Closure("none")]
    BY DEF Leave, Abandon, Runs, Running, storage
  <1>4. Dropped(Work)
    BY <1>3 DEF Abandon, Dropped
  <1>5. QED
    BY <1>2, <1>3, <1>4 DEF CodeTyped

\* The platform: as if it ran on no queue.
LEMMA EventGives ==
  ASSUME QueuesTyped, CodeTyped, Event, UNCHANGED storage
  PROVE  /\ CodeTyped' /\ New \in fresh
         /\ pending' = [pending EXCEPT ![Main] = Append(@, New)]
         /\ UNCHANGED <<stack, blocked, finished>>
         /\ code'[New].kind = "script"
         /\ \A t \in Tasks : t # New => code'[t] = code[t]
  <1>1. "script" \in Kinds
    BY DEF Kinds
  <1>2. Closure("script") \in Closures /\ Closure("script").kind = "script"
    BY <1>1, ClosureTyped
  <1>3. QED
    BY <1>2 DEF Event, Async, Serial!Submit, CodeTyped, QueuesTyped, storage

LEMMA EndTyped ==
  ASSUME QueuesTyped, CodeTyped, NEW q \in Queues, End(q), UNCHANGED storage
  PROVE  /\ CodeTyped'
         /\ \A t \in Tasks : t # Top(q) => code'[t] = code[t]
         /\ Top(q) \in Tasks /\ code[Top(q)].kind \in {"script", "worker", "over"}
         /\ code'[Top(q)].kind = "none"
         /\ Elems(stack[q]) = {Top(q)}
  <1>1. "none" \in Kinds
    BY DEF Kinds
  <1>2. Closure("none") \in Closures /\ Closure("none").kind = "none"
    BY <1>1, ClosureTyped
  <1>3. Running(q) /\ code' = [code EXCEPT ![Top(q)] = Closure("none")]
        /\ code[Top(q)].kind \in {"script", "worker", "over"} /\ UNCHANGED <<calls, stored>>
    BY DEF End, storage
  <1>4. Top(q) \in Tasks /\ Elems(stack[q]) = {Top(q)}
    BY <1>3, TopIn DEF Running
  <1>5. QED
    BY <1>2, <1>3, <1>4 DEF CodeTyped

LEMMA CloseAlone ==
  ASSUME QueuesTyped, CodeTyped, Close
  PROVE  /\ CodeTyped'
         /\ Running(Main) /\ Serial!Close(Work)
         /\ Top(Main) \in Tasks /\ code'[Top(Main)].kind \in {"script", "over"}
         /\ \A t \in Tasks : t # Top(Main) => code'[t] = code[t]
  <1>1. Main \in Queues /\ {"script", "over"} \subseteq Kinds
    BY DEF Queues, Kinds
  <1>2. Running(Main) /\ Serial!Close(Work) /\ UNCHANGED <<calls, stored>>
        /\ (code' = Now(Main, "script") \/ code' = Now(Main, "over"))
    BY DEF Close, Runs, storage
  <1>3. Top(Main) \in Tasks
    BY <1>1, <1>2, TopIn DEF Running
  <1>4. QED
    BY <1>1, <1>2, <1>3, NowTyped DEF CodeTyped


(***************************************************************************)
(* The heap of the worker.                                                 *)
(***************************************************************************)

InHeap == {"post", "worker", "posting", "leaving"}

\* After the heap is destroyed the worker's queue has nothing that runs in it, but
\* the script that the constructor runs when it destroyed the heap itself.
NothingToRun == \A t \in In(Work) : code[t].kind \in InHeap => t = fallen

\* The release of the context is waited for, and nothing comes after it.
ReleaseWaited == \A t \in In(Work) : code[t].kind = "release" => blocked[Main] = t

ReleaseLastOfAll ==
  /\ \A i \in DOMAIN pending[Work] :
       code[pending[Work][i]].kind = "release" => i = Len(pending[Work])
  /\ \A t \in Elems(stack[Work]) : code[t].kind = "release" => pending[Work] = <<>>

\* What waits in the worker's queue has not begun.
Waiting == \A t \in Elems(pending[Work]) : code[t].kind \in {"setup", "post", "release"}

\* Until createWorker() has returned, no script has the Worker, and nothing is posted.
Early == worker \in {"none", "making"}

NoPosts == \A t \in In(Work) : code[t].kind # "post"

Unkept == Early => ~Kept

HeapInv ==
  /\ heap \in {"alive", "left"} \/ NothingToRun
  /\ ReleaseWaited
  /\ ReleaseLastOfAll
  /\ Waiting
  /\ Early => NoPosts

Base == QueuesTyped /\ CodeTyped /\ Placed

LEMMA HeapInvImplies == QueuesTyped /\ HeapInv => HeapOutlivesScripts
  <1> SUFFICES ASSUME QueuesTyped, HeapInv,
                      Runs(Work, "worker") \/ Runs(Work, "posting") \/ Runs(Work, "leaving")
               PROVE  heap \in {"alive", "left"} \/ Top(Work) = fallen
    BY DEF HeapOutlivesScripts
  <1>1. Work \in Queues /\ stack[Work] # <<>>
    BY DEF Queues, Runs, Running
  <1>2. Top(Work) \in In(Work)
    BY <1>1, TopIn
  <1>3. QED
    BY <1>2 DEF HeapInv, NothingToRun, InHeap, Runs

LEMMA HeapInvStart == Init => HeapInv
  <1> SUFFICES ASSUME Init PROVE HeapInv
    OBVIOUS
  <1>1. Work \in Queues
    BY DEF Queues
  <1>2. pending[Work] = <<>> /\ stack[Work] = <<>>
    BY <1>1 DEF Init, QueuesInit, Serial!Init, Serial!Runners
  <1>3. Elems(<<>>) = {} /\ DOMAIN <<>> = {}
    BY DEF Elems
  <1>4. In(Work) = {}
    BY <1>2, <1>3 DEF In
  <1>5. QED
    BY <1>2, <1>3, <1>4 DEF HeapInv, NothingToRun, ReleaseWaited, ReleaseLastOfAll,
       Waiting, NoPosts

\* Steps that the worker's queue does not see.
LEMMA HeapUnseen ==
  ASSUME Base, HeapInv,
         pending'[Work] = pending[Work], stack'[Work] = stack[Work],
         \A t \in In(Work) : code'[t].kind = code[t].kind,
         \A t \in In(Work) : blocked[Main] = t => blocked'[Main] = t,
         UNCHANGED <<heap, fallen>>, Early' => Early
  PROVE  HeapInv'
  <1>1. In(Work)' = In(Work)
    BY DEF In
  <1>2. /\ NothingToRun => NothingToRun'
        /\ NoPosts => NoPosts'
    BY <1>1 DEF NothingToRun, NoPosts
  <1>3. ReleaseWaited'
    BY <1>1 DEF ReleaseWaited, HeapInv
  <1>4. /\ \A i \in DOMAIN pending[Work] : pending[Work][i] \in In(Work)
        /\ \A t \in Elems(stack[Work]) : t \in In(Work)
        /\ \A t \in Elems(pending[Work]) : t \in In(Work)
    BY DEF In, Elems
  <1>5. ReleaseLastOfAll'
    BY <1>4 DEF ReleaseLastOfAll, HeapInv
  <1>6. Waiting'
    BY <1>4 DEF Waiting, HeapInv
  <1>7. QED
    BY <1>2, <1>3, <1>5, <1>6 DEF HeapInv

\* A queue's running function is in no other queue, and a fresh one in none.
LEMMA Elsewhere ==
  ASSUME Base, NEW q \in Queues
  PROVE  /\ \A t \in In(q) : t \in Tasks /\ t \notin fresh /\ t \notin finished
         /\ \A r \in Queues : r # q /\ stack[r] # <<>> => Top(r) \notin In(q)
  <1>1. \A r \in Queues : stack[r] # <<>> => Top(r) \in In(r)
    BY TopIn DEF Base
  <1>2. \A s \in Seq(Tasks) : \A i \in DOMAIN s : s[i] \in Tasks
    OBVIOUS
  <1>3. \A t \in In(q) : t \in Tasks
    BY <1>2 DEF Base, QueuesTyped, In, Elems
  <1>4. QED
    BY <1>1, <1>3 DEF Base, Placed

LEMMA HeapAlone ==
  ASSUME Base, HeapInv, NEW q \in {Main, IO}, GoesAlone(q), UNCHANGED <<heap, fallen>>,
         Early' => Early
  PROVE  HeapInv'
  <1>1. q \in Queues /\ Work \in Queues /\ q # Work
    BY QueuesAssumption DEF Queues
  <1>2. \A t \in In(Work) : code'[t] = code[t]
    BY <1>1, Elsewhere DEF GoesAlone
  <1>3. QED
    BY <1>2, HeapUnseen DEF GoesAlone, queues

LEMMA HeapGivenElsewhere ==
  ASSUME Base, HeapInv, NEW q \in {Main, IO}, NEW r \in {Main, IO}, NEW n, NEW c,
         Gives(q, r, n, c), UNCHANGED <<heap, fallen>>, Early' => Early
  PROVE  HeapInv'
  <1>1. /\ q \in Queues /\ Work \in Queues /\ r \in Queues /\ Main \in Queues
        /\ q # Work /\ r # Work
    BY QueuesAssumption DEF Queues
  <1>2. \A t \in In(Work) : code'[t] = code[t]
    BY <1>1, Elsewhere DEF Gives
  <1>3. pending'[Work] = pending[Work] /\ stack'[Work] = stack[Work]
    BY <1>1 DEF Gives, Base, QueuesTyped
  <1>4. \A t \in In(Work) : blocked[Main] = t => blocked'[Main] = t
    <2>1. CASE q = Main
      <3>1. \A t \in In(Work) : t # NoTask
        BY <1>1, Elsewhere DEF Tasks, NoTask
      <3>2. QED
        BY <2>1, <3>1 DEF Gives
    <2>2. CASE q # Main
      BY <2>2, <1>1 DEF Gives, Base, QueuesTyped
    <2>3. QED
      BY <2>1, <2>2
  <1>5. QED
    BY <1>2, <1>3, <1>4, HeapUnseen

\* The app gives a function to the worker's queue.
LEMMA HeapGiven ==
  ASSUME Base, HeapInv, NEW n, NEW c, Gives(Main, Work, n, c),
         c.kind \in {"setup", "post", "release"},
         c.kind = "post" => heap = "alive" /\ ~Early,
         c.kind = "release" => blocked' = [blocked EXCEPT ![Main] = n],
         UNCHANGED <<heap, fallen>>, Early' => Early
  PROVE  HeapInv'
  <1>1. Main \in Queues /\ Work \in Queues /\ Main # Work
    BY QueuesAssumption DEF Queues
  <1>2. \A t \in In(Work) : code'[t] = code[t] /\ t # NoTask
    BY <1>1, Elsewhere DEF Gives, Tasks, NoTask
  <1>3. \A t \in In(Work) : code[t].kind # "release"
    BY <1>2 DEF HeapInv, ReleaseWaited, Gives
  <1>4. /\ pending[Work] \in Seq(Tasks) /\ n \in Tasks /\ n \notin Elems(pending[Work])
        /\ pending'[Work] = Append(pending[Work], n) /\ stack'[Work] = stack[Work]
    BY <1>1 DEF Gives, Base, QueuesTyped, Placed, In
  <1>5. Elems(pending'[Work]) = Elems(pending[Work]) \cup {n}
    BY <1>1, <1>4, ElemsAppend DEF Base, Placed
  <1>6. In(Work)' = In(Work) \cup {n}
    BY <1>4, <1>5 DEF In
  <1>7. code'[n] = c
    BY DEF Gives
  <1>8. heap' \in {"alive", "left"} \/ NothingToRun'
    BY <1>2, <1>6, <1>7 DEF HeapInv, NothingToRun, InHeap
  <1>9. ReleaseWaited'
    <2>1. c.kind = "release" => blocked'[Main] = n
      BY <1>1 DEF Base, QueuesTyped
    <2>2. QED
      BY <2>1, <1>2, <1>3, <1>6, <1>7 DEF ReleaseWaited
  <1>10. ReleaseLastOfAll'
    <2>1. \A i \in DOMAIN pending'[Work] :
            i = Len(pending'[Work]) \/ (i \in DOMAIN pending[Work] /\ pending'[Work][i] = pending[Work][i])
      BY <1>4
    <2>2. \A i \in DOMAIN pending[Work] : pending[Work][i] \in In(Work)
      BY DEF In, Elems
    <2>3. \A t \in Elems(stack'[Work]) : t \in In(Work)
      BY <1>4 DEF In
    <2>4. QED
      BY <2>1, <2>2, <2>3, <1>2, <1>3 DEF ReleaseLastOfAll
  <1>11. Waiting'
    <2>1. \A t \in Elems(pending[Work]) : t \in In(Work)
      BY DEF In
    <2>2. QED
      BY <2>1, <1>2, <1>5, <1>7 DEF HeapInv, Waiting
  <1>12. Early' => NoPosts'
    BY <1>2, <1>6, <1>7 DEF HeapInv, NoPosts
  <1>13. QED
    BY <1>8, <1>9, <1>10, <1>11, <1>12 DEF HeapInv

\* The worker's queue goes on with a function that is no release any more.
LEMMA HeapGoesOn ==
  ASSUME Base, HeapInv, stack[Work] # <<>>,
         pending'[Work] = pending[Work], stack'[Work] = stack[Work],
         blocked'[Main] = blocked[Main],
         \A t \in Tasks : t \in In(Work) /\ t # Top(Work) => code'[t] = code[t],
         code'[Top(Work)].kind \notin {"release", "post"}
  PROVE  /\ In(Work)' = In(Work) /\ Top(Work) \in In(Work)
         /\ \A t \in In(Work) : t # Top(Work) => t \in Elems(pending[Work]) /\ code'[t] = code[t]
         /\ ReleaseWaited' /\ ReleaseLastOfAll' /\ Waiting' /\ (NoPosts => NoPosts')
  <1>1. Work \in Queues
    BY DEF Queues
  <1>2. In(Work)' = In(Work)
    BY DEF In
  <1>3. /\ Top(Work) \in In(Work) /\ Elems(stack[Work]) = {Top(Work)}
        /\ Top(Work) \notin Elems(pending[Work])
    <2>1. Top(Work) \in In(Work) /\ Elems(stack[Work]) = {Top(Work)}
      BY <1>1, TopIn DEF Base
    <2>2. Elems(pending[Work]) \cap Elems(stack[Work]) = {}
      BY <1>1 DEF Base, Placed
    <2>3. QED
      BY <2>1, <2>2
  <1>4. \A t \in In(Work) : t \in Tasks
    BY <1>1, Elsewhere
  <1>5. ReleaseWaited'
    BY <1>2, <1>4 DEF HeapInv, ReleaseWaited
  <1>6. \A i \in DOMAIN pending[Work] :
          pending[Work][i] \in In(Work) /\ pending[Work][i] # Top(Work)
    BY <1>3 DEF In, Elems
  <1>7. ReleaseLastOfAll'
    BY <1>3, <1>4, <1>6 DEF HeapInv, ReleaseLastOfAll
  <1>8. \A t \in In(Work) : t # Top(Work) => t \in Elems(pending[Work]) /\ code'[t] = code[t]
    BY <1>3, <1>4 DEF In
  <1>9. \A t \in Elems(pending[Work]) : t \in In(Work) /\ t # Top(Work)
    BY <1>3 DEF In
  <1>10. Waiting'
    BY <1>8, <1>9 DEF HeapInv, Waiting
  <1>11. NoPosts => NoPosts'
    BY <1>2, <1>8 DEF NoPosts
  <1>12. QED
    BY <1>2, <1>3, <1>5, <1>7, <1>8, <1>10, <1>11

LEMMA HeapWorks ==
  ASSUME Base, HeapInv, Setup \/ OnPost \/ PostUp \/ LetGoContext
  PROVE  HeapInv'
  <1>1. PICK kind \in {"worker", "posting", "over"} :
          /\ GoesAlone(Work) /\ code'[Top(Work)].kind = kind
          /\ LetGoContext => kind = "over"
    <2>1. LetGoContext => ~Setup /\ ~OnPost /\ ~PostUp
      BY DEF LetGoContext, Setup, OnPost, PostUp, Runs
    <2>2. CASE Setup \/ OnPost
      BY <2>1, <2>2, WorkAlone DEF Base
    <2>3. CASE PostUp
      BY <2>1, <2>3, WorkAlone DEF Base
    <2>4. CASE LetGoContext
      BY <2>4, WorkAlone DEF Base
    <2>5. QED
      BY <2>2, <2>3, <2>4
  <1>2. /\ In(Work)' = In(Work) /\ Top(Work) \in In(Work)
        /\ \A t \in In(Work) : t # Top(Work) => t \in Elems(pending[Work]) /\ code'[t] = code[t]
        /\ ReleaseWaited' /\ ReleaseLastOfAll' /\ Waiting' /\ (NoPosts => NoPosts')
    BY <1>1, HeapGoesOn DEF GoesAlone, queues
  <1>3. heap' \in {"alive", "left"} \/ NothingToRun'
    <2>1. CASE Setup
      BY <2>1 DEF Setup
    <2>2. CASE OnPost \/ PostUp
      <3>1. UNCHANGED <<heap, fallen>> /\ code[Top(Work)].kind \in InHeap
        BY <2>2 DEF OnPost, PostUp, Runs, InHeap, workers
      <3>2. NothingToRun => NothingToRun'
        BY <3>1, <1>2 DEF NothingToRun
      <3>3. QED
        BY <3>1, <3>2 DEF HeapInv
    <2>3. CASE LetGoContext
      <3>1. stack[Work] # <<>> /\ Work \in Queues /\ code[Top(Work)].kind = "release"
        BY <2>3 DEF LetGoContext, Runs, Running, Queues
      <3>2. Elems(stack[Work]) = {Top(Work)}
        BY <3>1, TopIn DEF Base
      <3>3. pending[Work] = <<>>
        BY <3>1, <3>2 DEF HeapInv, ReleaseLastOfAll
      <3>4. In(Work) = {Top(Work)}
        BY <3>2, <3>3 DEF In, Elems
      <3>5. QED
        BY <3>4, <2>3, <1>1, <1>2 DEF NothingToRun, InHeap
    <2>4. QED
      BY <2>1, <2>2, <2>3
  <1>4. Early' => Early
    BY DEF Setup, OnPost, PostUp, LetGoContext, workers, Early
  <1>5. QED
    BY <1>2, <1>3, <1>4 DEF HeapInv

\* A message is sent up: its function goes on.
LEMMA PostedKeeps ==
  ASSUME Base, HeapInv, NEW kind \in {"worker", "leaving"}, PostedOn(kind)
  PROVE  /\ In(Work)' = In(Work) /\ Top(Work) \in In(Work) /\ code[Top(Work)].kind = "posting"
         /\ \A t \in In(Work) : t # Top(Work) => t \in Elems(pending[Work]) /\ code'[t] = code[t]
         /\ ReleaseWaited' /\ ReleaseLastOfAll' /\ Waiting' /\ (NoPosts => NoPosts')
  <1>1. PICK c \in Closures : Gives(Work, Main, New, c)
    BY PostedGives DEF Base
  <1>2. code'[Top(Work)].kind \notin {"release", "post"} /\ blocked' = blocked
    BY PostedGives DEF Base
  <1>3. Work \in Queues /\ Main \in Queues /\ Work # Main
    BY QueuesAssumption DEF Queues
  <1>4. pending'[Work] = pending[Work] /\ stack'[Work] = stack[Work] /\ stack[Work] # <<>>
    BY <1>1, <1>3 DEF Gives, Base, QueuesTyped
  <1>5. \A t \in Tasks : t \in In(Work) /\ t # Top(Work) => code'[t] = code[t]
    BY <1>1, <1>3, Elsewhere DEF Gives
  <1>6. code[Top(Work)].kind = "posting"
    BY DEF PostedOn, Runs
  <1>7. QED
    BY <1>2, <1>4, <1>5, <1>6, HeapGoesOn

LEMMA HeapPosted ==
  ASSUME Base, HeapInv, Posted \/ PostedLast \/ PostedFalling
  PROVE  HeapInv'
  <1>1. PICK kind \in {"worker", "leaving"} : PostedOn(kind)
    BY DEF Posted, PostedLast, PostedFalling
  <1>2. /\ In(Work)' = In(Work) /\ Top(Work) \in In(Work) /\ code[Top(Work)].kind = "posting"
        /\ \A t \in In(Work) : t # Top(Work) => t \in Elems(pending[Work]) /\ code'[t] = code[t]
        /\ ReleaseWaited' /\ ReleaseLastOfAll' /\ Waiting' /\ (NoPosts => NoPosts')
    BY <1>1, PostedKeeps
  <1>3. CASE Posted
    <2>1. UNCHANGED <<worker, heap, fallen>>
      BY <1>3 DEF Posted
    <2>2. NothingToRun => NothingToRun'
      BY <2>1, <1>2 DEF NothingToRun, InHeap
    <2>3. QED
      BY <2>1, <2>2, <1>2 DEF HeapInv, Early
  <1>4. CASE PostedLast
    <2>1. worker' = "gone" /\ heap' = "left"
      BY <1>4 DEF PostedLast
    <2>2. QED
      BY <2>1, <1>2 DEF HeapInv, Early
  <1>5. CASE PostedFalling
    <2>1. worker = "making" /\ worker' = "gone" /\ fallen' = Top(Work)
      BY <1>5 DEF PostedFalling
    <2>2. NoPosts
      BY <2>1 DEF HeapInv, Early
    <2>3. \A t \in In(Work) : t # Top(Work) => code'[t].kind \in {"setup", "release"}
      BY <2>2, <1>2 DEF HeapInv, Waiting, NoPosts
    <2>4. NothingToRun'
      BY <2>1, <2>3, <1>2 DEF NothingToRun, InHeap
    <2>5. QED
      BY <2>1, <2>4, <1>2 DEF HeapInv, Early
  <1>6. QED
    BY <1>3, <1>4, <1>5

\* A queue that is empty.
LEMMA HeapEmpty ==
  ASSUME pending'[Work] = <<>>, stack'[Work] = <<>>
  PROVE  HeapInv'
  <1>1. Elems(<<>>) = {} /\ DOMAIN <<>> = {}
    BY DEF Elems
  <1>2. In(Work)' = {}
    BY <1>1 DEF In
  <1>3. QED
    BY <1>1, <1>2 DEF HeapInv, NothingToRun, ReleaseWaited, ReleaseLastOfAll, Waiting, NoPosts

LEMMA HeapLeave ==
  ASSUME Base, Leave
  PROVE  HeapInv'
  <1>1. Work \in Queues /\ Dropped(Work)
    BY LeaveDrops DEF Base, Queues
  <1>2. QED
    BY <1>1, DroppedDown, HeapEmpty DEF Base

LEMMA HeapBegin ==
  ASSUME Base, HeapInv, NEW q \in Queues, Serial!Begin(q), UNCHANGED <<code, heap, fallen>>,
         Early' => Early
  PROVE  HeapInv'
  <1>0. Work \in Queues
    BY DEF Queues
  <1>1. CASE q # Work
    BY <1>0, <1>1, HeapUnseen DEF Serial!Begin, Base, QueuesTyped
  <1>2. CASE q = Work
    <2>1. /\ stack[Work] = <<>> /\ pending[Work] # <<>> /\ pending[Work] \in Seq(Tasks)
          /\ stack'[Work] = <<Head(pending[Work])>>
          /\ pending'[Work] = Tail(pending[Work])
          /\ UNCHANGED blocked
      BY <1>0, <1>2 DEF Serial!Begin, Base, QueuesTyped
    <2>2. In(Work)' = In(Work)
      BY <1>0, <1>2, Begun DEF Base
    <2>3. ReleaseWaited' /\ (NothingToRun => NothingToRun') /\ (NoPosts => NoPosts')
      BY <2>1, <2>2 DEF HeapInv, ReleaseWaited, NothingToRun, NoPosts
    <2>4. /\ \A i \in DOMAIN Tail(pending[Work]) :
               /\ i + 1 \in DOMAIN pending[Work]
               /\ Tail(pending[Work])[i] = pending[Work][i + 1]
               /\ i + 1 = Len(pending[Work]) => i = Len(Tail(pending[Work]))
          /\ 1 \in DOMAIN pending[Work] /\ Head(pending[Work]) = pending[Work][1]
          /\ 1 = Len(pending[Work]) => Tail(pending[Work]) = <<>>
      BY <2>1, TailFacts
    <2>5. Elems(stack'[Work]) = {Head(pending[Work])}
      BY <2>1 DEF Elems
    <2>6. ReleaseLastOfAll'
      BY <2>1, <2>4, <2>5 DEF HeapInv, ReleaseLastOfAll
    <2>7. \A t \in Elems(Tail(pending[Work])) : t \in Elems(pending[Work])
      BY <2>4 DEF Elems
    <2>8. Waiting'
      BY <2>1, <2>7 DEF HeapInv, Waiting
    <2>9. QED
      BY <2>3, <2>6, <2>8 DEF HeapInv
  <1>3. QED
    BY <1>1, <1>2

LEMMA HeapEnd ==
  ASSUME Base, HeapInv, NEW q \in Queues, End(q), UNCHANGED <<storage, heap, fallen>>,
         Early' => Early
  PROVE  HeapInv'
  <1>1. Work \in Queues /\ Serial!End(q) /\ stack[q] # <<>>
    BY DEF Queues, End, Running
  <1>2. /\ \A t \in Tasks : t # Top(q) => code'[t] = code[t]
        /\ Elems(stack[q]) = {Top(q)} /\ Top(q) \in Tasks
    BY EndTyped DEF Base
  <1>3. UNCHANGED <<pending, blocked>>
    BY <1>1 DEF Serial!End
  <1>4. CASE q # Work
    <2>1. stack'[Work] = stack[Work]
      BY <1>1, <1>4 DEF Serial!End, Base, QueuesTyped
    <2>2. \A t \in In(Work) : code'[t] = code[t]
      BY <1>1, <1>2, <1>4, Elsewhere
    <2>3. QED
      BY <1>3, <2>1, <2>2, HeapUnseen
  <1>5. CASE q = Work
    <2>1. stack'[Work] = <<>> /\ Elems(<<>>) = {}
      BY <1>1, <1>5, Ended DEF Base, Elems
    <2>2. In(Work)' = Elems(pending[Work])
      BY <1>3, <2>1 DEF In
    <2>3. \A t \in Elems(pending[Work]) : t \in In(Work) /\ code'[t] = code[t]
      BY <1>1, <1>2, <1>5, Elsewhere DEF In, Base, Placed
    <2>4. /\ ReleaseWaited' /\ Waiting'
          /\ (NothingToRun => NothingToRun') /\ (NoPosts => NoPosts')
      BY <1>3, <2>2, <2>3 DEF HeapInv, ReleaseWaited, Waiting, NothingToRun, NoPosts
    <2>5. \A i \in DOMAIN pending[Work] : pending[Work][i] \in Elems(pending[Work])
      BY DEF Elems
    <2>6. ReleaseLastOfAll'
      BY <1>3, <2>1, <2>3, <2>5 DEF HeapInv, ReleaseLastOfAll
    <2>7. QED
      BY <2>4, <2>6 DEF HeapInv
  <1>6. QED
    BY <1>4, <1>5

LEMMA HeapReturn ==
  ASSUME Base, HeapInv, NEW q \in Queues, Return(q)
  PROVE  HeapInv'
  <1>1. Work \in Queues /\ Main \in Queues
    BY DEF Queues
  <1>2. blocked[q] \in finished /\ blocked' = [blocked EXCEPT ![q] = NoTask]
        /\ UNCHANGED <<pending, stack, code, heap, fallen>>
    BY DEF Return, Serial!Return, workers
  <1>3. \A t \in In(Work) : blocked[Main] = t => blocked'[Main] = t
    BY <1>1, <1>2, Elsewhere DEF Base, QueuesTyped
  <1>4. Early' => Early
    BY DEF Return, workers, Early
  <1>5. QED
    BY <1>2, <1>3, <1>4, HeapUnseen

LEMMA HeapClose ==
  ASSUME Base, HeapInv, Close
  PROVE  HeapInv'
  <1>1. Serial!Close(Work) /\ Work \in Queues
    BY CloseAlone DEF Base, Queues
  <1>2. pending'[Work] = <<>> /\ stack'[Work] = <<>>
    BY <1>1 DEF Serial!Close, Base, QueuesTyped
  <1>3. QED
    BY <1>2, HeapEmpty

LEMMA HeapEvent ==
  ASSUME Base, HeapInv, Event, UNCHANGED <<storage, heap, fallen>>, Early' => Early
  PROVE  HeapInv'
  <1>1. Work \in Queues /\ Main \in Queues /\ Work # Main
    BY QueuesAssumption DEF Queues
  <1>2. /\ New \in fresh
        /\ pending' = [pending EXCEPT ![Main] = Append(@, New)]
        /\ UNCHANGED <<stack, blocked>>
        /\ \A t \in Tasks : t # New => code'[t] = code[t]
    BY EventGives DEF Base
  <1>3. \A t \in In(Work) : code'[t] = code[t]
    BY <1>1, <1>2, Elsewhere
  <1>4. pending'[Work] = pending[Work]
    BY <1>1, <1>2 DEF Base, QueuesTyped
  <1>5. QED
    BY <1>2, <1>3, <1>4, HeapUnseen

(***************************************************************************)
(* Every step.                                                             *)
(***************************************************************************)

LEMMA BaseStep ==
  ASSUME Base, [Next]_vars
  PROVE  Base'
  <1>1. QueuesTyped' /\ Placed'
    BY QueueStepKeeps, StepsAreQueueSteps DEF Base
  <1>2. CodeTyped'
    <2>0. Base => QueuesTyped /\ CodeTyped /\ Placed
      BY DEF Base
    <2>1. CASE UNCHANGED vars
      BY <2>1 DEF vars, storage, Base, CodeTyped
    <2>2. CASE Queued
      <3>1. CASE Event /\ UNCHANGED storage
        BY <2>0, <3>1, EventGives
      <3>2. ASSUME NEW q \in Queues, Begin(q), UNCHANGED storage PROVE CodeTyped'
        BY <2>0, <3>2 DEF Begin, storage, CodeTyped
      <3>3. ASSUME NEW q \in Queues, End(q), UNCHANGED storage PROVE CodeTyped'
        BY <2>0, <3>3, EndTyped
      <3>4. QED
        BY <2>2, <3>1, <3>2, <3>3 DEF Queued
    <2>3. ASSUME NEW q \in Queues, Return(q) PROVE CodeTyped'
      BY <2>0, <2>3 DEF Return, storage, CodeTyped
    <2>4. CASE StorageCalls
      <3>1. Missing \in Nat /\ calls + 1 \in Nat
        BY <2>0 DEF CodeTyped, Missing
      <3>2. QED
        BY <2>0, <2>4, <3>1, LoadGives, PutGives, GetGives DEF StorageCalls
    <2>5. CASE OnMain \/ OnIO
      BY <2>0, <2>5, MainAlone, IOAlone, IOGives DEF OnMain, OnIO
    <2>6. CASE WorkerCalls
      BY <2>0, <2>6, WorkerGives, LettingGo DEF WorkerCalls
    <2>7. CASE OnMainToo
      BY <2>0, <2>7, MainAlone, CloseAlone, LettingGo DEF OnMainToo
    <2>8. CASE OnWork
      <3>1. CASE Setup \/ OnPost
        BY <2>0, <3>1, WorkAlone
      <3>2. CASE PostUp
        BY <2>0, <3>2, WorkAlone
      <3>3. CASE LetGoContext
        BY <2>0, <3>3, WorkAlone
      <3>4. CASE Posted \/ PostedLast \/ PostedFalling
        BY <2>0, <3>4, PostedGives DEF Posted, PostedLast, PostedFalling
      <3>5. CASE Leave
        BY <2>0, <3>5, LeaveDrops
      <3>6. QED
        BY <2>8, <3>1, <3>2, <3>3, <3>4, <3>5 DEF OnWork
    <2>9. QED
      BY <2>1, <2>2, <2>3, <2>4, <2>5, <2>6, <2>7, <2>8 DEF Next
  <1>3. QED
    BY <1>1, <1>2 DEF Base

\* The Worker grows older, and its value comes to the tables with createWorker() only.
LEMMA UnkeptStep ==
  ASSUME KeptInv, Unkept, [Next]_vars
  PROVE  Unkept' /\ (Early' => Early)
  <1>1. Tables(tables)
    BY DEF KeptInv, Shape
  <1>2. CASE UNCHANGED <<tables, worker>>
    BY <1>2 DEF Unkept, Early, Kept
  <1>3. ASSUME NEW f, NEW j, Obtain(f, j), UNCHANGED worker PROVE Unkept' /\ (Early' => Early)
    <2>1. tables' = tables \/ tables' = Weak(tables, Context, f, j)
      BY <1>3 DEF Obtain
    <2>2. f \in DOMAIN tables.weak => Weak(tables, Context, f, j) = tables
      BY DEF Weak
    <2>3. tables'.strong = tables.strong
      BY <1>1, <2>1, <2>2, WeakEnters
    <2>4. QED
      BY <2>3, <1>3 DEF Unkept, Early, Kept
  <1>4. ASSUME NEW j, tables' = Cleared(tables, j) \/ tables' = RemoveObject(Cleared(tables, j), j),
               UNCHANGED worker
        PROVE  Unkept' /\ (Early' => Early)
    <2>1. Cleared(tables, j).strong = tables.strong
      BY <1>1, ClearedKeeps
    <2>2. \A x \in DOMAIN tables'.strong : x \in DOMAIN tables.strong
      BY <1>4, <2>1, RemoveObjectForgets
    <2>3. QED
      BY <2>2, <1>4 DEF Unkept, Early, Kept
  <1>5. CASE Collect
    <2>1. tables'.strong = Without(tables.strong, {Proxy})
      BY <1>5 DEF Collect, RemoveHeapptr
    <2>2. ~Kept'
      BY <2>1 DEF Kept, Without
    <2>3. worker' = worker \/ worker' = "gone"
      BY <1>5 DEF Collect
    <2>4. QED
      BY <2>2, <2>3 DEF Unkept, Early
  <1>6. CASE worker' \in {"live", "gone"}
    BY <1>6 DEF Unkept, Early
  <1>7. CASE CreateWorker
    BY <1>7 DEF CreateWorker, Unkept, Early, Kept
  <1>8. CASE UNCHANGED vars \/ Queued \/ \E q \in Queues : Return(q)
    BY <1>2, <1>8 DEF vars, Queued, Return, workers
  <1>9. CASE StorageCalls /\ UNCHANGED workers
    <2>1. UNCHANGED worker
      BY <1>9 DEF workers
    <2>2. CASE \E f \in Callbacks, j \in JSObjects : Load(f, j) \/ LoadKeys(f, j)
      BY <1>3, <2>1, <2>2 DEF Load, LoadKeys, Asked
    <2>3. CASE (\E v \in {Missing, calls + 1} : Put(v)) \/ GetValue
      BY <1>2, <2>1, <2>3 DEF Put, GetValue
    <2>4. QED
      BY <1>9, <2>2, <2>3 DEF StorageCalls
  <1>10. CASE (OnMain \/ OnIO) /\ UNCHANGED workers
    <2>1. UNCHANGED worker
      BY <1>10 DEF workers
    <2>2. CASE Got \/ AskedKeys \/ Invoke \/ Answer \/ Write \/ Read \/ Release(Main) \/ Release(IO)
      BY <1>2, <2>1, <2>2 DEF Got, AskedKeys, Invoke, Answer, Write, Read, Release
    <2>3. CASE ReleaseLast \/ Delete \/ ReleaseLastAway
      BY <1>4, <2>1, <2>3 DEF ReleaseLast, Delete, ReleaseLastAway, Forget
    <2>4. QED
      BY <1>10, <2>2, <2>3 DEF OnMain, OnIO
  <1>11. CASE Post \/ Terminate \/ Close \/ OnMessage
    BY <1>2, <1>11 DEF Post, Terminate, Close, OnMessage, workers
  <1>12. CASE Created \/ Handled
    BY <1>2, <1>6, <1>12 DEF Created, Handled
  <1>13. CASE OnWork
    BY <1>2, <1>6, <1>13 DEF OnWork, Setup, OnPost, PostUp, PostedOn, Posted, PostedLast,
       PostedFalling, Leave, LetGoContext, workers
  <1>14. QED
    BY <1>5, <1>7, <1>8, <1>9, <1>10, <1>11, <1>12, <1>13 DEF Next, WorkerCalls, OnMainToo

LEMMA HeapInvStep ==
  ASSUME Base, HeapInv, Unkept, [Next]_vars, Early' => Early
  PROVE  HeapInv'
  <1>0. QueuesTyped /\ CodeTyped /\ Placed
    BY DEF Base
  <1>1. CASE UNCHANGED vars
    <2>1. UNCHANGED <<pending, stack, blocked, code, heap, fallen>>
      BY <1>1 DEF vars, queues, workers
    <2>2. QED
      BY <2>1, HeapUnseen
  <1>2. CASE Queued
    <2>1. UNCHANGED <<storage, heap, fallen>>
      BY <1>2 DEF Queued, workers
    <2>2. CASE Event
      BY <2>1, <2>2, HeapEvent
    <2>3. ASSUME NEW q \in Queues, Begin(q) PROVE HeapInv'
      BY <2>1, <2>3, HeapBegin DEF Begin
    <2>4. ASSUME NEW q \in Queues, End(q) PROVE HeapInv'
      BY <2>1, <2>4, HeapEnd
    <2>5. QED
      BY <1>2, <2>2, <2>3, <2>4 DEF Queued
  <1>3. ASSUME NEW q \in Queues, Return(q) PROVE HeapInv'
    BY <1>3, HeapReturn
  <1>4. CASE StorageCalls /\ UNCHANGED workers
    <2>1. UNCHANGED <<heap, fallen>>
      BY <1>4 DEF workers
    <2>2. Missing \in Nat /\ calls + 1 \in Nat
      BY <1>0 DEF CodeTyped, Missing
    <2>3. \E c : Gives(Main, IO, New, c)
      <3>1. ASSUME NEW f, NEW j \in JSObjects, Load(f, j) \/ LoadKeys(f, j)
            PROVE  \E c : Gives(Main, IO, New, c)
        BY <1>0, <3>1, LoadGives
      <3>2. ASSUME NEW v \in Nat, Put(v) PROVE \E c : Gives(Main, IO, New, c)
        BY <1>0, <3>2, PutGives
      <3>3. CASE GetValue
        BY <1>0, <3>3, GetGives
      <3>4. QED
        BY <1>4, <2>2, <3>1, <3>2, <3>3 DEF StorageCalls
    <2>4. QED
      BY <2>1, <2>3, HeapGivenElsewhere
  <1>5. CASE (OnMain \/ OnIO) /\ UNCHANGED workers
    <2>1. UNCHANGED <<heap, fallen>>
      BY <1>5 DEF workers
    <2>2. CASE OnMain
      BY <1>0, <2>1, <2>2, MainAlone, HeapAlone DEF OnMain
    <2>3. CASE Write \/ Read \/ Release(IO)
      BY <1>0, <2>1, <2>3, IOAlone, HeapAlone
    <2>4. CASE Answer \/ ReleaseLastAway
      BY <1>0, <2>1, <2>4, IOGives, HeapGivenElsewhere
    <2>5. QED
      BY <1>5, <2>2, <2>3, <2>4 DEF OnIO
  <1>6. ASSUME Terminate \/ Collect \/ Handled PROVE HeapInv'
    <2>1. heap' = heap /\ fallen' = fallen
      BY <1>0, <1>6, LettingGo DEF Terminate, Collect, Handled
    <2>2. CASE GoesAlone(Main)
      BY <2>1, <2>2, HeapAlone
    <2>3. ASSUME NEW c \in Closures, c.kind = "release", Gives(Main, Work, New, c),
                 blocked' = [blocked EXCEPT ![Main] = New]
          PROVE  HeapInv'
      BY <2>1, <2>3, HeapGiven
    <2>4. QED
      BY <1>0, <1>6, <2>2, <2>3, LettingGo
  <1>7. CASE CreateWorker \/ Post
    <2>1. UNCHANGED <<heap, fallen>>
      BY <1>7 DEF CreateWorker, Post, workers
    <2>2. PICK c \in Closures :
            /\ c.kind \in {"setup", "post"} /\ (c.kind = "post" => heap = "alive" /\ Kept)
            /\ Gives(Main, Work, New, c)
      BY <1>0, <1>7, WorkerGives
    <2>3. QED
      BY <2>1, <2>2, HeapGiven DEF Unkept
  <1>8. CASE Created \/ OnMessage
    <2>1. UNCHANGED <<heap, fallen>>
      BY <1>8 DEF Created, OnMessage, workers
    <2>2. QED
      BY <1>0, <1>8, <2>1, MainAlone, HeapAlone
  <1>9. CASE OnWork
    BY <1>9, HeapWorks, HeapPosted, HeapLeave DEF OnWork
  <1>10. QED
    BY <1>1, <1>2, <1>3, <1>4, <1>5, <1>6, <1>7, <1>8, <1>9, HeapClose
       DEF Next, WorkerCalls, OnMainToo

LEMMA BaseStart == Init => Base
  BY QueuesStart, CodeTypedStart DEF Base

LEMMA UnkeptStart == Init => Unkept
  BY DEF Init, StorageInit, NoEntries, Unkept, Kept

\* No function runs in the heap of a worker after the heap was destroyed: the release
\* of the heap is the last function of the worker's queue, because the app waits for it,
\* and a message that drops the last Strong to the Worker keeps the heap until it ends,
\* when the rest of the queue is dropped.  One function is exempt: the script that the
\* constructor runs, when it drops the last Strong itself; nothing else that runs in the
\* heap is in the queue then.
\* (ui/ui.cc: Worker::Worker, postMessage, terminate and ~Worker)
THEOREM HeapSafe == Spec => []HeapOutlivesScripts
  <1> DEFINE I == Base /\ KeptInv /\ Unkept /\ HeapInv
  <1>1. Init => I
    BY BaseStart, HeapInvStart, KeptInvInit, UnkeptStart
  <1>2. I /\ [Next]_vars => I'
    BY BaseStep, HeapInvStep, KeptInvStep, UnkeptStep
  <1>3. I => HeapOutlivesScripts
    BY HeapInvImplies DEF Base
  <1>4. QED
    BY <1>1, <1>2, <1>3, PTL DEF Spec

-----------------------------------------------------------------------------
(***************************************************************************)
(* get() sees the writes before it: the IO queue runs them in the order    *)
(* the app gave them, and the read, which the app waits for, is its last   *)
(* function.                                                               *)
(***************************************************************************)

Puts(s) == {t \in s : code[t].kind = "put"}

\* A read is waited for, and nothing comes after it.
GetWaited == \A t \in In(IO) : code[t].kind = "get" => blocked[Main] = t

GetLastOfAll ==
  /\ \A i \in DOMAIN pending[IO] : code[pending[IO][i]].kind = "get" => i = Len(pending[IO])
  /\ \A t \in Elems(stack[IO]) : code[t].kind = "get" => pending[IO] = <<>>

\* Without a write under way the database has the value that was last set ...
Written == Puts(In(IO)) = {} => stored = last

IsPut(i) == code[pending[IO][i]].kind = "put"

\* ... and otherwise the last write that is under way has it.
LastWrite ==
  /\ \A i \in DOMAIN pending[IO] :
       IsPut(i) /\ (\A k \in DOMAIN pending[IO] : k > i => ~IsPut(k)) =>
         code[pending[IO][i]].val = last
  /\ \A t \in Elems(stack[IO]) :
       code[t].kind = "put" /\ Puts(Elems(pending[IO])) = {} => code[t].val = last

OrderInv == GetWaited /\ GetLastOfAll /\ Written /\ LastWrite

GetUnderWay == blocked[Main] \in In(IO) /\ code[blocked[Main]].kind = "get"

\* The script that reads has its answer, or its read is under way.
AnswerInv ==
  /\ \A t \in Elems(stack[Main]) : code[t].kind = "getting" => got = last \/ GetUnderWay
  /\ \A t \in Elems(pending[Main]) : code[t].kind # "getting"

Data == <<stored, last, got>>

-----------------------------------------------------------------------------
(* The two parts of the invariant, by what a step does to the queues. *)

LEMMA ReadStart == Init => OrderInv /\ AnswerInv
  <1> SUFFICES ASSUME Init PROVE OrderInv /\ AnswerInv
    OBVIOUS
  <1>1. Main \in Queues /\ IO \in Queues
    BY DEF Queues
  <1>2. \A q \in Queues : pending[q] = <<>> /\ stack[q] = <<>>
    BY DEF Init, QueuesInit, Serial!Init, Serial!Runners
  <1>3. Elems(<<>>) = {} /\ DOMAIN <<>> = {}
    BY DEF Elems
  <1>4. In(IO) = {} /\ stored = last
    BY <1>1, <1>2, <1>3 DEF In, Init, StorageInit
  <1>5. OrderInv
    BY <1>1, <1>2, <1>3, <1>4 DEF OrderInv, GetWaited, GetLastOfAll, Written, LastWrite
  <1>6. AnswerInv
    BY <1>1, <1>2, <1>3 DEF AnswerInv
  <1>7. QED
    BY <1>5, <1>6

LEMMA ReadImplies == Base /\ OrderInv /\ AnswerInv => GetSeesPuts
  <1> SUFFICES ASSUME Base, AnswerInv, Runs(Main, "getting") PROVE got = last
    BY DEF GetSeesPuts
  <1>1. Main \in Queues /\ IO \in Queues /\ stack[Main] # <<>> /\ blocked[Main] = NoTask
    BY DEF Queues, Runs, Running
  <1>2. Top(Main) \in Elems(stack[Main]) /\ code[Top(Main)].kind = "getting"
    BY <1>1, TopIn DEF Base, Runs
  <1>3. ~GetUnderWay
    BY <1>1, Elsewhere DEF GetUnderWay, Tasks, NoTask
  <1>4. QED
    BY <1>2, <1>3 DEF AnswerInv

\* Steps that the IO queue does not see.
LEMMA OrderUnseen ==
  ASSUME Base, OrderInv,
         pending'[IO] = pending[IO], stack'[IO] = stack[IO],
         \A t \in In(IO) : code'[t] = code[t],
         \A t \in In(IO) : blocked[Main] = t => blocked'[Main] = t,
         UNCHANGED <<stored, last>>
  PROVE  OrderInv' /\ (GetUnderWay => GetUnderWay')
  <1>1. In(IO)' = In(IO)
    BY DEF In
  <1>2. /\ \A i \in DOMAIN pending[IO] : pending[IO][i] \in In(IO)
        /\ \A t \in Elems(stack[IO]) : t \in In(IO)
        /\ \A t \in Elems(pending[IO]) : t \in In(IO)
    BY DEF In, Elems
  <1>3. GetWaited'
    BY <1>1 DEF OrderInv, GetWaited
  <1>4. GetLastOfAll'
    BY <1>2 DEF OrderInv, GetLastOfAll
  <1>5. Puts(In(IO))' = Puts(In(IO)) /\ Puts(Elems(pending[IO]))' = Puts(Elems(pending[IO]))
    BY <1>1, <1>2 DEF Puts
  <1>6. Written'
    BY <1>5 DEF OrderInv, Written
  <1>7. \A i \in DOMAIN pending[IO] : IsPut(i)' <=> IsPut(i)
    BY <1>2 DEF IsPut
  <1>8. LastWrite'
    BY <1>2, <1>5, <1>7 DEF OrderInv, LastWrite
  <1>9. GetUnderWay => GetUnderWay'
    BY <1>1 DEF GetUnderWay
  <1>10. QED
    BY <1>3, <1>4, <1>6, <1>8, <1>9 DEF OrderInv

\* Steps that the running function of the app does not see.
LEMMA AnswerUnseen ==
  ASSUME Base, AnswerInv,
         stack'[Main] = stack[Main],
         \A t \in In(Main) : code'[t] = code[t],
         \A t \in Elems(pending'[Main]) :
           t \in Elems(pending[Main]) \/ code'[t].kind # "getting",
         GetUnderWay => GetUnderWay' \/ got' = last',
         got = last => got' = last'
  PROVE  AnswerInv'
  <1>1. /\ \A t \in Elems(stack[Main]) : t \in In(Main)
        /\ \A t \in Elems(pending[Main]) : t \in In(Main)
    BY DEF In
  <1>2. \A t \in Elems(pending'[Main]) : code'[t].kind # "getting"
    BY <1>1 DEF AnswerInv
  <1>3. \A t \in Elems(stack'[Main]) : code'[t].kind = "getting" => got' = last' \/ GetUnderWay'
    BY <1>1 DEF AnswerInv
  <1>4. QED
    BY <1>2, <1>3 DEF AnswerInv

\* The running function of the app goes on, and does not wait for a read.
LEMMA AnswerGoesOn ==
  ASSUME Base, AnswerInv, stack[Main] # <<>>,
         stack'[Main] = stack[Main], pending'[Main] = pending[Main],
         \A t \in In(Main) : t # Top(Main) => code'[t] = code[t],
         code'[Top(Main)].kind # "getting"
  PROVE  AnswerInv'
  <1>1. Main \in Queues
    BY DEF Queues
  <1>2. Elems(stack[Main]) = {Top(Main)} /\ Top(Main) \notin Elems(pending[Main])
    BY <1>1, TopIn DEF Base, Placed
  <1>3. \A t \in Elems(pending[Main]) : t \in In(Main)
    BY DEF In
  <1>4. QED
    BY <1>2, <1>3 DEF AnswerInv

LEMMA MainAloneKeeps ==
  ASSUME Base, OrderInv, AnswerInv, GoesAlone(Main), code'[Top(Main)].kind # "getting",
         UNCHANGED Data
  PROVE  OrderInv' /\ AnswerInv'
  <1>1. Main \in Queues /\ IO \in Queues /\ Main # IO
    BY QueuesAssumption DEF Queues
  <1>2. /\ \A t \in In(IO) : code'[t] = code[t]
        /\ \A t \in In(Main) : t \in Tasks
    BY <1>1, Elsewhere DEF GoesAlone
  <1>3. UNCHANGED <<pending, stack, blocked>> /\ UNCHANGED <<stored, last>>
    BY DEF GoesAlone, queues, Data
  <1>4. OrderInv'
    BY <1>2, <1>3, OrderUnseen
  <1>5. AnswerInv'
    BY <1>2, <1>3, AnswerGoesOn DEF GoesAlone
  <1>6. QED
    BY <1>4, <1>5

\* The IO queue has run its function: a write has put its value in the database.
LEMMA OrderGoesOn ==
  ASSUME Base, OrderInv, stack[IO] # <<>>,
         pending'[IO] = pending[IO], stack'[IO] = stack[IO], blocked'[Main] = blocked[Main],
         \A t \in In(IO) : t # Top(IO) => code'[t] = code[t],
         code'[Top(IO)].kind = "over", last' = last,
         IF code[Top(IO)].kind = "put" THEN stored' = code[Top(IO)].val ELSE stored' = stored
  PROVE  OrderInv' /\ (GetUnderWay /\ code[Top(IO)].kind # "get" => GetUnderWay')
  <1>1. IO \in Queues
    BY DEF Queues
  <1>2. In(IO)' = In(IO)
    BY DEF In
  <1>3. /\ Top(IO) \in In(IO) /\ Elems(stack[IO]) = {Top(IO)}
        /\ Top(IO) \notin Elems(pending[IO])
    <2>1. Top(IO) \in In(IO) /\ Elems(stack[IO]) = {Top(IO)}
      BY <1>1, TopIn DEF Base
    <2>2. Elems(pending[IO]) \cap Elems(stack[IO]) = {}
      BY <1>1 DEF Base, Placed
    <2>3. QED
      BY <2>1, <2>2
  <1>4. In(IO) = Elems(pending[IO]) \cup {Top(IO)}
    BY <1>3 DEF In
  <1>5. \A t \in Elems(pending[IO]) : code'[t] = code[t]
    BY <1>3, <1>4
  <1>6. \A i \in DOMAIN pending[IO] : pending[IO][i] \in Elems(pending[IO])
    BY DEF Elems
  <1>7. GetWaited'
    BY <1>2 DEF OrderInv, GetWaited
  <1>8. GetLastOfAll'
    BY <1>3, <1>5, <1>6 DEF OrderInv, GetLastOfAll
  <1>9. Puts(In(IO))' = Puts(Elems(pending[IO])) /\ Puts(Elems(pending[IO]))' = Puts(Elems(pending[IO]))
    BY <1>2, <1>4, <1>5 DEF Puts
  <1>10. Written'
    <2>1. CASE code[Top(IO)].kind = "put"
      BY <2>1, <1>3, <1>9 DEF OrderInv, Written, LastWrite
    <2>2. CASE code[Top(IO)].kind # "put"
      <3>1. Puts(In(IO)) = Puts(Elems(pending[IO]))
        BY <2>2, <1>4 DEF Puts
      <3>2. QED
        BY <3>1, <2>2, <1>9 DEF OrderInv, Written
    <2>3. QED
      BY <2>1, <2>2
  <1>11. LastWrite'
    <2>1. \A i \in DOMAIN pending[IO] : IsPut(i)' <=> IsPut(i)
      BY <1>5, <1>6 DEF IsPut
    <2>2. QED
      BY <2>1, <1>3, <1>5, <1>6 DEF OrderInv, LastWrite
  <1>12. GetUnderWay /\ code[Top(IO)].kind # "get" => GetUnderWay'
    BY <1>2 DEF GetUnderWay
  <1>13. QED
    BY <1>7, <1>8, <1>10, <1>11, <1>12 DEF OrderInv

\* The app gives a function to the IO queue.
LEMMA OrderGiven ==
  ASSUME Base, OrderInv, NEW n, NEW c, Gives(Main, IO, n, c),
         c.kind \in {"load", "put", "get"},
         c.kind = "get" => blocked' = [blocked EXCEPT ![Main] = n],
         IF c.kind = "put" THEN last' = c.val ELSE last' = last,
         stored' = stored
  PROVE  OrderInv' /\ n \in In(IO)'
  <1>1. Main \in Queues /\ IO \in Queues /\ Main # IO
    BY QueuesAssumption DEF Queues
  <1>2. \A t \in In(IO) : code'[t] = code[t] /\ t # NoTask
    BY <1>1, Elsewhere DEF Gives, Tasks, NoTask
  <1>3. \A t \in In(IO) : code[t].kind # "get"
    BY <1>2 DEF OrderInv, GetWaited, Gives
  <1>4. /\ pending[IO] \in Seq(Tasks) /\ n \in Tasks /\ n \notin Elems(pending[IO])
        /\ pending'[IO] = Append(pending[IO], n) /\ stack'[IO] = stack[IO]
    BY <1>1 DEF Gives, Base, QueuesTyped, Placed, In
  <1>5. Elems(pending'[IO]) = Elems(pending[IO]) \cup {n}
    BY <1>1, <1>4, ElemsAppend DEF Base, Placed
  <1>6. In(IO)' = In(IO) \cup {n}
    BY <1>4, <1>5 DEF In
  <1>7. code'[n] = c
    BY DEF Gives
  <1>8. /\ \A i \in DOMAIN pending[IO] : pending[IO][i] \in In(IO)
        /\ \A t \in Elems(stack[IO]) : t \in In(IO)
        /\ \A t \in Elems(pending[IO]) : t \in In(IO)
    BY DEF In, Elems
  <1>9. /\ \A i \in DOMAIN pending'[IO] :
             i = Len(pending'[IO]) \/ (i \in DOMAIN pending[IO] /\ pending'[IO][i] = pending[IO][i])
        /\ \A i \in DOMAIN pending[IO] :
             i \in DOMAIN pending'[IO] /\ pending'[IO][i] = pending[IO][i]
             /\ Len(pending'[IO]) > i
        /\ Len(pending'[IO]) \in DOMAIN pending'[IO] /\ pending'[IO][Len(pending'[IO])] = n
    BY <1>4
  <1>10. GetWaited'
    <2>1. c.kind = "get" => blocked'[Main] = n
      BY <1>1 DEF Base, QueuesTyped
    <2>2. QED
      BY <2>1, <1>2, <1>3, <1>6, <1>7 DEF GetWaited
  <1>11. GetLastOfAll'
    BY <1>2, <1>3, <1>4, <1>8, <1>9 DEF GetLastOfAll
  <1>12. /\ Puts(In(IO)) \subseteq Puts(In(IO))'
         /\ Puts(Elems(pending[IO])) \subseteq Puts(Elems(pending[IO]))'
         /\ c.kind = "put" => n \in Puts(In(IO))' /\ n \in Puts(Elems(pending[IO]))'
    BY <1>2, <1>5, <1>6, <1>7, <1>8 DEF Puts
  <1>13. Written'
    BY <1>12 DEF OrderInv, Written
  <1>14. /\ \A i \in DOMAIN pending[IO] : IsPut(i)' <=> IsPut(i)
         /\ IsPut(Len(pending[IO]))' <=> c.kind = "put"
    BY <1>2, <1>7, <1>8, <1>9 DEF IsPut
  <1>15. LastWrite'
    <2>1. ASSUME NEW i \in DOMAIN pending'[IO], IsPut(i)',
                 \A k \in DOMAIN pending'[IO] : k > i => ~IsPut(k)'
          PROVE  code'[pending'[IO][i]].val = last'
      <3>1. CASE i = Len(pending'[IO])
        BY <2>1, <3>1, <1>7, <1>9, <1>14
      <3>2. CASE i \in DOMAIN pending[IO] /\ pending'[IO][i] = pending[IO][i]
        <4>1. c.kind # "put"
          BY <2>1, <3>2, <1>9, <1>14
        <4>2. \A k \in DOMAIN pending[IO] : k > i => ~IsPut(k)
          BY <2>1, <1>9, <1>14
        <4>3. code[pending[IO][i]].val = last
          BY <2>1, <3>2, <4>2, <1>14 DEF OrderInv, LastWrite
        <4>4. QED
          BY <3>2, <4>1, <4>3, <1>2, <1>8
      <3>3. QED
        BY <3>1, <3>2, <1>9
    <2>2. ASSUME NEW t \in Elems(stack'[IO]), code'[t].kind = "put", Puts(Elems(pending[IO]))' = {}
          PROVE  code'[t].val = last'
      BY <2>2, <1>2, <1>4, <1>8, <1>12 DEF OrderInv, LastWrite
    <2>3. QED
      BY <2>1, <2>2 DEF LastWrite
  <1>16. QED
    BY <1>6, <1>10, <1>11, <1>13, <1>15 DEF OrderInv

LEMMA OrderBegin ==
  ASSUME Base, OrderInv, AnswerInv, NEW q \in Queues, Serial!Begin(q),
         UNCHANGED <<code, stored, last, got>>
  PROVE  OrderInv' /\ AnswerInv'
  <1>0. Main \in Queues /\ IO \in Queues /\ Main # IO
    BY QueuesAssumption DEF Queues
  <1>1. /\ stack[q] = <<>> /\ pending[q] # <<>> /\ pending[q] \in Seq(Tasks)
        /\ stack'[q] = <<Head(pending[q])>> /\ pending'[q] = Tail(pending[q])
        /\ \A r \in Queues : r # q => stack'[r] = stack[r] /\ pending'[r] = pending[r]
        /\ UNCHANGED blocked
    BY DEF Serial!Begin, Base, QueuesTyped
  <1>2. \A r \in Queues : In(r)' = In(r)
    BY Begun DEF Base
  <1>3. Elems(stack'[q]) = {Head(pending[q])}
    BY <1>1 DEF Elems
  <1>4. GetUnderWay' <=> GetUnderWay
    BY <1>0, <1>1, <1>2 DEF GetUnderWay
  <1>5. OrderInv'
    <2>1. CASE q # IO
      BY <2>1, <1>0, <1>1, OrderUnseen
    <2>2. CASE q = IO
      <3>1. /\ \A i \in DOMAIN Tail(pending[IO]) :
                 /\ i + 1 \in DOMAIN pending[IO]
                 /\ Tail(pending[IO])[i] = pending[IO][i + 1]
                 /\ i + 1 = Len(pending[IO]) => i = Len(Tail(pending[IO]))
            /\ 1 \in DOMAIN pending[IO] /\ Head(pending[IO]) = pending[IO][1]
            /\ 1 = Len(pending[IO]) => Tail(pending[IO]) = <<>>
        BY <2>2, <1>1, TailFacts
      <3>2. \A k \in DOMAIN pending[IO] :
              k \in Nat /\ (k > 1 => k - 1 \in DOMAIN Tail(pending[IO]) /\ k = (k - 1) + 1)
        BY <2>2, <1>1
      <3>3. GetWaited' /\ Written'
        BY <1>0, <1>1, <1>2 DEF OrderInv, GetWaited, Written, Puts
      <3>4. GetLastOfAll'
        <4>1. /\ pending'[IO] = Tail(pending[IO]) /\ code' = code
              /\ Elems(stack'[IO]) = {pending[IO][1]}
          BY <2>2, <1>1, <1>3, <3>1
        <4>2. \A i \in DOMAIN pending'[IO] :
                code'[pending'[IO][i]].kind = "get" => i = Len(pending'[IO])
          BY <4>1, <3>1 DEF OrderInv, GetLastOfAll
        <4>3. \A t \in Elems(stack'[IO]) : code'[t].kind = "get" => pending'[IO] = <<>>
          BY <4>1, <3>1 DEF OrderInv, GetLastOfAll
        <4>4. QED
          BY <4>2, <4>3 DEF GetLastOfAll
      <3>5. \A i \in DOMAIN Tail(pending[IO]) : IsPut(i)' <=> IsPut(i + 1)
        BY <2>2, <1>1, <3>1 DEF IsPut
      <3>6. ASSUME NEW i \in DOMAIN pending'[IO], IsPut(i)',
                   \A k \in DOMAIN pending'[IO] : k > i => ~IsPut(k)'
            PROVE  code'[pending'[IO][i]].val = last'
        <4>1. i \in DOMAIN Tail(pending[IO]) /\ i \in Nat
          BY <3>6, <2>2, <1>1
        <4>2. ASSUME NEW k \in DOMAIN pending[IO], k > i + 1 PROVE ~IsPut(k)
          <5>1. k \in Nat /\ k > 1 /\ k - 1 > i
            BY <4>1, <4>2, <3>2
          <5>2. k - 1 \in DOMAIN pending'[IO] /\ k - 1 \in DOMAIN Tail(pending[IO])
            BY <5>1, <3>2, <2>2, <1>1
          <5>3. ~IsPut(k - 1)'
            BY <5>1, <5>2, <3>6
          <5>4. IsPut(k - 1)' <=> IsPut((k - 1) + 1)
            BY <5>2, <3>5
          <5>5. QED
            BY <5>1, <5>3, <5>4, <3>2
        <4>3. IsPut(i + 1) /\ i + 1 \in DOMAIN pending[IO]
          BY <3>6, <4>1, <3>1, <3>5
        <4>4. code[pending[IO][i + 1]].val = last
          BY <4>2, <4>3 DEF OrderInv, LastWrite
        <4>5. QED
          BY <4>1, <4>4, <3>1, <2>2, <1>1
      <3>7. ASSUME code[Head(pending[IO])].kind = "put", Puts(Elems(pending[IO]))' = {}
            PROVE  code[Head(pending[IO])].val = last
        <4>1. \A k \in DOMAIN Tail(pending[IO]) : ~IsPut(k)'
          BY <3>7, <2>2, <1>1 DEF Puts, Elems, IsPut
        <4>2. \A k \in DOMAIN pending[IO] : k > 1 => ~IsPut(k)
          BY <4>1, <3>2, <3>5
        <4>3. IsPut(1)
          BY <3>1, <3>7 DEF IsPut
        <4>4. QED
          BY <4>2, <4>3, <3>1 DEF OrderInv, LastWrite
      <3>8. LastWrite'
        BY <2>2, <1>3, <3>6, <3>7 DEF LastWrite
      <3>9. QED
        BY <3>3, <3>4, <3>8 DEF OrderInv
    <2>3. QED
      BY <2>1, <2>2
  <1>6. AnswerInv'
    <2>1. CASE q = Main
      <3>1. /\ Head(pending[Main]) \in Elems(pending[Main])
            /\ Elems(Tail(pending[Main])) \subseteq Elems(pending[Main])
        BY <2>1, <1>1, ElemsTail DEF Base, Placed
      <3>2. QED
        BY <2>1, <1>1, <1>3, <3>1 DEF AnswerInv
    <2>2. CASE q # Main
      BY <2>2, <1>0, <1>1, <1>4, AnswerUnseen
    <2>3. QED
      BY <2>1, <2>2
  <1>7. QED
    BY <1>5, <1>6

LEMMA OrderEnd ==
  ASSUME Base, OrderInv, AnswerInv, NEW q \in Queues, End(q), UNCHANGED storage
  PROVE  OrderInv' /\ AnswerInv'
  <1>0. Main \in Queues /\ IO \in Queues /\ Main # IO
    BY QueuesAssumption DEF Queues
  <1>1. /\ Serial!End(q) /\ stack[q] # <<>> /\ stack'[q] = <<>> /\ UNCHANGED <<pending, blocked>>
        /\ \A r \in Queues : r # q => stack'[r] = stack[r]
        /\ UNCHANGED <<stored, last, got>>
    BY Ended DEF End, Running, Base, QueuesTyped, Serial!End, storage
  <1>2. /\ \A t \in Tasks : t # Top(q) => code'[t] = code[t]
        /\ Elems(stack[q]) = {Top(q)} /\ code[Top(q)].kind \in {"script", "worker", "over"}
    BY EndTyped DEF Base
  <1>3. Elems(<<>>) = {}
    BY DEF Elems
  <1>4. \A r \in Queues : \A t \in Elems(pending[r]) : t \in In(r) /\ code'[t] = code[t]
    <2>1. ASSUME NEW r \in Queues, NEW t \in Elems(pending[r]) PROVE t # Top(q) /\ t \in In(r)
      <3>1. t \in In(r)
        BY DEF In
      <3>2. CASE r = q
        BY <3>1, <3>2, <1>2 DEF Base, Placed
      <3>3. CASE r # q
        BY <3>1, <3>3, <1>1, Elsewhere
      <3>4. QED
        BY <3>1, <3>2, <3>3
    <2>2. QED
      BY <2>1, <1>2, Elsewhere
  <1>5. CASE q # IO
    <2>1. \A t \in In(IO) : code'[t] = code[t]
      BY <1>0, <1>1, <1>2, <1>5, Elsewhere
    <2>2. OrderInv' /\ (GetUnderWay => GetUnderWay')
      BY <2>1, <1>0, <1>1, <1>5, OrderUnseen
    <2>3. AnswerInv'
      <3>1. CASE q = Main
        BY <3>1, <1>0, <1>1, <1>3, <1>4 DEF AnswerInv
      <3>2. CASE q # Main
        <4>1. \A t \in In(Main) : code'[t] = code[t]
          BY <1>0, <1>1, <1>2, <3>2, Elsewhere
        <4>2. QED
          BY <4>1, <2>2, <3>2, <1>0, <1>1, AnswerUnseen
      <3>3. QED
        BY <3>1, <3>2
    <2>4. QED
      BY <2>2, <2>3
  <1>6. CASE q = IO
    <2>1. /\ In(IO) = Elems(pending[IO]) \cup {Top(IO)} /\ In(IO)' = Elems(pending[IO])
          /\ \A t \in Elems(pending[IO]) : code'[t] = code[t]
      BY <1>1, <1>2, <1>3, <1>4, <1>6 DEF In
    <2>2. /\ Puts(In(IO)) = Puts(Elems(pending[IO])) /\ Puts(In(IO))' = Puts(Elems(pending[IO]))
          /\ Puts(Elems(pending[IO]))' = Puts(Elems(pending[IO]))
      BY <2>1, <1>1, <1>2, <1>6 DEF Puts
    <2>3. \A i \in DOMAIN pending[IO] : pending[IO][i] \in Elems(pending[IO])
      BY DEF Elems
    <2>4. \A i \in DOMAIN pending[IO] : IsPut(i)' <=> IsPut(i)
      BY <2>1, <2>3, <1>1 DEF IsPut
    <2>5. GetWaited' /\ Written'
      BY <2>1, <2>2, <1>1 DEF OrderInv, GetWaited, Written
    <2>6. GetLastOfAll'
      BY <2>1, <2>3, <1>1, <1>3, <1>6 DEF OrderInv, GetLastOfAll
    <2>7. LastWrite'
      BY <2>1, <2>3, <2>4, <1>1, <1>3, <1>6 DEF OrderInv, LastWrite
    <2>8. GetUnderWay => GetUnderWay'
      BY <2>1, <1>1, <1>2, <1>6 DEF GetUnderWay
    <2>9. \A t \in In(Main) : code'[t] = code[t]
      BY <1>0, <1>1, <1>2, <1>6, Elsewhere
    <2>10. AnswerInv'
      BY <2>8, <2>9, <1>0, <1>1, <1>6, AnswerUnseen
    <2>11. QED
      BY <2>5, <2>6, <2>7, <2>10 DEF OrderInv
  <1>7. QED
    BY <1>5, <1>6

\* Another queue than the app's and the IO queue is at work, or an event happens.
LEMMA OthersKeep ==
  ASSUME Base, OrderInv, AnswerInv,
         pending'[IO] = pending[IO], UNCHANGED blocked,
         stack'[IO] = stack[IO], stack'[Main] = stack[Main],
         \A t \in In(IO) \cup In(Main) : code'[t] = code[t],
         \A t \in Elems(pending'[Main]) :
           t \in Elems(pending[Main]) \/ code'[t].kind # "getting",
         UNCHANGED Data
  PROVE  OrderInv' /\ AnswerInv'
  <1>1. OrderInv' /\ (GetUnderWay => GetUnderWay')
    BY OrderUnseen DEF Data
  <1>2. AnswerInv'
    BY <1>1, AnswerUnseen DEF Data
  <1>3. QED
    BY <1>1, <1>2

\* A queue gives the function n of another kind than a read to the app.
LEMMA GivenToMain ==
  ASSUME Base, NEW q \in {IO, Work}, NEW n, NEW c, Gives(q, Main, n, c), c.kind # "getting"
  PROVE  /\ pending'[IO] = pending[IO]
         /\ \A t \in In(Main) : code'[t] = code[t]
         /\ \A t \in In(IO) : t # Top(q) => code'[t] = code[t]
         /\ \A t \in Elems(pending'[Main]) :
              t \in Elems(pending[Main]) \/ code'[t].kind # "getting"
  <1>1. /\ Main \in Queues /\ IO \in Queues /\ Main # IO /\ q \in Queues /\ q # Main
    BY QueuesAssumption DEF Queues
  <1>2. /\ pending'[Main] = Append(pending[Main], n) /\ pending'[IO] = pending[IO]
        /\ n \in Tasks /\ n \in fresh /\ n \notin Elems(pending[Main])
        /\ pending[Main] \in Seq(Tasks) /\ Injective(pending[Main])
    BY <1>1 DEF Gives, Base, QueuesTyped, Placed, In
  <1>3. Elems(pending'[Main]) = Elems(pending[Main]) \cup {n}
    BY <1>2, ElemsAppend
  <1>4. \A t \in In(Main) \cup In(IO) : t # Top(q) => code'[t] = code[t]
    BY <1>1, <1>2, Elsewhere DEF Gives
  <1>5. Top(q) \notin In(Main)
    BY <1>1, Elsewhere DEF Gives
  <1>6. QED
    BY <1>2, <1>3, <1>4, <1>5 DEF Gives

\* The functions of the app that go on without giving a function to a queue.
LEMMA MainGoesOn ==
  ASSUME Base, Got \/ AskedKeys \/ Invoke \/ Release(Main) \/ ReleaseLast \/ Delete
               \/ Created \/ OnMessage
  PROVE  code'[Top(Main)].kind # "getting" /\ UNCHANGED Data
  <1>0. Main \in Queues /\ {"script", "over"} \subseteq Kinds /\ code \in [Tasks -> Closures]
    BY DEF Queues, Kinds, Base, CodeTyped
  <1>1. Top(Main) \in Tasks
    <2>1. Running(Main)
      BY DEF Got, AskedKeys, Invoke, Release, ReleaseLast, Delete, Created, OnMessage, Leaving, Runs
    <2>2. QED
      BY <1>0, <2>1, TopIn DEF Running, Base
  <1>2. UNCHANGED Data
    BY DEF Got, AskedKeys, Invoke, Release, ReleaseLast, Delete, Created, OnMessage, storage, Data
  <1>3. CASE Release(Main) \/ ReleaseLast \/ Delete
    BY <1>0, <1>1, <1>2, <1>3, FreedTyped DEF Release, ReleaseLast, Delete
  <1>4. CASE Got \/ AskedKeys \/ Invoke \/ Created
    <2>1. code' = Now(Main, "script") \/ code' = Now(Main, "over")
      BY <1>4 DEF Got, AskedKeys, Invoke, Created, GoesOn
    <2>2. QED
      BY <2>1, <1>0, <1>1, <1>2, NowTyped
  <1>5. CASE OnMessage
    <2>1. \/ code' = [Now(Main, "script") EXCEPT ![Top(Main)].worker = TRUE]
          \/ code' = Now(Main, "over")
      BY <1>5 DEF OnMessage
    <2>2. /\ Now(Main, "script") \in [Tasks -> Closures]
          /\ Now(Main, "script")[Top(Main)].kind = "script"
          /\ Now(Main, "over")[Top(Main)].kind = "over"
      BY <1>0, <1>1, NowTyped
    <2>3. [Now(Main, "script") EXCEPT ![Top(Main)].worker = TRUE][Top(Main)].kind = "script"
      BY <1>1, <2>2, HoldTyped DEF Hold
    <2>4. QED
      BY <2>1, <2>2, <2>3, <1>2
  <1>6. QED
    BY <1>3, <1>4, <1>5

\* The functions of the IO queue, once they have done what they are for.
LEMMA IOGoesOn ==
  ASSUME Base, Answer \/ Write \/ Read \/ Release(IO) \/ ReleaseLastAway
  PROVE  /\ stack[IO] # <<>> /\ UNCHANGED stack /\ last' = last
         /\ pending'[IO] = pending[IO] /\ blocked'[Main] = blocked[Main]
         /\ code'[Top(IO)].kind = "over"
         /\ \A t \in In(IO) : t # Top(IO) => code'[t] = code[t]
         /\ \A t \in In(Main) : code'[t] = code[t]
         /\ \A t \in Elems(pending'[Main]) :
              t \in Elems(pending[Main]) \/ code'[t].kind # "getting"
         /\ IF code[Top(IO)].kind = "put" THEN stored' = code[Top(IO)].val ELSE stored' = stored
         /\ code[Top(IO)].kind # "get" => got' = got
         /\ code[Top(IO)].kind = "get" => got' = stored
  <1>0. IO \in Queues /\ Main \in Queues /\ Main # IO
    BY QueuesAssumption DEF Queues
  <1>1. last' = last
    BY DEF Answer, Write, Read, Release, ReleaseLastAway, storage
  <1>2. /\ IF code[Top(IO)].kind = "put" THEN stored' = code[Top(IO)].val ELSE stored' = stored
        /\ code[Top(IO)].kind # "get" => got' = got
        /\ code[Top(IO)].kind = "get" => got' = stored
    <2>1. CASE Write
      BY <2>1 DEF Write, Runs
    <2>2. CASE Read
      BY <2>2 DEF Read, Runs
    <2>3. CASE Answer
      BY <2>3 DEF Answer, Runs, storage
    <2>4. CASE Release(IO) \/ ReleaseLastAway
      <3>1. code[Top(IO)].kind \in {"script", "over"} /\ UNCHANGED <<stored, got>>
        BY <2>4 DEF Release, ReleaseLastAway, Leaving, storage
      <3>2. QED
        BY <3>1
    <2>5. QED
      BY <2>1, <2>2, <2>3, <2>4
  <1>3. CASE Write \/ Read \/ Release(IO)
    <2>1. GoesAlone(IO) /\ code'[Top(IO)].kind = "over"
      BY <1>3, IOAlone DEF Base
    <2>2. /\ \A t \in In(IO) : t # Top(IO) => code'[t] = code[t]
          /\ \A t \in In(Main) : code'[t] = code[t]
      BY <1>0, <2>1, Elsewhere DEF GoesAlone
    <2>3. QED
      BY <1>1, <1>2, <2>1, <2>2 DEF GoesAlone, queues
  <1>4. CASE Answer \/ ReleaseLastAway
    <2>1. PICK c \in Closures : c.kind \in {"reply", "delete"} /\ Gives(IO, Main, New, c)
      BY <1>4, IOGives DEF Base
    <2>2. code'[Top(IO)].kind = "over" /\ blocked'[Main] = blocked[Main]
      BY <1>4, IOGives DEF Base
    <2>3. /\ pending'[IO] = pending[IO]
          /\ \A t \in In(Main) : code'[t] = code[t]
          /\ \A t \in In(IO) : t # Top(IO) => code'[t] = code[t]
          /\ \A t \in Elems(pending'[Main]) :
               t \in Elems(pending[Main]) \/ code'[t].kind # "getting"
      BY <2>1, GivenToMain
    <2>4. QED
      BY <1>1, <1>2, <2>1, <2>2, <2>3 DEF Gives
  <1>5. QED
    BY <1>3, <1>4

LEMMA IOKeeps ==
  ASSUME Base, OrderInv, AnswerInv, Answer \/ Write \/ Read \/ Release(IO) \/ ReleaseLastAway
  PROVE  OrderInv' /\ AnswerInv'
  <1>1. OrderInv' /\ (GetUnderWay /\ code[Top(IO)].kind # "get" => GetUnderWay')
    BY IOGoesOn, OrderGoesOn
  <1>2. stack[IO] # <<>> /\ IO \in Queues
    BY IOGoesOn DEF Queues
  <1>3. code[Top(IO)].kind = "get" => got' = last'
    <2>1. SUFFICES ASSUME code[Top(IO)].kind = "get" PROVE stored = last
      BY IOGoesOn
    <2>2. Elems(stack[IO]) = {Top(IO)}
      BY <1>2, TopIn DEF Base
    <2>3. pending[IO] = <<>>
      BY <2>1, <2>2 DEF OrderInv, GetLastOfAll
    <2>4. In(IO) = {Top(IO)}
      BY <2>2, <2>3 DEF In, Elems
    <2>5. Puts(In(IO)) = {}
      BY <2>1, <2>4 DEF Puts
    <2>6. QED
      BY <2>5 DEF OrderInv, Written
  <1>4. AnswerInv'
    BY <1>1, <1>3, IOGoesOn, AnswerUnseen
  <1>5. QED
    BY <1>1, <1>4

\* The app gives a function to a queue.
LEMMA GivenToIO ==
  ASSUME Base, OrderInv, AnswerInv, NEW c, Gives(Main, IO, New, c),
         c.kind \in {"load", "put", "get"},
         c.kind = "get" => blocked' = [blocked EXCEPT ![Main] = New],
         c.kind = "get" \/ code'[Top(Main)].kind # "getting",
         IF c.kind = "put" THEN last' = c.val ELSE last' = last,
         UNCHANGED <<stored, got>>
  PROVE  OrderInv' /\ AnswerInv'
  <1>1. Main \in Queues /\ IO \in Queues /\ Main # IO
    BY QueuesAssumption DEF Queues
  <1>2. OrderInv' /\ New \in In(IO)'
    BY OrderGiven
  <1>3. /\ pending'[Main] = pending[Main] /\ stack' = stack /\ stack[Main] # <<>>
        /\ code'[New] = c
    BY <1>1 DEF Gives, Base, QueuesTyped
  <1>4. \A t \in In(Main) : t # Top(Main) => code'[t] = code[t]
    BY <1>1, Elsewhere DEF Gives
  <1>5. CASE code'[Top(Main)].kind # "getting"
    BY <1>2, <1>3, <1>4, <1>5, AnswerGoesOn
  <1>6. CASE c.kind = "get"
    <2>1. blocked'[Main] = New
      BY <1>1, <1>6 DEF Base, QueuesTyped
    <2>2. GetUnderWay'
      BY <1>2, <1>3, <1>6, <2>1 DEF GetUnderWay
    <2>3. /\ \A t \in Elems(pending[Main]) : t \in In(Main) /\ t # Top(Main)
      BY <1>1, <1>3, TopIn DEF Base, Placed, In
    <2>4. QED
      BY <1>2, <1>3, <1>4, <2>2, <2>3 DEF AnswerInv
  <1>7. QED
    BY <1>5, <1>6

LEMMA GivenToWork ==
  ASSUME Base, OrderInv, AnswerInv, NEW c, Gives(Main, Work, New, c),
         code'[Top(Main)].kind # "getting", UNCHANGED Data
  PROVE  OrderInv' /\ AnswerInv'
  <1>1. Main \in Queues /\ IO \in Queues /\ Work \in Queues /\ Main # IO /\ Main # Work /\ IO # Work
    BY QueuesAssumption DEF Queues
  <1>2. /\ pending'[Main] = pending[Main] /\ pending'[IO] = pending[IO]
        /\ stack' = stack /\ stack[Main] # <<>>
    BY <1>1 DEF Gives, Base, QueuesTyped
  <1>3. /\ \A t \in In(Main) : t # Top(Main) => code'[t] = code[t]
        /\ \A t \in In(IO) : code'[t] = code[t] /\ t # NoTask
    BY <1>1, Elsewhere DEF Gives, Tasks, NoTask
  <1>4. \A t \in In(IO) : blocked[Main] = t => blocked'[Main] = t
    BY <1>3 DEF Gives
  <1>5. OrderInv'
    BY <1>2, <1>3, <1>4, OrderUnseen DEF Data
  <1>6. AnswerInv'
    BY <1>2, <1>3, AnswerGoesOn
  <1>7. QED
    BY <1>5, <1>6

-----------------------------------------------------------------------------
LEMMA ReadInvStep ==
  ASSUME Base, OrderInv, AnswerInv, [Next]_vars
  PROVE  OrderInv' /\ AnswerInv'
  <1>0. QueuesTyped /\ CodeTyped /\ Placed
    BY DEF Base
  <1>1. CASE UNCHANGED vars
    BY <1>1, OthersKeep DEF vars, queues, storage, Data
  <1>2. CASE Queued
    <2>1. UNCHANGED storage /\ UNCHANGED Data
      BY <1>2 DEF Queued, storage, Data
    <2>2. CASE Event
      <3>1. /\ New \in fresh
            /\ pending' = [pending EXCEPT ![Main] = Append(@, New)]
            /\ UNCHANGED <<stack, blocked>>
            /\ code'[New].kind = "script"
            /\ \A t \in Tasks : t # New => code'[t] = code[t]
        BY <1>0, <2>1, <2>2, EventGives
      <3>2. Main \in Queues /\ IO \in Queues /\ Main # IO
        BY QueuesAssumption DEF Queues
      <3>3. \A t \in In(IO) \cup In(Main) : code'[t] = code[t]
        BY <3>1, <3>2, Elsewhere
      <3>4. /\ pending'[Main] = Append(pending[Main], New) /\ pending'[IO] = pending[IO]
            /\ New \in Tasks /\ New \notin Elems(pending[Main])
            /\ pending[Main] \in Seq(Tasks) /\ Injective(pending[Main])
        BY <3>1, <3>2 DEF Base, QueuesTyped, Placed, In
      <3>5. Elems(pending'[Main]) = Elems(pending[Main]) \cup {New}
        BY <3>4, ElemsAppend
      <3>6. QED
        BY <2>1, <3>1, <3>3, <3>4, <3>5, OthersKeep
    <2>3. ASSUME NEW q \in Queues, Begin(q) PROVE OrderInv' /\ AnswerInv'
      BY <2>1, <2>3, OrderBegin DEF Begin, Data
    <2>4. ASSUME NEW q \in Queues, End(q) PROVE OrderInv' /\ AnswerInv'
      BY <2>1, <2>4, OrderEnd
    <2>5. QED
      BY <1>2, <2>2, <2>3, <2>4 DEF Queued
  <1>3. ASSUME NEW q \in Queues, Return(q) PROVE OrderInv' /\ AnswerInv'
    <2>1. IO \in Queues
      BY DEF Queues
    <2>2. blocked[q] \in finished /\ blocked' = [blocked EXCEPT ![q] = NoTask]
          /\ UNCHANGED <<pending, stack, code>> /\ UNCHANGED Data
      BY <1>3 DEF Return, Serial!Return, storage, Data
    <2>3. \A t \in In(IO) : blocked[Main] = t => blocked'[Main] = t
      BY <2>1, <2>2, Elsewhere DEF Base, QueuesTyped
    <2>4. GetUnderWay => q # Main
      BY <2>1, <2>2, Elsewhere DEF GetUnderWay
    <2>5. OrderInv' /\ (GetUnderWay => GetUnderWay')
      BY <2>2, <2>3, OrderUnseen DEF Data
    <2>6. AnswerInv'
      BY <2>2, <2>5, AnswerUnseen DEF Data
    <2>7. QED
      BY <2>5, <2>6
  <1>4. CASE StorageCalls
    <2>1. Missing \in Nat /\ calls + 1 \in Nat
      BY <1>0 DEF CodeTyped, Missing
    <2>2. ASSUME NEW f, NEW j \in JSObjects, Load(f, j) \/ LoadKeys(f, j)
          PROVE  OrderInv' /\ AnswerInv'
      <3>1. PICK c \in Closures : c.kind = "load" /\ Gives(Main, IO, New, c)
        BY <1>0, <2>2, LoadGives
      <3>2. code'[Top(Main)].kind \in {"script", "asking"}
        BY <1>0, <2>2, LoadGives
      <3>3. UNCHANGED Data
        BY <2>2 DEF Load, LoadKeys, Asked, Data
      <3>4. QED
        BY <3>1, <3>2, <3>3, GivenToIO DEF Data
    <2>3. ASSUME NEW v \in Nat, Put(v) PROVE OrderInv' /\ AnswerInv'
      <3>1. PICK c \in Closures : c.kind = "put" /\ c.val = v /\ Gives(Main, IO, New, c)
        BY <1>0, <2>3, PutGives
      <3>2. code'[Top(Main)].kind = "script"
        BY <1>0, <2>3, PutGives
      <3>3. last' = v /\ UNCHANGED <<stored, got>>
        BY <2>3 DEF Put
      <3>4. QED
        BY <3>1, <3>2, <3>3, GivenToIO
    <2>4. CASE GetValue
      <3>1. PICK c \in Closures : c.kind = "get" /\ Gives(Main, IO, New, c)
        BY <1>0, <2>4, GetGives
      <3>2. blocked' = [blocked EXCEPT ![Main] = New]
        BY <1>0, <2>4, GetGives
      <3>3. UNCHANGED <<stored, last, got>>
        BY <2>4 DEF GetValue, storage
      <3>4. QED
        BY <3>1, <3>2, <3>3, GivenToIO
    <2>5. QED
      BY <1>4, <2>1, <2>2, <2>3, <2>4 DEF StorageCalls
  <1>5. CASE OnMain \/ Created \/ OnMessage
    BY <1>0, <1>5, MainGoesOn, MainAlone, MainAloneKeeps DEF OnMain
  <1>6. CASE OnIO
    BY <1>6, IOKeeps DEF OnIO
  <1>7. CASE CreateWorker \/ Post
    <2>1. UNCHANGED Data
      BY <1>7 DEF CreateWorker, Post, storage, Data
    <2>2. PICK c \in Closures : Gives(Main, Work, New, c)
      BY <1>0, <1>7, WorkerGives
    <2>3. code'[Top(Main)].kind \in {"script", "creating"}
      BY <1>0, <1>7, WorkerGives
    <2>4. QED
      BY <2>1, <2>2, <2>3, GivenToWork
  <1>8. CASE Terminate \/ Collect \/ Handled
    <2>1. UNCHANGED Data
      BY <1>8 DEF Terminate, Collect, Handled, storage, Data
    <2>2. code'[Top(Main)].kind # "getting"
      BY <1>0, <1>8, LettingGo
    <2>3. CASE GoesAlone(Main)
      BY <2>1, <2>2, <2>3, MainAloneKeeps
    <2>4. ASSUME NEW c \in Closures, Gives(Main, Work, New, c) PROVE OrderInv' /\ AnswerInv'
      BY <2>1, <2>2, <2>4, GivenToWork
    <2>5. QED
      BY <1>0, <1>8, <2>3, <2>4, LettingGo
  <1>9. CASE Close
    <2>1. /\ Running(Main) /\ Serial!Close(Work)
          /\ code'[Top(Main)].kind \in {"script", "over"}
          /\ \A t \in Tasks : t # Top(Main) => code'[t] = code[t]
      BY <1>0, <1>9, CloseAlone
    <2>2. Main \in Queues /\ IO \in Queues /\ Main # IO /\ Main # Work /\ IO # Work
      BY QueuesAssumption DEF Queues
    <2>3. pending'[Main] = pending[Main] /\ pending'[IO] = pending[IO] /\ UNCHANGED <<stack, blocked>>
      BY <2>1, <2>2 DEF Serial!Close, Base, QueuesTyped
    <2>4. UNCHANGED Data /\ stack[Main] # <<>>
      BY <1>9, <2>1 DEF Close, storage, Data, Running
    <2>5. /\ \A t \in In(Main) : t # Top(Main) => code'[t] = code[t]
          /\ \A t \in In(IO) : code'[t] = code[t]
      BY <2>1, <2>2, <2>4, Elsewhere
    <2>6. OrderInv'
      BY <2>3, <2>4, <2>5, OrderUnseen DEF Data
    <2>7. AnswerInv'
      BY <2>1, <2>3, <2>4, <2>5, AnswerGoesOn
    <2>8. QED
      BY <2>6, <2>7
  <1>10. CASE Setup \/ OnPost \/ PostUp \/ LetGoContext
    <2>1. GoesAlone(Work)
      BY <1>0, <1>10, WorkAlone
    <2>2. UNCHANGED Data
      BY <1>10 DEF Setup, OnPost, PostUp, LetGoContext, storage, Data
    <2>3. Main \in Queues /\ IO \in Queues /\ Work \in Queues /\ Main # Work /\ IO # Work
      BY QueuesAssumption DEF Queues
    <2>4. \A t \in In(IO) \cup In(Main) : code'[t] = code[t]
      BY <2>1, <2>3, Elsewhere DEF GoesAlone
    <2>5. QED
      BY <2>1, <2>2, <2>4, OthersKeep DEF GoesAlone, queues
  <1>11. CASE Posted \/ PostedLast \/ PostedFalling
    <2>0. PICK kind \in {"worker", "leaving"} : PostedOn(kind)
      BY <1>11 DEF Posted, PostedLast, PostedFalling
    <2>1. PICK c \in Closures : c.kind = "message" /\ Gives(Work, Main, New, c)
      BY <1>0, <2>0, PostedGives
    <2>2. blocked' = blocked
      BY <1>0, <2>0, PostedGives
    <2>3. Main \in Queues /\ IO \in Queues /\ Work \in Queues /\ IO # Work /\ stack[Work] # <<>>
      BY <2>1, QueuesAssumption DEF Queues, Gives
    <2>4. Top(Work) \notin In(IO)
      BY <2>3, Elsewhere
    <2>5. UNCHANGED Data
      BY <2>0 DEF PostedOn, storage, Data
    <2>6. /\ pending'[IO] = pending[IO]
          /\ \A t \in In(IO) \cup In(Main) : code'[t] = code[t]
          /\ \A t \in Elems(pending'[Main]) :
               t \in Elems(pending[Main]) \/ code'[t].kind # "getting"
      BY <2>1, <2>4, GivenToMain
    <2>7. QED
      BY <2>1, <2>2, <2>5, <2>6, OthersKeep DEF Gives
  <1>12. CASE Leave
    <2>1. Main \in Queues /\ IO \in Queues /\ Work \in Queues /\ Main # Work /\ IO # Work
      BY QueuesAssumption DEF Queues
    <2>2. Dropped(Work) /\ \A t \in Tasks : t # Top(Work) => code'[t] = code[t]
      BY <1>0, <1>12, LeaveDrops
    <2>3. \A q \in {Main, IO} : pending'[q] = pending[q] /\ stack'[q] = stack[q]
      BY <1>0, <2>1, <2>2, DroppedDown
    <2>4. UNCHANGED blocked /\ stack[Work] # <<>>
      BY <2>2 DEF Dropped
    <2>5. \A t \in In(IO) \cup In(Main) : code'[t] = code[t]
      BY <2>1, <2>2, <2>4, Elsewhere
    <2>6. UNCHANGED Data
      BY <1>12 DEF Leave, storage, Data
    <2>7. QED
      BY <2>3, <2>4, <2>5, <2>6, OthersKeep
  <1>13. QED
    BY <1>1, <1>2, <1>3, <1>4, <1>5, <1>6, <1>7, <1>8, <1>9, <1>10, <1>11, <1>12
       DEF Next, WorkerCalls, OnMainToo, OnMain, OnWork

\* What get() gives to the script is what the script last set: the writes before it,
\* which nobody waits for, are before it in the queue, and no write can be behind it.
\* (core/storage.cc: SqliteStorage::get, set and clear)
THEOREM GetsSafe == Spec => []GetSeesPuts
  <1>1. Init => Base /\ OrderInv /\ AnswerInv
    BY BaseStart, ReadStart
  <1>2. Base /\ OrderInv /\ AnswerInv /\ [Next]_vars => (Base /\ OrderInv /\ AnswerInv)'
    BY BaseStep, ReadInvStep
  <1>3. Base /\ OrderInv /\ AnswerInv => GetSeesPuts
    BY ReadImplies
  <1>4. QED
    BY <1>1, <1>2, <1>3, PTL DEF Spec

=============================================================================
