--------------------------- MODULE RecyclingProofs ---------------------------
(***************************************************************************)
(* Proofs about ViewRecycling: whatever walks recycle and obtain, a View is *)
(* in one hand, it is in the View of the parent of its element, nothing else *)
(* is left there, and what is in sight has one, for any tree of elements.   *)
(***************************************************************************)
EXTENDS ViewRecycling, FiniteSetTheorems, WellFoundedInduction, TLAPS

(***************************************************************************)
(* Sequences.                                                              *)
(***************************************************************************)

LEMMA Least ==
  ASSUME NEW S \in SUBSET Nat, S # {}
  PROVE  \E n \in S : \A m \in S : n <= m
  <1>1. PICK n \in S : \A m \in S : <<m, n>> \notin OpToRel(<, Nat)
    BY NatLessThanWellFounded, WFMin, Zenon
  <1>2. \A m \in S : ~ (m < n)
    BY <1>1, Zenon DEF OpToRel
  <1>3. QED
    BY <1>2

LEMMA ConcatAt ==
  ASSUME NEW S, NEW a \in Seq(S), NEW b \in Seq(S)
  PROVE  /\ a \o b \in Seq(S) /\ Len(a) \in Nat /\ Len(b) \in Nat
         /\ DOMAIN a = 1 .. Len(a) /\ DOMAIN b = 1 .. Len(b)
         /\ Len(a \o b) = Len(a) + Len(b)
         /\ DOMAIN (a \o b) = 1 .. Len(a) + Len(b)
         /\ \A i \in 1 .. Len(a) : (a \o b)[i] = a[i]
         /\ \A i \in 1 .. Len(a) + Len(b) : i > Len(a) => (a \o b)[i] = b[i - Len(a)]
  OBVIOUS

LEMMA ConcatIs ==
  ASSUME NEW S, NEW a \in Seq(S), NEW b \in Seq(S)
  PROVE  a \o b \in Seq(S) /\ ToSet(a \o b) = ToSet(a) \cup ToSet(b)
  <1>1. /\ a \o b \in Seq(S) /\ Len(a) \in Nat /\ Len(b) \in Nat
        /\ DOMAIN a = 1 .. Len(a) /\ DOMAIN b = 1 .. Len(b)
        /\ DOMAIN (a \o b) = 1 .. Len(a) + Len(b)
        /\ \A i \in 1 .. Len(a) : (a \o b)[i] = a[i]
        /\ \A i \in 1 .. Len(a) + Len(b) : i > Len(a) => (a \o b)[i] = b[i - Len(a)]
    BY ConcatAt
  <1>2. ToSet(a) \subseteq ToSet(a \o b)
    <2>1. \A i \in 1 .. Len(a) : i \in 1 .. Len(a) + Len(b)
      BY <1>1
    <2>2. QED
      BY <1>1, <2>1 DEF ToSet
  <1>3. ToSet(b) \subseteq ToSet(a \o b)
    <2>1. ASSUME NEW i \in 1 .. Len(b) PROVE b[i] \in ToSet(a \o b)
      <3>1. /\ i + Len(a) \in 1 .. Len(a) + Len(b) /\ i + Len(a) > Len(a)
            /\ (i + Len(a)) - Len(a) = i
        BY <1>1
      <3>2. (a \o b)[i + Len(a)] = b[i]
        BY <1>1, <3>1
      <3>3. QED
        BY <1>1, <3>1, <3>2 DEF ToSet
    <2>2. QED
      BY <1>1, <2>1 DEF ToSet
  <1>4. ToSet(a \o b) \subseteq ToSet(a) \cup ToSet(b)
    <2>1. ASSUME NEW i \in 1 .. Len(a) + Len(b)
          PROVE  (a \o b)[i] \in ToSet(a) \cup ToSet(b)
      <3>1. CASE i \in 1 .. Len(a)
        BY <1>1, <3>1 DEF ToSet
      <3>2. CASE i \notin 1 .. Len(a)
        <4>1. i > Len(a) /\ i - Len(a) \in 1 .. Len(b)
          BY <1>1, <3>2
        <4>2. QED
          BY <1>1, <4>1 DEF ToSet
      <3>3. QED
        BY <3>1, <3>2
    <2>2. QED
      BY <1>1, <2>1 DEF ToSet
  <1>5. QED
    BY <1>1, <1>2, <1>3, <1>4

\* The function that FlattenSeq defines by recursion.
Joins(F, q, n) == F = [i \in 1 .. n |-> IF i = 1 THEN q[i] ELSE F[i - 1] \o q[i]]

LEMMA JoinsExist ==
  ASSUME NEW q, NEW N \in Nat
  PROVE  \E F : Joins(F, q, N)
  <1> DEFINE Bad == {n \in Nat : ~ \E F : Joins(F, q, n)}
  <1> SUFFICES ASSUME N \in Bad PROVE FALSE
    OBVIOUS
  <1>1. PICK n \in Bad : \A m \in Bad : n <= m
    <2>1. Bad \in SUBSET Nat /\ Bad # {}
      OBVIOUS
    <2> HIDE DEF Bad
    <2>2. QED
      BY <2>1, Least
  <1>2. n \in Nat /\ ~ \E F : Joins(F, q, n)
    OBVIOUS
  <1>3. CASE n = 0
    <2>1. Joins([i \in 1 .. 0 |-> 0], q, 0)
      BY DEF Joins
    <2>2. QED
      BY <1>2, <1>3, <2>1
  <1>4. CASE n # 0
    <2>1. n - 1 \in Nat /\ ~ (n <= n - 1)
      BY <1>2, <1>4
    <2>2. n - 1 \notin Bad
      BY <1>1, <2>1
    <2>3. PICK G : Joins(G, q, n - 1)
      BY <2>1, <2>2
    <2> DEFINE step(i) == IF i = 1 THEN q[i] ELSE G[i - 1] \o q[i]
               F == [i \in 1 .. n |-> step(i)]
    <2>4. /\ DOMAIN G = 1 .. n - 1
          /\ \A i \in 1 .. n - 1 : G[i] = step(i)
      BY <2>3 DEF Joins
    <2>5. \A i \in 1 .. n : i # 1 => F[i - 1] = G[i - 1]
      <3>1. \A i \in 1 .. n : i # 1 => i - 1 \in 1 .. n - 1 /\ i - 1 \in 1 .. n
        BY <1>2
      <3>2. \A j \in 1 .. n : F[j] = step(j)
        OBVIOUS
      <3> HIDE DEF F, step
      <3>3. QED
        BY <2>4, <3>1, <3>2
    <2>6. \A i \in 1 .. n : F[i] = IF i = 1 THEN q[i] ELSE F[i - 1] \o q[i]
      BY <2>5
    <2>7. F = [i \in 1 .. n |-> F[i]]
      OBVIOUS
    <2> HIDE DEF F
    <2>8. Joins(F, q, n)
      BY <2>6, <2>7 DEF Joins
    <2>9. QED
      BY <1>2, <2>8
  <1>5. QED
    BY <1>3, <1>4

\* A sequence of sequences joined: all that is in them, and nothing else.
LEMMA Flattened ==
  ASSUME NEW S, NEW q \in Seq(Seq(S))
  PROVE  /\ FlattenSeq(q) \in Seq(S)
         /\ ToSet(FlattenSeq(q)) = UNION {ToSet(q[i]) : i \in DOMAIN q}
  <1>1. CASE Len(q) = 0
    <2>1. FlattenSeq(q) = <<>> /\ q = <<>> /\ DOMAIN q = {}
      BY <1>1 DEF FlattenSeq
    <2>2. ToSet(<<>>) = {}
      BY DEF ToSet
    <2>3. QED
      BY <2>1, <2>2
  <1>2. CASE Len(q) # 0
    <2> DEFINE N == Len(q)
    <2>1. N \in Nat /\ N > 0 /\ DOMAIN q = 1 .. N /\ \A i \in 1 .. N : q[i] \in Seq(S)
      BY <1>2
    <2> DEFINE F == CHOOSE F : Joins(F, q, N)
    <2>2. FlattenSeq(q) = F[N]
      BY <1>2 DEF FlattenSeq, Joins
    <2>3. Joins(F, q, N)
      BY <2>1, JoinsExist
    <2> HIDE DEF F, N
    <2>4. \A i \in 1 .. N : F[i] = IF i = 1 THEN q[i] ELSE F[i - 1] \o q[i]
      BY <2>3 DEF Joins
    <2> DEFINE All(i) == UNION {ToSet(q[j]) : j \in 1 .. i}
               Good(i) == F[i] \in Seq(S) /\ ToSet(F[i]) = All(i)
               Bad == {i \in 1 .. N : ~ Good(i)}
    <2>5. Bad = {}
      <3> SUFFICES ASSUME Bad # {} PROVE FALSE
        OBVIOUS
      <3>1. PICK n \in Bad : \A m \in Bad : n <= m
        <4>1. Bad \in SUBSET Nat
          BY <2>1
        <4> HIDE DEF Bad
        <4>2. QED
          BY <4>1, Least
      <3>2. n \in 1 .. N /\ ~ Good(n)
        OBVIOUS
      <3>3. CASE n = 1
        <4>1. F[n] = q[1] /\ q[1] \in Seq(S)
          BY <2>1, <2>4, <3>2, <3>3
        <4>2. All(n) = ToSet(q[1])
          BY <3>3
        <4>3. QED
          BY <3>2, <4>1, <4>2
      <3>4. CASE n # 1
        <4>1. /\ n - 1 \in 1 .. N /\ ~ (n <= n - 1)
              /\ 1 .. n = (1 .. n - 1) \cup {n}
          BY <2>1, <3>2, <3>4
        <4>2. n - 1 \notin Bad
          BY <3>1, <4>1
        <4>3. F[n - 1] \in Seq(S) /\ ToSet(F[n - 1]) = All(n - 1)
          BY <4>1, <4>2
        <4>4. F[n] = F[n - 1] \o q[n] /\ q[n] \in Seq(S)
          BY <2>1, <2>4, <3>2, <3>4
        <4>5. All(n) = All(n - 1) \cup ToSet(q[n])
          BY <4>1
        <4>6. F[n] \in Seq(S) /\ ToSet(F[n]) = ToSet(F[n - 1]) \cup ToSet(q[n])
          BY <4>3, <4>4, ConcatIs
        <4>7. QED
          BY <3>2, <4>3, <4>5, <4>6
      <3>5. QED
        BY <3>3, <3>4
    <2>6. N \in 1 .. N
      BY <2>1
    <2>7. Good(N)
      BY <2>5, <2>6
    <2>8. QED
      BY <2>1, <2>2, <2>7
  <1>3. QED
    BY <1>1, <1>2

\* What holds of each sequence and of two joined holds of them all joined.
LEMMA FlattenedIn ==
  ASSUME NEW C, <<>> \in C, \A a, b \in C : a \o b \in C, NEW q \in Seq(C)
  PROVE  FlattenSeq(q) \in C
  <1>1. CASE Len(q) = 0
    BY <1>1 DEF FlattenSeq
  <1>2. CASE Len(q) # 0
    <2> DEFINE N == Len(q)
    <2>1. N \in Nat /\ N > 0 /\ \A i \in 1 .. N : q[i] \in C
      BY <1>2
    <2> DEFINE F == CHOOSE F : Joins(F, q, N)
    <2>2. FlattenSeq(q) = F[N]
      BY <1>2 DEF FlattenSeq, Joins
    <2>3. Joins(F, q, N)
      BY <2>1, JoinsExist
    <2> HIDE DEF F, N
    <2>4. \A i \in 1 .. N : F[i] = IF i = 1 THEN q[i] ELSE F[i - 1] \o q[i]
      BY <2>3 DEF Joins
    <2> DEFINE Bad == {i \in 1 .. N : F[i] \notin C}
    <2>5. Bad = {}
      <3> SUFFICES ASSUME Bad # {} PROVE FALSE
        OBVIOUS
      <3>1. PICK n \in Bad : \A m \in Bad : n <= m
        <4>1. Bad \in SUBSET Nat
          BY <2>1
        <4> HIDE DEF Bad
        <4>2. QED
          BY <4>1, Least
      <3>2. n \in 1 .. N /\ F[n] \notin C
        OBVIOUS
      <3>3. n # 1
        BY <2>1, <2>4, <3>2
      <3>4. n - 1 \in 1 .. N /\ ~ (n <= n - 1)
        BY <2>1, <3>2, <3>3
      <3>5. F[n - 1] \in C
        BY <3>1, <3>4
      <3>6. F[n] = F[n - 1] \o q[n] /\ q[n] \in C
        BY <2>1, <2>4, <3>2, <3>3
      <3>7. QED
        BY <3>2, <3>5, <3>6
    <2>6. N \in 1 .. N
      BY <2>1
    <2>7. QED
      BY <2>2, <2>5, <2>6
  <1>3. QED
    BY <1>1, <1>2

IsSeq(q) == \E S : q \in Seq(S)

ViewsIn(q) == {q[i].view : i \in DOMAIN q}

\* No View is in q twice.
OneEach(q) == \A i, j \in DOMAIN q : q[i].view = q[j].view => i = j

LEMMA EmptyPool == IsSeq(<<>>) /\ ViewsIn(<<>>) = {} /\ OneEach(<<>>)
  BY DEF IsSeq, ViewsIn, OneEach

LEMMA AppendPool ==
  ASSUME NEW q, IsSeq(q), NEW x
  PROVE  /\ IsSeq(Append(q, x))
         /\ ViewsIn(Append(q, x)) = ViewsIn(q) \cup {x.view}
         /\ OneEach(q) /\ x.view \notin ViewsIn(q) => OneEach(Append(q, x))
  <1>1. PICK S : q \in Seq(S)
    BY DEF IsSeq
  <1>2. q \in Seq(S \cup {x}) /\ x \in S \cup {x}
    BY <1>1
  <1> DEFINE r == Append(q, x)
             n == Len(q)
  <1>3. /\ r \in Seq(S \cup {x}) /\ n \in Nat
        /\ DOMAIN q = 1 .. n /\ DOMAIN r = 1 .. n + 1
        /\ \A i \in 1 .. n : r[i] = q[i]
        /\ r[n + 1] = x
    BY <1>2
  <1> HIDE DEF r, n
  <1>4. 1 .. n + 1 = (1 .. n) \cup {n + 1} /\ n + 1 \notin 1 .. n
    BY <1>3
  <1>5. ViewsIn(r) = ViewsIn(q) \cup {x.view}
    BY <1>3, <1>4 DEF ViewsIn
  <1>6. ASSUME OneEach(q), x.view \notin ViewsIn(q) PROVE OneEach(r)
    <2>1. \A i \in 1 .. n : q[i].view # x.view
      BY <1>3, <1>6 DEF ViewsIn
    <2>2. QED
      BY <1>3, <1>4, <1>6, <2>1 DEF OneEach
  <1>7. IsSeq(r)
    BY <1>3 DEF IsSeq
  <1>8. QED
    BY <1>5, <1>6, <1>7 DEF r

LEMMA RemovePool ==
  ASSUME NEW q, IsSeq(q), OneEach(q), NEW k \in DOMAIN q
  PROVE  /\ IsSeq(RemoveAt(q, k))
         /\ ViewsIn(RemoveAt(q, k)) = ViewsIn(q) \ {q[k].view}
         /\ OneEach(RemoveAt(q, k))
  <1>1. PICK S : q \in Seq(S)
    BY DEF IsSeq
  <1> DEFINE r == RemoveAt(q, k)
             n == Len(q)
             from(i) == IF i < k THEN i ELSE i + 1
             back(i) == IF i < k THEN i ELSE i - 1
  <1>2. n \in Nat /\ DOMAIN q = 1 .. n /\ k \in 1 .. n
    BY <1>1
  <1>3. /\ r \in Seq(S) /\ DOMAIN r = 1 .. n - 1
        /\ \A i \in 1 .. n - 1 : r[i] = q[from(i)]
    <2> DEFINE a == SubSeq(q, 1, k - 1)
               b == SubSeq(q, k + 1, n)
    <2>1. /\ a \in Seq(S) /\ Len(a) = k - 1
          /\ \A i \in 1 .. k - 1 : a[i] = q[i]
      BY <1>1, <1>2
    <2>2. /\ b \in Seq(S) /\ Len(b) = n - k
          /\ \A i \in 1 .. n - k : b[i] = q[i + k]
      BY <1>1, <1>2
    <2>3. r = a \o b
      BY DEF RemoveAt
    <2> HIDE DEF a, b, r
    <2>4. /\ r \in Seq(S) /\ Len(r) = Len(a) + Len(b) /\ DOMAIN r = 1 .. Len(r)
          /\ \A i \in 1 .. Len(r) : r[i] = IF i <= Len(a) THEN a[i] ELSE b[i - Len(a)]
      <3>1. /\ r \in Seq(S) /\ Len(a) \in Nat /\ Len(b) \in Nat
            /\ Len(r) = Len(a) + Len(b) /\ DOMAIN r = 1 .. Len(a) + Len(b)
            /\ \A i \in 1 .. Len(a) : r[i] = a[i]
            /\ \A i \in 1 .. Len(a) + Len(b) : i > Len(a) => r[i] = b[i - Len(a)]
        <4>1. a \in Seq(S) /\ b \in Seq(S)
          BY <2>1, <2>2
        <4>2. QED
          BY <2>3, <4>1, ConcatAt
      <3> HIDE DEF n
      <3>2. \A i \in 1 .. Len(r) : r[i] = IF i <= Len(a) THEN a[i] ELSE b[i - Len(a)]
        <4> SUFFICES ASSUME NEW i \in 1 .. Len(a) + Len(b)
                     PROVE  r[i] = IF i <= Len(a) THEN a[i] ELSE b[i - Len(a)]
          BY <3>1
        <4>1. ASSUME i <= Len(a) PROVE r[i] = a[i]
          <5>1. i \in 1 .. Len(a)
            BY <3>1, <4>1
          <5>2. QED
            BY <3>1, <5>1
        <4>2. ASSUME ~ (i <= Len(a)) PROVE r[i] = b[i - Len(a)]
          <5>1. i > Len(a)
            BY <3>1, <4>2
          <5>2. QED
            BY <3>1, <5>1
        <4>3. QED
          BY <4>1, <4>2
      <3>3. DOMAIN r = 1 .. Len(r)
        BY <3>1
      <3>4. QED
        BY <3>1, <3>2, <3>3
    <2>5. Len(r) = n - 1
      BY <1>2, <2>1, <2>2, <2>4
    <2>6. ASSUME NEW i \in 1 .. n - 1 PROVE r[i] = q[from(i)]
      <3>1. CASE i < k
        <4>1. i <= Len(a) /\ i \in 1 .. k - 1
          BY <1>2, <2>1, <3>1
        <4>2. QED
          BY <2>1, <2>4, <2>5, <3>1, <4>1
      <3>2. CASE ~ (i < k)
        <4>1. /\ ~ (i <= Len(a)) /\ i - Len(a) \in 1 .. n - k
              /\ (i - Len(a)) + k = i + 1
          BY <1>2, <2>1, <3>2
        <4>2. r[i] = b[i - Len(a)]
          BY <2>4, <2>5, <4>1
        <4>3. QED
          BY <2>2, <3>2, <4>1, <4>2
      <3>3. QED
        BY <3>1, <3>2
    <2>7. QED
      BY <2>4, <2>5, <2>6
  <1> HIDE DEF r, n
  <1>4. /\ \A i \in 1 .. n - 1 : from(i) \in (1 .. n) \ {k} /\ back(from(i)) = i
        /\ \A i \in (1 .. n) \ {k} : back(i) \in 1 .. n - 1 /\ from(back(i)) = i
    BY <1>2
  <1> HIDE DEF from, back
  <1>5. OneEach(r)
    BY <1>2, <1>3, <1>4 DEF OneEach
  <1>6. \A i \in (1 .. n) \ {k} : q[i].view # q[k].view
    BY <1>2 DEF OneEach
  <1>7. ViewsIn(r) = ViewsIn(q) \ {q[k].view}
    <2>1. \A i \in 1 .. n - 1 : r[i].view \in ViewsIn(q) \ {q[k].view}
      BY <1>2, <1>3, <1>4, <1>6 DEF ViewsIn
    <2>2. \A i \in (1 .. n) \ {k} : q[i].view \in ViewsIn(r)
      <3>1. \A i \in (1 .. n) \ {k} : r[back(i)] = q[i] /\ back(i) \in DOMAIN r
        BY <1>3, <1>4
      <3>2. QED
        BY <3>1 DEF ViewsIn
    <2>3. QED
      BY <1>2, <1>3, <2>1, <2>2 DEF ViewsIn
  <1>8. IsSeq(r)
    BY <1>3 DEF IsSeq
  <1>9. QED
    BY <1>5, <1>7, <1>8 DEF r

-----------------------------------------------------------------------------
(***************************************************************************)
(* What every step of a walk keeps.                                        *)
(***************************************************************************)

Typed(s) ==
  /\ s = [view |-> s.view, parent |-> s.parent, pool |-> s.pool]
  /\ s.view \in [Elements -> Views \cup {NoView}]
  /\ s.parent \in [Views -> Views \cup {NoView}]
  /\ s.pool = [v \in Views |-> s.pool[v]]
  /\ \A v \in Views : IsSeq(s.pool[v]) /\ Pooled(s, v) \subseteq Views

\* The View of the context belongs to the root and to nobody else.
PageApart(s) ==
  /\ \A e \in Elements : s.view[e] = Page => e = Root
  /\ s.view[Root] \in {NoView, Page}
  /\ s.parent[Page] = NoView
  /\ \A v \in Views : Page \notin Pooled(s, v)

\* Exclusive, at any step.
One(s) ==
  /\ \A e, f \in Elements : s.view[e] = s.view[f] /\ s.view[e] # NoView => e = f
  /\ \A v \in Views : OneEach(s.pool[v])
  /\ \A v, w \in Views : v # w => Pooled(s, v) \cap Pooled(s, w) = {}
  /\ \A e \in Elements, v \in Views : s.view[e] \notin Pooled(s, v)

\* With r, every View comes after the one that keeps it.
Ranks(r, s) ==
  /\ \A v \in Views : s.parent[v] # NoView => r[s.parent[v]] < r[v]
  /\ \A v \in Views : \A w \in Pooled(s, v) : r[v] < r[w]

\* No View is kept by one that it keeps: counting references frees them all.
Ranked(s) == \E r \in [Views -> Nat] : Ranks(r, s)

\* Only so many Views are in use.
Finite(s) == IsFiniteSet(Own(s) \cup Placed(s))

Basic(s) == Typed(s) /\ PageApart(s) /\ One(s) /\ Ranked(s) /\ Finite(s)

\* What nobody keeps has been reclaimed.
Clean(s) ==
  /\ \A v \in Views : s.parent[v] # NoView => v \in Live(s) /\ s.parent[v] \in Live(s)
  /\ \A v \in Views : Pooled(s, v) # {} => v \in Live(s)

Good(s) == Basic(s) /\ Clean(s)

-----------------------------------------------------------------------------
(***************************************************************************)
(* The Views that are alive.                                               *)
(***************************************************************************)

LEMMA Constants ==
  /\ Root \in Elements /\ IsFiniteSet(Elements)
  /\ Views \in SUBSET Nat /\ NoView \notin Views /\ Page \in Views /\ Page # NoView
  BY RecyclingAssumption DEF NoView, Page

LEMMA OwnViews ==
  ASSUME NEW s, Typed(s)
  PROVE  Own(s) \subseteq Views /\ Placed(s) \subseteq Views
  BY Constants DEF Typed, Own, Placed

\* Live is the least set that has the Views in hand and what its Views keep.
LEMMA LiveIs ==
  ASSUME NEW s, Typed(s)
  PROVE  /\ Own(s) \subseteq Live(s) /\ Live(s) \subseteq Views
         /\ Live(s) \subseteq Own(s) \cup Placed(s)
         /\ Keeps(s, Live(s))
         /\ \A T : NoView \notin T /\ Own(s) \subseteq T /\ Keeps(s, T) => Live(s) \subseteq T
  <1> DEFINE A == Own(s)
             B == Placed(s)
             sets == {T \in SUBSET (B \ A) : Keeps(s, A \cup T)}
             L == A \cup {v \in B : \A T \in sets : v \in T}
  <1>1. Live(s) = L
    BY DEF Live
  <1>2. A \subseteq Views /\ B \subseteq Views
    BY OwnViews
  <1>3. \A v \in Views : s.parent[v] \in Views => v \in B
    BY Constants DEF Placed
  <1>4. \A v \in Views : Pooled(s, v) \subseteq B
    BY DEF Placed
  <1> HIDE DEF A, B
  <1>5. B \ A \in sets
    BY <1>2, <1>3, <1>4 DEF Keeps
  <1>6. L \subseteq A \cup B /\ A \subseteq L /\ L \subseteq Views
    BY <1>2
  <1>7. Keeps(s, L)
    <2>1. ASSUME NEW v \in Views, s.parent[v] \in L PROVE v \in L
      <3>1. v \in B
        BY <1>3, <1>6, <2>1
      <3>2. ASSUME NEW T \in sets PROVE v \in A \cup T
        <4>1. s.parent[v] \in A \cup T
          BY <2>1
        <4>2. QED
          BY <4>1 DEF Keeps
      <3>3. QED
        BY <3>1, <3>2
    <2>2. ASSUME NEW v \in L, NEW w \in Pooled(s, v) PROVE w \in L
      <3>1. w \in B
        BY <1>4, <1>6
      <3>2. ASSUME NEW T \in sets PROVE w \in A \cup T
        <4>1. v \in A \cup T
          OBVIOUS
        <4>2. QED
          BY <4>1 DEF Keeps
      <3>3. QED
        BY <3>1, <3>2
    <2> HIDE DEF L
    <2>3. QED
      BY <2>1, <2>2 DEF Keeps
  <1>8. ASSUME NEW T, NoView \notin T, A \subseteq T, Keeps(s, T)
        PROVE  L \subseteq T
    <2> DEFINE U == T \cap (B \ A)
    <2>1. Keeps(s, A \cup U)
      <3>1. ASSUME NEW v \in Views, s.parent[v] \in A \cup U PROVE v \in A \cup U
        <4>1. s.parent[v] \in T /\ s.parent[v] \in Views
          BY <1>2, <1>8, <3>1
        <4>2. v \in T /\ v \in B
          BY <1>3, <1>8, <4>1 DEF Keeps
        <4>3. QED
          BY <4>2
      <3>2. ASSUME NEW v \in A \cup U, NEW w \in Pooled(s, v) PROVE w \in A \cup U
        <4>1. v \in T /\ v \in Views
          BY <1>2, <1>8
        <4>2. w \in T /\ w \in B
          BY <1>4, <1>8, <4>1 DEF Keeps
        <4>3. QED
          BY <4>2
      <3>3. QED
        BY <3>1, <3>2 DEF Keeps
    <2>2. U \in sets
      BY <2>1
    <2>3. QED
      BY <1>8, <2>2
  <1> HIDE DEF sets, L
  <1>9. QED
    BY <1>1, <1>6, <1>7, <1>8 DEF A, B

\* createView() gives a View that nobody has, when any number of them can exist.
LEMMA FreshIs ==
  ASSUME ~ IsFiniteSet(Views), NEW s, Typed(s), Finite(s)
  PROVE  Fresh(s) \in Views \ Live(s)
  <1> DEFINE free == Views \ Live(s)
  <1>1. IsFiniteSet(Live(s))
    BY LiveIs, FS_Subset DEF Finite
  <1>2. free # {}
    <2>1. ASSUME free = {} PROVE FALSE
      <3>1. Views \subseteq Live(s)
        BY <2>1
      <3>2. QED
        BY <1>1, <3>1, FS_Subset
    <2>2. QED
      BY <2>1
  <1>3. free \in SUBSET Nat
    BY Constants
  <1>4. Fresh(s) = CHOOSE v \in free : \A w \in free : v <= w
    BY DEF Fresh
  <1> HIDE DEF free
  <1>5. \E v \in free : \A w \in free : v <= w
    BY <1>2, <1>3, Least
  <1>6. Fresh(s) \in free
    BY <1>4, <1>5
  <1>7. QED
    BY <1>6 DEF free

-----------------------------------------------------------------------------
(***************************************************************************)
(* Steps that only take Views away.                                        *)
(***************************************************************************)

Less(s, t) ==
  /\ t = [view |-> t.view, parent |-> t.parent, pool |-> t.pool]
  /\ t.view = [e \in Elements |-> t.view[e]]
  /\ t.parent = [v \in Views |-> t.parent[v]]
  /\ t.pool = [v \in Views |-> t.pool[v]]
  /\ \A e \in Elements : t.view[e] \in {s.view[e], NoView}
  /\ \A v \in Views : t.parent[v] \in {s.parent[v], NoView}
  /\ \A v \in Views : t.pool[v] \in {s.pool[v], <<>>}

LEMMA LessBasic ==
  ASSUME NEW s, NEW t, Basic(s), Less(s, t)
  PROVE  Basic(t)
  <1>1. Typed(s) /\ PageApart(s) /\ One(s) /\ Ranked(s) /\ Finite(s)
    BY DEF Basic
  <1>2. \A v \in Views : Pooled(t, v) = Pooled(s, v) \/ Pooled(t, v) = {}
    BY EmptyPool DEF Less, Pooled, ViewsIn
  <1>3. Typed(t)
    <2>1. t.view \in [Elements -> Views \cup {NoView}]
      BY <1>1 DEF Less, Typed
    <2>2. t.parent \in [Views -> Views \cup {NoView}]
      BY <1>1 DEF Less, Typed
    <2>3. \A v \in Views : IsSeq(t.pool[v])
      BY <1>1, EmptyPool DEF Less, Typed
    <2>4. \A v \in Views : Pooled(t, v) \subseteq Views
      BY <1>1, <1>2 DEF Typed
    <2>5. QED
      BY <2>1, <2>2, <2>3, <2>4 DEF Less, Typed
  <1>4. PageApart(t)
    BY <1>1, <1>2, Constants DEF PageApart, Less
  <1>5. One(t)
    <2>1. \A v \in Views : OneEach(t.pool[v])
      BY <1>1, EmptyPool DEF One, Less
    <2>2. \A v, w \in Views : v # w => Pooled(t, v) \cap Pooled(t, w) = {}
      BY <1>1, <1>2 DEF One
    <2>3. \A e \in Elements, v \in Views : t.view[e] \notin Pooled(t, v)
      <3>1. \A v \in Views : NoView \notin Pooled(t, v)
        BY <1>3, Constants DEF Typed
      <3>2. QED
        BY <1>1, <1>2, <3>1 DEF One, Less
    <2>4. \A e, f \in Elements : t.view[e] = t.view[f] /\ t.view[e] # NoView => e = f
      BY <1>1 DEF One, Less
    <2>5. QED
      BY <2>1, <2>2, <2>3, <2>4 DEF One
  <1>6. Ranked(t)
    <2>1. PICK r \in [Views -> Nat] : Ranks(r, s)
      BY <1>1 DEF Ranked
    <2>2. Ranks(r, t)
      BY <1>2, <2>1 DEF Ranks, Less
    <2>3. QED
      BY <2>2 DEF Ranked
  <1>7. Finite(t)
    <2>1. Own(t) \subseteq Own(s)
      BY DEF Own, Less
    <2>2. Placed(t) \subseteq Placed(s)
      BY <1>2 DEF Placed, Less
    <2>3. QED
      BY <1>1, <2>1, <2>2, FS_Subset DEF Finite
  <1>8. QED
    BY <1>3, <1>4, <1>5, <1>6, <1>7 DEF Basic

LEMMA ReclaimedGood ==
  ASSUME NEW s, Basic(s)
  PROVE  Good(Reclaimed(s))
  <1> DEFINE t == Reclaimed(s)
             L == Live(s)
             M == Live(t)
  <1>1. Typed(s)
    BY DEF Basic
  <1>2. /\ t = [view |-> t.view, parent |-> t.parent, pool |-> t.pool]
        /\ t.view = s.view
        /\ t.parent = [v \in Views |-> IF v \in L /\ s.parent[v] \in L THEN s.parent[v]
                                       ELSE NoView]
        /\ t.pool = [v \in Views |-> IF v \in L THEN s.pool[v] ELSE <<>>]
    <2> DEFINE a == [v \in Views |-> IF v \in L /\ s.parent[v] \in L THEN s.parent[v]
                                     ELSE NoView]
               b == [v \in Views |-> IF v \in L THEN s.pool[v] ELSE <<>>]
    <2>1. t = [s EXCEPT !.parent = a, !.pool = b]
      BY DEF Reclaimed
    <2> HIDE DEF a, b, t
    <2>2. s = [view |-> s.view, parent |-> s.parent, pool |-> s.pool]
      BY <1>1 DEF Typed
    <2>3. t = [view |-> s.view, parent |-> a, pool |-> b]
      BY <2>1, <2>2
    <2>4. t.view = s.view /\ t.parent = a /\ t.pool = b
      BY <2>3
    <2>5. QED
      BY <2>3, <2>4 DEF a, b
  <1> HIDE DEF t, L
  <1>3. Less(s, t)
    BY <1>1, <1>2 DEF Less, Typed
  <1>4. Basic(t)
    BY <1>3, LessBasic
  <1>5. Typed(t)
    BY <1>4 DEF Basic
  <1>6. /\ Own(s) \subseteq L /\ L \subseteq Views /\ Keeps(s, L)
        /\ \A T : NoView \notin T /\ Own(s) \subseteq T /\ Keeps(s, T) => L \subseteq T
    BY <1>1, LiveIs DEF L
  <1>7. /\ Own(t) \subseteq M /\ M \subseteq Views /\ Keeps(t, M)
        /\ \A T : NoView \notin T /\ Own(t) \subseteq T /\ Keeps(t, T) => M \subseteq T
    BY <1>5, LiveIs DEF M
  <1> HIDE DEF M
  <1>8. Own(t) = Own(s)
    BY <1>2 DEF Own
  <1>9. NoView \notin L /\ NoView \notin M
    BY <1>6, <1>7, Constants
  <1>10. /\ \A v \in L : Pooled(t, v) = Pooled(s, v)
         /\ \A v \in Views \ L : Pooled(t, v) = {}
    BY <1>2, <1>6, EmptyPool DEF Pooled, ViewsIn
  <1>11. Keeps(t, L)
    BY <1>2, <1>6, <1>9, <1>10 DEF Keeps
  <1>12. M \subseteq L
    BY <1>6, <1>7, <1>8, <1>9, <1>11
  <1>13. Keeps(s, M)
    <2>1. ASSUME NEW v \in Views, s.parent[v] \in M PROVE v \in M
      <3>1. v \in L /\ s.parent[v] \in L
        BY <1>6, <1>12, <2>1 DEF Keeps
      <3>2. t.parent[v] \in M
        BY <1>2, <2>1, <3>1
      <3>3. QED
        BY <1>7, <3>2 DEF Keeps
    <2>2. \A v \in M : Pooled(s, v) \subseteq M
      BY <1>7, <1>10, <1>12 DEF Keeps
    <2>3. QED
      BY <2>1, <2>2 DEF Keeps
  <1>14. L = M
    BY <1>6, <1>7, <1>8, <1>9, <1>12, <1>13
  <1>15. Clean(t)
    <2>1. \A v \in Views : t.parent[v] # NoView => v \in M /\ t.parent[v] \in M
      BY <1>2, <1>14
    <2>2. \A v \in Views : Pooled(t, v) # {} => v \in M
      BY <1>10, <1>14
    <2>3. QED
      BY <2>1, <2>2 DEF Clean, M
  <1>16. QED
    BY <1>4, <1>15 DEF Good, t

\* A step after which all that was alive is, and that places a View only where it
\* is kept.
LEMMA StaysClean ==
  ASSUME NEW s, NEW t, Clean(s), Typed(s), Typed(t),
         \A T \in SUBSET Views : Own(t) \subseteq T /\ Keeps(t, T)
                  => Own(s) \subseteq T /\ Keeps(s, T),
         \A v \in Views : t.parent[v] # NoView
           => t.parent[v] = s.parent[v] \/ {v, t.parent[v]} \subseteq Own(t),
         \A v \in Views : Pooled(t, v) # {}
           => Pooled(s, v) # {} \/ (\E w \in Views : s.parent[w] = v)
  PROVE  Clean(t)
  <1>1. Own(t) \subseteq Live(t) /\ Live(t) \subseteq Views /\ Keeps(t, Live(t))
    BY LiveIs
  <1>2. NoView \notin Live(t)
    BY <1>1, Constants
  <1>3. Live(s) \subseteq Live(t)
    BY <1>1, <1>2, LiveIs
  <1>4. \A v \in Views : t.parent[v] # NoView => v \in Live(t) /\ t.parent[v] \in Live(t)
    BY <1>1, <1>3 DEF Clean
  <1>5. \A v \in Views : Pooled(t, v) # {} => v \in Live(t)
    BY <1>3, Constants DEF Clean
  <1>6. QED
    BY <1>4, <1>5 DEF Clean

LEMMA SweepGood ==
  ASSUME NEW s, Good(s), NEW e \in Elements
  PROVE  Good(Sweep(s, e))
  <1> DEFINE t == Sweep(s, e)
             v == s.view[e]
             gone == {w \in Views : v # NoView /\ w \in Pooled(s, v)}
  <1>1. Typed(s) /\ Clean(s) /\ Basic(s)
    BY DEF Basic, Good
  <1>2. /\ t = [view |-> t.view, parent |-> t.parent, pool |-> t.pool]
        /\ t.view = s.view
        /\ t.parent = [w \in Views |-> IF w \in gone THEN NoView ELSE s.parent[w]]
        /\ t.pool = s.pool
    BY <1>1 DEF Sweep, Typed
  <1> HIDE DEF t
  <1>3. Less(s, t)
    <2> HIDE DEF gone
    <2>1. QED
      BY <1>1, <1>2 DEF Less, Typed
  <1>4. Basic(t)
    BY <1>1, <1>3, LessBasic
  <1>5. Typed(t)
    BY <1>4 DEF Basic
  <1>6. Own(t) = Own(s) /\ \A w \in Views : Pooled(t, w) = Pooled(s, w)
    BY <1>2 DEF Own, Pooled
  <1>7. ASSUME NEW T \in SUBSET Views, Own(t) \subseteq T, Keeps(t, T)
        PROVE  Own(s) \subseteq T /\ Keeps(s, T)
    <2>1. gone \subseteq T
      <3>1. v # NoView => v \in T /\ v \in Views
        BY <1>1, <1>6, <1>7 DEF Own, Typed
      <3>2. v # NoView => Pooled(s, v) \subseteq T
        BY <1>6, <1>7, <3>1 DEF Keeps
      <3>3. QED
        BY <3>2
    <2> HIDE DEF gone
    <2>2. \A w \in Views : s.parent[w] \in T => w \in T
      BY <1>2, <1>7, <2>1 DEF Keeps
    <2>3. \A w \in T : Pooled(s, w) \subseteq T
      BY <1>2, <1>7 DEF Keeps, Pooled
    <2>4. QED
      BY <1>6, <1>7, <2>2, <2>3 DEF Keeps
  <1>8. Clean(t)
    <2> HIDE DEF gone
    <2>1. \A w \in Views : t.parent[w] # NoView => t.parent[w] = s.parent[w]
      BY <1>2
    <2>2. QED
      BY <1>1, <1>5, <1>6, <1>7, <2>1, StaysClean
  <1>9. QED
    BY <1>4, <1>8 DEF Good, t

-----------------------------------------------------------------------------
(***************************************************************************)
(* Recycling.                                                              *)
(***************************************************************************)

LEMMA RemovedGood ==
  ASSUME NEW s, Basic(s), NEW v \in Views, NEW e \in Elements
  PROVE  /\ Basic(RemoveView(s, v))
         /\ Good(Reclaimed([RemoveView(s, v) EXCEPT !.view[e] = NoView]))
  <1> DEFINE t == RemoveView(s, v)
             u == [t EXCEPT !.view[e] = NoView]
  <1>1. Typed(s)
    BY DEF Basic
  <1>2. /\ t = [view |-> t.view, parent |-> t.parent, pool |-> t.pool]
        /\ t.view = s.view /\ t.pool = s.pool
        /\ t.parent = [s.parent EXCEPT ![v] = NoView]
    BY <1>1 DEF RemoveView, Typed
  <1> HIDE DEF t
  <1>3. /\ u = [view |-> u.view, parent |-> u.parent, pool |-> u.pool]
        /\ u.view = [s.view EXCEPT ![e] = NoView]
        /\ u.parent = t.parent /\ u.pool = t.pool
    BY <1>2
  <1> HIDE DEF u
  <1>4. Less(s, t)
    BY <1>1, <1>2 DEF Less, Typed
  <1>5. Less(s, u)
    BY <1>1, <1>2, <1>3 DEF Less, Typed
  <1>6. QED
    BY <1>4, <1>5, LessBasic, ReclaimedGood DEF t, u

\* A View that goes from an element to the pool of its parent.
ToPool(s, e, k) ==
  [s EXCEPT !.view[e] = NoView,
            !.pool[s.parent[s.view[e]]] = Append(@, [key |-> k, view |-> s.view[e]])]

LEMMA PooledGood ==
  ASSUME NEW s, Good(s), NEW e \in Elements, NEW k,
         s.view[e] # NoView, s.parent[s.view[e]] # NoView
  PROVE  Good(ToPool(s, e, k))
  <1> DEFINE v == s.view[e]
             p == s.parent[v]
             x == [key |-> k, view |-> v]
             t == ToPool(s, e, k)
  <1>1. /\ Typed(s) /\ Clean(s) /\ PageApart(s) /\ One(s) /\ Ranked(s) /\ Finite(s)
        /\ v # NoView /\ p # NoView
    BY DEF Basic, Good
  <1>2. v \in Views /\ p \in Views /\ v # Page
    BY <1>1 DEF Typed, PageApart
  <1>3. /\ t = [view |-> t.view, parent |-> t.parent, pool |-> t.pool]
        /\ t.view = [s.view EXCEPT ![e] = NoView]
        /\ t.parent = s.parent
        /\ t.pool = [s.pool EXCEPT ![p] = Append(s.pool[p], x)]
    <2> DEFINE a == [s.view EXCEPT ![e] = NoView]
               b == [s.pool EXCEPT ![p] = Append(s.pool[p], x)]
    <2>1. s = [view |-> s.view, parent |-> s.parent, pool |-> s.pool]
      BY <1>1 DEF Typed
    <2>2. t = [s EXCEPT !.view = a, !.pool = b]
      BY <2>1 DEF ToPool
    <2> HIDE DEF a, b, t
    <2>3. t = [view |-> a, parent |-> s.parent, pool |-> b]
      BY <2>1, <2>2
    <2>4. t.view = a /\ t.parent = s.parent /\ t.pool = b
      BY <2>3
    <2>5. QED
      BY <2>3, <2>4 DEF a, b
  <1>4. x.view = v
    OBVIOUS
  <1>5. s.view[e] = v /\ s.parent[v] = p
    OBVIOUS
  <1> HIDE DEF t, x, v, p
  <1>6. /\ \A f \in Elements : t.view[f] = IF f = e THEN NoView ELSE s.view[f]
        /\ t.pool[p] = Append(s.pool[p], x)
        /\ \A w \in Views \ {p} : t.pool[w] = s.pool[w]
    BY <1>1, <1>2, <1>3 DEF Typed
  <1>7. /\ \A w \in Views : Pooled(s, w) = ViewsIn(s.pool[w])
        /\ \A w \in Views : Pooled(t, w) = ViewsIn(t.pool[w])
    BY DEF Pooled, ViewsIn
  <1>8. \A w \in Views : v \notin Pooled(s, w)
    BY <1>1, <1>5 DEF One
  <1>9. /\ IsSeq(t.pool[p]) /\ OneEach(t.pool[p])
        /\ Pooled(t, p) = Pooled(s, p) \cup {v}
    <2>1. IsSeq(s.pool[p]) /\ OneEach(s.pool[p]) /\ v \notin ViewsIn(s.pool[p])
      BY <1>1, <1>2, <1>7, <1>8 DEF Typed, One
    <2>2. /\ IsSeq(Append(s.pool[p], x)) /\ OneEach(Append(s.pool[p], x))
          /\ ViewsIn(Append(s.pool[p], x)) = ViewsIn(s.pool[p]) \cup {x.view}
      BY <1>4, <2>1, AppendPool
    <2>3. QED
      BY <1>2, <1>4, <1>6, <1>7, <2>2
  <1>10. \A w \in Views \ {p} : Pooled(t, w) = Pooled(s, w)
    BY <1>6, <1>7
  <1>11. Typed(t)
    <2>1. t.view \in [Elements -> Views \cup {NoView}]
      BY <1>1, <1>3 DEF Typed
    <2>2. t.pool = [w \in Views |-> t.pool[w]]
      BY <1>1, <1>3 DEF Typed
    <2>3. \A w \in Views : IsSeq(t.pool[w]) /\ Pooled(t, w) \subseteq Views
      BY <1>1, <1>2, <1>6, <1>9, <1>10 DEF Typed
    <2>4. QED
      BY <1>1, <1>3, <2>1, <2>2, <2>3 DEF Typed
  <1>12. PageApart(t)
    BY <1>1, <1>2, <1>3, <1>6, <1>9, <1>10, Constants DEF PageApart
  <1>13. One(t)
    <2>1. \A f, g \in Elements : t.view[f] = t.view[g] /\ t.view[f] # NoView => f = g
      BY <1>1, <1>6 DEF One
    <2>2. \A w \in Views : OneEach(t.pool[w])
      BY <1>1, <1>6, <1>9 DEF One
    <2>3. \A w, y \in Views : w # y => Pooled(t, w) \cap Pooled(t, y) = {}
      BY <1>1, <1>8, <1>9, <1>10 DEF One
    <2>4. \A f \in Elements, w \in Views : t.view[f] \notin Pooled(t, w)
      <3>1. \A w \in Views : NoView \notin Pooled(t, w)
        BY <1>11, Constants DEF Typed
      <3>2. \A f \in Elements \ {e} : s.view[f] # NoView => s.view[f] # v
        BY <1>1, <1>5 DEF One
      <3>3. QED
        BY <1>1, <1>6, <1>9, <1>10, <3>1, <3>2 DEF One
    <2>5. QED
      BY <2>1, <2>2, <2>3, <2>4 DEF One
  <1>14. PICK r \in [Views -> Nat] : Ranks(r, s)
    BY <1>1 DEF Ranked
  <1>15. Ranked(t)
    <2>1. r[p] < r[v]
      BY <1>2, <1>5, <1>14, Constants DEF Ranks
    <2>2. Ranks(r, t)
      BY <1>3, <1>9, <1>10, <1>14, <2>1 DEF Ranks
    <2>3. QED
      BY <2>2 DEF Ranked
  <1>16. Finite(t)
    <2>1. Own(t) \subseteq Own(s) \cup Placed(s)
      BY <1>6 DEF Own
    <2>2. v \in Placed(s)
      BY <1>1, <1>2, <1>5 DEF Placed
    <2>3. Placed(t) \subseteq Placed(s)
      BY <1>3, <1>9, <1>10, <2>2 DEF Placed
    <2>4. QED
      BY <1>1, <2>1, <2>3, FS_Subset DEF Finite
  <1>17. Own(s) \subseteq Own(t) \cup {v}
    BY <1>5, <1>6 DEF Own
  <1>18. ASSUME NEW T \in SUBSET Views, Own(t) \subseteq T, Keeps(t, T)
         PROVE  Own(s) \subseteq T /\ Keeps(s, T)
    <2> DEFINE U == T \cup {w \in Views : ~ (r[w] < r[v])}
    <2>1. v \in U /\ NoView \notin U /\ r[v] \in Nat /\ r[p] \in Nat
      <3>1. r[v] \in Nat /\ r[p] \in Nat
        BY <1>2, <1>14
      <3>2. ~ (r[v] < r[v])
        BY <3>1
      <3>3. QED
        BY <1>2, <1>18, <3>1, <3>2, Constants
    <2>2. Own(s) \subseteq U
      BY <1>1, <1>17, <1>18, <2>1, OwnViews
    <2>3. ASSUME NEW w \in Views, s.parent[w] \in U PROVE w \in U
      <3>1. CASE s.parent[w] \in T
        BY <1>3, <1>18, <3>1 DEF Keeps
      <3>2. CASE s.parent[w] \notin T
        <4>1. /\ s.parent[w] \in Views /\ ~ (r[s.parent[w]] < r[v])
              /\ r[s.parent[w]] < r[w] /\ r[w] \in Nat /\ r[s.parent[w]] \in Nat
          BY <1>14, <2>3, <3>2, Constants DEF Ranks
        <4>2. QED
          BY <2>1, <4>1
      <3>3. QED
        BY <3>1, <3>2
    <2>4. ASSUME NEW w \in U, NEW y \in Pooled(s, w) PROVE y \in U
      <3>1. w \in Views /\ y \in Views
        BY <1>1 DEF Typed
      <3>2. CASE w \in T
        <4>1. Pooled(t, w) \subseteq T
          BY <1>18, <3>2 DEF Keeps
        <4>2. y \in T
          BY <1>9, <1>10, <3>1, <4>1
        <4>3. QED
          BY <3>1, <4>2
      <3>3. CASE w \notin T
        <4>1. ~ (r[w] < r[v]) /\ r[w] < r[y] /\ r[w] \in Nat /\ r[y] \in Nat
          BY <1>14, <3>1, <3>3 DEF Ranks
        <4>2. QED
          BY <2>1, <3>1, <4>1
      <3>4. QED
        BY <3>2, <3>3
    <2>5. Keeps(s, U)
      BY <2>3, <2>4 DEF Keeps
    <2>6. p \in Live(s)
      BY <1>1, <1>2, <1>5 DEF Clean
    <2>7. Live(s) \subseteq U
      <3> HIDE DEF U
      <3>1. QED
        BY <1>1, <2>1, <2>2, <2>5, LiveIs
    <2>8. r[p] < r[v]
      BY <1>2, <1>5, <1>14, Constants DEF Ranks
    <2>9. p \in T
      BY <2>6, <2>7, <2>8
    <2>10. v \in T
      BY <1>9, <1>18, <2>9 DEF Keeps
    <2>11. Own(s) \subseteq T
      BY <1>17, <1>18, <2>10
    <2>12. Keeps(s, T)
      <3>1. \A w \in Views : s.parent[w] \in T => w \in T
        BY <1>3, <1>18 DEF Keeps
      <3>2. \A w \in T : Pooled(t, w) \subseteq T
        BY <1>18 DEF Keeps
      <3>3. \A w \in T : Pooled(s, w) \subseteq T
        BY <1>9, <1>10, <1>18, <3>2
      <3>4. QED
        BY <3>1, <3>3 DEF Keeps
    <2>13. QED
      BY <2>11, <2>12
  <1>19. Clean(t)
    <2>1. \A w \in Views : t.parent[w] # NoView => t.parent[w] = s.parent[w]
      BY <1>3
    <2>2. \A w \in Views : Pooled(t, w) # {} => Pooled(s, w) # {} \/ s.parent[v] = w
      BY <1>5, <1>10
    <2>3. QED
      BY <1>1, <1>2, <1>11, <1>18, <2>1, <2>2, StaysClean
  <1>20. QED
    BY <1>11, <1>12, <1>13, <1>15, <1>16, <1>19 DEF Basic, Good, t, x, v, p

LEMMA RecycleGood ==
  ASSUME NEW s, Good(s), NEW e \in Elements
  PROVE  Good(RecycleView(s, e))
  <1> DEFINE v == s.view[e]
             p == s.parent[v]
             k == Key(e)
  <1>1. Basic(s) /\ v \in Views \cup {NoView}
    BY DEF Good, Basic, Typed
  <1>2. CASE v = NoView
    BY <1>2 DEF RecycleView
  <1>3. CASE v # NoView /\ (p = NoView \/ k = <<>>)
    <2>1. RecycleView(s, e) = Reclaimed([RemoveView(s, v) EXCEPT !.view[e] = NoView])
      BY <1>3 DEF RecycleView
    <2>2. QED
      BY <1>1, <1>3, <2>1, RemovedGood
  <1>4. CASE v # NoView /\ p # NoView /\ k # <<>>
    <2>1. RecycleView(s, e) = ToPool(s, e, k)
      BY <1>4 DEF RecycleView, ToPool
    <2> HIDE DEF k
    <2>2. QED
      BY <1>4, <2>1, PooledGood
  <1>5. QED
    BY <1>2, <1>3, <1>4

\* What is recycled for good goes to no pool.
LEMMA RemoveGood ==
  ASSUME NEW s, Good(s), NEW e \in Elements, s.view[e] # NoView
  PROVE  Good(RecycleView(RemoveView(s, s.view[e]), e))
  <1> DEFINE v == s.view[e]
             t == RemoveView(s, v)
  <1>1. Basic(s) /\ Typed(s) /\ v \in Views
    BY DEF Good, Basic, Typed
  <1>2. Basic(t)
    BY <1>1, RemovedGood
  <1>3. t.view = s.view /\ t.parent[v] = NoView
    BY <1>1 DEF RemoveView, Typed
  <1> HIDE DEF t
  <1>4. t.view[e] = v
    BY <1>3
  <1> HIDE DEF v
  <1>5. RecycleView(t, e) = Reclaimed([RemoveView(t, v) EXCEPT !.view[e] = NoView])
    BY <1>1, <1>3, <1>4, Constants DEF RecycleView
  <1>6. QED
    BY <1>1, <1>2, <1>5, RemovedGood DEF t, v

-----------------------------------------------------------------------------
(***************************************************************************)
(* Obtaining.                                                              *)
(***************************************************************************)

\* t is s after View v went to element e, below View p: a View that nobody had
\* or one of the pool of p.
Gives(s, t, e, v, p) ==
  /\ s.view[e] = NoView /\ e # Root
  /\ p \in Views /\ Above(e) \in Elements /\ p = s.view[Above(e)]
  /\ v \in Views \ {Page}
  /\ t = [view |-> t.view, parent |-> t.parent, pool |-> t.pool]
  /\ t.view = [s.view EXCEPT ![e] = v]
  /\ t.parent = [s.parent EXCEPT ![v] = p]
  /\ t.pool = [w \in Views |-> t.pool[w]]
  /\ \/ v \notin Live(s) /\ t.pool = s.pool
     \/ /\ v \in Pooled(s, p)
        /\ IsSeq(t.pool[p]) /\ OneEach(t.pool[p])
        /\ ViewsIn(t.pool[p]) = ViewsIn(s.pool[p]) \ {v}
        /\ \A w \in Views \ {p} : t.pool[w] = s.pool[w]

LEMMA GivesGood ==
  ASSUME NEW s, Good(s), NEW t, NEW e \in Elements, NEW v, NEW p, Gives(s, t, e, v, p)
  PROVE  Good(t)
  <1>1. Typed(s) /\ Clean(s) /\ PageApart(s) /\ One(s) /\ Ranked(s) /\ Finite(s)
    BY DEF Basic, Good
  <1>2. v \in Views /\ p \in Views /\ v # Page /\ e # Root
    BY DEF Gives
  <1>3. /\ t = [view |-> t.view, parent |-> t.parent, pool |-> t.pool]
        /\ t.view = [s.view EXCEPT ![e] = v]
        /\ t.parent = [s.parent EXCEPT ![v] = p]
        /\ t.pool = [w \in Views |-> t.pool[w]]
    BY DEF Gives
  <1>4. /\ \A f \in Elements : t.view[f] = IF f = e THEN v ELSE s.view[f]
        /\ \A w \in Views : t.parent[w] = IF w = v THEN p ELSE s.parent[w]
    BY <1>1, <1>2, <1>3 DEF Typed
  <1>5. /\ \A w \in Views : Pooled(s, w) = ViewsIn(s.pool[w])
        /\ \A w \in Views : Pooled(t, w) = ViewsIn(t.pool[w])
    BY DEF Pooled, ViewsIn
  <1>6. p \in Own(s)
    BY <1>2, Constants DEF Gives, Own
  <1>7. Own(s) \subseteq Live(s) /\ Keeps(s, Live(s))
    BY <1>1, LiveIs
  <1>8. v # p
    <2>1. CASE v \notin Live(s)
      BY <1>6, <1>7, <2>1
    <2>2. CASE v \in Pooled(s, p)
      <3>1. \A w \in Views : p \notin Pooled(s, w)
        BY <1>1 DEF One, Gives
      <3>2. QED
        BY <1>2, <2>2, <3>1
    <2>3. QED
      BY <2>1, <2>2 DEF Gives
  <1>9. \A f \in Elements : s.view[f] # v
    <2>1. CASE v \notin Live(s)
      BY <1>2, <1>7, <2>1, Constants DEF Own
    <2>2. CASE v \in Pooled(s, p)
      BY <1>1, <1>2, <2>2 DEF One
    <2>3. QED
      BY <2>1, <2>2 DEF Gives
  <1>10. \A w \in Views : IsSeq(t.pool[w]) /\ OneEach(t.pool[w])
    BY <1>1 DEF Gives, Typed, One
  <1>11. \A w \in Views : Pooled(t, w) = Pooled(s, w) \ {v}
    <2>1. CASE v \notin Live(s) /\ t.pool = s.pool
      <3>1. \A w \in Views : v \notin Pooled(s, w)
        BY <1>1, <1>7, <2>1 DEF Clean, Keeps
      <3>2. QED
        BY <1>5, <2>1, <3>1
    <2>2. CASE v \in Pooled(s, p) /\ ~ (v \notin Live(s) /\ t.pool = s.pool)
      <3>1. \A w \in Views \ {p} : v \notin Pooled(s, w)
        BY <1>1, <1>2, <2>2 DEF One
      <3>2. Pooled(t, p) = Pooled(s, p) \ {v}
        BY <1>2, <1>5, <2>2 DEF Gives
      <3>3. \A w \in Views \ {p} : Pooled(t, w) = Pooled(s, w)
        BY <1>5, <2>2 DEF Gives
      <3>4. QED
        BY <3>1, <3>2, <3>3
    <2>3. QED
      BY <2>1, <2>2 DEF Gives
  <1>12. Typed(t)
    <2>1. t.view \in [Elements -> Views \cup {NoView}]
      BY <1>1, <1>2, <1>3 DEF Typed
    <2>2. t.parent \in [Views -> Views \cup {NoView}]
      BY <1>1, <1>2, <1>3 DEF Typed
    <2>3. \A w \in Views : Pooled(t, w) \subseteq Views
      BY <1>1, <1>11 DEF Typed
    <2>4. QED
      BY <1>3, <1>10, <2>1, <2>2, <2>3 DEF Typed
  <1>13. PageApart(t)
    BY <1>1, <1>2, <1>4, <1>11, Constants DEF PageApart
  <1>14. One(t)
    <2>1. \A f, g \in Elements : t.view[f] = t.view[g] /\ t.view[f] # NoView => f = g
      BY <1>1, <1>4, <1>9 DEF One
    <2>2. \A w, y \in Views : w # y => Pooled(t, w) \cap Pooled(t, y) = {}
      BY <1>1, <1>11 DEF One
    <2>3. \A f \in Elements, w \in Views : t.view[f] \notin Pooled(t, w)
      BY <1>1, <1>4, <1>11 DEF One
    <2>4. QED
      BY <1>10, <2>1, <2>2, <2>3 DEF One
  <1>15. Ranked(t)
    <2>1. PICK r \in [Views -> Nat] : Ranks(r, s)
      BY <1>1 DEF Ranked
    <2>2. CASE v \notin Live(s)
      <3> DEFINE q == [r EXCEPT ![v] = r[p] + 1]
      <3>1. q \in [Views -> Nat] /\ q[v] = r[p] + 1 /\ \A w \in Views \ {v} : q[w] = r[w]
        BY <1>2, <2>1
      <3>2. Pooled(t, v) = {} /\ \A w \in Views : v \notin Pooled(t, w) /\ s.parent[w] # v
        BY <1>1, <1>2, <1>11, <2>2, Constants DEF Clean
      <3>3. r[p] < r[p] + 1
        BY <1>2, <2>1
      <3> HIDE DEF q
      <3>4. \A w \in Views : t.parent[w] # NoView => q[t.parent[w]] < q[w]
        <4>1. ASSUME NEW w \in Views, t.parent[w] # NoView, w # v
              PROVE  q[t.parent[w]] < q[w]
          <5>1. /\ t.parent[w] = s.parent[w] /\ s.parent[w] \in Views \ {v}
                /\ r[s.parent[w]] < r[w]
            BY <1>1, <1>4, <2>1, <3>2, <4>1 DEF Typed, Ranks
          <5>2. QED
            BY <3>1, <4>1, <5>1
        <4>2. q[t.parent[v]] < q[v]
          BY <1>2, <1>4, <1>8, <3>1, <3>3
        <4>3. QED
          BY <4>1, <4>2
      <3>5. \A w \in Views : \A y \in Pooled(t, w) : q[w] < q[y]
        <4>1. ASSUME NEW w \in Views, NEW y \in Pooled(t, w) PROVE q[w] < q[y]
          <5>1. w # v /\ y # v /\ y \in Views /\ y \in Pooled(s, w)
            BY <1>11, <1>12, <3>2 DEF Typed
          <5>2. QED
            BY <2>1, <3>1, <5>1 DEF Ranks
        <4>2. QED
          BY <4>1
      <3>6. QED
        BY <3>1, <3>4, <3>5 DEF Ranked, Ranks
    <2>3. CASE v \in Pooled(s, p)
      <3>1. r[p] < r[v]
        BY <1>2, <2>1, <2>3 DEF Ranks
      <3>2. Ranks(r, t)
        BY <1>4, <1>11, <2>1, <3>1 DEF Ranks
      <3>3. QED
        BY <3>2 DEF Ranked
    <2>4. QED
      BY <2>2, <2>3 DEF Gives
  <1>16. Finite(t)
    <2>1. Own(t) \subseteq Own(s) \cup {v}
      BY <1>4 DEF Own
    <2>2. Placed(t) \subseteq Placed(s) \cup {v}
      BY <1>4, <1>11 DEF Placed
    <2> DEFINE used == Own(s) \cup Placed(s)
    <2>3. Own(t) \cup Placed(t) \subseteq used \cup {v}
      BY <2>1, <2>2
    <2>4. IsFiniteSet(used)
      BY <1>1 DEF Finite
    <2> HIDE DEF used
    <2>5. IsFiniteSet(used \cup {v})
      BY <2>4, FS_AddElement
    <2>6. QED
      BY <2>3, <2>5, FS_Subset DEF Finite
  <1>17. Own(s) \subseteq Own(t) /\ v \in Own(t)
    BY <1>2, <1>4, Constants DEF Own, Gives
  <1>18. ASSUME NEW T \in SUBSET Views, Own(t) \subseteq T, Keeps(t, T)
         PROVE  Own(s) \subseteq T /\ Keeps(s, T)
    BY <1>4, <1>11, <1>17, <1>18 DEF Keeps
  <1>19. Clean(t)
    <2>1. \A w \in Views : t.parent[w] # NoView
            => t.parent[w] = s.parent[w] \/ {w, t.parent[w]} \subseteq Own(t)
      BY <1>4, <1>6, <1>17
    <2>2. \A w \in Views : Pooled(t, w) # {} => Pooled(s, w) # {}
      BY <1>11
    <2>3. QED
      BY <1>1, <1>12, <1>18, <2>1, <2>2, StaysClean
  <1>20. QED
    BY <1>12, <1>13, <1>14, <1>15, <1>16, <1>19 DEF Basic, Good

\* The root has the View of the context.
Roots(s, t) ==
  /\ s.view[Root] = NoView
  /\ t = [view |-> t.view, parent |-> t.parent, pool |-> t.pool]
  /\ t.view = [s.view EXCEPT ![Root] = Page]
  /\ t.parent = s.parent /\ t.pool = s.pool

LEMMA RootGood ==
  ASSUME NEW s, Good(s), NEW t, Roots(s, t)
  PROVE  Good(t)
  <1> USE DEF Roots
  <1>1. Typed(s) /\ Clean(s) /\ PageApart(s) /\ One(s) /\ Ranked(s) /\ Finite(s)
    BY DEF Basic, Good
  <1>2. \A f \in Elements : t.view[f] = IF f = Root THEN Page ELSE s.view[f]
    BY <1>1 DEF Typed
  <1>3. \A w \in Views : Pooled(t, w) = Pooled(s, w)
    BY DEF Pooled
  <1>4. Typed(t)
    <2>1. t.view \in [Elements -> Views \cup {NoView}]
      BY <1>1, Constants DEF Typed
    <2>2. QED
      BY <1>1, <1>3, <2>1 DEF Typed
  <1>5. PageApart(t)
    BY <1>1, <1>2, <1>3, Constants DEF PageApart
  <1>6. One(t)
    <2>1. \A f, g \in Elements : t.view[f] = t.view[g] /\ t.view[f] # NoView => f = g
      BY <1>1, <1>2 DEF One, PageApart
    <2>2. \A f \in Elements, w \in Views : t.view[f] \notin Pooled(t, w)
      BY <1>1, <1>2, <1>3 DEF One, PageApart
    <2>3. QED
      BY <1>1, <1>3, <2>1, <2>2 DEF One
  <1>7. Ranked(t)
    BY <1>1, <1>3 DEF Ranked, Ranks
  <1>8. Own(t) = Own(s) /\ Placed(t) = Placed(s)
    BY <1>2, <1>3, Constants DEF Own, Placed
  <1>9. Finite(t)
    BY <1>1, <1>8 DEF Finite
  <1>10. \A T \in SUBSET Views : Keeps(t, T) => Keeps(s, T)
    BY <1>3 DEF Keeps
  <1>11. Clean(t)
    BY <1>1, <1>3, <1>4, <1>8, <1>10, StaysClean
  <1>12. QED
    BY <1>4, <1>5, <1>6, <1>7, <1>9, <1>11 DEF Basic, Good

LEMMA AboveIs ==
  ASSUME NEW e \in Elements \ {Root}
  PROVE  Above(e) \in Elements /\ e \in Below(Above(e))
  BY RecyclingAssumption DEF Above, Parents

LEMMA ObtainIs ==
  ASSUME ~ IsFiniteSet(Views), NEW s, Good(s), NEW e \in Elements
  PROVE  \/ /\ Obtain(s, e) = s
            /\ s.view[e] # NoView \/ (e # Root /\ s.view[Above(e)] = NoView)
         \/ e = Root /\ Roots(s, Obtain(s, e))
         \/ \E v, p : Gives(s, Obtain(s, e), e, v, p)
  <1> DEFINE p == s.view[Above(e)]
             is == Matching(s, p, Key(e))
             t == Obtain(s, e)
  <1>1. Typed(s) /\ PageApart(s) /\ One(s) /\ Finite(s)
    BY DEF Basic, Good
  <1>2. s = [view |-> s.view, parent |-> s.parent, pool |-> s.pool]
    BY <1>1 DEF Typed
  <1>3. CASE s.view[e] # NoView \/ (e # Root /\ p = NoView)
    BY <1>3, Zenon DEF Obtain
  <1>4. CASE s.view[e] = NoView /\ e = Root
    <2>1. t = [s EXCEPT !.view[e] = Page]
      BY <1>4 DEF Obtain
    <2> DEFINE a == [s.view EXCEPT ![e] = Page]
    <2>2. t = [view |-> a, parent |-> s.parent, pool |-> s.pool]
      BY <1>2, <2>1
    <2>3. t.view = a /\ t.parent = s.parent /\ t.pool = s.pool
      BY <2>2
    <2> HIDE DEF t
    <2>4. Roots(s, t)
      BY <1>4, <2>2, <2>3 DEF Roots
    <2>5. QED
      BY <1>4, <2>4 DEF t
  <1>5. CASE s.view[e] = NoView /\ e # Root /\ p # NoView /\ is = {}
    <2> DEFINE v == Fresh(s)
               a == [s.view EXCEPT ![e] = v]
               b == [s.parent EXCEPT ![v] = p]
    <2>1. t = [s EXCEPT !.view[e] = v, !.parent[v] = p]
      BY <1>5 DEF Obtain
    <2>2. Above(e) \in Elements /\ p \in Views
      BY <1>1, <1>5, AboveIs DEF Typed
    <2>3. v \in Views \ Live(s)
      BY <1>1, FreshIs
    <2>4. v # Page
      BY <1>1, <2>3, LiveIs DEF Own
    <2> HIDE DEF v, p, t
    <2>5. t = [view |-> a, parent |-> b, pool |-> s.pool]
      BY <1>2, <2>1
    <2>6. t.view = a /\ t.parent = b /\ t.pool = s.pool
      BY <2>5
    <2>7. p = s.view[Above(e)]
      BY DEF p
    <2>8. t.pool = [w \in Views |-> t.pool[w]]
      BY <1>1, <2>6 DEF Typed
    <2>9. Gives(s, t, e, v, p)
      BY <1>5, <2>2, <2>3, <2>4, <2>5, <2>6, <2>7, <2>8 DEF Gives
    <2>10. QED
      BY <2>9 DEF t
  <1>6. ASSUME s.view[e] = NoView, e # Root, p # NoView, is # {}
        PROVE  \E w, q : Gives(s, t, e, w, q)
    <2> DEFINE i == CHOOSE j \in is : \A k \in is : j <= k
               v == s.pool[p][i].view
               a == [s.view EXCEPT ![e] = v]
               b == [s.parent EXCEPT ![v] = p]
               c == [s.pool EXCEPT ![p] = RemoveAt(s.pool[p], i)]
    <2>1. t = [Take(s, p, i) EXCEPT !.view[e] = v, !.parent[v] = p]
      BY <1>6 DEF Obtain
    <2>2. Above(e) \in Elements /\ p \in Views
      BY <1>1, <1>6, AboveIs DEF Typed
    <2>3. /\ IsSeq(s.pool[p]) /\ OneEach(s.pool[p])
          /\ Pooled(s, p) = ViewsIn(s.pool[p])
      BY <1>1, <2>2 DEF Typed, One, Pooled, ViewsIn
    <2>4. i \in DOMAIN s.pool[p]
      <3>1. PICK S : s.pool[p] \in Seq(S)
        BY <2>3 DEF IsSeq
      <3>2. DOMAIN s.pool[p] = 1 .. Len(s.pool[p]) /\ Len(s.pool[p]) \in Nat
        BY <3>1
      <3>3. is \in SUBSET Nat /\ is \subseteq DOMAIN s.pool[p]
        BY <3>2 DEF Matching
      <3> HIDE DEF is
      <3>4. i \in is
        BY <1>6, <3>3, Least
      <3>5. QED
        BY <3>3, <3>4
    <2> HIDE DEF i
    <2>5. v \in Pooled(s, p) /\ v \in Views /\ v # Page
      BY <1>1, <2>2, <2>4 DEF Pooled, Typed, PageApart
    <2>6. /\ IsSeq(RemoveAt(s.pool[p], i)) /\ OneEach(RemoveAt(s.pool[p], i))
          /\ ViewsIn(RemoveAt(s.pool[p], i)) = ViewsIn(s.pool[p]) \ {s.pool[p][i].view}
      BY <2>3, <2>4, RemovePool
    <2>7. ViewsIn(RemoveAt(s.pool[p], i)) = ViewsIn(s.pool[p]) \ {v}
      BY <2>6
    <2>8. Take(s, p, i) = [view |-> s.view, parent |-> s.parent, pool |-> c]
      <3> HIDE DEF v, p, is, t
      <3>1. Take(s, p, i) = [s EXCEPT !.pool = c]
        BY <1>2 DEF Take
      <3> HIDE DEF c
      <3>2. QED
        BY <1>2, <3>1
    <2>8a. t = [view |-> a, parent |-> b, pool |-> c]
      <3> DEFINE u == Take(s, p, i)
      <3>1. t = [u EXCEPT !.view = [u.view EXCEPT ![e] = v],
                          !.parent = [u.parent EXCEPT ![v] = p]]
        BY <2>1
      <3> HIDE DEF u, v, p, is, t, c
      <3>2. u = [view |-> s.view, parent |-> s.parent, pool |-> c]
        BY <2>8 DEF u
      <3>3. u.view = s.view /\ u.parent = s.parent
        BY <3>2
      <3>4. t = [u EXCEPT !.view = a, !.parent = b]
        BY <3>1, <3>3
      <3> HIDE DEF a, b
      <3>5. QED
        BY <3>2, <3>4
    <2> HIDE DEF v, p, t, is
    <2>9. t.view = a /\ t.parent = b /\ t.pool = c
      <3> HIDE DEF a, b, c
      <3>1. QED
        BY <2>8a
    <2>10. /\ t.pool = [w \in Views |-> t.pool[w]]
           /\ t.pool[p] = RemoveAt(s.pool[p], i)
           /\ \A w \in Views \ {p} : t.pool[w] = s.pool[w]
      <3>1. s.pool = [w \in Views |-> s.pool[w]]
        BY <1>1 DEF Typed
      <3>2. c = [w \in Views |-> IF w = p THEN RemoveAt(s.pool[p], i) ELSE s.pool[w]]
        BY <3>1, <2>2, Zenon
      <3> HIDE DEF a, b, c
      <3>3. t.pool = [w \in Views |-> IF w = p THEN RemoveAt(s.pool[p], i) ELSE s.pool[w]]
        BY <2>9, <3>2, Zenon
      <3> HIDE DEF p
      <3>4. QED
        BY <2>2, <3>3, Zenon
    <2>11. p = s.view[Above(e)]
      BY DEF p
    <2>12. Gives(s, t, e, v, p)
      BY Zenon, <1>6, <2>2, <2>5, <2>6, <2>7, <2>8a, <2>9, <2>10, <2>11 DEF Gives
    <2>13. QED
      BY <2>12, Zenon
  <1> HIDE DEF p, is
  <1>7. QED
    BY <1>3, <1>4, <1>5, <1>6

LEMMA ObtainGood ==
  ASSUME ~ IsFiniteSet(Views), NEW s, Good(s), NEW e \in Elements
  PROVE  Good(Obtain(s, e))
  <1> HIDE DEF Good
  <1>1. QED
    BY ObtainIs, RootGood, GivesGood

-----------------------------------------------------------------------------
(***************************************************************************)
(* Walks.                                                                  *)
(***************************************************************************)

Steps == [op : {"obtain", "sweep", "recycleView", "remove"}, of : Elements]

LEMMA DoGood ==
  ASSUME ~ IsFiniteSet(Views), NEW s, Good(s), NEW step \in Steps
  PROVE  Good(Do(s, step))
  <1>1. step.of \in Elements /\ step.op \in {"obtain", "sweep", "recycleView", "remove"}
    BY DEF Steps
  <1>2. CASE step.op = "obtain"
    BY <1>1, <1>2, ObtainGood DEF Do
  <1>3. CASE step.op = "sweep"
    BY <1>1, <1>3, SweepGood DEF Do
  <1>4. CASE step.op = "recycleView"
    BY <1>1, <1>4, RecycleGood DEF Do
  <1>5. CASE step.op = "remove"
    BY <1>1, <1>5, RemoveGood DEF Do
  <1>6. QED
    BY <1>1, <1>2, <1>3, <1>4, <1>5

\* The function that Run defines by recursion: what the first i steps give.
Afters(F, s, steps, n) ==
  F = [i \in 0 .. n |-> IF i = 0 THEN s ELSE Do(F[i - 1], steps[i])]

LEMMA AftersExist ==
  ASSUME NEW s, NEW steps, NEW N \in Nat
  PROVE  \E F : Afters(F, s, steps, N)
  <1> DEFINE Bad == {n \in Nat : ~ \E F : Afters(F, s, steps, n)}
  <1> SUFFICES ASSUME N \in Bad PROVE FALSE
    OBVIOUS
  <1>1. PICK n \in Bad : \A m \in Bad : n <= m
    <2>1. Bad \in SUBSET Nat /\ Bad # {}
      OBVIOUS
    <2> HIDE DEF Bad
    <2>2. QED
      BY <2>1, Least
  <1>2. n \in Nat /\ ~ \E F : Afters(F, s, steps, n)
    OBVIOUS
  <1>3. CASE n = 0
    <2>1. Afters([i \in 0 .. 0 |-> s], s, steps, 0)
      BY DEF Afters
    <2>2. QED
      BY <1>2, <1>3, <2>1
  <1>4. CASE n # 0
    <2>1. n - 1 \in Nat /\ ~ (n <= n - 1)
      BY <1>2, <1>4
    <2>2. n - 1 \notin Bad
      BY <1>1, <2>1
    <2>3. PICK G : Afters(G, s, steps, n - 1)
      BY <2>1, <2>2
    <2> DEFINE step(i) == IF i = 0 THEN s ELSE Do(G[i - 1], steps[i])
               F == [i \in 0 .. n |-> step(i)]
    <2>4. \A i \in 0 .. n - 1 : G[i] = step(i)
      BY <2>3 DEF Afters
    <2>5. \A i \in 0 .. n : i # 0 => F[i - 1] = G[i - 1]
      <3>1. \A i \in 0 .. n : i # 0 => i - 1 \in 0 .. n - 1 /\ i - 1 \in 0 .. n
        BY <1>2
      <3>2. \A j \in 0 .. n : F[j] = step(j)
        OBVIOUS
      <3> HIDE DEF F, step
      <3>3. QED
        BY <2>4, <3>1, <3>2
    <2>6. \A i \in 0 .. n : F[i] = IF i = 0 THEN s ELSE Do(F[i - 1], steps[i])
      BY <2>5
    <2>7. F = [i \in 0 .. n |-> F[i]]
      OBVIOUS
    <2> HIDE DEF F
    <2>8. Afters(F, s, steps, n)
      BY <2>6, <2>7 DEF Afters
    <2>9. QED
      BY <1>2, <2>8
  <1>5. QED
    BY <1>3, <1>4

\* What Visited does at f, with F for what is below it.
Visit(F, op, inner, other, last, f) ==
  <<Step(op, f)>>
    \o FlattenSeq([i \in DOMAIN Children[f] |->
         IF Children[f][i] \in inner THEN F[Children[f][i]]
         ELSE other[Children[f][i]]])
    \o last[f]

LEMMA ChildrenIn ==
  ASSUME NEW f \in Elements
  PROVE  /\ DOMAIN Children[f] = 1 .. Len(Children[f]) /\ Len(Children[f]) \in Nat
         /\ \A i \in DOMAIN Children[f] : Children[f][i] \in Elements
                                          /\ Children[f][i] \in Below(f)
  <1>1. Children[f] \in Seq(Elements)
    BY RecyclingAssumption
  <1>2. QED
    BY <1>1 DEF Below

Visits(F, op, inner, other, last) ==
  F = [f \in Elements |-> Visit(F, op, inner, other, last, f)]

LEMMA VisitsExist ==
  ASSUME NEW op, NEW inner, NEW other, NEW last
  PROVE  \E F : Visits(F, op, inner, other, last)
  <1> DEFINE N == Cardinality(Elements)
  <1>1. N \in Nat
    BY Constants, FS_CardinalityType
  <1>2. PICK height \in [Elements -> 0 .. N] :
          \A e \in Elements : \A c \in Below(e) : height[c] < height[e]
    BY RecyclingAssumption
  <1> HIDE DEF N
  <1> DEFINE V(F, f) == Visit(F, op, inner, other, last, f)
             Up(F, n) == F = [f \in Elements |-> IF height[f] < n THEN V(F, f) ELSE <<>>]
             Bad == {n \in Nat : ~ \E F : Up(F, n)}
  <1>3. ASSUME NEW F, NEW G, NEW f \in Elements, \A c \in Below(f) : F[c] = G[c]
        PROVE  V(F, f) = V(G, f)
    <2>1. \A i \in DOMAIN Children[f] : F[Children[f][i]] = G[Children[f][i]]
      BY <1>3, ChildrenIn
    <2>2. [i \in DOMAIN Children[f] |->
             IF Children[f][i] \in inner THEN F[Children[f][i]] ELSE other[Children[f][i]]]
          = [i \in DOMAIN Children[f] |->
             IF Children[f][i] \in inner THEN G[Children[f][i]] ELSE other[Children[f][i]]]
      BY <2>1
    <2>3. QED
      BY <2>2 DEF Visit
  <1>4. Bad = {}
    <2> SUFFICES ASSUME Bad # {} PROVE FALSE
      OBVIOUS
    <2>1. PICK n \in Bad : \A m \in Bad : n <= m
      <3>1. Bad \in SUBSET Nat
        OBVIOUS
      <3> HIDE DEF Bad
      <3>2. QED
        BY <3>1, Least
    <2>2. n \in Nat /\ ~ \E F : Up(F, n)
      OBVIOUS
    <2> HIDE DEF V
    <2>3. n # 0
      <3>1. ASSUME n = 0 PROVE Up([f \in Elements |-> <<>>], n)
        BY <1>2, <3>1
      <3>2. QED
        BY <2>2, <3>1
    <2>4. n - 1 \in Nat /\ ~ (n <= n - 1)
      BY <2>2, <2>3
    <2>5. PICK G : Up(G, n - 1)
      BY <2>1, <2>4
    <2> DEFINE F == [f \in Elements |-> IF height[f] < n THEN V(G, f) ELSE <<>>]
    <2>6. ASSUME NEW f \in Elements, height[f] < n PROVE V(F, f) = V(G, f)
      <3>1. ASSUME NEW c \in Below(f) PROVE F[c] = G[c]
        <4>1. c \in Elements
          BY ChildrenIn DEF Below
        <4>2. height[c] < n - 1 /\ height[c] < n
          BY <1>1, <1>2, <2>2, <2>6, <4>1
        <4>3. F[c] = V(G, c)
          BY <4>1, <4>2
        <4>4. G[c] = V(G, c)
          BY <2>5, <4>1, <4>2
        <4>5. QED
          BY <4>3, <4>4
      <3> HIDE DEF F
      <3>2. QED
        BY <1>3, <3>1
    <2>7. F = [f \in Elements |-> IF height[f] < n THEN V(F, f) ELSE <<>>]
      BY <2>6
    <2> HIDE DEF F
    <2>8. QED
      BY <2>2, <2>7
  <1>5. N + 1 \in Nat
    BY <1>1
  <1>6. PICK F : Up(F, N + 1)
    BY <1>4, <1>5
  <1>7. \A f \in Elements : height[f] < N + 1
    BY <1>1, <1>2
  <1> HIDE DEF V
  <1>8. F = [f \in Elements |-> V(F, f)]
    BY <1>6, <1>7
  <1>9. QED
    BY <1>8 DEF V, Visits

\* Visited has a property at every element that each of its steps has when it
\* does below.
LEMMA VisitedIn ==
  ASSUME NEW C, NEW op, NEW inner, NEW other, NEW last, NEW e \in Elements,
         \A F, f : f \in Elements /\ (\A c \in Below(f) : F[c] \in C[c])
                     => Visit(F, op, inner, other, last, f) \in C[f]
  PROVE  Visited(e, op, inner, other, last) \in C[e]
  <1> DEFINE N == Cardinality(Elements)
             F == CHOOSE F : Visits(F, op, inner, other, last)
  <1>1. N \in Nat
    BY Constants, FS_CardinalityType
  <1>2. PICK height \in [Elements -> 0 .. N] :
          \A p \in Elements : \A c \in Below(p) : height[c] < height[p]
    BY RecyclingAssumption
  <1> HIDE DEF N
  <1>3. Visited(e, op, inner, other, last) = F[e]
    BY DEF Visited, Visit, Visits
  <1>4. Visits(F, op, inner, other, last)
    BY VisitsExist
  <1> HIDE DEF F
  <1>5. \A f \in Elements : F[f] = Visit(F, op, inner, other, last, f)
    BY <1>4 DEF Visits
  <1> DEFINE bad == {f \in Elements : F[f] \notin C[f]}
             Bad == {height[f] : f \in bad}
  <1>6. bad = {}
    <2> SUFFICES ASSUME bad # {} PROVE FALSE
      OBVIOUS
    <2>1. PICK n \in Bad : \A m \in Bad : n <= m
      <3>1. Bad \in SUBSET Nat /\ Bad # {}
        BY <1>1, <1>2
      <3> HIDE DEF Bad
      <3>2. QED
        BY <3>1, Least
    <2>2. PICK f \in bad : n = height[f]
      OBVIOUS
    <2>3. ASSUME NEW c \in Below(f) PROVE F[c] \in C[c]
      <3>1. c \in Elements
        BY ChildrenIn DEF Below
      <3>2. ~ (n <= height[c])
        BY <1>1, <1>2, <2>2, <3>1
      <3>3. QED
        BY <2>1, <3>1, <3>2
    <2>4. Visit(F, op, inner, other, last, f) \in C[f]
      BY <2>3
    <2>5. QED
      BY <1>5, <2>4
  <1>7. QED
    BY <1>3, <1>6

-----------------------------------------------------------------------------
(***************************************************************************)
(* The order of the steps of a walk.                                       *)
(***************************************************************************)

Recycling(step) == step.op \in {"recycleView", "remove"}

\* From k to j there is nothing but recycling.
Through(q, k, j) == \A m \in k .. j : Recycling(q[m])

\* What is obtained is swept later.
SweptLater(q, i) ==
  q[i].op = "obtain"
    => \E j \in DOMAIN q : i < j /\ q[j] = Step("sweep", q[i].of)

\* With an element, what is below it and not in a block is recycled.
ChildrenFollow(q, i) ==
  Recycling(q[i])
    => \A d \in Below(q[i].of) \ InBlock :
         \E j \in DOMAIN q : i < j /\ q[j].of = d /\ Through(q, i, j)

\* The parent of what is recycled was just recycled too, or is swept later, here
\* or after these steps when it is in up.
ParentKnown(q, i, up) ==
  q[i].op = "recycleView"
    => \/ Above(q[i].of) \in up
       \/ \E j \in DOMAIN q : i < j /\ q[j] = Step("sweep", Above(q[i].of))
       \/ \E k \in DOMAIN q : k < i /\ q[k].of = Above(q[i].of) /\ Through(q, k, i)

Lawful(q, i, up) == SweptLater(q, i) /\ ChildrenFollow(q, i) /\ ParentKnown(q, i, up)

Laws(up) == {q \in Seq(Steps) : \A i \in DOMAIN q : Lawful(q, i, up)}

LEMMA AboveBelow ==
  ASSUME NEW p \in Elements, NEW c \in Below(p)
  PROVE  c \in Elements \ {Root} /\ Above(c) = p
  <1>1. c \in Elements \ {Root}
    BY ChildrenIn, RecyclingAssumption DEF Below
  <1>2. QED
    BY <1>1, RecyclingAssumption DEF Above, Parents

LEMMA SeqIs ==
  ASSUME NEW q \in Seq(Steps)
  PROVE  /\ Len(q) \in Nat /\ DOMAIN q = 1 .. Len(q)
         /\ \A i \in DOMAIN q : q[i] \in Steps
  OBVIOUS

\* a stands in q, n places further.
Within(a, q, n) == \A i \in DOMAIN a : i + n \in DOMAIN q /\ q[i + n] = a[i]

LEMMA ShiftedThrough ==
  ASSUME NEW a \in Seq(Steps), NEW q \in Seq(Steps), NEW n \in Nat, Within(a, q, n),
         NEW k \in DOMAIN a, NEW j \in DOMAIN a, Through(a, k, j)
  PROVE  Through(q, k + n, j + n)
  <1> SUFFICES ASSUME NEW m \in (k + n) .. (j + n) PROVE Recycling(q[m])
    BY DEF Through
  <1>1. m - n \in k .. j /\ m - n \in DOMAIN a /\ (m - n) + n = m
    BY SeqIs
  <1>2. q[m] = a[m - n]
    BY <1>1 DEF Within
  <1>3. QED
    BY <1>1, <1>2 DEF Through

LEMMA Shifted ==
  ASSUME NEW a \in Seq(Steps), NEW q \in Seq(Steps), NEW n \in Nat, Within(a, q, n),
         NEW i \in DOMAIN a, NEW up, Lawful(a, i, up)
  PROVE  Lawful(q, i + n, up)
  <1>1. /\ DOMAIN a \subseteq Nat
        /\ \A j \in DOMAIN a : j + n \in DOMAIN q /\ q[j + n] = a[j]
        /\ \A j \in DOMAIN a : i < j => i + n < j + n
        /\ \A j \in DOMAIN a : j < i => j + n < i + n
    BY SeqIs DEF Within
  <1>2. SweptLater(q, i + n)
    <2> SUFFICES ASSUME a[i].op = "obtain"
                 PROVE  \E j \in DOMAIN q : i + n < j /\ q[j] = Step("sweep", a[i].of)
      BY <1>1 DEF SweptLater
    <2>1. PICK j \in DOMAIN a : i < j /\ a[j] = Step("sweep", a[i].of)
      BY DEF Lawful, SweptLater
    <2>2. QED
      BY <1>1, <2>1
  <1>3. ChildrenFollow(q, i + n)
    <2> SUFFICES ASSUME Recycling(a[i]), NEW d \in Below(a[i].of) \ InBlock
                 PROVE  \E j \in DOMAIN q : /\ i + n < j /\ q[j].of = d
                                            /\ Through(q, i + n, j)
      BY <1>1 DEF ChildrenFollow
    <2>1. PICK j \in DOMAIN a : i < j /\ a[j].of = d /\ Through(a, i, j)
      BY DEF Lawful, ChildrenFollow
    <2>2. Through(q, i + n, j + n)
      BY <2>1, ShiftedThrough
    <2>3. QED
      BY <1>1, <2>1, <2>2
  <1>4. ParentKnown(q, i + n, up)
    <2> DEFINE p == Above(a[i].of)
    <2> SUFFICES ASSUME a[i].op = "recycleView"
                 PROVE  \/ p \in up
                        \/ \E j \in DOMAIN q : i + n < j /\ q[j] = Step("sweep", p)
                        \/ \E k \in DOMAIN q : /\ k < i + n /\ q[k].of = p
                                               /\ Through(q, k, i + n)
      BY <1>1 DEF ParentKnown
    <2>1. \/ p \in up
          \/ \E j \in DOMAIN a : i < j /\ a[j] = Step("sweep", p)
          \/ \E k \in DOMAIN a : k < i /\ a[k].of = p /\ Through(a, k, i)
      BY DEF Lawful, ParentKnown
    <2> HIDE DEF p
    <2>2. ASSUME NEW j \in DOMAIN a, i < j, a[j] = Step("sweep", p)
          PROVE  \E m \in DOMAIN q : i + n < m /\ q[m] = Step("sweep", p)
      BY <1>1, <2>2
    <2>3. ASSUME NEW k \in DOMAIN a, k < i, a[k].of = p, Through(a, k, i)
          PROVE  \E m \in DOMAIN q : m < i + n /\ q[m].of = p /\ Through(q, m, i + n)
      <3>1. Through(q, k + n, i + n)
        BY <2>3, ShiftedThrough
      <3>2. QED
        BY <1>1, <2>3, <3>1
    <2>4. QED
      BY <2>1, <2>2, <2>3
  <1>5. QED
    BY <1>2, <1>3, <1>4 DEF Lawful

\* The places of two sequences in the one they are joined to.
LEMMA JoinedAt ==
  ASSUME NEW a \in Seq(Steps), NEW b \in Seq(Steps)
  PROVE  /\ a \o b \in Seq(Steps) /\ Len(a \o b) = Len(a) + Len(b)
         /\ Within(a, a \o b, 0) /\ Within(b, a \o b, Len(a))
         /\ \A i \in DOMAIN (a \o b) :
              i \in DOMAIN a \/ (\E j \in DOMAIN b : i = j + Len(a))
  <1> DEFINE r == a \o b
             m == Len(a)
             n == Len(b)
  <1>1. /\ m \in Nat /\ n \in Nat /\ r \in Seq(Steps) /\ Len(r) = m + n
        /\ DOMAIN a = 1 .. m /\ DOMAIN b = 1 .. n /\ DOMAIN r = 1 .. m + n
        /\ \A i \in 1 .. m + n : r[i] = IF i <= m THEN a[i] ELSE b[i - m]
    OBVIOUS
  <1> HIDE DEF r, m, n
  <1>2. \A i \in 1 .. m : i + 0 \in 1 .. m + n /\ i + 0 = i /\ i <= m
    BY <1>1
  <1>3. Within(a, r, 0)
    BY <1>1, <1>2 DEF Within
  <1>4. \A i \in 1 .. n : i + m \in 1 .. m + n /\ ~ (i + m <= m) /\ (i + m) - m = i
    BY <1>1
  <1>5. Within(b, r, m)
    BY <1>1, <1>4 DEF Within
  <1>6. \A i \in 1 .. m + n : i \notin 1 .. m => i - m \in 1 .. n /\ i = (i - m) + m
    BY <1>1
  <1>7. QED
    BY <1>1, <1>3, <1>5, <1>6 DEF r, m, n

LEMMA FirstAt ==
  ASSUME NEW s \in Steps, NEW x \in Seq(Steps)
  PROVE  /\ <<s>> \o x \in Seq(Steps) /\ Len(<<s>> \o x) = Len(x) + 1
         /\ 1 \in DOMAIN (<<s>> \o x) /\ (<<s>> \o x)[1] = s
         /\ Within(x, <<s>> \o x, 1)
         /\ \A i \in DOMAIN (<<s>> \o x) : i = 1 \/ (\E j \in DOMAIN x : i = j + 1)
  <1> DEFINE q == <<s>> \o x
             n == Len(x)
  <1>1. /\ n \in Nat /\ DOMAIN x = 1 .. n
        /\ q \in Seq(Steps) /\ Len(q) = n + 1 /\ DOMAIN q = 1 .. n + 1 /\ q[1] = s
        /\ \A i \in 1 .. n : q[i + 1] = x[i]
    OBVIOUS
  <1> HIDE DEF q, n
  <1>2. \A i \in 1 .. n : i + 1 \in 1 .. n + 1
    BY <1>1
  <1>3. Within(x, q, 1)
    BY <1>1, <1>2 DEF Within
  <1>4. \A i \in 1 .. n + 1 : i = 1 \/ (i - 1 \in 1 .. n /\ i = (i - 1) + 1)
    BY <1>1
  <1>5. 1 \in 1 .. n + 1
    BY <1>1
  <1>6. \A i \in DOMAIN q : i = 1 \/ (\E j \in DOMAIN x : i = j + 1)
    BY <1>1, <1>4
  <1>7. QED
    BY <1>1, <1>3, <1>5, <1>6 DEF q, n

LEMMA LastAt ==
  ASSUME NEW s \in Steps, NEW y \in Seq(Steps)
  PROVE  /\ y \o <<s>> \in Seq(Steps) /\ Len(y \o <<s>>) = Len(y) + 1
         /\ Len(y) + 1 \in DOMAIN (y \o <<s>>) /\ (y \o <<s>>)[Len(y) + 1] = s
         /\ Within(y, y \o <<s>>, 0)
         /\ \A i \in DOMAIN (y \o <<s>>) : i \in DOMAIN y \/ i = Len(y) + 1
  <1> DEFINE q == y \o <<s>>
             n == Len(y)
  <1>1. /\ n \in Nat /\ DOMAIN y = 1 .. n
        /\ q \in Seq(Steps) /\ Len(q) = n + 1 /\ DOMAIN q = 1 .. n + 1 /\ q[n + 1] = s
        /\ \A i \in 1 .. n : q[i] = y[i]
    OBVIOUS
  <1> HIDE DEF q, n
  <1>2. \A i \in 1 .. n : i + 0 = i /\ i \in 1 .. n + 1
    BY <1>1
  <1>3. Within(y, q, 0)
    BY <1>1, <1>2 DEF Within
  <1>4. n + 1 \in 1 .. n + 1 /\ \A i \in 1 .. n + 1 : i \in 1 .. n \/ i = n + 1
    BY <1>1
  <1>5. QED
    BY <1>1, <1>3, <1>4 DEF q, n

LEMMA LawsJoin ==
  ASSUME NEW up, NEW a \in Laws(up), NEW b \in Laws(up)
  PROVE  a \o b \in Laws(up)
  <1>1. /\ a \in Seq(Steps) /\ \A i \in DOMAIN a : Lawful(a, i, up)
        /\ b \in Seq(Steps) /\ \A i \in DOMAIN b : Lawful(b, i, up)
    BY DEF Laws
  <1>2. a \o b \in Seq(Steps) /\ Within(a, a \o b, 0) /\ Within(b, a \o b, Len(a))
    BY <1>1, JoinedAt
  <1>3. ASSUME NEW i \in DOMAIN (a \o b) PROVE Lawful(a \o b, i, up)
    <2>1. CASE i \in DOMAIN a
      <3>1. Lawful(a \o b, i + 0, up)
        BY <1>1, <1>2, <2>1, Shifted
      <3>2. i + 0 = i
        BY <1>1, <2>1, SeqIs
      <3>3. QED
        BY <3>1, <3>2
    <2>2. ASSUME NEW j \in DOMAIN b, i = j + Len(a) PROVE Lawful(a \o b, i, up)
      <3>1. Len(a) \in Nat
        BY <1>1
      <3>2. QED
        BY <1>1, <1>2, <2>2, <3>1, Shifted
    <2>3. QED
      BY <1>1, <2>1, <2>2, JoinedAt
  <1>4. QED
    BY <1>2, <1>3 DEF Laws

LEMMA LawsEmpty == \A up : <<>> \in Laws(up)
  BY DEF Laws

\* The steps that recycle f and what is below it.
RecyclingOf(op, f) ==
  {q \in Laws({Above(f)}) : /\ q # <<>> /\ q[1].of = f
                            /\ \A i \in DOMAIN q : q[i].op = op}

LEMMA RecyclingVisit ==
  ASSUME NEW op \in {"recycleView", "remove"}, NEW inner, Elements \ InBlock \subseteq inner,
         NEW F, NEW f \in Elements, \A c \in Below(f) : F[c] \in RecyclingOf(op, c)
  PROVE  Visit(F, op, inner, Nothing, Nothing, f) \in RecyclingOf(op, f)
  <1> DEFINE p == [i \in DOMAIN Children[f] |->
                     IF Children[f][i] \in inner THEN F[Children[f][i]]
                     ELSE Nothing[Children[f][i]]]
             C == {q \in Laws({f}) : \A i \in DOMAIN q : q[i].op = op}
             x == FlattenSeq(p)
             first == Step(op, f)
             q == <<first>> \o x
  <1>1. \A i \in DOMAIN Children[f] : p[i] \in C
    <2>1. ASSUME NEW c \in Below(f) PROVE F[c] \in C
      BY <2>1, AboveBelow DEF RecyclingOf
    <2>2. <<>> \in C
      BY LawsEmpty
    <2>3. \A c \in Elements : Nothing[c] = <<>>
      BY DEF Nothing
    <2> HIDE DEF C
    <2>4. QED
      BY <2>1, <2>2, <2>3, ChildrenIn
  <1>2. DOMAIN p = 1 .. Len(Children[f]) /\ Len(Children[f]) \in Nat
    BY ChildrenIn
  <1>3. p \in Seq(C)
    <2> DEFINE n == Len(Children[f])
    <2>1. p \in [1 .. n -> C]
      <3> HIDE DEF C
      <3>1. QED
        BY <1>1, <1>2
    <2> HIDE DEF p, n, C
    <2>2. n \in Nat
      BY <1>2 DEF n
    <2>3. QED
      BY <2>1, <2>2
  <1>4. \A a, b \in C : a \o b \in C
    <2> SUFFICES ASSUME NEW a \in C, NEW b \in C PROVE a \o b \in C
      OBVIOUS
    <2>1. a \in Laws({f}) /\ b \in Laws({f}) /\ a \o b \in Laws({f})
      BY LawsJoin
    <2>2. a \in Seq(Steps) /\ b \in Seq(Steps)
      BY <2>1 DEF Laws
    <2>3. \A i \in DOMAIN (a \o b) : (a \o b)[i].op = op
      <3>1. /\ \A i \in DOMAIN (a \o b) :
                 i \in DOMAIN a \/ (\E j \in DOMAIN b : i = j + Len(a))
            /\ Within(a, a \o b, 0) /\ Within(b, a \o b, Len(a))
        BY <2>2, JoinedAt
      <3>2. \A i \in DOMAIN a : (a \o b)[i] = a[i]
        <4>1. \A i \in DOMAIN a : i + 0 = i
          BY <2>2, SeqIs
        <4>2. QED
          BY <3>1, <4>1 DEF Within
      <3>3. \A j \in DOMAIN b : (a \o b)[j + Len(a)] = b[j]
        BY <3>1 DEF Within
      <3>4. QED
        BY <3>1, <3>2, <3>3
    <2>4. QED
      BY <2>1, <2>3
  <1>5. x \in C
    <2>1. <<>> \in C
      BY LawsEmpty
    <2> HIDE DEF C, p
    <2>2. QED
      BY <1>3, <1>4, <2>1, FlattenedIn
  <1>6. x \in Laws({f}) /\ x \in Seq(Steps) /\ \A i \in DOMAIN x : x[i].op = op
    BY <1>5 DEF Laws
  <1>7. ASSUME NEW d \in Below(f) \ InBlock PROVE \E k \in DOMAIN x : x[k].of = d
    <2>1. PICK i \in DOMAIN Children[f] : d = Children[f][i]
      BY DEF Below
    <2>2. p[i] = F[d]
      BY <2>1, ChildrenIn
    <2>3. F[d] # <<>> /\ F[d][1].of = d /\ F[d] \in Seq(Steps)
      BY DEF RecyclingOf, Laws
    <2>4. p \in Seq(Seq(Steps))
      <3>1. C \subseteq Seq(Steps)
        BY DEF Laws
      <3> HIDE DEF C, p
      <3>2. QED
        BY <1>3, <3>1
    <2>5. ToSet(x) = UNION {ToSet(p[j]) : j \in DOMAIN p}
      <3> HIDE DEF p
      <3>1. QED
        BY <2>4, Flattened
    <2>6. F[d][1] \in ToSet(F[d])
      BY <2>3 DEF ToSet
    <2>7. i \in DOMAIN p
      BY <2>1
    <2> HIDE DEF p, x
    <2>8. F[d][1] \in ToSet(x)
      BY <2>2, <2>5, <2>6, <2>7
    <2>9. QED
      BY <2>3, <2>8 DEF ToSet
  <1>8. Visit(F, op, inner, Nothing, Nothing, f) = q
    <2>1. Nothing[f] = <<>>
      BY DEF Nothing
    <2>2. Visit(F, op, inner, Nothing, Nothing, f) = <<first>> \o x \o <<>>
      BY <2>1 DEF Visit
    <2> HIDE DEF x, first
    <2>3. first \in Steps
      BY DEF first, Step, Steps
    <2>4. QED
      BY <1>6, <2>2, <2>3
  <1> HIDE DEF p, C, x
  <1>9. first.op = op /\ first.of = f /\ first \in Steps
    BY DEF Step, Steps
  <1> HIDE DEF first
  <1>11. /\ q \in Seq(Steps) /\ Within(x, q, 1)
         /\ \A i \in DOMAIN q : i = 1 \/ (\E j \in DOMAIN x : i = j + 1)
    BY <1>6, <1>9, FirstAt
  <1>12. 1 \in DOMAIN q /\ q[1] = first
    BY <1>6, <1>9, FirstAt
  <1> HIDE DEF q
  <1>13. \A i \in DOMAIN x : i + 1 \in DOMAIN q /\ q[i + 1] = x[i] /\ 1 < i + 1
    BY <1>6, <1>11, SeqIs DEF Within
  <1>14. \A i \in DOMAIN q : q[i].op = op
    <2>1. \A j \in DOMAIN x : q[j + 1].op = op
      BY <1>6, <1>13
    <2>2. q[1].op = op
      BY <1>9, <1>12
    <2>3. QED
      BY <1>11, <2>1, <2>2
  <1>15. \A k, j \in DOMAIN q : Through(q, k, j)
    <2> SUFFICES ASSUME NEW k \in DOMAIN q, NEW j \in DOMAIN q, NEW m \in k .. j
                 PROVE  Recycling(q[m])
      BY DEF Through
    <2>1. m \in DOMAIN q
      BY <1>11, SeqIs
    <2>2. QED
      BY <1>14, <2>1 DEF Recycling
  <1>16. Lawful(q, 1, {Above(f)})
    <2>1. SweptLater(q, 1)
      BY <1>14, <1>12 DEF SweptLater
    <2>2. ChildrenFollow(q, 1)
      BY <1>7, <1>9, <1>12, <1>13, <1>15 DEF ChildrenFollow
    <2>3. ParentKnown(q, 1, {Above(f)})
      BY <1>9, <1>12 DEF ParentKnown
    <2>4. QED
      BY <2>1, <2>2, <2>3 DEF Lawful
  <1>17. ASSUME NEW i \in DOMAIN x PROVE Lawful(q, i + 1, {Above(f)})
    <2>1. Lawful(x, i, {f})
      BY <1>6 DEF Laws
    <2>2. Lawful(q, i + 1, {f})
      BY <1>6, <1>11, <2>1, Shifted
    <2>3. ParentKnown(q, i + 1, {Above(f)})
      <3>1. ParentKnown(q, i + 1, {f})
        BY <2>2 DEF Lawful
      <3>2. CASE Above(q[i + 1].of) = f
        BY <1>9, <1>12, <1>13, <1>15, <3>2 DEF ParentKnown
      <3>3. CASE Above(q[i + 1].of) # f
        BY <3>1, <3>3 DEF ParentKnown
      <3>4. QED
        BY <3>2, <3>3
    <2>4. QED
      BY <2>2, <2>3 DEF Lawful
  <1>18. q \in Laws({Above(f)})
    BY <1>11, <1>16, <1>17 DEF Laws
  <1>19. q # <<>>
    BY <1>12
  <1>20. QED
    BY <1>8, <1>9, <1>12, <1>14, <1>18, <1>19 DEF RecyclingOf

LEMMA RecycledIs ==
  ASSUME NEW e \in Elements
  PROVE  Recycled(e) \in Laws({Above(e)})
  <1> DEFINE C == [f \in Elements |-> RecyclingOf("recycleView", f)]
  <1>1. \A F, f : f \in Elements /\ (\A c \in Below(f) : F[c] \in C[c])
          => Visit(F, "recycleView", Elements \ InBlock, Nothing, Nothing, f) \in C[f]
    <2> SUFFICES ASSUME NEW F, NEW f \in Elements, \A c \in Below(f) : F[c] \in C[c]
                 PROVE  Visit(F, "recycleView", Elements \ InBlock, Nothing, Nothing, f)
                          \in RecyclingOf("recycleView", f)
      OBVIOUS
    <2>1. \A c \in Below(f) : F[c] \in RecyclingOf("recycleView", c)
      BY AboveBelow
    <2> HIDE DEF C
    <2>2. QED
      BY <2>1, RecyclingVisit
  <1> HIDE DEF C
  <1>2. Recycled(e) \in C[e]
    BY <1>1, VisitedIn DEF Recycled
  <1>3. QED
    BY <1>2 DEF C, RecyclingOf

LEMMA RemovedIs ==
  ASSUME NEW e \in Elements
  PROVE  Visited(e, "remove", Elements, Nothing, Nothing) \in Laws({})
  <1> DEFINE C == [f \in Elements |-> RecyclingOf("remove", f)]
             q == Visited(e, "remove", Elements, Nothing, Nothing)
  <1>1. \A F, f : f \in Elements /\ (\A c \in Below(f) : F[c] \in C[c])
          => Visit(F, "remove", Elements, Nothing, Nothing, f) \in C[f]
    <2> SUFFICES ASSUME NEW F, NEW f \in Elements, \A c \in Below(f) : F[c] \in C[c]
                 PROVE  Visit(F, "remove", Elements, Nothing, Nothing, f)
                          \in RecyclingOf("remove", f)
      OBVIOUS
    <2>1. \A c \in Below(f) : F[c] \in RecyclingOf("remove", c)
      BY AboveBelow
    <2> HIDE DEF C
    <2>2. QED
      BY <2>1, RecyclingVisit
  <1> HIDE DEF C
  <1>2. q \in C[e]
    BY <1>1, VisitedIn
  <1> HIDE DEF q
  <1>3. q \in Laws({Above(e)}) /\ \A i \in DOMAIN q : q[i].op = "remove"
    BY <1>2 DEF C, RecyclingOf
  <1>4. \A i \in DOMAIN q : Lawful(q, i, {})
    BY <1>3 DEF Laws, Lawful, ParentKnown
  <1>5. QED
    BY <1>3, <1>4 DEF Laws, q

WalkOf == {q \in Laws({}) : q # <<>> /\ q[1].op = "obtain"}

LEMMA WalkVisit ==
  ASSUME NEW vis, NEW F, NEW f \in Elements, \A c \in Below(f) : F[c] \in WalkOf,
         NEW other \in [Elements -> Seq(Steps)],
         \A c \in Elements : other[c] \in Laws({Above(c)})
  PROVE  Visit(F, "obtain", vis, other, [g \in Elements |-> <<Step("sweep", g)>>], f)
           \in WalkOf
  <1> DEFINE p == [i \in DOMAIN Children[f] |->
                     IF Children[f][i] \in vis THEN F[Children[f][i]]
                     ELSE other[Children[f][i]]]
             C == Laws({f})
             x == FlattenSeq(p)
             first == Step("obtain", f)
             final == Step("sweep", f)
             y == <<first>> \o x
             q == y \o <<final>>
             n == Len(x) + 2
  <1>1. \A i \in DOMAIN Children[f] : p[i] \in C
    <2>1. ASSUME NEW c \in Below(f) PROVE F[c] \in C
      BY <2>1 DEF WalkOf, Laws, Lawful, ParentKnown
    <2>2. \A c \in Below(f) : other[c] \in C
      BY AboveBelow
    <2> HIDE DEF C
    <2>3. QED
      BY <2>1, <2>2, ChildrenIn
  <1>2. DOMAIN p = 1 .. Len(Children[f]) /\ Len(Children[f]) \in Nat
    BY ChildrenIn
  <1>3. p \in Seq(C)
    <2> DEFINE m == Len(Children[f])
    <2>1. p \in [1 .. m -> C]
      <3> HIDE DEF C
      <3>1. QED
        BY <1>1, <1>2
    <2> HIDE DEF p, m, C
    <2>2. m \in Nat
      BY <1>2 DEF m
    <2>3. QED
      BY <2>1, <2>2
  <1>4. x \in C
    <2>1. <<>> \in C /\ \A a, b \in C : a \o b \in C
      BY LawsEmpty, LawsJoin
    <2> HIDE DEF C, p
    <2>2. QED
      BY <1>3, <2>1, FlattenedIn
  <1>5. x \in Laws({f}) /\ x \in Seq(Steps)
    BY <1>4 DEF Laws
  <1>6. Visit(F, "obtain", vis, other, [g \in Elements |-> <<Step("sweep", g)>>], f) = q
    BY DEF Visit
  <1> HIDE DEF p, C, x
  <1>7. /\ first.op = "obtain" /\ first.of = f /\ first \in Steps
        /\ final.op = "sweep" /\ final.of = f /\ final \in Steps
    BY DEF Step, Steps
  <1>8. first # final
    BY <1>7
  <1>9. final = Step("sweep", f)
    OBVIOUS
  <1> HIDE DEF first, final
  <1>11. /\ y \in Seq(Steps) /\ Within(x, y, 1)
         /\ \A i \in DOMAIN y : i = 1 \/ (\E j \in DOMAIN x : i = j + 1)
         /\ Len(y) = Len(x) + 1 /\ Len(x) \in Nat
    BY <1>5, <1>7, FirstAt
  <1>12. 1 \in DOMAIN y /\ y[1] = first
    BY <1>5, <1>7, FirstAt
  <1>13. \A i \in DOMAIN x : i + 1 \in DOMAIN y /\ y[i + 1] = x[i]
    BY <1>11 DEF Within
  <1> HIDE DEF y
  <1>14. /\ q \in Seq(Steps) /\ Within(y, q, 0)
         /\ Len(y) + 1 \in DOMAIN q /\ q[Len(y) + 1] = final
         /\ \A i \in DOMAIN q : i \in DOMAIN y \/ i = Len(y) + 1
    BY <1>7, <1>11, LastAt
  <1> HIDE DEF q
  <1>15. /\ n \in DOMAIN q /\ q[n] = final /\ \A i \in DOMAIN y : i < n
    <2>1. Len(y) + 1 = n
      BY <1>11
    <2>2. \A i \in DOMAIN y : i < n
      BY <1>11, <2>1, SeqIs
    <2>3. QED
      BY <1>14, <2>1, <2>2
  <1>16. \A i \in DOMAIN y : i + 0 = i /\ i \in DOMAIN q /\ q[i] = y[i]
    <2>1. \A i \in DOMAIN y : i + 0 = i
      BY <1>11, SeqIs
    <2>2. QED
      BY <1>14, <2>1 DEF Within
  <1>17. \A i \in DOMAIN q : i \in DOMAIN y \/ i = n
    BY <1>11, <1>14
  <1> HIDE DEF n
  <1>18. ASSUME NEW i \in DOMAIN x PROVE Lawful(q, i + 1, {})
    <2>1. Lawful(x, i, {f})
      BY <1>5 DEF Laws
    <2>2. Lawful(y, i + 1, {f}) /\ i + 1 \in DOMAIN y
      BY <1>5, <1>11, <1>13, <2>1, Shifted
    <2>3. Lawful(q, (i + 1) + 0, {f})
      BY <1>11, <1>14, <2>2, Shifted
    <2>4. Lawful(q, i + 1, {f}) /\ i + 1 < n
      BY <1>15, <1>16, <2>2, <2>3
    <2>5. ParentKnown(q, i + 1, {})
      <3>1. ParentKnown(q, i + 1, {f})
        BY <2>4 DEF Lawful
      <3>2. CASE Above(q[i + 1].of) = f
        BY <1>9, <1>15, <2>4, <3>2 DEF ParentKnown
      <3>3. CASE Above(q[i + 1].of) # f
        BY <3>1, <3>3 DEF ParentKnown
      <3>4. QED
        BY <3>2, <3>3
    <2>6. QED
      BY <2>4, <2>5 DEF Lawful
  <1>19. q[1] = first /\ 1 \in DOMAIN q /\ 1 < n
    BY <1>12, <1>15, <1>16
  <1>20. Lawful(q, 1, {})
    <2>1. SweptLater(q, 1)
      BY <1>7, <1>9, <1>15, <1>19 DEF SweptLater
    <2>2. ChildrenFollow(q, 1) /\ ParentKnown(q, 1, {})
      BY <1>7, <1>19 DEF ChildrenFollow, ParentKnown, Recycling
    <2>3. QED
      BY <2>1, <2>2 DEF Lawful
  <1>21. Lawful(q, n, {})
    BY <1>7, <1>15 DEF Lawful, SweptLater, ChildrenFollow, ParentKnown, Recycling
  <1>22. \A i \in DOMAIN q : Lawful(q, i, {})
    BY <1>11, <1>17, <1>18, <1>20, <1>21
  <1>23. q \in Laws({})
    BY <1>14, <1>22 DEF Laws
  <1>24. q # <<>> /\ q[1].op = "obtain"
    BY <1>7, <1>19
  <1>25. QED
    BY <1>6, <1>23, <1>24 DEF WalkOf

LEMMA WalkIs ==
  ASSUME NEW e \in Elements, NEW vis
  PROVE  Walk(e, vis) \in WalkOf
  <1> DEFINE other == [f \in Elements |-> IF CanRecycle(f) THEN Recycled(f) ELSE <<>>]
             last == [f \in Elements |-> <<Step("sweep", f)>>]
             C == [f \in Elements |-> WalkOf]
  <1>1. /\ \A c \in Elements : other[c] \in Laws({Above(c)})
        /\ other \in [Elements -> Seq(Steps)]
    <2>1. \A c \in Elements : Recycled(c) \in Laws({Above(c)})
      BY RecycledIs
    <2>2. \A c \in Elements : other[c] \in Laws({Above(c)})
      BY <2>1, LawsEmpty
    <2>3. \A c \in Elements : other[c] \in Seq(Steps)
      BY <2>2 DEF Laws
    <2>4. other = [c \in Elements |-> other[c]]
      OBVIOUS
    <2> HIDE DEF other
    <2>5. QED
      BY <2>2, <2>3, <2>4
  <1> HIDE DEF other
  <1>2. \A F, f : f \in Elements /\ (\A c \in Below(f) : F[c] \in C[c])
          => Visit(F, "obtain", vis, other, last, f) \in C[f]
    <2> SUFFICES ASSUME NEW F, NEW f \in Elements, \A c \in Below(f) : F[c] \in C[c]
                 PROVE  Visit(F, "obtain", vis, other, last, f) \in WalkOf
      OBVIOUS
    <2>1. \A c \in Below(f) : F[c] \in WalkOf
      BY AboveBelow
    <2>2. QED
      BY <1>1, <2>1, WalkVisit
  <1>3. Walk(e, vis) = Visited(e, "obtain", vis, other, last)
    BY DEF Walk, other
  <1> HIDE DEF C, last
  <1>4. Walk(e, vis) \in C[e]
    BY <1>2, <1>3, VisitedIn
  <1>5. QED
    BY <1>4 DEF C

\* A walk without its first step: what is below an element that has its View.
LEMMA TailIs ==
  ASSUME NEW w \in WalkOf
  PROVE  Tail(w) \in Laws({})
  <1> DEFINE q == Tail(w)
  <1>1. /\ w \in Seq(Steps) /\ w # <<>> /\ w[1].op = "obtain"
        /\ \A i \in DOMAIN w : Lawful(w, i, {})
    BY DEF WalkOf, Laws
  <1>2. /\ q \in Seq(Steps) /\ DOMAIN q = 1 .. Len(w) - 1 /\ DOMAIN w = 1 .. Len(w)
        /\ Len(w) \in Nat /\ Len(w) > 0
        /\ \A i \in 1 .. Len(w) - 1 : q[i] = w[i + 1]
    BY <1>1
  <1> HIDE DEF q
  <1>3. \A i \in DOMAIN q : i + 1 \in DOMAIN w /\ q[i] = w[i + 1]
    BY <1>2
  <1>4. \A i \in DOMAIN q, j \in DOMAIN w :
          /\ i + 1 < j => j - 1 \in DOMAIN q /\ q[j - 1] = w[j] /\ i < j - 1
          /\ j < i + 1 /\ j # 1 => j - 1 \in DOMAIN q /\ q[j - 1] = w[j] /\ j - 1 < i
    <2> SUFFICES ASSUME NEW i \in DOMAIN q, NEW j \in DOMAIN w, j # 1
                 PROVE  /\ i + 1 < j => j - 1 \in DOMAIN q /\ q[j - 1] = w[j] /\ i < j - 1
                        /\ j < i + 1 => j - 1 \in DOMAIN q /\ q[j - 1] = w[j] /\ j - 1 < i
      BY <1>2
    <2>1. j - 1 \in DOMAIN q /\ (j - 1) + 1 = j
      BY <1>2
    <2>2. q[j - 1] = w[j]
      BY <1>3, <2>1
    <2>3. QED
      BY <1>2, <2>1, <2>2
  <1>5. \A k, j \in DOMAIN w : Through(w, k, j) => Through(q, k - 1, j - 1)
    <2> SUFFICES ASSUME NEW k \in DOMAIN w, NEW j \in DOMAIN w, Through(w, k, j),
                        NEW m \in (k - 1) .. (j - 1), k # 1
                 PROVE  Recycling(q[m])
      BY <1>1, <1>2 DEF Through, Recycling
    <2>1. m \in DOMAIN q /\ m + 1 \in k .. j
      BY <1>2
    <2>2. QED
      BY <1>3, <2>1 DEF Through
  <1>6. ASSUME NEW i \in DOMAIN q PROVE Lawful(q, i, {})
    <2>1. /\ Lawful(w, i + 1, {}) /\ i + 1 \in DOMAIN w /\ q[i] = w[i + 1]
          /\ (i + 1) - 1 = i
      BY <1>1, <1>2, <1>3
    <2>2. SweptLater(q, i)
      BY <1>4, <2>1 DEF Lawful, SweptLater
    <2>3. ChildrenFollow(q, i)
      <3> SUFFICES ASSUME Recycling(q[i]), NEW d \in Below(q[i].of) \ InBlock
                   PROVE  \E j \in DOMAIN q : i < j /\ q[j].of = d /\ Through(q, i, j)
        BY DEF ChildrenFollow
      <3>1. PICK j \in DOMAIN w : i + 1 < j /\ w[j].of = d /\ Through(w, i + 1, j)
        BY <2>1 DEF Lawful, ChildrenFollow
      <3>2. Through(q, i, j - 1)
        BY <1>5, <2>1, <3>1
      <3>3. QED
        BY <1>4, <3>1, <3>2
    <2>4. ParentKnown(q, i, {})
      <3> DEFINE p == Above(q[i].of)
      <3> SUFFICES ASSUME q[i].op = "recycleView"
                   PROVE  \/ \E j \in DOMAIN q : i < j /\ q[j] = Step("sweep", p)
                          \/ \E k \in DOMAIN q : k < i /\ q[k].of = p /\ Through(q, k, i)
        BY DEF ParentKnown
      <3>1. \/ \E j \in DOMAIN w : i + 1 < j /\ w[j] = Step("sweep", p)
            \/ \E k \in DOMAIN w : k < i + 1 /\ w[k].of = p /\ Through(w, k, i + 1)
        BY <2>1 DEF Lawful, ParentKnown
      <3> HIDE DEF p
      <3>2. ASSUME NEW j \in DOMAIN w, i + 1 < j, w[j] = Step("sweep", p)
            PROVE  \E m \in DOMAIN q : i < m /\ q[m] = Step("sweep", p)
        BY <1>4, <3>2
      <3>3. ASSUME NEW k \in DOMAIN w, k < i + 1, w[k].of = p, Through(w, k, i + 1)
            PROVE  \E m \in DOMAIN q : m < i /\ q[m].of = p /\ Through(q, m, i)
        <4>1. k \in k .. i + 1
          BY <1>2, <3>3
        <4>2. k # 1
          BY <1>1, <3>3, <4>1 DEF Through, Recycling
        <4>3. Through(q, k - 1, i)
          BY <1>5, <2>1, <3>3
        <4>4. QED
          BY <1>4, <3>3, <4>2, <4>3
      <3>4. QED
        BY <3>1, <3>2, <3>3
    <2>5. QED
      BY <2>2, <2>3, <2>4 DEF Lawful
  <1>7. QED
    BY <1>2, <1>6 DEF Laws, q

-----------------------------------------------------------------------------
(***************************************************************************)
(* The tree of the Views in the middle of a walk.                          *)
(***************************************************************************)

Inner == Elements \ (InBlock \cup {Root})

\* The View of c is in that of its parent.
HasParent(s, c) ==
  s.view[Above(c)] # NoView /\ s.parent[s.view[c]] = s.view[Above(c)]

\* The View of an element is below that of its parent, or its turn to be recycled
\* is about to come: it is in due.  It is never below that of another element.
Hung(s, due) ==
  /\ \A c \in Inner : s.view[c] # NoView => HasParent(s, c) \/ c \in due
  /\ \A c \in Inner, e \in Elements :
       /\ s.view[c] # NoView /\ s.view[e] # NoView
       /\ s.parent[s.view[c]] = s.view[e]
       => e = Above(c)

\* What is below a View is in some hand, or in its pool; then the element that
\* has it, if any, is one of those to be swept.
Kept(s, swept) ==
  \A v \in Views : s.parent[v] # NoView =>
    \/ \E c \in Elements : s.view[c] = v
    \/ /\ v \in Pooled(s, s.parent[v])
       /\ \A e \in Elements : s.view[e] = s.parent[v] => e \in swept

LEMMA HungObtain ==
  ASSUME ~ IsFiniteSet(Views), NEW s, Good(s), Hung(s, {}), NEW e \in Elements, NEW due
  PROVE  Hung(Obtain(s, e), due)
  <1> DEFINE t == Obtain(s, e)
  <1>1. Typed(s) /\ PageApart(s) /\ One(s) /\ Clean(s)
    BY DEF Good, Basic
  <1>2. \A c \in Inner : c \in Elements /\ Above(c) \in Elements /\ c # Root
    BY AboveIs DEF Inner
  <1>3. \A c \in Inner : s.view[c] # NoView => HasParent(s, c)
    BY DEF Hung
  <1>4. \A c \in Inner, f \in Elements :
          /\ s.view[c] # NoView /\ s.view[f] # NoView
          /\ s.parent[s.view[c]] = s.view[f]
          => f = Above(c)
    BY DEF Hung
  <1> HIDE DEF t
  <1>5. ASSUME t = s PROVE Hung(t, due)
    BY <1>3, <1>4, <1>5 DEF Hung
  <1>6. ASSUME e = Root, Roots(s, t) PROVE Hung(t, due)
    <2>1. /\ s.view[Root] = NoView /\ t.parent = s.parent
          /\ \A f \in Elements : t.view[f] = IF f = Root THEN Page ELSE s.view[f]
      BY <1>1, <1>6 DEF Roots, Typed
    <2>2. \A c \in Inner : s.view[c] # NoView => Above(c) # Root
      BY <1>3, <2>1 DEF HasParent
    <2>3. \A c \in Inner : t.view[c] # NoView => HasParent(t, c)
      BY <1>2, <1>3, <2>1, <2>2 DEF HasParent
    <2>4. \A c \in Inner : s.view[c] # NoView => s.parent[s.view[c]] # Page
      BY <1>1, <1>2, <1>3, <2>2 DEF HasParent, PageApart
    <2>5. QED
      BY <1>2, <1>4, <2>1, <2>3, <2>4 DEF Hung
  <1>7. ASSUME NEW v, NEW p, Gives(s, t, e, v, p) PROVE Hung(t, due)
    <2>1. /\ v \in Views /\ p \in Views /\ e # Root /\ s.view[e] = NoView
          /\ p = s.view[Above(e)] /\ Above(e) \in Elements
      BY <1>7 DEF Gives
    <2>2. /\ \A f \in Elements : t.view[f] = IF f = e THEN v ELSE s.view[f]
          /\ \A w \in Views : t.parent[w] = IF w = v THEN p ELSE s.parent[w]
      BY <1>1, <1>7 DEF Gives, Typed
    <2>3. \A f \in Elements : s.view[f] # v
      BY <1>1, <1>7, <2>1, LiveIs, Constants DEF Gives, One, Own
    <2>4. v # NoView /\ p # NoView /\ Above(e) # e
      BY <2>1, Constants
    <2>5. HasParent(t, e)
      BY <2>1, <2>2, <2>4 DEF HasParent
    <2>6. \A c \in Inner : s.view[c] # NoView
            => /\ s.view[c] \in Views \ {v} /\ Above(c) # e
               /\ t.parent[s.view[c]] = s.parent[s.view[c]]
      BY <1>1, <1>2, <1>3, <2>1, <2>2, <2>3 DEF HasParent, Typed
    <2>7. ASSUME NEW c \in Inner, t.view[c] # NoView PROVE HasParent(t, c)
      <3>1. CASE c = e
        BY <2>5, <3>1
      <3>2. CASE c # e
        BY <1>2, <1>3, <2>2, <2>6, <2>7, <3>2 DEF HasParent
      <3>3. QED
        BY <3>1, <3>2
    <2>8. ASSUME NEW c \in Inner, NEW f \in Elements,
                 t.view[c] # NoView, t.view[f] # NoView, t.parent[t.view[c]] = t.view[f]
          PROVE  f = Above(c)
      <3>1. t.view[f] = t.view[Above(c)] /\ Above(c) \in Elements
        BY <1>2, <2>7, <2>8 DEF HasParent
      <3>2. CASE f # e /\ Above(c) # e
        BY <1>1, <2>2, <2>8, <3>1, <3>2 DEF One
      <3>3. CASE f = e \/ Above(c) = e
        BY <2>2, <2>3, <3>1, <3>3
      <3>4. QED
        BY <3>2, <3>3
    <2>9. QED
      BY <2>7, <2>8 DEF Hung
  <1>8. QED
    BY <1>5, <1>6, <1>7, ObtainIs DEF t

LEMMA KeptObtain ==
  ASSUME ~ IsFiniteSet(Views), NEW s, Good(s), NEW swept, Kept(s, swept), NEW e \in Elements,
         e \in swept
  PROVE  Kept(Obtain(s, e), swept)
  <1> DEFINE t == Obtain(s, e)
  <1>1. Typed(s)
    BY DEF Good, Basic
  <1> HIDE DEF t
  <1>2. ASSUME t = s PROVE Kept(t, swept)
    BY <1>2
  <1>3. ASSUME e = Root, Roots(s, t) PROVE Kept(t, swept)
    <2>1. /\ s.view[Root] = NoView /\ t.parent = s.parent /\ t.pool = s.pool
          /\ \A f \in Elements : t.view[f] = IF f = Root THEN Page ELSE s.view[f]
      BY <1>1, <1>3 DEF Roots, Typed
    <2>2. \A w \in Views : Pooled(t, w) = Pooled(s, w)
      BY <2>1 DEF Pooled
    <2> SUFFICES ASSUME NEW v \in Views, s.parent[v] # NoView
                 PROVE  \/ \E c \in Elements : t.view[c] = v
                        \/ /\ v \in Pooled(t, s.parent[v])
                           /\ \A f \in Elements : t.view[f] = s.parent[v] => f \in swept
      BY <2>1 DEF Kept
    <2>3. s.parent[v] \in Views
      BY <1>1 DEF Typed
    <2>4. CASE \E c \in Elements : s.view[c] = v
      BY <2>1, <2>4, Constants
    <2>5. CASE /\ v \in Pooled(s, s.parent[v])
               /\ \A f \in Elements : s.view[f] = s.parent[v] => f \in swept
      BY <1>3, <2>1, <2>2, <2>3, <2>5
    <2>6. QED
      BY <2>4, <2>5 DEF Kept
  <1>4. ASSUME NEW v, NEW p, Gives(s, t, e, v, p) PROVE Kept(t, swept)
    <2>1. v \in Views /\ p \in Views /\ s.view[e] = NoView
      BY <1>4 DEF Gives
    <2>2. /\ \A f \in Elements : t.view[f] = IF f = e THEN v ELSE s.view[f]
          /\ \A w \in Views : t.parent[w] = IF w = v THEN p ELSE s.parent[w]
      BY <1>1, <1>4 DEF Gives, Typed
    <2>3. \A w \in Views : Pooled(s, w) \ {v} \subseteq Pooled(t, w)
      <3>1. /\ \A w \in Views : Pooled(s, w) = ViewsIn(s.pool[w])
            /\ \A w \in Views : Pooled(t, w) = ViewsIn(t.pool[w])
        BY DEF Pooled, ViewsIn
      <3>2. QED
        BY <1>4, <2>1, <3>1 DEF Gives
    <2> SUFFICES ASSUME NEW u \in Views, u # v, s.parent[u] # NoView
                 PROVE  \/ \E c \in Elements : t.view[c] = u
                        \/ /\ u \in Pooled(t, s.parent[u])
                           /\ \A f \in Elements : t.view[f] = s.parent[u] => f \in swept
      BY <2>2 DEF Kept
    <2>4. s.parent[u] \in Views
      BY <1>1 DEF Typed
    <2>5. CASE \E c \in Elements : s.view[c] = u
      BY <2>1, <2>2, <2>5, Constants
    <2>6. CASE /\ u \in Pooled(s, s.parent[u])
               /\ \A f \in Elements : s.view[f] = s.parent[u] => f \in swept
      BY <2>2, <2>3, <2>4, <2>6
    <2>7. QED
      BY <2>5, <2>6 DEF Kept
  <1>5. QED
    BY <1>2, <1>3, <1>4, ObtainIs DEF t

LEMMA SweepKeeps ==
  ASSUME NEW s, Good(s), NEW e \in Elements, NEW due, NEW was, NEW swept,
         was \subseteq swept \cup {e}
  PROVE  /\ Hung(s, due) => Hung(Sweep(s, e), due)
         /\ Kept(s, was) => Kept(Sweep(s, e), swept)
  <1> DEFINE t == Sweep(s, e)
             v == s.view[e]
  <1>1. Typed(s) /\ One(s)
    BY DEF Good, Basic
  <1>2. /\ t.view = s.view /\ t.pool = s.pool
        /\ t.parent = [w \in Views |-> IF v # NoView /\ w \in Pooled(s, v)
                                       THEN NoView ELSE s.parent[w]]
    BY <1>1 DEF Sweep, Typed
  <1> HIDE DEF t
  <1>3. v # NoView => v \in Views
    BY <1>1 DEF Typed
  <1>4. \A c \in Elements : s.view[c] # NoView
          => s.view[c] \in Views /\ t.parent[s.view[c]] = s.parent[s.view[c]]
    BY <1>1, <1>2, <1>3 DEF Typed, One
  <1>5. Hung(s, due) => Hung(t, due)
    <2>1. Inner \subseteq Elements
      BY DEF Inner
    <2>2. QED
      BY <1>2, <1>4, <2>1 DEF Hung, HasParent
  <1>6. ASSUME Kept(s, was) PROVE Kept(t, swept)
    <2>0. \A w \in Views : Pooled(t, w) = Pooled(s, w)
      BY <1>2 DEF Pooled
    <2> SUFFICES ASSUME NEW u \in Views, t.parent[u] # NoView
                 PROVE  \/ \E c \in Elements : s.view[c] = u
                        \/ /\ u \in Pooled(s, t.parent[u])
                           /\ \A f \in Elements : s.view[f] = t.parent[u] => f \in swept
      <3>1. \A u \in Views : t.parent[u] # NoView => t.parent[u] \in Views
        BY <1>1, <1>2 DEF Typed
      <3>2. t.view = s.view
        BY <1>2
      <3>3. QED
        BY <2>0, <3>1, <3>2 DEF Kept
    <2>1. t.parent[u] = s.parent[u] /\ ~ (v # NoView /\ u \in Pooled(s, v))
      BY <1>2
    <2>2. \/ \E c \in Elements : s.view[c] = u
          \/ /\ u \in Pooled(s, s.parent[u])
             /\ \A f \in Elements : s.view[f] = s.parent[u] => f \in was
      BY <1>6, <2>1 DEF Kept
    <2>3. u \in Pooled(s, s.parent[u]) => s.view[e] # s.parent[u]
      BY <2>1
    <2>4. QED
      BY <2>1, <2>2, <2>3
  <1>7. QED
    BY <1>5, <1>6 DEF t

\* t is s after the View of c was recycled.
Drops(s, t, c) ==
  /\ t.view = [s.view EXCEPT ![c] = NoView]
  /\ \A v \in Views : t.parent[v] \in {s.parent[v], NoView}
  /\ \A d, e \in Elements :
       t.view[d] # NoView /\ t.view[e] # NoView /\ t.view[e] = s.parent[t.view[d]]
         => t.parent[t.view[d]] = s.parent[t.view[d]]
  /\ \A v \in Views : t.parent[v] # NoView
       => Pooled(s, t.parent[v]) \subseteq Pooled(t, t.parent[v])
  /\ s.view[c] # NoView
       => \/ t.parent[s.view[c]] = NoView
          \/ Key(c) # <<>> /\ s.view[c] \in Pooled(t, s.parent[s.view[c]])

LEMMA ReclaimedDrops ==
  ASSUME NEW s, Basic(s), NEW c \in Elements, s.view[c] # NoView
  PROVE  Drops(s, Reclaimed([RemoveView(s, s.view[c]) EXCEPT !.view[c] = NoView]), c)
  <1> DEFINE v == s.view[c]
             u == [RemoveView(s, v) EXCEPT !.view[c] = NoView]
             t == Reclaimed(u)
             L == Live(u)
  <1>1. Typed(s) /\ One(s)
    BY DEF Basic
  <1>2. v \in Views
    BY <1>1 DEF Typed
  <1>3. /\ u = [view |-> u.view, parent |-> u.parent, pool |-> u.pool]
        /\ u.view = [s.view EXCEPT ![c] = NoView]
        /\ u.parent = [s.parent EXCEPT ![v] = NoView]
        /\ u.pool = s.pool
    <2> DEFINE a == [s.view EXCEPT ![c] = NoView]
               b == [s.parent EXCEPT ![v] = NoView]
    <2>1. s = [view |-> s.view, parent |-> s.parent, pool |-> s.pool]
      BY <1>1 DEF Typed
    <2>2. u = [[s EXCEPT !.parent = b] EXCEPT !.view = a]
      BY <2>1 DEF RemoveView
    <2> HIDE DEF a, b, u
    <2>3. u = [view |-> a, parent |-> b, pool |-> s.pool]
      BY <2>1, <2>2
    <2>4. QED
      BY <2>3 DEF a, b
  <1> HIDE DEF u
  <1>4. /\ t.view = u.view
        /\ t.parent = [w \in Views |-> IF w \in L /\ u.parent[w] \in L THEN u.parent[w]
                                       ELSE NoView]
        /\ t.pool = [w \in Views |-> IF w \in L THEN u.pool[w] ELSE <<>>]
    <2> DEFINE a == [w \in Views |-> IF w \in L /\ u.parent[w] \in L THEN u.parent[w]
                                     ELSE NoView]
               b == [w \in Views |-> IF w \in L THEN u.pool[w] ELSE <<>>]
    <2>1. t = [u EXCEPT !.parent = a, !.pool = b]
      BY DEF Reclaimed
    <2> HIDE DEF a, b, t
    <2>2. t = [view |-> u.view, parent |-> a, pool |-> b]
      BY <1>3, <2>1
    <2>3. QED
      BY <2>2 DEF a, b
  <1>5. Typed(u)
    <2>1. Less(s, u)
      BY <1>1, <1>3 DEF Less, Typed
    <2>2. QED
      BY <2>1, LessBasic DEF Basic
  <1>6. Own(u) \subseteq L
    BY <1>5, LiveIs
  <1> HIDE DEF t, L
  <1>7. \A d \in Elements : t.view[d] # NoView
          => t.view[d] \in L /\ t.view[d] \in Views \ {v} /\ t.view[d] = s.view[d]
    <2>1. \A d \in Elements : t.view[d] # NoView => t.view[d] \in Own(u) /\ t.view[d] \in Views
      BY <1>4, <1>5 DEF Own, Typed
    <2>2. \A d \in Elements : t.view[d] # NoView => d # c /\ t.view[d] = s.view[d]
      BY <1>1, <1>3, <1>4 DEF Typed
    <2>3. QED
      BY <1>1, <1>6, <2>1, <2>2 DEF One
  <1>8. \A w \in Views \ {v} : u.parent[w] = s.parent[w]
    BY <1>1, <1>3 DEF Typed
  <1>9. \A d, e \in Elements :
          t.view[d] # NoView /\ t.view[e] # NoView /\ t.view[e] = s.parent[t.view[d]]
            => t.parent[t.view[d]] = s.parent[t.view[d]]
    BY <1>4, <1>7, <1>8
  <1>10. u.parent[v] = NoView /\ \A w \in Views : u.parent[w] \in {s.parent[w], NoView}
    BY <1>1, <1>2, <1>3 DEF Typed
  <1>11. \A w \in Views : t.parent[w] \in {s.parent[w], NoView}
    BY <1>4, <1>10
  <1>12. t.parent[v] = NoView
    BY <1>2, <1>4, <1>10
  <1>13. \A w \in Views : t.parent[w] # NoView
          => Pooled(s, t.parent[w]) \subseteq Pooled(t, t.parent[w])
    <2>1. \A w \in Views : t.parent[w] # NoView => t.parent[w] \in L /\ t.parent[w] \in Views
      BY <1>4, <1>5 DEF Typed
    <2>2. \A w \in L : w \in Views => t.pool[w] = s.pool[w]
      BY <1>3, <1>4
    <2>3. QED
      BY <2>1, <2>2 DEF Pooled
  <1>14. t.view = [s.view EXCEPT ![c] = NoView]
    BY <1>3, <1>4
  <1>15. Drops(s, t, c)
    BY <1>9, <1>11, <1>12, <1>13, <1>14 DEF Drops
  <1>16. QED
    BY <1>15 DEF t, u, v

LEMMA RecycleDrops ==
  ASSUME NEW s, Good(s), NEW c \in Elements
  PROVE  Drops(s, RecycleView(s, c), c)
  <1> DEFINE v == s.view[c]
             p == s.parent[v]
             k == Key(c)
  <1>1. Basic(s) /\ Typed(s) /\ v \in Views \cup {NoView}
    BY DEF Good, Basic, Typed
  <1>2. CASE v = NoView
    <2>1. RecycleView(s, c) = s
      BY <1>2 DEF RecycleView
    <2>2. s.view = [s.view EXCEPT ![c] = NoView]
      BY <1>1, <1>2 DEF Typed
    <2>3. QED
      BY <1>2, <2>1, <2>2 DEF Drops
  <1>3. CASE v # NoView /\ (p = NoView \/ k = <<>>)
    <2>1. RecycleView(s, c) = Reclaimed([RemoveView(s, v) EXCEPT !.view[c] = NoView])
      BY <1>3 DEF RecycleView
    <2>2. QED
      BY <1>1, <1>3, <2>1, ReclaimedDrops
  <1>4. CASE v # NoView /\ p # NoView /\ k # <<>>
    <2> DEFINE x == [key |-> k, view |-> v]
               a == [s.view EXCEPT ![c] = NoView]
               b == [s.pool EXCEPT ![p] = Append(s.pool[p], x)]
               t == RecycleView(s, c)
    <2>1. s = [view |-> s.view, parent |-> s.parent, pool |-> s.pool]
      BY <1>1 DEF Typed
    <2>2. t = [s EXCEPT !.view = a, !.pool = b]
      BY <1>4, <2>1 DEF RecycleView
    <2>3. p \in Views /\ v \in Views /\ IsSeq(s.pool[p]) /\ s.pool = [w \in Views |-> s.pool[w]]
      BY <1>1, <1>4 DEF Typed
    <2>4. x.view = v
      OBVIOUS
    <2> HIDE DEF a, b, t, x, k, p, v
    <2>5. ViewsIn(Append(s.pool[p], x)) = ViewsIn(s.pool[p]) \cup {x.view}
      BY <2>3, AppendPool, Zenon
    <2>6. t = [view |-> a, parent |-> s.parent, pool |-> b]
      BY <2>1, <2>2
    <2>7. t.view = a /\ t.parent = s.parent /\ t.pool = b
      BY <2>6
    <2>8. /\ \A w \in Views : Pooled(s, w) = ViewsIn(s.pool[w])
          /\ \A w \in Views : Pooled(t, w) = ViewsIn(t.pool[w])
      BY DEF Pooled, ViewsIn
    <2>9. /\ t.pool[p] = Append(s.pool[p], x)
          /\ \A w \in Views \ {p} : t.pool[w] = s.pool[w]
      BY <2>3, <2>7, Zenon DEF b
    <2>10. /\ \A w \in Views : Pooled(s, w) \subseteq Pooled(t, w)
           /\ v \in Pooled(t, p)
      <3>1. Pooled(t, p) = Pooled(s, p) \cup {v}
        BY <2>3, <2>4, <2>5, <2>8, <2>9, Zenon
      <3>2. \A w \in Views \ {p} : Pooled(t, w) = Pooled(s, w)
        BY <2>8, <2>9, Zenon
      <3>3. QED
        BY <3>1, <3>2, Zenon
    <2>11. \A w \in Views : s.parent[w] # NoView => s.parent[w] \in Views
      BY <1>1 DEF Typed
    <2>12. QED
      BY <1>4, <2>7, <2>10, <2>11 DEF Drops, a, t, k, p, v
  <1>5. QED
    BY <1>2, <1>3, <1>4

LEMMA RemoveDrops ==
  ASSUME NEW s, Good(s), NEW c \in Elements, s.view[c] # NoView
  PROVE  /\ Drops(s, RecycleView(RemoveView(s, s.view[c]), c), c)
         /\ RecycleView(RemoveView(s, s.view[c]), c).parent[s.view[c]] = NoView
  <1> DEFINE v == s.view[c]
             u == RemoveView(s, v)
             t == RecycleView(u, c)
  <1>1. Basic(s) /\ Typed(s) /\ v \in Views
    BY DEF Good, Basic, Typed
  <1>2. Basic(u)
    BY <1>1, RemovedGood
  <1>3. u.view = s.view /\ u.parent = [s.parent EXCEPT ![v] = NoView] /\ u.pool = s.pool
    BY <1>1 DEF RemoveView, Typed
  <1> HIDE DEF u
  <1>4. u.view[c] = v /\ u.parent[v] = NoView
    BY <1>1, <1>3 DEF Typed
  <1> HIDE DEF v
  <1>5. t = Reclaimed([RemoveView(u, v) EXCEPT !.view[c] = NoView])
    BY <1>1, <1>4, Constants DEF RecycleView
  <1> HIDE DEF t
  <1>6. Drops(u, t, c)
    BY <1>1, <1>2, <1>4, <1>5, ReclaimedDrops, Constants
  <1>7. t.parent[v] = NoView
    BY <1>1, <1>4, <1>6 DEF Drops
  <1>8. \A w \in Views : u.parent[w] = IF w = v THEN NoView ELSE s.parent[w]
    BY <1>1, <1>3 DEF Typed
  <1>9. \A w \in Views : Pooled(u, w) = Pooled(s, w)
    BY <1>3 DEF Pooled
  <1>10. \A d \in Elements : t.view[d] # NoView => t.view[d] \in Views \ {v}
    <2>1. \A d \in Elements : t.view[d] = IF d = c THEN NoView ELSE s.view[d]
      BY <1>1, <1>3, <1>6 DEF Drops, Typed
    <2>2. \A d \in Elements : d # c /\ s.view[d] # NoView => s.view[d] \in Views \ {v}
      BY <1>1 DEF Typed, Basic, One, v
    <2>3. QED
      BY <2>1, <2>2
  <1>11. \A w \in Views : t.parent[w] # NoView
           => t.parent[w] \in Views /\ t.parent[w] = s.parent[w]
    BY <1>1, <1>6, <1>8 DEF Drops, Typed
  <1>12. \A w \in Views : t.parent[w] # NoView
          => Pooled(s, t.parent[w]) \subseteq Pooled(t, t.parent[w])
    BY <1>6, <1>9, <1>11 DEF Drops
  <1>13. \A d, e \in Elements :
          t.view[d] # NoView /\ t.view[e] # NoView /\ t.view[e] = s.parent[t.view[d]]
            => t.parent[t.view[d]] = s.parent[t.view[d]]
    BY <1>6, <1>8, <1>10 DEF Drops
  <1>14. \A w \in Views : t.parent[w] \in {s.parent[w], NoView}
    BY <1>6, <1>8 DEF Drops
  <1>15. t.view = [s.view EXCEPT ![c] = NoView]
    BY <1>3, <1>6 DEF Drops
  <1>16. Drops(s, t, c)
    BY <1>7, <1>12, <1>13, <1>14, <1>15 DEF Drops, v
  <1>17. QED
    BY <1>7, <1>16 DEF t, u, v

LEMMA HungDrops ==
  ASSUME NEW s, Good(s), NEW t, NEW c \in Elements, Drops(s, t, c),
         NEW was, Hung(s, was), NEW due, was \subseteq due \cup {c},
         Below(c) \ InBlock \subseteq due
  PROVE  Hung(t, due)
  <1>1. \A d \in Elements : t.view[d] = IF d = c THEN NoView ELSE s.view[d]
    BY DEF Good, Basic, Typed, Drops
  <1>2. \A d \in Inner : /\ d \in Elements /\ Above(d) \in Elements
                         /\ d \in Below(Above(d)) /\ d \notin InBlock
    BY AboveIs DEF Inner
  <1>3. ASSUME NEW d \in Inner, t.view[d] # NoView, d \notin due PROVE HasParent(t, d)
    <2>1. d # c /\ s.view[d] = t.view[d] /\ Above(d) # c
      BY <1>1, <1>2, <1>3
    <2>2. HasParent(s, d)
      BY <1>3, <2>1 DEF Hung
    <2>3. t.view[Above(d)] = s.view[Above(d)]
      BY <1>1, <1>2, <2>1
    <2>4. t.parent[t.view[d]] = s.parent[t.view[d]]
      BY <1>2, <1>3, <2>1, <2>2, <2>3 DEF Drops, HasParent
    <2>5. QED
      BY <2>1, <2>2, <2>3, <2>4 DEF HasParent
  <1>4. ASSUME NEW d \in Inner, NEW e \in Elements,
               t.view[d] # NoView, t.view[e] # NoView, t.parent[t.view[d]] = t.view[e]
        PROVE  e = Above(d)
    <2>1. t.view[d] = s.view[d] /\ t.view[e] = s.view[e]
      BY <1>1, <1>2, <1>4
    <2>2. t.view[d] \in Views
      BY <1>2, <1>4, <2>1 DEF Good, Basic, Typed
    <2>3. t.parent[t.view[d]] = s.parent[t.view[d]]
      BY <1>4, <2>2 DEF Drops
    <2>4. QED
      BY <1>4, <2>1, <2>3 DEF Hung
  <1>5. QED
    BY <1>3, <1>4 DEF Hung

LEMMA KeptDrops ==
  ASSUME NEW s, Good(s), NEW t, NEW c \in Elements, Drops(s, t, c),
         NEW due, Hung(s, due), NEW swept, Kept(s, swept),
         \/ s.view[c] = NoView
         \/ t.parent[s.view[c]] = NoView
         \/ Key(c) # <<>> => /\ c \notin InBlock
                             /\ Above(c) \in swept \/ s.view[Above(c)] = NoView
  PROVE  Kept(t, swept)
  <1>1. \A d \in Elements : t.view[d] = IF d = c THEN NoView ELSE s.view[d]
    BY DEF Good, Basic, Typed, Drops
  <1> SUFFICES ASSUME NEW v \in Views, t.parent[v] # NoView
               PROVE  \/ \E d \in Elements : t.view[d] = v
                      \/ /\ v \in Pooled(t, t.parent[v])
                         /\ \A e \in Elements : t.view[e] = t.parent[v] => e \in swept
    BY DEF Kept
  <1>2. t.parent[v] = s.parent[v]
    BY DEF Drops
  <1>3. \A e \in Elements : t.view[e] = s.parent[v] => s.view[e] = s.parent[v]
    BY <1>1, <1>2
  <1>4. CASE \E d \in Elements \ {c} : s.view[d] = v
    BY <1>1, <1>4
  <1>5. CASE s.view[c] = v
    <2>1. v # NoView
      BY Constants
    <2>2. Key(c) # <<>> /\ v \in Pooled(t, s.parent[v])
      BY <1>2, <1>5, <2>1 DEF Drops
    <2>3. c \notin InBlock /\ (Above(c) \in swept \/ s.view[Above(c)] = NoView)
      BY <1>5, <2>1, <2>2
    <2>4. c # Root
      <3>1. c = Root => v = Page
        BY <1>5, <2>1 DEF Good, Basic, PageApart
      <3>2. v # Page
        BY <1>2 DEF Good, Basic, PageApart
      <3>3. QED
        BY <3>1, <3>2
    <2>5. c \in Inner
      BY <2>3, <2>4 DEF Inner
    <2>6. ASSUME NEW e \in Elements, t.view[e] = s.parent[v] PROVE e \in swept
      <3>1. s.view[e] = s.parent[v] /\ s.view[e] # NoView
        BY <1>2, <1>3, <2>6
      <3>2. e = Above(c)
        BY <1>5, <2>1, <2>5, <3>1 DEF Hung
      <3>3. QED
        BY <2>3, <3>1, <3>2
    <2>7. QED
      BY <1>2, <2>2, <2>6
  <1>6. CASE /\ v \in Pooled(s, s.parent[v])
             /\ \A e \in Elements : s.view[e] = s.parent[v] => e \in swept
    <2>1. v \in Pooled(t, t.parent[v])
      BY <1>2, <1>6 DEF Drops
    <2>2. QED
      BY <1>2, <1>3, <1>6, <2>1
  <1>7. QED
    BY <1>2, <1>4, <1>5, <1>6 DEF Kept

LEMMA DoDrops ==
  ASSUME NEW s, Good(s), NEW step \in Steps, Recycling(step)
  PROVE  /\ Drops(s, Do(s, step), step.of)
         /\ step.op = "remove" /\ s.view[step.of] # NoView
              => Do(s, step).parent[s.view[step.of]] = NoView
  <1>1. step.of \in Elements
    BY DEF Steps
  <1>2. CASE step.op = "recycleView"
    BY <1>1, <1>2, RecycleDrops DEF Do
  <1>3. CASE step.op = "remove" /\ s.view[step.of] # NoView
    BY <1>1, <1>3, RemoveDrops DEF Do
  <1>4. CASE step.op = "remove" /\ s.view[step.of] = NoView
    <2>1. Do(s, step) = s
      BY <1>4 DEF Do
    <2>2. Typed(s)
      BY DEF Good, Basic
    <2>3. s.view = [s.view EXCEPT ![step.of] = NoView]
      BY <1>1, <1>4, <2>2 DEF Typed
    <2>4. QED
      BY <1>4, <2>1, <2>3 DEF Drops
  <1>5. QED
    BY <1>2, <1>3, <1>4 DEF Recycling

-----------------------------------------------------------------------------
(***************************************************************************)
(* The keys.                                                               *)
(***************************************************************************)

\* No element in a block has the attribute "reuse".
NoBlockKeys == \A e \in InBlock : OwnKey[e] = <<>>

\* What reuse() gives at f with the level ids lv and F for what is above it.
KeyOf(lv, F, f) ==
  IF OwnKey[f] # <<>> THEN OwnKey[f]
  ELSE IF f = Root \/ f \in InBlock \/ F[Above(f)] = <<>> THEN <<>>
  ELSE Append(F[Above(f)], lv[f])

Keyed(lv, F) == F = [f \in Elements |-> KeyOf(lv, F, f)]

LEMMA KeyedExist ==
  ASSUME NEW lv
  PROVE  \E F : Keyed(lv, F)
  <1> DEFINE N == Cardinality(Elements)
  <1>1. N \in Nat
    BY Constants, FS_CardinalityType
  <1>2. PICK height \in [Elements -> 0 .. N] :
          \A e \in Elements : \A c \in Below(e) : height[c] < height[e]
    BY RecyclingAssumption
  <1> HIDE DEF N
  <1> DEFINE Up(F, n) == F = [f \in Elements |-> IF N - height[f] < n THEN KeyOf(lv, F, f)
                                                ELSE <<>>]
             Bad == {n \in Nat : ~ \E F : Up(F, n)}
  <1>3. ASSUME NEW F, NEW G, NEW f \in Elements, f # Root => F[Above(f)] = G[Above(f)]
        PROVE  KeyOf(lv, F, f) = KeyOf(lv, G, f)
    BY <1>3 DEF KeyOf
  <1>4. Bad = {}
    <2> SUFFICES ASSUME Bad # {} PROVE FALSE
      OBVIOUS
    <2>1. PICK n \in Bad : \A m \in Bad : n <= m
      <3>1. Bad \in SUBSET Nat
        OBVIOUS
      <3> HIDE DEF Bad
      <3>2. QED
        BY <3>1, Least
    <2>2. n \in Nat /\ ~ \E F : Up(F, n)
      OBVIOUS
    <2>3. n # 0
      <3>1. ASSUME n = 0 PROVE Up([f \in Elements |-> <<>>], n)
        BY <1>1, <1>2, <3>1
      <3>2. QED
        BY <2>2, <3>1
    <2>4. n - 1 \in Nat /\ ~ (n <= n - 1)
      BY <2>2, <2>3
    <2>5. PICK G : Up(G, n - 1)
      BY <2>1, <2>4
    <2> DEFINE F == [f \in Elements |-> IF N - height[f] < n THEN KeyOf(lv, G, f) ELSE <<>>]
    <2>6. ASSUME NEW f \in Elements, N - height[f] < n PROVE KeyOf(lv, F, f) = KeyOf(lv, G, f)
      <3>1. ASSUME f # Root PROVE F[Above(f)] = G[Above(f)]
        <4> DEFINE p == Above(f)
        <4>1. p \in Elements /\ f \in Below(p)
          BY <3>1, AboveIs
        <4> HIDE DEF p
        <4>2. height[f] < height[p] /\ height[f] \in 0 .. N /\ height[p] \in 0 .. N
          BY <1>2, <4>1
        <4>3. N - height[p] < n - 1 /\ N - height[p] < n
          BY <1>1, <2>2, <2>6, <4>2
        <4>4. F[p] = KeyOf(lv, G, p)
          BY <4>1, <4>3
        <4>5. G[p] = KeyOf(lv, G, p)
          BY <2>5, <4>1, <4>3
        <4>6. QED
          BY <4>4, <4>5 DEF p
      <3> HIDE DEF F
      <3>2. QED
        BY <1>3, <3>1
    <2>7. F = [f \in Elements |-> IF N - height[f] < n THEN KeyOf(lv, F, f) ELSE <<>>]
      BY <2>6
    <2> HIDE DEF F
    <2>8. QED
      BY <2>2, <2>7
  <1>5. N + 1 \in Nat
    BY <1>1
  <1>6. PICK F : Up(F, N + 1)
    BY <1>4, <1>5
  <1>7. \A f \in Elements : N - height[f] < N + 1
    BY <1>1, <1>2
  <1>8. F = [f \in Elements |-> KeyOf(lv, F, f)]
    BY <1>6, <1>7
  <1>9. QED
    BY <1>8 DEF Keyed

LEMMA NoKeyInBlock ==
  ASSUME NoBlockKeys, NEW c \in InBlock
  PROVE  Key(c) = <<>>
  <1> DEFINE F == CHOOSE F : Keyed(level, F)
  <1>1. Key(c) = F[c]
    BY DEF Key, Keyed, KeyOf
  <1>2. Keyed(level, F)
    BY KeyedExist
  <1> HIDE DEF F
  <1>3. c \in Elements
    BY RecyclingAssumption
  <1>4. F[c] = KeyOf(level, F, c)
    BY <1>2, <1>3 DEF Keyed
  <1>5. QED
    BY <1>1, <1>4 DEF KeyOf, NoBlockKeys

-----------------------------------------------------------------------------
(***************************************************************************)
(* What holds between two steps of a walk.                                 *)
(***************************************************************************)

\* Those recycled after the first n steps with nothing else before them.
Due(q, n) ==
  {d \in Elements : \E j \in DOMAIN q : n < j /\ q[j].of = d /\ Through(q, n + 1, j)}

\* Those swept after the first n steps.
ToSweep(q, n) == {e \in Elements : \E j \in DOMAIN q : n < j /\ q[j] = Step("sweep", e)}

\* What was just recycled has no View.
GoneBy(s, q, n) ==
  \A k \in DOMAIN q : k <= n /\ Through(q, k, n) => s.view[q[k].of] = NoView

\* s is what the first n steps of q have made.
Holds(s, q, n) ==
  /\ Good(s)
  /\ Hung(s, Due(q, n))
  /\ NoBlockKeys => Kept(s, ToSweep(q, n))
  /\ GoneBy(s, q, n)

LEMMA HungMore ==
  ASSUME NEW s, NEW was, NEW due, was \subseteq due, Hung(s, was)
  PROVE  Hung(s, due)
  BY DEF Hung

LEMMA KeptMore ==
  ASSUME NEW s, NEW was, NEW swept, was \subseteq swept, Kept(s, was)
  PROVE  Kept(s, swept)
  BY DEF Kept

LEMMA HoldsStart ==
  ASSUME NEW s, Good(s), Hung(s, {}), NoBlockKeys => Kept(s, {}), NEW q \in Seq(Steps)
  PROVE  Holds(s, q, 0)
  <1>1. \A k \in DOMAIN q : ~ (k <= 0)
    OBVIOUS
  <1>2. QED
    BY <1>1, HungMore, KeptMore DEF Holds, GoneBy

LEMMA HoldsEnd ==
  ASSUME NEW s, NEW q \in Seq(Steps), Holds(s, q, Len(q))
  PROVE  Good(s) /\ Hung(s, {}) /\ (NoBlockKeys => Kept(s, {}))
  <1>1. \A j \in DOMAIN q : ~ (Len(q) < j)
    <2>1. DOMAIN q = 1 .. Len(q) /\ Len(q) \in Nat
      OBVIOUS
    <2>2. QED
      BY <2>1
  <1>2. Due(q, Len(q)) = {} /\ ToSweep(q, Len(q)) = {}
    BY <1>1 DEF Due, ToSweep
  <1>3. QED
    BY <1>2 DEF Holds

LEMMA HoldsNext ==
  ASSUME ~ IsFiniteSet(Views), NEW q \in Laws({}), NEW n \in DOMAIN q,
         NEW s, Holds(s, q, n - 1)
  PROVE  Holds(Do(s, q[n]), q, n)
  <1> DEFINE t == Do(s, q[n])
             e == q[n].of
             op == q[n].op
  <1>1. q \in Seq(Steps) /\ q[n] \in Steps /\ Lawful(q, n, {})
    BY DEF Laws
  <1>2. /\ e \in Elements /\ op \in {"obtain", "sweep", "recycleView", "remove"}
        /\ q[n] = Step(op, e)
    BY <1>1 DEF Steps, Step
  <1>3. n \in Nat /\ n - 1 \in Nat /\ (n - 1) + 1 = n /\ DOMAIN q \subseteq Nat /\ n \in n .. n
    <2>1. DOMAIN q = 1 .. Len(q) /\ Len(q) \in Nat
      BY <1>1
    <2>2. QED
      BY <2>1
  <1>4. Good(s) /\ Hung(s, Due(q, n - 1)) /\ (NoBlockKeys => Kept(s, ToSweep(q, n - 1)))
    BY DEF Holds
  <1>5. Good(t)
    BY <1>1, <1>4, DoGood
  <1> DEFINE now == ToSweep(q, n)
             was == ToSweep(q, n - 1)
  <1>6. /\ now \subseteq was
        /\ was \subseteq now \cup {e}
        /\ op # "sweep" => was = now
    <2>1. \A j \in DOMAIN q : /\ n < j => n - 1 < j
                              /\ n - 1 < j => n < j \/ j = n
      BY <1>3
    <2>2. now \subseteq was
      BY <2>1 DEF ToSweep
    <2>3. \A f : q[n] = Step("sweep", f) => f = e /\ op = "sweep"
      BY DEF Step
    <2> HIDE DEF op, e
    <2>4. ASSUME NEW f \in was PROVE f \in now \/ (f = e /\ op = "sweep")
      <3>1. PICK j \in DOMAIN q : n - 1 < j /\ q[j] = Step("sweep", f)
        BY DEF ToSweep
      <3>2. f \in Elements
        BY DEF ToSweep
      <3>3. ASSUME n < j PROVE f \in ToSweep(q, n)
        BY <3>1, <3>2, <3>3 DEF ToSweep
      <3>4. ASSUME j = n PROVE f = e /\ op = "sweep"
        BY <2>3, <3>1, <3>4
      <3>5. n < j \/ j = n
        BY <2>1, <3>1
      <3>6. QED
        BY <3>3, <3>4, <3>5
    <2> HIDE DEF now, was
    <2>5. QED
      BY <2>2, <2>4
  <1>7. ~ Recycling(q[n]) => Due(q, n - 1) = {}
    <2>1. \A j \in DOMAIN q : n - 1 < j => n \in (n - 1) + 1 .. j
      BY <1>3
    <2>2. QED
      BY <2>1 DEF Due, Through
  <1>8. ~ Recycling(q[n]) => GoneBy(t, q, n)
    <2>1. \A k \in DOMAIN q : k <= n => n \in k .. n
      BY <1>3
    <2>2. QED
      BY <2>1 DEF GoneBy, Through
  <1> HIDE DEF now, was, t
  <1>9. ASSUME op = "obtain" PROVE Holds(t, q, n)
    <2>1. t = Obtain(s, e)
      BY <1>9 DEF Do, t
    <2>2. ~ Recycling(q[n])
      BY <1>9 DEF Recycling
    <2>3. e \in was
      <3>1. SweptLater(q, n)
        BY <1>1 DEF Lawful
      <3>2. e \in now
        BY <1>2, <1>9, <3>1 DEF SweptLater, ToSweep, now
      <3>3. QED
        BY <1>6, <3>2
    <2>4. Hung(s, {})
      BY <1>4, <1>7, <2>2
    <2>5. Hung(t, Due(q, n))
      BY <1>2, <1>4, <2>1, <2>4, HungObtain
    <2>6. NoBlockKeys => Kept(t, was)
      BY <1>2, <1>4, <2>1, <2>3, KeptObtain DEF was
    <2>7. was = now
      BY <1>6, <1>9
    <2>8. QED
      BY <1>5, <1>8, <2>2, <2>5, <2>6, <2>7 DEF Holds, now
  <1>10. ASSUME op = "sweep" PROVE Holds(t, q, n)
    <2>1. t = Sweep(s, e)
      BY <1>10 DEF Do, t
    <2>2. ~ Recycling(q[n])
      BY <1>10 DEF Recycling
    <2>3. Hung(s, Due(q, n))
      BY <1>4, <1>7, <2>2, HungMore
    <2>4. Hung(t, Due(q, n))
      BY <1>2, <1>4, <1>6, <2>1, <2>3, SweepKeeps
    <2>5. NoBlockKeys => Kept(t, now)
      BY <1>2, <1>4, <1>6, <2>1, SweepKeeps DEF was
    <2>6. QED
      BY <1>5, <1>8, <2>2, <2>4, <2>5 DEF Holds, now
  <1>11. ASSUME op \in {"recycleView", "remove"} PROVE Holds(t, q, n)
    <2>1. Recycling(q[n])
      BY <1>11 DEF Recycling
    <2>2. /\ Drops(s, t, e)
          /\ op = "remove" /\ s.view[e] # NoView => t.parent[s.view[e]] = NoView
      BY <1>1, <1>4, <2>1, DoDrops DEF t
    <2>3. Due(q, n - 1) \subseteq Due(q, n) \cup {e}
      <3>1. ASSUME NEW d \in Due(q, n - 1), d # e PROVE d \in Due(q, n)
        <4>1. PICK j \in DOMAIN q : n - 1 < j /\ q[j].of = d /\ Through(q, n, j)
          BY <1>3, <3>1 DEF Due
        <4>2. j # n
          BY <3>1, <4>1
        <4>3. n < j /\ n + 1 .. j \subseteq n .. j
          BY <1>3, <4>1, <4>2
        <4>4. Through(q, n + 1, j)
          BY <4>1, <4>3 DEF Through
        <4>5. d \in Elements
          BY DEF Due
        <4>6. QED
          BY <4>1, <4>3, <4>4, <4>5 DEF Due
      <3>2. QED
        BY <3>1
    <2>4. Below(e) \ InBlock \subseteq Due(q, n)
      <3>1. ASSUME NEW d \in Below(e) \ InBlock PROVE d \in Due(q, n)
        <4>1. PICK j \in DOMAIN q : n < j /\ q[j].of = d /\ Through(q, n, j)
          BY <1>1, <2>1, <3>1 DEF Lawful, ChildrenFollow
        <4>2. n + 1 .. j \subseteq n .. j
          BY <1>3, <4>1
        <4>3. Through(q, n + 1, j)
          BY <4>1, <4>2 DEF Through
        <4>4. d \in Elements
          BY <1>2, <3>1, AboveBelow
        <4>5. QED
          BY <4>1, <4>3, <4>4 DEF Due
      <3>2. QED
        BY <3>1
    <2>5. Hung(t, Due(q, n))
      BY <1>2, <1>4, <2>2, <2>3, <2>4, HungDrops
    <2>6. ASSUME NoBlockKeys PROVE Kept(t, now)
      <3>1. Kept(s, now)
        BY <1>4, <1>6, <1>11, <2>6 DEF was
      <3>2. Key(e) # <<>> => e \notin InBlock
        BY <2>6, NoKeyInBlock
      <3>3. op = "recycleView" => Above(e) \in now \/ s.view[Above(e)] = NoView
        <4> SUFFICES ASSUME op = "recycleView"
                     PROVE  Above(e) \in now \/ s.view[Above(e)] = NoView
          OBVIOUS
        <4>1. \/ \E j \in DOMAIN q : n < j /\ q[j] = Step("sweep", Above(e))
              \/ \E k \in DOMAIN q : k < n /\ q[k].of = Above(e) /\ Through(q, k, n)
          BY <1>1 DEF Lawful, ParentKnown
        <4>2. ASSUME NEW j \in DOMAIN q, n < j, q[j] = Step("sweep", Above(e))
              PROVE  Above(e) \in now
          <5>1. q[j] \in Steps /\ q[j].of = Above(e)
            BY <1>1, <4>2 DEF Step
          <5>2. Above(e) \in Elements
            BY <5>1 DEF Steps
          <5>3. QED
            BY <4>2, <5>2 DEF ToSweep, now
        <4>3. ASSUME NEW k \in DOMAIN q, k < n, q[k].of = Above(e), Through(q, k, n)
              PROVE  s.view[Above(e)] = NoView
          <5>1. k <= n - 1 /\ k .. n - 1 \subseteq k .. n
            BY <1>3, <4>3
          <5>2. Through(q, k, n - 1)
            BY <4>3, <5>1 DEF Through
          <5>3. QED
            BY <4>3, <5>1, <5>2 DEF Holds, GoneBy
        <4>4. QED
          BY <4>1, <4>2, <4>3
      <3>4. \/ s.view[e] = NoView
            \/ t.parent[s.view[e]] = NoView
            \/ Key(e) # <<>> => /\ e \notin InBlock
                                /\ Above(e) \in now \/ s.view[Above(e)] = NoView
        BY <1>11, <2>2, <3>2, <3>3
      <3> HIDE DEF e
      <3>5. QED
        BY <1>2, <1>4, <2>2, <3>1, <3>4, KeptDrops
    <2>7. GoneBy(t, q, n)
      <3> SUFFICES ASSUME NEW k \in DOMAIN q, k <= n, Through(q, k, n)
                   PROVE  t.view[q[k].of] = NoView
        BY DEF GoneBy
      <3>1. q[k].of \in Elements
        <4>1. q[k] \in Steps
          BY <1>1
        <4>2. QED
          BY <4>1 DEF Steps
      <3>2. \A d \in Elements : t.view[d] = IF d = e THEN NoView ELSE s.view[d]
        BY <1>4, <2>2 DEF Good, Basic, Typed, Drops
      <3>3. CASE k = n
        BY <3>1, <3>2, <3>3
      <3>4. CASE k # n
        <4>1. k <= n - 1 /\ k .. n - 1 \subseteq k .. n
          BY <1>3, <3>4
        <4>2. Through(q, k, n - 1)
          BY <4>1 DEF Through
        <4>3. s.view[q[k].of] = NoView
          BY <4>1, <4>2 DEF Holds, GoneBy
        <4>4. QED
          BY <3>1, <3>2, <4>3
      <3>5. QED
        BY <3>3, <3>4
    <2>8. QED
      BY <1>5, <2>5, <2>6, <2>7 DEF Holds, now
  <1>12. QED
    BY <1>2, <1>9, <1>10, <1>11 DEF t

\* Between two walks.
Whole(s) == Good(s) /\ Hung(s, {}) /\ (NoBlockKeys => Kept(s, {}))

LEMMA RunWhole ==
  ASSUME ~ IsFiniteSet(Views), Whole(Now), NEW steps \in Laws({}), Run(steps)
  PROVE  Whole(Now)'
  <1> DEFINE N == Len(steps)
             F == CHOOSE F : Afters(F, Now, steps, N)
             s == F[N]
  <1>1. /\ steps \in Seq(Steps) /\ N \in Nat
        /\ \A i \in 1 .. N : steps[i] \in Steps /\ i \in DOMAIN steps
    BY DEF Laws
  <1>2. view' = s.view /\ parent' = s.parent /\ pool' = s.pool
    BY DEF Run, Afters
  <1>3. Afters(F, Now, steps, N)
    BY <1>1, AftersExist
  <1> HIDE DEF F
  <1>4. \A i \in 0 .. N : F[i] = IF i = 0 THEN Now ELSE Do(F[i - 1], steps[i])
    BY <1>3 DEF Afters
  <1> HIDE DEF N
  <1> DEFINE Bad == {i \in 0 .. N : ~ Holds(F[i], steps, i)}
  <1>5. Bad = {}
    <2> SUFFICES ASSUME Bad # {} PROVE FALSE
      OBVIOUS
    <2>1. PICK n \in Bad : \A m \in Bad : n <= m
      <3>1. Bad \in SUBSET Nat
        BY <1>1
      <3> HIDE DEF Bad
      <3>2. QED
        BY <3>1, Least
    <2>2. n \in 0 .. N /\ ~ Holds(F[n], steps, n)
      OBVIOUS
    <2>3. n # 0
      <3>1. Holds(Now, steps, 0)
        BY <1>1, HoldsStart DEF Whole
      <3>2. QED
        BY <1>1, <1>4, <2>2, <3>1
    <2>4. n \in 1 .. N /\ n - 1 \in 0 .. N /\ ~ (n <= n - 1)
      BY <1>1, <2>2, <2>3
    <2>5. Holds(F[n - 1], steps, n - 1)
      BY <2>1, <2>4
    <2>6. F[n] = Do(F[n - 1], steps[n]) /\ n \in DOMAIN steps
      BY <1>1, <1>4, <2>3, <2>4
    <2>7. Holds(Do(F[n - 1], steps[n]), steps, n)
      BY <2>5, <2>6, HoldsNext
    <2>8. QED
      BY <2>2, <2>6, <2>7
  <1>6. Holds(s, steps, N)
    BY <1>1, <1>5
  <1> HIDE DEF s
  <1>7. Whole(s)
    BY <1>1, <1>6, HoldsEnd DEF Whole, N
  <1>8. s = [view |-> s.view, parent |-> s.parent, pool |-> s.pool]
    BY <1>7 DEF Whole, Good, Basic, Typed
  <1>9. s = [view |-> view', parent |-> parent', pool |-> pool']
    BY <1>2, <1>8
  <1>10. Now' = s
    BY <1>9 DEF Now
  <1>11. QED
    BY <1>7, <1>10

-----------------------------------------------------------------------------
(***************************************************************************)
(* The invariant.                                                          *)
(***************************************************************************)

Inv == Whole(Now)

LEMMA InitWhole == Init => Inv
  <1> SUFFICES ASSUME Init PROVE Whole(Now)
    BY DEF Inv
  <1> DEFINE s == Now
  <1>1. /\ s = [view |-> s.view, parent |-> s.parent, pool |-> s.pool]
        /\ s.view = [e \in Elements |-> NoView]
        /\ s.parent = [v \in Views |-> NoView]
        /\ s.pool = [v \in Views |-> <<>>]
    BY DEF Now, Init
  <1> HIDE DEF s
  <1>2. \A v \in Views : /\ Pooled(s, v) = {} /\ IsSeq(s.pool[v]) /\ OneEach(s.pool[v])
    BY <1>1, EmptyPool DEF Pooled, ViewsIn
  <1>3. Typed(s)
    BY <1>1, <1>2 DEF Typed
  <1>4. PageApart(s)
    BY <1>1, <1>2, Constants DEF PageApart
  <1>5. One(s)
    BY <1>1, <1>2 DEF One
  <1>6. Ranked(s)
    <2>1. Ranks([v \in Views |-> 0], s)
      BY <1>1, <1>2 DEF Ranks
    <2>2. [v \in Views |-> 0] \in [Views -> Nat]
      OBVIOUS
    <2> HIDE DEF Ranks
    <2>3. QED
      BY <2>1, <2>2 DEF Ranked
  <1>7. Finite(s)
    <2>1. Own(s) \subseteq {Page} /\ Placed(s) = {}
      BY <1>1, <1>2 DEF Own, Placed
    <2>2. IsFiniteSet({Page})
      BY FS_Singleton
    <2>3. QED
      BY <2>1, <2>2, FS_Subset DEF Finite
  <1>8. Clean(s)
    BY <1>1, <1>2 DEF Clean
  <1>9. Good(s)
    BY <1>3, <1>4, <1>5, <1>6, <1>7, <1>8 DEF Basic, Good
  <1>10. Hung(s, {}) /\ Kept(s, {})
    BY <1>1 DEF Hung, Kept, Inner
  <1>11. QED
    BY <1>9, <1>10 DEF Whole, s

LEMMA NextWhole ==
  ASSUME ~ IsFiniteSet(Views), Inv, [Next]_vars
  PROVE  Inv'
  <1>1. Whole(Now)
    BY DEF Inv
  <1>2. ASSUME UNCHANGED <<view, parent, pool>> PROVE Inv'
    <2>1. Now' = Now
      BY <1>2 DEF Now
    <2>2. Whole(Now)'
      BY <1>1, <2>1
    <2>3. QED
      BY <2>2 DEF Inv
  <1>3. ASSUME NEW steps \in Laws({}), Run(steps) PROVE Inv'
    BY <1>1, <1>3, RunWhole DEF Inv
  <1>4. \A vis : \A e \in Elements : Walk(e, vis) \in Laws({}) /\ Tail(Walk(e, vis)) \in Laws({})
    BY WalkIs, TailIs DEF WalkOf
  <1>5. ASSUME NEW e \in Elements \ {Root}, Add(e) PROVE Inv'
    BY <1>2, <1>5 DEF Add
  <1>6. ASSUME NEW e \in Elements \ {Root}, Recycle(e) PROVE Inv'
    BY <1>3, <1>6, RemovedIs DEF Recycle
  <1>7. ASSUME NEW e \in Elements, Scroll(e) PROVE Inv'
    BY <1>3, <1>4, <1>7 DEF Scroll
  <1>8. ASSUME NEW e \in Elements, Hover(e) PROVE Inv'
    BY <1>3, <1>4, <1>8 DEF Hover
  <1>9. ASSUME Layout PROVE Inv'
    BY <1>3, <1>4, <1>9, Constants DEF Layout
  <1>10. CASE UNCHANGED vars
    BY <1>2, <1>10 DEF vars
  <1>11. QED
    BY <1>5, <1>6, <1>7, <1>8, <1>9, <1>10 DEF Next

LEMMA WholeIsExclusive ==
  ASSUME Inv
  PROVE  Exclusive
  <1>1. One(Now)
    BY DEF Inv, Whole, Good, Basic
  <1>2. /\ \A v \in Views : OneEach(pool[v])
        /\ \A v \in Views : \A i \in DOMAIN pool[v] : pool[v][i].view \in Pooled(Now, v)
        /\ Now.view = view
    BY <1>1 DEF One, Now, Pooled
  <1>3. \A v, w \in Views : \A i \in DOMAIN pool[v], j \in DOMAIN pool[w] :
          pool[v][i].view = pool[w][j].view => v = w /\ i = j
    <2>1. \A v, w \in Views : v # w => Pooled(Now, v) \cap Pooled(Now, w) = {}
      BY <1>1 DEF One
    <2>2. \A v \in Views : \A i, j \in DOMAIN pool[v] :
            pool[v][i].view = pool[v][j].view => i = j
      BY <1>2 DEF OneEach
    <2>3. QED
      BY <1>2, <2>1, <2>2
  <1>4. QED
    BY <1>1, <1>2, <1>3 DEF One, Exclusive

LEMMA WholeIsAttached ==
  ASSUME Inv
  PROVE  Attached
  <1>1. Hung(Now, {}) /\ Now.view = view /\ Now.parent = parent
    BY DEF Inv, Whole, Now
  <1>2. QED
    BY <1>1 DEF Hung, HasParent, Attached, Inner

LEMMA WholeHasNoStrangers ==
  ASSUME NoBlockKeys, Inv
  PROVE  NoStrangers
  <1>1. /\ Hung(Now, {}) /\ Kept(Now, {}) /\ PageApart(Now)
        /\ Now.view = view /\ Now.parent = parent
    BY DEF Inv, Whole, Good, Basic, Now
  <1> SUFFICES ASSUME NEW e \in Elements, NEW v \in Views,
                      view[e] # NoView, parent[v] = view[e]
               PROVE  \E c \in Below(e) \cup InBlock : view[c] = v
    BY DEF NoStrangers
  <1>2. PICK c \in Elements : view[c] = v
    BY <1>1 DEF Kept
  <1>3. ASSUME c \notin InBlock PROVE c \in Below(e)
    <2>1. c # Root
      BY <1>1, <1>2, Constants DEF PageApart
    <2>2. c \in Inner /\ view[c] # NoView
      BY <1>2, <1>3, <2>1, Constants DEF Inner
    <2>3. e = Above(c)
      BY <1>1, <1>2, <2>2 DEF Hung
    <2>4. QED
      BY <2>1, <2>3, AboveIs
  <1>4. QED
    BY <1>2, <1>3

-----------------------------------------------------------------------------
(***************************************************************************)
(* The level ids.                                                          *)
(***************************************************************************)

\* What TypeOK says of the elements, with the types of level and auto.
Leveled ==
  /\ present \subseteq Elements /\ Root \in present
  /\ visible \subseteq present \ {Root}
  /\ level \in [Elements -> Nat] /\ auto \in [Elements -> Nat]
  /\ \A e \in Elements : auto[e] <= MaxLevel[e]
  /\ \A e \in Elements \ {Root} : level[e] <= auto[Above(e)]
  /\ \A p \in Elements : \A c, d \in (present \cap Below(p)) \ InBlock :
       level[c] = level[d] => c = d

LEMMA LevelBounds == MaxLevel \in [Elements -> Nat]
  BY RecyclingAssumption

LEMMA InitLeveled == Init => Leveled
  <1> SUFFICES ASSUME Init PROVE Leveled
    OBVIOUS
  <1>1. \A p \in Elements : Root \notin Below(p)
    BY RecyclingAssumption
  <1>2. \A e \in Elements \ {Root} : Above(e) \in Elements
    BY AboveIs
  <1>3. QED
    BY <1>1, <1>2, Constants, LevelBounds DEF Init, Leveled

LEMMA SubtreeIs ==
  ASSUME NEW e \in Elements \ {Root}
  PROVE  /\ Subtree(e) \subseteq Elements /\ Root \notin Subtree(e)
         /\ \A g \in Subtree(e) : Below(g) \subseteq Subtree(e)
  <1> DEFINE Closed(T) == \A g \in T : Below(g) \subseteq T
  <1>1. Subtree(e) = {f \in Elements : \A T \in SUBSET Elements :
                        e \in T /\ Closed(T) => f \in T}
    BY DEF Subtree, Subtrees
  <1>2. \A g \in Elements : Below(g) \subseteq Elements \ {Root}
    BY AboveBelow
  <1>3. Root \notin Subtree(e)
    <2> DEFINE T == Elements \ {Root}
    <2>1. T \in SUBSET Elements /\ e \in T /\ Closed(T)
      BY <1>2
    <2> HIDE DEF T, Closed
    <2>2. \A f \in Subtree(e) : f \in T
      BY <1>1, <2>1
    <2>3. QED
      BY <2>2 DEF T
  <1>4. \A g \in Subtree(e) : Below(g) \subseteq Subtree(e)
    BY <1>1, <1>2
  <1>5. QED
    BY <1>1, <1>3, <1>4

LEMMA NextLeveled ==
  ASSUME Leveled, [Next]_vars
  PROVE  Leveled'
  <1>1. \A e \in Elements \ {Root} : Above(e) \in Elements /\ e \in Below(Above(e))
    BY AboveIs
  <1>2. \A p \in Elements : \A c \in Below(p) : c \in Elements \ {Root} /\ Above(c) = p
    BY AboveBelow
  <1>3. ASSUME UNCHANGED <<present, level, auto>>, visible' \subseteq present \ {Root}
        PROVE  Leveled'
    BY <1>3 DEF Leveled
  <1>4. ASSUME NEW e \in Elements \ {Root}, Add(e) PROVE Leveled'
    <2> DEFINE p == Above(e)
    <2>1. p \in Elements /\ p \in present /\ e \notin present /\ auto[p] < MaxLevel[p]
      BY <1>1, <1>4 DEF Add
    <2>2. present' = present \cup {e} /\ visible' = visible
      BY <1>4 DEF Add
    <2>3. /\ \A f \in Elements : auto[f] \in Nat /\ level[f] \in Nat /\ MaxLevel[f] \in Nat
          /\ \A f \in Elements \ {Root} : level[f] <= auto[Above(f)]
      BY LevelBounds DEF Leveled
    <2>4. ASSUME e \in InBlock, UNCHANGED <<level, auto>> PROVE Leveled'
      BY <2>2, <2>4 DEF Leveled
    <2>5. ASSUME e \notin InBlock,
                 auto' = [auto EXCEPT ![p] = @ + 1],
                 level' = [level EXCEPT ![e] = auto[p] + 1]
          PROVE  Leveled'
      <3> HIDE DEF p
      <3>1. auto \in [Elements -> Nat] /\ level \in [Elements -> Nat]
        BY DEF Leveled
      <3>2. /\ \A f \in Elements : auto'[f] = IF f = p THEN auto[p] + 1 ELSE auto[f]
            /\ \A f \in Elements : level'[f] = IF f = e THEN auto[p] + 1 ELSE level[f]
        BY <2>5, <3>1
      <3>3. auto' \in [Elements -> Nat] /\ level' \in [Elements -> Nat]
        BY <2>1, <2>3, <2>5, <3>1
      <3>4. \A f \in Elements : auto'[f] <= MaxLevel[f]
        BY <2>1, <2>3, <3>2 DEF Leveled
      <3>5. \A f \in Elements \ {Root} : level'[f] <= auto'[Above(f)]
        BY <1>1, <2>1, <2>3, <3>2 DEF p
      <3>6. ASSUME NEW q \in Elements, NEW c \in (present' \cap Below(q)) \ InBlock,
                   NEW d \in (present' \cap Below(q)) \ InBlock, level'[c] = level'[d]
            PROVE  c = d
        <4>1. /\ c \in Elements \ {Root} /\ Above(c) = q
              /\ d \in Elements \ {Root} /\ Above(d) = q
          BY <1>2, <3>6
        <4>2. /\ level[c] <= auto[q] /\ level[d] <= auto[q]
              /\ level[c] \in Nat /\ level[d] \in Nat /\ auto[q] \in Nat
          BY <2>3, <4>1
        <4>3. CASE c # e /\ d # e
          BY <2>2, <3>2, <3>6, <4>1, <4>3 DEF Leveled
        <4>4. CASE c = e /\ d # e
          BY <3>2, <3>6, <4>1, <4>2, <4>4 DEF p
        <4>5. CASE c # e /\ d = e
          BY <3>2, <3>6, <4>1, <4>2, <4>5 DEF p
        <4>6. QED
          BY <4>3, <4>4, <4>5
      <3>7. present' \subseteq Elements /\ Root \in present' /\ visible' \subseteq present' \ {Root}
        BY <2>2 DEF Leveled
      <3>8. QED
        BY <3>3, <3>4, <3>5, <3>6, <3>7 DEF Leveled
    <2>6. QED
      BY <1>4, <2>4, <2>5 DEF Add
  <1>5. ASSUME NEW e \in Elements \ {Root}, Recycle(e) PROVE Leveled'
    <2> DEFINE gone == Subtree(e)
    <2>1. /\ present' = present \ gone /\ visible' = visible \ gone
          /\ level' = [f \in Elements |-> IF f \in gone THEN 0 ELSE level[f]]
          /\ auto' = [f \in Elements |-> IF f \in gone THEN 0 ELSE auto[f]]
      BY <1>5 DEF Recycle
    <2>2. Root \notin gone /\ \A g \in gone : Below(g) \subseteq gone
      BY SubtreeIs
    <2> HIDE DEF gone
    <2>3. \A f \in Elements \ {Root} : f \notin gone => Above(f) \notin gone
      BY <1>1, <2>2
    <2>4. /\ \A f \in Elements : auto[f] \in Nat /\ level[f] \in Nat /\ MaxLevel[f] \in Nat
          /\ \A f \in Elements \ {Root} : level[f] <= auto[Above(f)]
      BY LevelBounds DEF Leveled
    <2>5. auto' \in [Elements -> Nat] /\ level' \in [Elements -> Nat]
      BY <2>1, <2>4
    <2>6. \A f \in Elements : auto'[f] <= MaxLevel[f]
      BY <2>1, <2>4 DEF Leveled
    <2>7. \A f \in Elements \ {Root} : level'[f] <= auto'[Above(f)]
      BY <1>1, <2>1, <2>3, <2>4
    <2>8. \A q \in Elements : \A c, d \in (present' \cap Below(q)) \ InBlock :
            level'[c] = level'[d] => c = d
      BY <1>2, <2>1 DEF Leveled
    <2>9. present' \subseteq Elements /\ Root \in present' /\ visible' \subseteq present' \ {Root}
      BY <2>1, <2>2 DEF Leveled
    <2>10. QED
      BY <2>5, <2>6, <2>7, <2>8, <2>9 DEF Leveled
  <1>6. ASSUME NEW e \in Elements, Scroll(e) PROVE Leveled'
    <2>1. Root \notin Below(e)
      BY <1>2
    <2>2. visible' \subseteq present \ {Root}
      BY <1>6, <2>1 DEF Scroll, Leveled
    <2>3. QED
      BY <1>3, <1>6, <2>2 DEF Scroll
  <1>7. ASSUME NEW e \in Elements, Hover(e) PROVE Leveled'
    BY <1>3, <1>7 DEF Hover, Leveled
  <1>8. ASSUME Layout PROVE Leveled'
    BY <1>3, <1>8 DEF Layout
  <1>9. CASE UNCHANGED vars
    BY <1>9 DEF vars, Leveled
  <1>10. QED
    BY <1>4, <1>5, <1>6, <1>7, <1>8, <1>9 DEF Next

LEMMA TypeOKHolds ==
  ASSUME Inv, Leveled
  PROVE  TypeOK
  <1>1. /\ Typed(Now) /\ PageApart(Now)
        /\ Now.view = view /\ Now.parent = parent /\ Now.pool = pool
    BY DEF Inv, Whole, Good, Basic, Now
  <1>2. \A e \in Elements : auto[e] \in 0 .. MaxLevel[e]
    BY LevelBounds DEF Leveled
  <1>3. \A e \in Elements \ {Root} : level[e] \in 0 .. auto[Above(e)]
    BY AboveIs DEF Leveled
  <1>4. view \in [Elements -> Views \cup {NoView}] /\ parent \in [Views -> Views \cup {NoView}]
    BY <1>1 DEF Typed
  <1>5. \A v \in Views : \A i \in DOMAIN pool[v] : pool[v][i].view \in Views \ {Page}
    <2>1. \A v \in Views : \A i \in DOMAIN pool[v] : pool[v][i].view \in Pooled(Now, v)
      BY <1>1 DEF Pooled
    <2>2. QED
      BY <1>1, <2>1 DEF Typed, PageApart
  <1>6. QED
    BY <1>2, <1>3, <1>4, <1>5 DEF TypeOK, Leveled

-----------------------------------------------------------------------------
(***************************************************************************)
(* What is below an element.                                               *)
(***************************************************************************)

\* T has, with an element, what is below it.
Closed(T) == \A g \in T : Below(g) \subseteq T

LEMMA SubtreeOf ==
  ASSUME NEW e \in Elements
  PROVE  e \in Subtree(e) /\ Subtree(e) \subseteq Elements /\ Closed(Subtree(e))
  <1>1. Subtree(e) = {f \in Elements : \A T \in SUBSET Elements :
                        e \in T /\ Closed(T) => f \in T}
    BY DEF Subtree, Subtrees, Closed
  <1>2. \A g \in Elements : Below(g) \subseteq Elements
    BY AboveBelow
  <1>3. ASSUME NEW g \in Subtree(e), NEW c \in Below(g) PROVE c \in Subtree(e)
    <2>1. ASSUME NEW T \in SUBSET Elements, e \in T, Closed(T) PROVE c \in T
      <3>1. g \in T
        BY <1>1, <2>1
      <3>2. QED
        BY <2>1, <3>1 DEF Closed
    <2>2. c \in Elements
      BY <1>1, <1>2
    <2>3. QED
      BY <1>1, <2>1, <2>2
  <1>4. QED
    BY <1>1, <1>3 DEF Closed

\* What holds of e and, with an element below it, of those below that one, holds
\* of all that is below e.
LEMMA Reached ==
  ASSUME NEW e \in Elements, NEW T, e \in T,
         \A g \in Subtree(e) \cap T : Below(g) \subseteq T
  PROVE  Subtree(e) \subseteq T
  <1> DEFINE U == Subtree(e) \cap T
  <1>1. e \in U /\ U \in SUBSET Elements
    BY SubtreeOf
  <1>2. Closed(U)
    BY SubtreeOf DEF Closed
  <1>3. Subtree(e) = {f \in Elements : \A V \in SUBSET Elements :
                        e \in V /\ Closed(V) => f \in V}
    BY DEF Subtree, Subtrees, Closed
  <1> HIDE DEF U
  <1>4. Subtree(e) \subseteq U
    BY <1>1, <1>2, <1>3
  <1>5. QED
    BY <1>4 DEF U

LEMMA SubtreeIn ==
  ASSUME NEW e \in Elements, NEW f \in Subtree(e)
  PROVE  f \in Elements /\ Subtree(f) \subseteq Subtree(e)
  <1>1. f \in Elements
    BY SubtreeOf
  <1>2. \A g \in Subtree(e) : Below(g) \subseteq Subtree(e)
    BY SubtreeOf DEF Closed
  <1>3. QED
    BY <1>1, <1>2, Reached

\* Nothing is below itself.
LEMMA SubtreeOnce ==
  ASSUME NEW e \in Elements, NEW f \in Subtree(e), e \in Subtree(f)
  PROVE  f = e
  <1> DEFINE N == Cardinality(Elements)
  <1>1. N \in Nat
    BY Constants, FS_CardinalityType
  <1>2. PICK height \in [Elements -> 0 .. N] :
          \A p \in Elements : \A c \in Below(p) : height[c] < height[p]
    BY RecyclingAssumption
  <1> HIDE DEF N
  <1>3. ASSUME NEW p \in Elements PROVE \A g \in Subtree(p) : g = p \/ height[g] < height[p]
    <2> DEFINE T == {g \in Elements : g = p \/ height[g] < height[p]}
    <2>1. ASSUME NEW g \in T, NEW c \in Below(g) PROVE c \in T
      <3>1. c \in Elements
        BY AboveBelow
      <3>2. /\ height[c] < height[g] /\ height[c] \in Int /\ height[g] \in Int
            /\ height[p] \in Int
        BY <1>1, <1>2, <3>1
      <3>3. QED
        BY <3>1, <3>2
    <2>2. p \in T
      OBVIOUS
    <2> HIDE DEF T
    <2>3. Subtree(p) \subseteq T
      BY <2>1, <2>2, Reached
    <2>4. QED
      BY <2>3 DEF T
  <1>4. f \in Elements
    BY SubtreeOf
  <1>5. /\ f = e \/ height[f] < height[e]
        /\ e = f \/ height[e] < height[f]
    BY <1>3, <1>4
  <1>6. height[e] \in Int /\ height[f] \in Int
    BY <1>1, <1>2, <1>4
  <1>7. QED
    BY <1>5, <1>6

LEMMA ChildIn ==
  ASSUME NEW p \in Elements, NEW c \in Below(p)
  PROVE  c \in Subtree(p) /\ p \notin Subtree(c) /\ c # p
  <1>1. c \in Elements /\ c \in Subtree(p)
    BY AboveBelow, SubtreeOf DEF Closed
  <1>2. c # p
    <2> DEFINE N == Cardinality(Elements)
    <2>1. N \in Nat
      BY Constants, FS_CardinalityType
    <2>2. PICK height \in [Elements -> 0 .. N] :
            \A q \in Elements : \A d \in Below(q) : height[d] < height[q]
      BY RecyclingAssumption
    <2>3. height[c] < height[p] /\ height[c] \in 0 .. N
      BY <1>1, <2>2
    <2> HIDE DEF N
    <2>4. QED
      BY <2>1, <2>3
  <1>3. QED
    BY <1>1, <1>2, SubtreeOnce

\* Every element is below the root.
LEMMA AllBelowRoot == Subtree(Root) = Elements
  <1> DEFINE N == Cardinality(Elements)
             Out == Elements \ Subtree(Root)
  <1>1. N \in Nat /\ Root \in Elements
    BY Constants, FS_CardinalityType
  <1>2. PICK height \in [Elements -> 0 .. N] :
          \A p \in Elements : \A c \in Below(p) : height[c] < height[p]
    BY RecyclingAssumption
  <1> HIDE DEF N
  <1> DEFINE Depths == {N - height[f] : f \in Out}
  <1>3. Out = {}
    <2> SUFFICES ASSUME Out # {} PROVE FALSE
      OBVIOUS
    <2>1. Depths \in SUBSET Nat /\ Depths # {}
      <3>1. \A f \in Out : N - height[f] \in Nat
        BY <1>1, <1>2
      <3>2. QED
        BY <3>1
    <2>2. PICK n \in Depths : \A m \in Depths : n <= m
      <3> HIDE DEF Depths
      <3>1. QED
        BY <2>1, Least
    <2>3. PICK f \in Out : n = N - height[f]
      OBVIOUS
    <2>4. f # Root /\ f \in Elements
      BY <1>1, SubtreeOf
    <2> DEFINE p == Above(f)
    <2>5. p \in Elements /\ f \in Below(p)
      BY <2>4, AboveIs
    <2> HIDE DEF p
    <2>6. p \in Out
      BY <1>1, <2>3, <2>5, SubtreeOf DEF Closed
    <2>7. height[f] < height[p] /\ height[f] \in 0 .. N /\ height[p] \in 0 .. N
      BY <1>2, <2>4, <2>5
    <2>8. N - height[p] \in Depths
      BY <2>6
    <2>9. n <= N - height[p]
      BY <2>2, <2>8
    <2>10. QED
      BY <1>1, <2>3, <2>7, <2>9
  <1>4. QED
    BY <1>1, <1>3, SubtreeOf

\* What is below y, and is not y, has its parent there.
LEMMA SubtreeAbove ==
  ASSUME NEW y \in Elements, NEW x \in Subtree(y), x # y
  PROVE  x # Root /\ Above(x) \in Subtree(y)
  <1> DEFINE T == {f \in Elements : f = y \/ (f # Root /\ Above(f) \in Subtree(y))}
  <1>1. ASSUME NEW g \in Subtree(y) \cap T, NEW c \in Below(g) PROVE c \in T
    BY <1>1, AboveBelow
  <1>2. y \in T
    OBVIOUS
  <1> HIDE DEF T
  <1>3. Subtree(y) \subseteq T
    BY <1>1, <1>2, Reached
  <1>4. QED
    BY <1>3 DEF T

\* On the way from y down to x something leaves S, when y is in it and x is not.
LEMMA WayDown ==
  ASSUME NEW y \in Elements, NEW x \in Subtree(y), NEW S, y \in S,
         \A p \in S \cap Subtree(y) : \A c \in Below(p) : x \in Subtree(c) => c \in S
  PROVE  x \in S
  <1> DEFINE T == {f \in Elements : f \in S \/ x \notin Subtree(f)}
  <1>1. ASSUME NEW g \in Subtree(y) \cap T, NEW c \in Below(g) PROVE c \in T
    <2>1. c \in Elements /\ c \in Subtree(g) /\ g \in Elements
      BY AboveBelow, ChildIn
    <2>2. Subtree(c) \subseteq Subtree(g)
      BY <2>1, SubtreeIn
    <2>3. QED
      BY <2>1, <2>2
  <1>2. y \in T
    OBVIOUS
  <1> HIDE DEF T
  <1>3. x \in T
    BY <1>1, <1>2, Reached
  <1>4. x \in Subtree(x)
    BY SubtreeIn, SubtreeOf
  <1>5. QED
    BY <1>3, <1>4 DEF T

\* On the way from x up to y something leaves S, when x is in it and y is not.
LEMMA WayUp ==
  ASSUME NEW y \in Elements, NEW x \in Subtree(y), NEW S, x \in S,
         \A c \in S \cap (Subtree(y) \ {y}) : x \in Subtree(c) => Above(c) \in S
  PROVE  y \in S
  <1> SUFFICES ASSUME y \notin S PROVE FALSE
    OBVIOUS
  <1> DEFINE T == {f \in Elements : f \notin S \/ x \notin Subtree(f)}
  <1>1. ASSUME NEW g \in Subtree(y) \cap T, NEW c \in Below(g) PROVE c \in T
    <2>1. /\ c \in Elements /\ c \in Subtree(g) /\ g \in Elements /\ Above(c) = g
          /\ c \in Subtree(y)
      BY AboveBelow, ChildIn, SubtreeIn
    <2>2. Subtree(c) \subseteq Subtree(g)
      BY <2>1, SubtreeIn
    <2>3. ASSUME c \in S, x \in Subtree(c) PROVE FALSE
      <3>1. c # y
        BY <2>3
      <3>2. g \in S
        BY <2>1, <2>3, <3>1
      <3>3. QED
        BY <2>2, <2>3, <3>2
    <2>4. QED
      BY <2>1, <2>3
  <1>2. y \in T
    OBVIOUS
  <1> HIDE DEF T
  <1>3. x \in T
    BY <1>1, <1>2, Reached
  <1>4. x \in Subtree(x)
    BY SubtreeIn, SubtreeOf
  <1>5. QED
    BY <1>3, <1>4 DEF T

-----------------------------------------------------------------------------
(***************************************************************************)
(* Which elements have a key.                                              *)
(***************************************************************************)

\* The elements whose reuse() is not empty: it depends on no level id.
Named == {f \in Elements : \E a \in Elements :
            /\ OwnKey[a] # <<>> /\ f \in Subtree(a)
            /\ \A b \in InBlock : f \in Subtree(b) /\ b \in Subtree(a) => b = a}

LEMMA NamedIs ==
  ASSUME NEW f \in Elements
  PROVE  f \in Named <=> \/ OwnKey[f] # <<>>
                         \/ f # Root /\ f \notin InBlock /\ Above(f) \in Named
  <1>1. f \in Subtree(f)
    BY SubtreeOf
  <1>2. ASSUME OwnKey[f] # <<>> PROVE f \in Named
    <2>1. \A b \in InBlock : f \in Subtree(b) /\ b \in Subtree(f) => b = f
      BY SubtreeOnce
    <2>2. QED
      BY <1>1, <1>2, <2>1 DEF Named
  <1>3. ASSUME f # Root, f \notin InBlock, Above(f) \in Named PROVE f \in Named
    <2> DEFINE p == Above(f)
    <2>1. p \in Elements /\ f \in Below(p)
      BY <1>3, AboveIs
    <2>2. PICK a \in Elements : /\ OwnKey[a] # <<>> /\ p \in Subtree(a)
                                /\ \A b \in InBlock : p \in Subtree(b) /\ b \in Subtree(a) => b = a
      BY <1>3 DEF Named
    <2>3. f \in Subtree(a)
      BY <2>1, <2>2, SubtreeOf DEF Closed
    <2>4. ASSUME NEW b \in InBlock, f \in Subtree(b) PROVE p \in Subtree(b)
      BY <1>3, <2>4, SubtreeAbove, RecyclingAssumption
    <2>5. QED
      BY <2>2, <2>3, <2>4 DEF Named
  <1>4. ASSUME f \in Named, OwnKey[f] = <<>>
        PROVE  f # Root /\ f \notin InBlock /\ Above(f) \in Named
    <2>1. PICK a \in Elements : /\ OwnKey[a] # <<>> /\ f \in Subtree(a)
                                /\ \A b \in InBlock : f \in Subtree(b) /\ b \in Subtree(a) => b = a
      BY <1>4 DEF Named
    <2>2. a # f
      BY <1>4, <2>1
    <2>3. f # Root
      <3>1. a \in Subtree(Root)
        BY AllBelowRoot
      <3>2. QED
        BY <2>1, <2>2, <3>1, SubtreeOnce, Constants
    <2>4. f \notin InBlock
      BY <1>1, <2>1, <2>2
    <2> DEFINE p == Above(f)
    <2>5. p \in Elements /\ f \in Below(p) /\ f \in Subtree(p)
      BY <2>3, AboveIs, ChildIn
    <2>6. p \in Subtree(a)
      BY <2>1, <2>2, <2>3, SubtreeAbove
    <2>7. ASSUME NEW b \in InBlock, p \in Subtree(b), b \in Subtree(a) PROVE b = a
      <3>1. b \in Elements
        BY RecyclingAssumption
      <3>2. f \in Subtree(b)
        BY <2>5, <2>7, <3>1, SubtreeIn
      <3>3. QED
        BY <2>1, <2>7, <3>2
    <2>8. p \in Named
      BY <2>1, <2>5, <2>6, <2>7 DEF Named
    <2>9. QED
      BY <2>3, <2>4, <2>8
  <1>5. QED
    BY <1>2, <1>3, <1>4

LEMMA KeyNamed ==
  ASSUME NEW lv, NEW F, Keyed(lv, F), NEW f \in Elements
  PROVE  IsSeq(F[f]) /\ (F[f] = <<>> <=> f \notin Named)
  <1> DEFINE T == {g \in Elements : IsSeq(F[g]) /\ (F[g] = <<>> <=> g \notin Named)}
  <1>1. \A g \in Elements : F[g] = KeyOf(lv, F, g)
    BY Zenon DEF Keyed
  <1>2. \A g \in Elements : IsSeq(OwnKey[g])
    BY RecyclingAssumption DEF IsSeq
  <1>3. IsSeq(<<>>)
    BY EmptyPool
  <1>4. ASSUME NEW g \in Elements, g # Root => Above(g) \in T PROVE g \in T
    <2>1. CASE OwnKey[g] # <<>>
      BY <1>1, <1>2, <2>1, NamedIs DEF KeyOf
    <2>2. CASE OwnKey[g] = <<>> /\ (g = Root \/ g \in InBlock)
      BY <1>1, <1>3, <2>2, NamedIs DEF KeyOf
    <2>3. CASE OwnKey[g] = <<>> /\ g # Root /\ g \notin InBlock
      <3> DEFINE q == F[Above(g)]
      <3>1. IsSeq(q) /\ (q = <<>> <=> Above(g) \notin Named)
        BY <1>4, <2>3
      <3>2. F[g] = IF q = <<>> THEN <<>> ELSE Append(q, lv[g])
        BY <1>1, <2>3 DEF KeyOf
      <3> HIDE DEF q
      <3>3. IsSeq(Append(q, lv[g])) /\ Append(q, lv[g]) # <<>>
        <4>1. PICK S : q \in Seq(S)
          BY <3>1 DEF IsSeq
        <4> DEFINE U == S \cup {lv[g]}
                   x == lv[g]
        <4>2. q \in Seq(U) /\ x \in U
          BY <4>1
        <4> HIDE DEF U, x
        <4>3. Append(q, x) \in Seq(U) /\ Len(Append(q, x)) = Len(q) + 1 /\ Len(q) \in Nat
          BY <4>2
        <4>4. Append(q, x) # <<>>
          BY <4>3
        <4>5. QED
          BY <4>3, <4>4 DEF IsSeq, x
      <3>4. IsSeq(F[g])
        BY <1>3, <3>2, <3>3
      <3>5. F[g] = <<>> <=> Above(g) \notin Named
        BY <3>1, <3>2, <3>3
      <3>6. QED
        BY <2>3, <3>4, <3>5, NamedIs
    <2>4. QED
      BY <2>1, <2>2, <2>3
  <1> HIDE DEF T
  <1>5. Root \in T
    BY <1>4, Constants
  <1>6. ASSUME NEW g \in Subtree(Root) \cap T, NEW c \in Below(g) PROVE c \in T
    <2>1. c \in Elements /\ g = Above(c)
      BY <1>6, AboveBelow, SubtreeOf, Constants
    <2>2. QED
      BY <1>4, <1>6, <2>1
  <1>7. Subtree(Root) \subseteq T
    BY <1>5, <1>6, Reached, Constants
  <1>8. f \in T
    BY <1>7, AllBelowRoot
  <1>9. QED
    BY <1>8 DEF T

\* Before and after a step: an element has a key or has none whatever its level.
LEMMA KeyIs ==
  ASSUME NEW f \in Elements
  PROVE  /\ Key(f) = <<>> <=> f \notin Named
         /\ (Key(f) = <<>>)' <=> f \notin Named
  <1> DEFINE F == CHOOSE F : Keyed(level, F)
             G == CHOOSE G : Keyed(level', G)
  <1>1. Key(f) = F[f]
    BY DEF Key, Keyed, KeyOf
  <1>2. Key(f)' = G[f]
    BY DEF Key, Keyed, KeyOf
  <1>3. Keyed(level, F) /\ Keyed(level', G)
    BY KeyedExist
  <1> HIDE DEF F, G
  <1>4. F[f] = <<>> <=> f \notin Named
    BY <1>3, KeyNamed
  <1>5. G[f] = <<>> <=> f \notin Named
    BY <1>3, KeyNamed
  <1>6. QED
    BY <1>1, <1>2, <1>4, <1>5

-----------------------------------------------------------------------------
(***************************************************************************)
(* Which elements a walk obtains Views for, and which it recycles.         *)
(***************************************************************************)

\* Of the steps in T.
Got(T)  == {f \in Elements : Step("obtain", f) \in T}
Lost(T) == {f \in Elements : \E op \in {"recycleView", "remove"} : Step(op, f) \in T}

\* The steps of the parts of those in S.
StepsOf(part, S) == UNION {ToSet(part[c]) : c \in S}

\* The steps of Visited at f.
LEMMA VisitSteps ==
  ASSUME NEW op \in {"obtain", "recycleView", "remove"}, NEW inner, NEW other, NEW last,
         NEW F, NEW f \in Elements,
         NEW part, part = [c \in Elements |-> IF c \in inner THEN F[c] ELSE other[c]],
         \A c \in Below(f) : part[c] \in Seq(Steps),
         last[f] \in Seq(Steps)
  PROVE  /\ Visit(F, op, inner, other, last, f) \in Seq(Steps)
         /\ ToSet(Visit(F, op, inner, other, last, f))
              = {Step(op, f)} \cup StepsOf(part, Below(f)) \cup ToSet(last[f])
  <1> DEFINE p == [i \in DOMAIN Children[f] |->
                     IF Children[f][i] \in inner THEN F[Children[f][i]]
                     ELSE other[Children[f][i]]]
             x == FlattenSeq(p)
             first == Step(op, f)
             n == Len(Children[f])
  <1>1. /\ DOMAIN Children[f] = 1 .. n /\ n \in Nat
        /\ \A i \in 1 .. n : Children[f][i] \in Elements /\ Children[f][i] \in Below(f)
    BY ChildrenIn
  <1>2. DOMAIN p = 1 .. n /\ \A i \in 1 .. n : p[i] = part[Children[f][i]]
    BY <1>1
  <1>3. Below(f) = {Children[f][i] : i \in 1 .. n}
    BY <1>1 DEF Below
  <1>4. p \in Seq(Seq(Steps))
    <2>1. \A i \in 1 .. n : p[i] \in Seq(Steps)
      BY <1>1, <1>2
    <2>2. p = [i \in 1 .. n |-> p[i]]
      BY <1>1
    <2> HIDE DEF p, n
    <2>3. p \in [1 .. n -> Seq(Steps)]
      BY <2>1, <2>2
    <2>4. QED
      BY <1>1, <2>3
  <1>5. x \in Seq(Steps) /\ ToSet(x) = UNION {ToSet(p[i]) : i \in DOMAIN p}
    <2> HIDE DEF p
    <2>1. QED
      BY <1>4, Flattened
  <1>6. ToSet(x) = StepsOf(part, Below(f))
    <2> DEFINE inP == UNION {ToSet(p[i]) : i \in 1 .. n}
               inPart == UNION {ToSet(part[c]) : c \in Below(f)}
    <2>1. ToSet(x) = inP
      <3> HIDE DEF p, x, n
      <3>1. QED
        BY <1>2, <1>5
    <2> HIDE DEF p, x, n
    <2>2. ASSUME NEW s \in inP PROVE s \in inPart
      <3>1. PICK i \in 1 .. n : s \in ToSet(p[i])
        OBVIOUS
      <3>2. Children[f][i] \in Below(f) /\ s \in ToSet(part[Children[f][i]])
        BY <1>1, <1>2, <3>1
      <3>3. QED
        BY <3>2
    <2>3. ASSUME NEW s \in inPart PROVE s \in inP
      <3>1. PICK c \in Below(f) : s \in ToSet(part[c])
        OBVIOUS
      <3>2. PICK i \in 1 .. n : c = Children[f][i]
        BY <1>3
      <3>3. s \in ToSet(p[i])
        BY <1>2, <3>1, <3>2
      <3>4. QED
        BY <3>3
    <2> HIDE DEF inP, inPart
    <2>4. inP = inPart
      BY <2>2, <2>3
    <2>5. QED
      BY <2>1, <2>4 DEF inPart, StepsOf
  <1>7. Visit(F, op, inner, other, last, f) = <<first>> \o x \o last[f]
    BY DEF Visit
  <1>8. first \in Steps
    BY DEF Steps, Step
  <1> HIDE DEF x, first, p
  <1>9. <<first>> \in Seq(Steps) /\ ToSet(<<first>>) = {first}
    <2>1. <<first>> \in Seq(Steps) /\ DOMAIN <<first>> = {1} /\ <<first>>[1] = first
      BY <1>8
    <2>2. QED
      BY <2>1 DEF ToSet
  <1> DEFINE one == <<first>>
             y == one \o x
             z == y \o last[f]
  <1>10. Visit(F, op, inner, other, last, f) = z
    BY <1>7
  <1> HIDE DEF one
  <1>11. y \in Seq(Steps) /\ ToSet(y) = {first} \cup ToSet(x)
    <2>1. one \in Seq(Steps) /\ ToSet(one) = {first}
      BY <1>9 DEF one
    <2>2. QED
      BY <1>5, <2>1, ConcatIs
  <1> HIDE DEF y
  <1>12. z \in Seq(Steps) /\ ToSet(z) = ToSet(y) \cup ToSet(last[f])
    BY <1>11, ConcatIs
  <1> HIDE DEF z
  <1>13. QED
    BY <1>6, <1>10, <1>11, <1>12 DEF first

\* Those recycled from f on, when the children in inner are looked at.
RecycledFrom(f, inner) ==
  {L \in SUBSET Subtree(f) :
     /\ f \in L
     /\ \A p \in L : Below(p) \cap inner \subseteq L
     /\ \A c \in L \ {f} : c # Root /\ Above(c) \in L}

RecyclingSteps(op, f, inner) ==
  {q \in Seq(Steps) : /\ \A s \in ToSet(q) : s.op = op
                      /\ Lost(ToSet(q)) \in RecycledFrom(f, inner)}

LEMMA RecyclingStep ==
  ASSUME NEW op \in {"recycleView", "remove"}, NEW inner, NEW F, NEW f \in Elements,
         \A c \in Below(f) : F[c] \in RecyclingSteps(op, c, inner)
  PROVE  Visit(F, op, inner, Nothing, Nothing, f) \in RecyclingSteps(op, f, inner)
  <1> DEFINE part == [c \in Elements |-> IF c \in inner THEN F[c] ELSE Nothing[c]]
             q == Visit(F, op, inner, Nothing, Nothing, f)
             T == ToSet(q)
             L == Lost(T)
  <1>1. <<>> \in Seq(Steps) /\ ToSet(<<>>) = {} /\ \A c \in Elements : Nothing[c] = <<>>
    BY DEF ToSet, Nothing
  <1>2. ASSUME NEW c \in Below(f)
        PROVE  /\ c \in Elements /\ Above(c) = f /\ c # Root
               /\ c \in inner => part[c] = F[c]
               /\ c \notin inner => part[c] = <<>>
    BY <1>1, AboveBelow
  <1>3. \A c \in Below(f) : part[c] \in Seq(Steps)
    BY <1>1, <1>2 DEF RecyclingSteps
  <1>4. q \in Seq(Steps) /\ T = {Step(op, f)} \cup StepsOf(part, Below(f))
    <2>1. Nothing[f] \in Seq(Steps) /\ ToSet(Nothing[f]) = {}
      BY <1>1
    <2> HIDE DEF part
    <2>2. part = [c \in Elements |-> IF c \in inner THEN F[c] ELSE Nothing[c]]
      BY DEF part
    <2>3. /\ q \in Seq(Steps)
          /\ ToSet(q) = {Step(op, f)} \cup StepsOf(part, Below(f))
                          \cup ToSet(Nothing[f])
      BY <1>3, <2>1, <2>2, VisitSteps
    <2> HIDE DEF q
    <2>4. QED
      BY <2>1, <2>3
  <1> HIDE DEF q, part, T
  <1>5. \A s \in T : s.op = op
    <2>1. Step(op, f).op = op
      BY DEF Step
    <2>2. \A c \in Below(f) : \A s \in ToSet(part[c]) : s.op = op
      BY <1>1, <1>2 DEF RecyclingSteps
    <2>3. QED
      BY <1>4, <2>1, <2>2 DEF StepsOf
  <1> DEFINE P(c) == Lost(ToSet(part[c]))
  <1>6. /\ \A c \in Below(f) \cap inner : P(c) \in RecycledFrom(c, inner)
        /\ \A c \in Below(f) \ inner : P(c) = {}
    BY <1>1, <1>2 DEF RecyclingSteps, Lost
  <1>7. \A g : g \in L <=> g = f \/ \E c \in Below(f) : g \in P(c)
    <2>1. \A g, o : Step(o, g) \in T <=> \/ o = op /\ g = f
                                         \/ \E c \in Below(f) : Step(o, g) \in ToSet(part[c])
      BY <1>4 DEF Step, StepsOf
    <2>2. QED
      BY <2>1 DEF Lost
  <1> HIDE DEF P, L
  <1>8. ASSUME NEW g, NEW c \in Below(f), g \in P(c)
        PROVE  /\ c \in inner /\ P(c) \subseteq Subtree(c) /\ c \in P(c)
               /\ Below(g) \cap inner \subseteq P(c)
               /\ g # c => g # Root /\ Above(g) \in P(c)
    <2>1. c \in inner
      BY <1>6, <1>8
    <2>2. P(c) \in RecycledFrom(c, inner)
      BY <1>6, <2>1
    <2>3. QED
      BY <1>8, <2>1, <2>2 DEF RecycledFrom
  <1>9. L \subseteq Subtree(f)
    BY <1>2, <1>7, <1>8, ChildIn, SubtreeIn, SubtreeOf
  <1>10. ASSUME NEW p \in L, NEW d \in Below(p) \cap inner PROVE d \in L
    <2>1. CASE p = f
      <3>1. d \in P(d)
        BY <1>6, <1>10, <2>1 DEF RecycledFrom
      <3>2. QED
        BY <1>7, <1>10, <2>1, <3>1
    <2>2. ASSUME NEW c \in Below(f), p \in P(c) PROVE d \in L
      BY <1>7, <1>8, <1>10, <2>2
    <2>3. QED
      BY <1>7, <1>10, <2>1, <2>2
  <1>11. ASSUME NEW g \in L \ {f} PROVE g # Root /\ Above(g) \in L
    <2>1. PICK c \in Below(f) : g \in P(c)
      BY <1>7
    <2>2. CASE g = c
      BY <1>2, <1>7, <2>2
    <2>3. CASE g # c
      BY <1>7, <1>8, <2>1, <2>3
    <2>4. QED
      BY <2>2, <2>3
  <1>12. L \in RecycledFrom(f, inner)
    BY <1>7, <1>9, <1>10, <1>11 DEF RecycledFrom
  <1>13. QED
    BY <1>4, <1>5, <1>12 DEF RecyclingSteps, q, T, L

LEMMA RecyclingVisited ==
  ASSUME NEW op \in {"recycleView", "remove"}, NEW inner, NEW e \in Elements
  PROVE  Visited(e, op, inner, Nothing, Nothing) \in RecyclingSteps(op, e, inner)
  <1> DEFINE C == [f \in Elements |-> RecyclingSteps(op, f, inner)]
  <1>1. \A F, f : f \in Elements /\ (\A c \in Below(f) : F[c] \in C[c])
          => Visit(F, op, inner, Nothing, Nothing, f) \in C[f]
    <2> SUFFICES ASSUME NEW F, NEW f \in Elements, \A c \in Below(f) : F[c] \in C[c]
                 PROVE  Visit(F, op, inner, Nothing, Nothing, f) \in RecyclingSteps(op, f, inner)
      OBVIOUS
    <2>1. \A c \in Below(f) : F[c] \in RecyclingSteps(op, c, inner)
      BY AboveBelow
    <2> HIDE DEF C
    <2>2. QED
      BY <2>1, RecyclingStep
  <1> HIDE DEF C
  <1>2. Visited(e, op, inner, Nothing, Nothing) \in C[e]
    BY <1>1, VisitedIn
  <1>3. QED
    BY <1>2 DEF C

\* Those obtained and those recycled by a walk of f where the elements in vis are
\* visible and those in can can be recycled.
WalkedFrom(f, vis, can, G, L) ==
  /\ f \in G /\ G \subseteq Subtree(f) /\ L \subseteq Subtree(f)
  /\ \A p \in G : Below(p) \cap vis \subseteq G /\ (Below(p) \cap can) \ vis \subseteq L
  /\ \A p \in L : Below(p) \ InBlock \subseteq L
  /\ \A c \in G \ {f} : c \in vis /\ Above(c) \in G
  /\ \A c \in L : c # Root /\ (Above(c) \in L \/ (c \notin vis /\ Above(c) \in G))

Recyclable == {f \in Elements : CanRecycle(f)}

WalkSteps(f, vis) ==
  {q \in Seq(Steps) : /\ \A s \in ToSet(q) : s.op # "remove"
                      /\ WalkedFrom(f, vis, Recyclable, Got(ToSet(q)), Lost(ToSet(q)))}

LEMMA WalkStep ==
  ASSUME NEW vis, NEW other,
         \A c \in Elements : other[c] = IF CanRecycle(c) THEN Recycled(c) ELSE <<>>,
         NEW F, NEW f \in Elements, \A c \in Below(f) : F[c] \in WalkSteps(c, vis)
  PROVE  Visit(F, "obtain", vis, other, [g \in Elements |-> <<Step("sweep", g)>>], f)
           \in WalkSteps(f, vis)
  <1> DEFINE last == [g \in Elements |-> <<Step("sweep", g)>>]
             part == [c \in Elements |-> IF c \in vis THEN F[c] ELSE other[c]]
             q == Visit(F, "obtain", vis, other, last, f)
             T == ToSet(q)
  <1>1. <<>> \in Seq(Steps) /\ ToSet(<<>>) = {}
    BY DEF ToSet
  <1>2. ASSUME NEW c \in Below(f)
        PROVE  /\ c \in Elements /\ Above(c) = f /\ c # Root
               /\ c \in vis => part[c] \in WalkSteps(c, vis)
               /\ c \notin vis /\ CanRecycle(c)
                    => part[c] \in RecyclingSteps("recycleView", c, Elements \ InBlock)
               /\ c \notin vis /\ ~ CanRecycle(c) => part[c] = <<>>
    <2>1. c \in Elements /\ Above(c) = f /\ c # Root
      BY AboveBelow
    <2>2. Recycled(c) \in RecyclingSteps("recycleView", c, Elements \ InBlock)
      BY <2>1, RecyclingVisited DEF Recycled
    <2>3. part[c] = IF c \in vis THEN F[c] ELSE other[c]
      BY <2>1
    <2> HIDE DEF part
    <2>4. QED
      BY <2>1, <2>2, <2>3
  <1>3. \A c \in Below(f) : part[c] \in Seq(Steps)
    BY <1>1, <1>2 DEF RecyclingSteps, WalkSteps
  <1>4. last[f] \in Seq(Steps) /\ ToSet(last[f]) = {Step("sweep", f)}
    <2> DEFINE s == Step("sweep", f)
    <2>1. s \in Steps /\ last[f] = <<s>>
      BY DEF Step, Steps
    <2> HIDE DEF s, last
    <2>2. <<s>> \in Seq(Steps) /\ DOMAIN <<s>> = {1} /\ <<s>>[1] = s
      BY <2>1
    <2>3. QED
      BY <2>1, <2>2 DEF ToSet, s
  <1>5. /\ q \in Seq(Steps)
        /\ T = {Step("obtain", f)} \cup StepsOf(part, Below(f)) \cup {Step("sweep", f)}
    <2> HIDE DEF part, last
    <2>1. part = [c \in Elements |-> IF c \in vis THEN F[c] ELSE other[c]]
      BY DEF part
    <2>2. /\ q \in Seq(Steps)
          /\ ToSet(q) = {Step("obtain", f)} \cup StepsOf(part, Below(f)) \cup ToSet(last[f])
      BY <1>3, <1>4, <2>1, VisitSteps
    <2> HIDE DEF q
    <2>3. QED
      BY <1>4, <2>2
  <1> HIDE DEF q, part, last
  <1> DEFINE P(c) == Got(ToSet(part[c]))
             R(c) == Lost(ToSet(part[c]))
             G == Got(T)
             L == Lost(T)
  <1> HIDE DEF T
  <1>6. \A o, g : Step(o, g) \in T <=> \/ o \in {"obtain", "sweep"} /\ g = f
                                       \/ \E c \in Below(f) : Step(o, g) \in ToSet(part[c])
    BY <1>5 DEF Step, StepsOf
  <1>7. /\ \A g : g \in G <=> g = f \/ \E c \in Below(f) : g \in P(c)
        /\ \A g : g \in L <=> \E c \in Below(f) : g \in R(c)
    BY <1>6 DEF Got, Lost
  <1>8. \A s \in T : s.op # "remove"
    <2>1. \A c \in Below(f) : \A s \in ToSet(part[c]) : s.op # "remove"
      BY <1>1, <1>2 DEF WalkSteps, RecyclingSteps
    <2>2. QED
      BY <1>5, <2>1 DEF Step, StepsOf
  <1>9. ASSUME NEW c \in Below(f), c \in vis
        PROVE  WalkedFrom(c, vis, Recyclable, P(c), R(c))
    BY <1>2, <1>9 DEF WalkSteps
  <1>10. ASSUME NEW c \in Below(f), c \notin vis
         PROVE  /\ P(c) = {}
                /\ CanRecycle(c) => R(c) \in RecycledFrom(c, Elements \ InBlock)
                /\ ~ CanRecycle(c) => R(c) = {}
    <2>1. CASE CanRecycle(c)
      BY <1>2, <1>10, <2>1 DEF RecyclingSteps, Got, Step
    <2>2. CASE ~ CanRecycle(c)
      BY <1>1, <1>2, <1>10, <2>2 DEF Got, Lost
    <2>3. QED
      BY <2>1, <2>2
  <1> HIDE DEF P, R, G, L
  \* What comes from c.
  <1>11. ASSUME NEW c \in Below(f)
         PROVE  /\ P(c) \subseteq Subtree(c) /\ R(c) \subseteq Subtree(c)
                /\ \A p \in P(c) : Below(p) \cap vis \subseteq P(c)
                                   /\ (Below(p) \cap Recyclable) \ vis \subseteq R(c)
                /\ \A p \in R(c) : Below(p) \ InBlock \subseteq R(c)
                /\ \A g \in P(c) : g \in vis /\ (g = c \/ Above(g) \in P(c))
                /\ \A g \in R(c) : /\ g # Root
                                   /\ \/ Above(g) \in R(c)
                                      \/ g \notin vis /\ (g = c \/ Above(g) \in P(c))
    <2>1. CASE c \in vis
      BY <1>9, <2>1 DEF WalkedFrom
    <2>2. CASE c \notin vis /\ CanRecycle(c)
      <3>1. P(c) = {} /\ R(c) \in RecycledFrom(c, Elements \ InBlock)
        BY <1>10, <2>2
      <3>2. \A p \in R(c) : Below(p) \ InBlock \subseteq R(c)
        BY <3>1, AboveBelow, SubtreeOf, <1>2 DEF RecycledFrom
      <3>3. c # Root
        BY <1>2
      <3>4. QED
        BY <2>2, <3>1, <3>2, <3>3 DEF RecycledFrom
    <2>3. CASE c \notin vis /\ ~ CanRecycle(c)
      BY <1>10, <2>3
    <2>4. QED
      BY <2>1, <2>2, <2>3
  <1>12. f \in G /\ G \subseteq Subtree(f) /\ L \subseteq Subtree(f)
    <2>1. f \in Subtree(f)
      BY SubtreeOf
    <2>2. \A c \in Below(f) : Subtree(c) \subseteq Subtree(f)
      BY ChildIn, SubtreeIn
    <2>3. QED
      BY <1>7, <1>11, <2>1, <2>2
  <1>13. ASSUME NEW p \in G
         PROVE  Below(p) \cap vis \subseteq G /\ (Below(p) \cap Recyclable) \ vis \subseteq L
    <2>1. CASE p = f
      <3>1. ASSUME NEW c \in Below(f) \cap vis PROVE c \in G
        BY <1>7, <1>9, <3>1 DEF WalkedFrom
      <3>2. ASSUME NEW c \in Below(f) \cap Recyclable, c \notin vis PROVE c \in L
        BY <1>7, <1>10, <3>2 DEF RecycledFrom, Recyclable
      <3>3. QED
        BY <2>1, <3>1, <3>2
    <2>2. ASSUME NEW c \in Below(f), p \in P(c)
          PROVE  Below(p) \cap vis \subseteq G /\ (Below(p) \cap Recyclable) \ vis \subseteq L
      BY <1>7, <1>11, <2>2
    <2>3. QED
      BY <1>7, <2>1, <2>2
  <1>14. \A p \in L : Below(p) \ InBlock \subseteq L
    BY <1>7, <1>11
  <1>15. \A g \in G \ {f} : g \in vis /\ Above(g) \in G
    BY <1>2, <1>7, <1>11
  <1>16. \A g \in L : g # Root /\ (Above(g) \in L \/ (g \notin vis /\ Above(g) \in G))
    BY <1>2, <1>7, <1>11
  <1>17. WalkedFrom(f, vis, Recyclable, G, L)
    BY <1>12, <1>13, <1>14, <1>15, <1>16 DEF WalkedFrom
  <1>18. QED
    BY <1>5, <1>8, <1>17 DEF WalkSteps, q, G, L, T, last

LEMMA WalkVisited ==
  ASSUME NEW e \in Elements, NEW vis
  PROVE  Walk(e, vis) \in WalkSteps(e, vis)
  <1> DEFINE other == [f \in Elements |-> IF CanRecycle(f) THEN Recycled(f) ELSE <<>>]
             last == [f \in Elements |-> <<Step("sweep", f)>>]
             C == [f \in Elements |-> WalkSteps(f, vis)]
  <1>1. \A c \in Elements : other[c] = IF CanRecycle(c) THEN Recycled(c) ELSE <<>>
    OBVIOUS
  <1> HIDE DEF other
  <1>2. \A F, f : f \in Elements /\ (\A c \in Below(f) : F[c] \in C[c])
          => Visit(F, "obtain", vis, other, last, f) \in C[f]
    <2> SUFFICES ASSUME NEW F, NEW f \in Elements, \A c \in Below(f) : F[c] \in C[c]
                 PROVE  Visit(F, "obtain", vis, other, last, f) \in WalkSteps(f, vis)
      OBVIOUS
    <2>1. \A c \in Below(f) : F[c] \in WalkSteps(c, vis)
      BY AboveBelow
    <2> HIDE DEF C
    <2>2. QED
      BY <1>1, <2>1, WalkStep
  <1>3. Walk(e, vis) = Visited(e, "obtain", vis, other, last)
    BY DEF Walk, other
  <1> HIDE DEF C, last
  <1>4. Walk(e, vis) \in C[e]
    BY <1>2, <1>3, VisitedIn
  <1>5. QED
    BY <1>4 DEF C

LEMMA WalkHead ==
  ASSUME NEW e \in Elements, NEW vis, NEW can, NEW G, NEW L, WalkedFrom(e, vis, can, G, L)
  PROVE  e \notin L
  <1> SUFFICES ASSUME e \in L PROVE FALSE
    OBVIOUS
  <1>1. e # Root /\ Above(e) \in Subtree(e)
    BY DEF WalkedFrom
  <1>2. QED
    BY <1>1, AboveIs, ChildIn

\* Nothing is obtained and recycled by one walk.
LEMMA WalkApart ==
  ASSUME NEW e \in Elements, NEW vis, NEW can, NEW G, NEW L, WalkedFrom(e, vis, can, G, L)
  PROVE  G \cap L = {}
  <1> DEFINE T == {f \in Elements : ~ (f \in G /\ f \in L)}
  <1>1. e \notin L
    BY WalkHead
  <1>2. e \in T
    BY <1>1
  <1>3. ASSUME NEW g \in Subtree(e) \cap T, NEW c \in Below(g) PROVE c \in T
    <2>1. c \in Elements /\ Above(c) = g
      BY AboveBelow
    <2>2. QED
      BY <1>1, <2>1 DEF WalkedFrom
  <1> HIDE DEF T
  <1>4. Subtree(e) \subseteq T
    BY <1>2, <1>3, Reached
  <1>5. QED
    BY <1>4 DEF T, WalkedFrom

\* What is obtained has its parent in up, or this one was obtained before.
Called(q, i, up) ==
  q[i].op = "obtain"
    => \/ Above(q[i].of) \in up
       \/ \E k \in DOMAIN q : k < i /\ q[k] = Step("obtain", Above(q[i].of))

Calls(up) == {q \in Seq(Steps) : \A i \in DOMAIN q : Called(q, i, up)}

LEMMA ShiftedCall ==
  ASSUME NEW a \in Seq(Steps), NEW q \in Seq(Steps), NEW n \in Nat, Within(a, q, n),
         NEW i \in DOMAIN a, NEW up, Called(a, i, up)
  PROVE  Called(q, i + n, up)
  <1>1. /\ \A j \in DOMAIN a : j + n \in DOMAIN q /\ q[j + n] = a[j]
        /\ \A j \in DOMAIN a : j < i => j + n < i + n
    BY SeqIs DEF Within
  <1> DEFINE p == Above(a[i].of)
  <1> SUFFICES ASSUME a[i].op = "obtain", p \notin up
               PROVE  \E k \in DOMAIN q : k < i + n /\ q[k] = Step("obtain", p)
    BY <1>1 DEF Called
  <1>2. PICK k \in DOMAIN a : k < i /\ a[k] = Step("obtain", p)
    BY DEF Called
  <1> HIDE DEF p
  <1>3. QED
    BY <1>1, <1>2

LEMMA CallsJoin ==
  ASSUME NEW up, NEW a \in Calls(up), NEW b \in Calls(up)
  PROVE  a \o b \in Calls(up)
  <1>1. /\ a \in Seq(Steps) /\ \A i \in DOMAIN a : Called(a, i, up)
        /\ b \in Seq(Steps) /\ \A i \in DOMAIN b : Called(b, i, up)
    BY DEF Calls
  <1>2. a \o b \in Seq(Steps) /\ Within(a, a \o b, 0) /\ Within(b, a \o b, Len(a))
    BY <1>1, JoinedAt
  <1>3. ASSUME NEW i \in DOMAIN (a \o b) PROVE Called(a \o b, i, up)
    <2>1. CASE i \in DOMAIN a
      <3>1. Called(a \o b, i + 0, up)
        BY <1>1, <1>2, <2>1, ShiftedCall
      <3>2. i + 0 = i
        BY <1>1, <2>1, SeqIs
      <3>3. QED
        BY <3>1, <3>2
    <2>2. ASSUME NEW j \in DOMAIN b, i = j + Len(a) PROVE Called(a \o b, i, up)
      <3>1. Len(a) \in Nat
        BY <1>1
      <3>2. QED
        BY <1>1, <1>2, <2>2, <3>1, ShiftedCall
    <2>3. QED
      BY <1>1, <2>1, <2>2, JoinedAt
  <1>4. QED
    BY <1>2, <1>3 DEF Calls

CallsOf(f) ==
  {q \in Seq(Steps) : /\ q # <<>> /\ q[1] = Step("obtain", f)
                      /\ \A i \in DOMAIN q : q[i].of = f \/ Called(q, i, {})}

LEMMA CallsVisit ==
  ASSUME NEW vis, NEW F, NEW f \in Elements, \A c \in Below(f) : F[c] \in CallsOf(c),
         NEW other, \A up : \A c \in Elements : other[c] \in Calls(up)
  PROVE  Visit(F, "obtain", vis, other, [g \in Elements |-> <<Step("sweep", g)>>], f)
           \in CallsOf(f)
  <1> DEFINE p == [i \in DOMAIN Children[f] |->
                     IF Children[f][i] \in vis THEN F[Children[f][i]]
                     ELSE other[Children[f][i]]]
             C == Calls({f})
             x == FlattenSeq(p)
             first == Step("obtain", f)
             final == Step("sweep", f)
             y == <<first>> \o x
             q == y \o <<final>>
  <1>1. \A i \in DOMAIN Children[f] : p[i] \in C
    <2>1. ASSUME NEW c \in Below(f) PROVE F[c] \in C
      BY AboveBelow DEF CallsOf, Calls, Called
    <2>2. \A c \in Below(f) : other[c] \in C
      BY AboveBelow
    <2> HIDE DEF C
    <2>3. QED
      BY <2>1, <2>2, ChildrenIn
  <1>2. DOMAIN p = 1 .. Len(Children[f]) /\ Len(Children[f]) \in Nat
    BY ChildrenIn
  <1>3. p \in Seq(C)
    <2> DEFINE m == Len(Children[f])
    <2>1. p \in [1 .. m -> C]
      <3> HIDE DEF C
      <3>1. QED
        BY <1>1, <1>2
    <2> HIDE DEF p, m, C
    <2>2. m \in Nat
      BY <1>2 DEF m
    <2>3. QED
      BY <2>1, <2>2
  <1>4. x \in C
    <2>1. <<>> \in C
      BY DEF Calls
    <2>2. \A a, b \in C : a \o b \in C
      BY CallsJoin
    <2> HIDE DEF C, p
    <2>3. QED
      BY <1>3, <2>1, <2>2, FlattenedIn
  <1>5. x \in Seq(Steps) /\ \A i \in DOMAIN x : Called(x, i, {f})
    BY <1>4 DEF Calls
  <1>6. Visit(F, "obtain", vis, other, [g \in Elements |-> <<Step("sweep", g)>>], f) = q
    BY DEF Visit
  <1> HIDE DEF p, C, x
  <1>7. /\ first.op = "obtain" /\ first.of = f /\ first \in Steps
        /\ final.op = "sweep" /\ final.of = f /\ final \in Steps
    BY DEF Step, Steps
  <1>8. first = Step("obtain", f)
    OBVIOUS
  <1> HIDE DEF first, final
  <1>9. /\ y \in Seq(Steps) /\ Within(x, y, 1)
        /\ \A i \in DOMAIN y : i = 1 \/ (\E j \in DOMAIN x : i = j + 1)
        /\ Len(y) = Len(x) + 1 /\ Len(x) \in Nat
    BY <1>5, <1>7, FirstAt
  <1>10. 1 \in DOMAIN y /\ y[1] = first
    BY <1>5, <1>7, FirstAt
  <1> HIDE DEF y
  <1>11. /\ q \in Seq(Steps) /\ Within(y, q, 0)
         /\ Len(y) + 1 \in DOMAIN q /\ q[Len(y) + 1] = final
         /\ \A i \in DOMAIN q : i \in DOMAIN y \/ i = Len(y) + 1
    BY <1>7, <1>9, LastAt
  <1> HIDE DEF q
  <1>12. \A i \in DOMAIN y : i + 0 = i /\ i \in DOMAIN q /\ q[i] = y[i]
    <2>1. \A i \in DOMAIN y : i + 0 = i
      BY <1>9, SeqIs
    <2>2. QED
      BY <1>11, <2>1 DEF Within
  <1>13. 1 \in DOMAIN q /\ q[1] = first
    BY <1>10, <1>12
  <1>14. ASSUME NEW i \in DOMAIN x PROVE Called(q, i + 1, {})
    <2>1. Called(y, i + 1, {f}) /\ i + 1 \in DOMAIN y
      BY <1>5, <1>9, ShiftedCall DEF Within
    <2>2. Called(q, (i + 1) + 0, {f})
      BY <1>9, <1>11, <2>1, ShiftedCall
    <2>3. Called(q, i + 1, {f}) /\ 1 < i + 1
      BY <1>5, <1>12, <2>1, <2>2, SeqIs
    <2>4. QED
      BY <1>8, <1>13, <2>3 DEF Called
  <1>15. q[1].of = f
    BY <1>7, <1>13
  <1>16. Called(q, Len(y) + 1, {})
    BY <1>7, <1>11 DEF Called
  <1>17. \A i \in DOMAIN q : q[i].of = f \/ Called(q, i, {})
    BY <1>9, <1>11, <1>14, <1>15, <1>16
  <1>18. q # <<>>
    BY <1>13
  <1>19. QED
    BY <1>6, <1>8, <1>11, <1>13, <1>17, <1>18 DEF CallsOf

LEMMA WalkCalls ==
  ASSUME NEW e \in Elements, NEW vis
  PROVE  Walk(e, vis) \in CallsOf(e)
  <1> DEFINE other == [f \in Elements |-> IF CanRecycle(f) THEN Recycled(f) ELSE <<>>]
             last == [f \in Elements |-> <<Step("sweep", f)>>]
             C == [f \in Elements |-> CallsOf(f)]
  <1>1. \A up : \A c \in Elements : other[c] \in Calls(up)
    <2> SUFFICES ASSUME NEW c \in Elements, NEW up PROVE other[c] \in Calls(up)
      OBVIOUS
    <2>1. <<>> \in Calls(up)
      BY DEF Calls
    <2>2. Recycled(c) \in Calls(up)
      <3> DEFINE q == Recycled(c)
      <3>1. q \in RecyclingSteps("recycleView", c, Elements \ InBlock)
        BY RecyclingVisited DEF Recycled
      <3> HIDE DEF q
      <3>2. q \in Seq(Steps) /\ \A i \in DOMAIN q : q[i].op = "recycleView"
        BY <3>1 DEF RecyclingSteps, ToSet
      <3>3. QED
        BY <3>2 DEF Calls, Called, q
    <2>3. QED
      BY <2>1, <2>2
  <1> HIDE DEF other
  <1>2. \A F, f : f \in Elements /\ (\A c \in Below(f) : F[c] \in C[c])
          => Visit(F, "obtain", vis, other, last, f) \in C[f]
    <2> SUFFICES ASSUME NEW F, NEW f \in Elements, \A c \in Below(f) : F[c] \in C[c]
                 PROVE  Visit(F, "obtain", vis, other, last, f) \in CallsOf(f)
      OBVIOUS
    <2>1. \A c \in Below(f) : F[c] \in CallsOf(c)
      BY AboveBelow
    <2> HIDE DEF C
    <2>2. QED
      BY <1>1, <2>1, CallsVisit
  <1>3. Walk(e, vis) = Visited(e, "obtain", vis, other, last)
    BY DEF Walk, other
  <1> HIDE DEF C, last
  <1>4. Walk(e, vis) \in C[e]
    BY <1>2, <1>3, VisitedIn
  <1>5. QED
    BY <1>4 DEF C

-----------------------------------------------------------------------------
(***************************************************************************)
(* The Views of the elements after a walk.                                 *)
(***************************************************************************)

LEMMA UpTo ==
  ASSUME NEW N \in Nat, NEW S, 0 \in S, \A n \in 1 .. N : n - 1 \in S => n \in S
  PROVE  N \in S
  <1> DEFINE Bad == {n \in 0 .. N : n \notin S}
  <1> SUFFICES ASSUME N \notin S PROVE FALSE
    OBVIOUS
  <1>1. Bad \in SUBSET Nat /\ Bad # {}
    OBVIOUS
  <1>2. PICK n \in Bad : \A m \in Bad : n <= m
    <2> HIDE DEF Bad
    <2>1. QED
      BY <1>1, Least
  <1>3. n # 0 /\ n \in 0 .. N /\ n \notin S
    OBVIOUS
  <1>4. n \in 1 .. N /\ n - 1 \in 0 .. N /\ ~ (n <= n - 1)
    BY <1>3
  <1>5. n - 1 \in S
    BY <1>2, <1>4
  <1>6. QED
    BY <1>3, <1>4, <1>5

\* e has a View in t if it had one in s or could get one; the others have the same.
Obtained(s, t, e) ==
  /\ \A f \in Elements : f # e => t.view[f] = s.view[f]
  /\ s.view[e] # NoView \/ e = Root \/ s.view[Above(e)] # NoView => t.view[e] # NoView

\* What a step does to the Views of the elements.
LEMMA StepViews ==
  ASSUME ~ IsFiniteSet(Views), NEW s, Good(s), NEW step \in Steps
  PROVE  LET t == Do(s, step)
             e == step.of
         IN /\ e \in Elements
            /\ \A f \in Elements \ {e} : t.view[f] = s.view[f]
            /\ step.op = "sweep" => t.view[e] = s.view[e]
            /\ Recycling(step) => t.view[e] = NoView
            /\ step.op = "obtain" => Obtained(s, t, e)
  <1> DEFINE t == Do(s, step)
             e == step.of
             op == step.op
  <1>1. e \in Elements /\ op \in {"obtain", "sweep", "recycleView", "remove"}
    BY DEF Steps
  <1>2. s.view \in [Elements -> Views \cup {NoView}]
    BY DEF Good, Basic, Typed
  <1>3. CASE op = "sweep"
    <2>1. t = Sweep(s, e) /\ Typed(s)
      BY <1>3 DEF Do, Good, Basic
    <2>2. t.view = s.view
      BY <2>1 DEF Sweep, Typed
    <2> HIDE DEF t
    <2>3. QED
      BY <1>1, <1>3, <2>2 DEF t, Recycling
  <1>4. CASE Recycling(step)
    <2>1. Drops(s, t, e)
      BY <1>4, DoDrops
    <2>2. \A f \in Elements : t.view[f] = IF f = e THEN NoView ELSE s.view[f]
      BY <1>2, <2>1 DEF Drops
    <2>3. op # "obtain" /\ op # "sweep"
      BY <1>4 DEF Recycling
    <2> HIDE DEF t
    <2>4. QED
      BY <1>1, <2>2, <2>3 DEF t
  <1>5. CASE op = "obtain"
    <2>1. t = Obtain(s, e)
      BY <1>5 DEF Do
    <2> HIDE DEF t
    <2>2. \/ /\ t = s
             /\ s.view[e] # NoView \/ (e # Root /\ s.view[Above(e)] = NoView)
          \/ e = Root /\ Roots(s, t)
          \/ \E v, p : Gives(s, t, e, v, p)
      BY <1>1, <2>1, ObtainIs
    <2>3. ~ Recycling(step)
      BY <1>5 DEF Recycling
    <2> HIDE DEF e, op
    <2>4. ASSUME t = s, s.view[e] # NoView \/ (e # Root /\ s.view[Above(e)] = NoView)
          PROVE  Obtained(s, t, e)
      BY <2>4 DEF Obtained
    <2>5. ASSUME e = Root, Roots(s, t) PROVE Obtained(s, t, e)
      <3>1. t.view = [s.view EXCEPT ![Root] = Page]
        BY <2>5 DEF Roots
      <3>2. QED
        BY <1>1, <1>2, <2>5, <3>1, Constants DEF Obtained
    <2>6. ASSUME NEW v, NEW p, Gives(s, t, e, v, p) PROVE Obtained(s, t, e)
      <3>1. t.view = [s.view EXCEPT ![e] = v] /\ v # NoView
        BY <2>6, Constants DEF Gives
      <3>2. QED
        BY <1>1, <1>2, <3>1 DEF Obtained
    <2>7. Obtained(s, t, e)
      BY <2>2, <2>4, <2>5, <2>6
    <2>8. /\ e \in Elements /\ op = "obtain" /\ ~ Recycling(step)
          /\ \A f \in Elements \ {e} : t.view[f] = s.view[f]
      BY <1>1, <1>5, <2>3, <2>7 DEF Obtained
    <2>9. QED
      BY <2>7, <2>8 DEF t, e, op
  <1>6. QED
    BY <1>1, <1>3, <1>4, <1>5 DEF Recycling

\* What the elements have after the first n steps, when the Views of those in up
\* were there all along.
ViewsBy(s, q, n, up) ==
  \A f \in Elements :
    /\ f \in up => s.view[f] # NoView
    /\ (\E i \in 1 .. n : q[i] = Step("obtain", f)) => s.view[f] # NoView
    /\ (\E i \in 1 .. n : q[i].of = f /\ Recycling(q[i])) => s.view[f] = NoView
    /\ (\A i \in 1 .. n : q[i].of = f => q[i].op = "sweep") => s.view[f] = view[f]

\* Nothing is obtained and recycled, and what is obtained has its parent's View.
Apart(q, up) ==
  /\ \A i, j \in DOMAIN q : Recycling(q[i]) => q[j] # Step("obtain", q[i].of)
  /\ \A i \in DOMAIN q : Recycling(q[i]) => q[i].of \notin up
  /\ \A i \in DOMAIN q : q[i].op = "obtain"
       => \/ q[i].of = Root \/ q[i].of \in up \/ Above(q[i].of) \in up \cap Elements
          \/ \E k \in DOMAIN q : k < i /\ q[k] = Step("obtain", Above(q[i].of))

LEMMA ViewsNext ==
  ASSUME ~ IsFiniteSet(Views), NEW q \in Seq(Steps), NEW up, Apart(q, up),
         NEW n \in DOMAIN q, NEW s, Good(s), ViewsBy(s, q, n - 1, up)
  PROVE  ViewsBy(Do(s, q[n]), q, n, up)
  <1> DEFINE t == Do(s, q[n])
             e == q[n].of
             op == q[n].op
  <1>1. /\ q[n] \in Steps /\ e \in Elements /\ q[n] = Step(op, e)
        /\ op \in {"obtain", "sweep", "recycleView", "remove"}
    <2>1. q[n] \in Steps
      BY SeqIs
    <2>2. QED
      BY <2>1 DEF Steps, Step
  <1>2. /\ \A f \in Elements \ {e} : t.view[f] = s.view[f]
        /\ op = "sweep" => t.view[e] = s.view[e]
        /\ Recycling(q[n]) => t.view[e] = NoView
        /\ op = "obtain" => Obtained(s, t, e)
    BY <1>1, StepViews
  <1>3. /\ n \in Nat /\ 1 .. n = (1 .. n - 1) \cup {n} /\ 1 .. n \subseteq DOMAIN q
        /\ \A k \in DOMAIN q : k < n => k \in 1 .. n - 1
    <2>1. DOMAIN q = 1 .. Len(q) /\ Len(q) \in Nat
      OBVIOUS
    <2>2. QED
      BY <2>1
  <1> HIDE DEF t
  <1> SUFFICES ASSUME NEW f \in Elements
               PROVE  /\ f \in up => t.view[f] # NoView
                      /\ (\E i \in 1 .. n : q[i] = Step("obtain", f)) => t.view[f] # NoView
                      /\ (\E i \in 1 .. n : q[i].of = f /\ Recycling(q[i]))
                           => t.view[f] = NoView
                      /\ (\A i \in 1 .. n : q[i].of = f => q[i].op = "sweep")
                           => t.view[f] = view[f]
    BY DEF ViewsBy, t
  <1>4. \A g \in Elements :
          /\ g \in up => s.view[g] # NoView
          /\ (\E i \in 1 .. n - 1 : q[i] = Step("obtain", g)) => s.view[g] # NoView
          /\ (\E i \in 1 .. n - 1 : q[i].of = g /\ Recycling(q[i])) => s.view[g] = NoView
          /\ (\A i \in 1 .. n - 1 : q[i].of = g => q[i].op = "sweep") => s.view[g] = view[g]
    BY DEF ViewsBy
  <1>5. CASE f # e
    <2>1. t.view[f] = s.view[f] /\ q[n] # Step("obtain", f)
      BY <1>1, <1>2, <1>5 DEF Step
    <2>2. QED
      BY <1>3, <1>4, <1>5, <2>1
  <1>6. CASE f = e /\ op = "sweep"
    <2>1. t.view[f] = s.view[f] /\ q[n] # Step("obtain", f) /\ ~ Recycling(q[n])
      BY <1>1, <1>2, <1>6 DEF Step, Recycling
    <2>2. QED
      BY <1>3, <1>4, <1>6, <2>1
  <1>7. CASE f = e /\ Recycling(q[n])
    <2>1. t.view[f] = NoView /\ op # "sweep"
      BY <1>2, <1>7 DEF Recycling
    <2>2. f \notin up /\ \A i \in DOMAIN q : q[i] # Step("obtain", f)
      BY <1>7 DEF Apart
    <2>3. n \in 1 .. n
      BY <1>3
    <2>4. QED
      BY <1>3, <1>7, <2>1, <2>2, <2>3
  <1>8. CASE f = e /\ op = "obtain"
    <2>1. s.view[e] # NoView \/ e = Root \/ s.view[Above(e)] # NoView
      <3>1. CASE e = Root \/ e \in up
        BY <1>1, <1>4, <3>1
      <3>2. CASE Above(e) \in up \cap Elements
        BY <1>4, <3>2
      <3>3. ASSUME e # Root, NEW k \in DOMAIN q, k < n, q[k] = Step("obtain", Above(e))
            PROVE  s.view[Above(e)] # NoView
        <4>1. Above(e) \in Elements
          BY <1>1, <3>3, AboveIs
        <4>2. k \in 1 .. n - 1
          BY <1>3, <3>3
        <4>3. QED
          BY <1>4, <3>3, <4>1, <4>2
      <3>4. QED
        BY <1>8, <3>1, <3>2, <3>3 DEF Apart
    <2>2. t.view[f] # NoView
      BY <1>2, <1>8, <2>1 DEF Obtained
    <2>3. \A i \in DOMAIN q : q[i].of = f => ~ Recycling(q[i])
      BY <1>1, <1>8 DEF Apart
    <2>4. op # "sweep" /\ n \in 1 .. n
      BY <1>3, <1>8
    <2>5. QED
      BY <1>3, <1>8, <2>2, <2>3, <2>4
  <1>9. QED
    BY <1>1, <1>5, <1>6, <1>7, <1>8 DEF Recycling

LEMMA RunViews ==
  ASSUME ~ IsFiniteSet(Views), Good(Now), NEW q \in Seq(Steps), Run(q), NEW up, Apart(q, up),
         \A f \in up \cap Elements : view[f] # NoView
  PROVE  \A f \in Elements :
           /\ f \in up => view'[f] # NoView
           /\ f \in Got(ToSet(q)) => view'[f] # NoView
           /\ f \in Lost(ToSet(q)) => view'[f] = NoView
           /\ f \notin Got(ToSet(q)) \cup Lost(ToSet(q)) => view'[f] = view[f]
  <1> DEFINE N == Len(q)
             F == CHOOSE F : Afters(F, Now, q, N)
             s == F[N]
  <1>1. N \in Nat /\ DOMAIN q = 1 .. N /\ \A i \in 1 .. N : q[i] \in Steps
    OBVIOUS
  <1>2. view' = s.view
    BY DEF Run, Afters
  <1>3. Afters(F, Now, q, N)
    BY <1>1, AftersExist
  <1> HIDE DEF F, N
  <1>4. \A i \in 0 .. N : F[i] = IF i = 0 THEN Now ELSE Do(F[i - 1], q[i])
    BY <1>3 DEF Afters
  <1> DEFINE S == {i \in 0 .. N : Good(F[i]) /\ ViewsBy(F[i], q, i, up)}
  <1>5. 0 \in S
    <2>1. F[0] = Now /\ Now.view = view /\ 1 .. 0 = {} /\ 0 \in 0 .. N
      BY <1>1, <1>4 DEF Now
    <2>2. ViewsBy(Now, q, 0, up)
      BY <2>1 DEF ViewsBy
    <2>3. QED
      BY <2>1, <2>2
  <1>6. ASSUME NEW n \in 1 .. N, n - 1 \in S PROVE n \in S
    <2>1. n \in 0 .. N /\ n # 0 /\ n \in DOMAIN q
      BY <1>1
    <2>2. F[n] = Do(F[n - 1], q[n])
      BY <1>4, <2>1
    <2>3. Good(F[n - 1]) /\ ViewsBy(F[n - 1], q, n - 1, up)
      BY <1>6
    <2>4. Good(Do(F[n - 1], q[n]))
      BY <1>1, <2>3, DoGood
    <2>5. ViewsBy(Do(F[n - 1], q[n]), q, n, up)
      BY <2>1, <2>3, ViewsNext
    <2>6. QED
      BY <2>1, <2>2, <2>4, <2>5
  <1> HIDE DEF S
  <1>7. N \in S
    BY <1>1, <1>5, <1>6, UpTo
  <1>8. ViewsBy(s, q, N, up)
    BY <1>7 DEF S
  <1> HIDE DEF s
  <1>9. ASSUME NEW f \in Elements
        PROVE  /\ f \in Got(ToSet(q)) => \E i \in 1 .. N : q[i] = Step("obtain", f)
               /\ f \in Lost(ToSet(q)) => \E i \in 1 .. N : q[i].of = f /\ Recycling(q[i])
               /\ f \notin Got(ToSet(q)) \cup Lost(ToSet(q))
                    => \A i \in 1 .. N : q[i].of = f => q[i].op = "sweep"
    <2>1. ToSet(q) = {q[i] : i \in 1 .. N}
      BY <1>1 DEF ToSet
    <2>2. ASSUME NEW i \in 1 .. N, q[i].of = f
          PROVE  /\ q[i] = Step(q[i].op, f) /\ q[i] \in ToSet(q)
                 /\ q[i].op \in {"obtain", "sweep", "recycleView", "remove"}
      BY <1>1, <2>1, <2>2 DEF Step, Steps
    <2>3. \A op : Step(op, f).op = op /\ Step(op, f).of = f
      BY DEF Step
    <2>4. ASSUME f \in Got(ToSet(q)) PROVE \E i \in 1 .. N : q[i] = Step("obtain", f)
      BY <2>1, <2>4 DEF Got
    <2>5. ASSUME f \in Lost(ToSet(q)) PROVE \E i \in 1 .. N : q[i].of = f /\ Recycling(q[i])
      <3>1. PICK op \in {"recycleView", "remove"} : Step(op, f) \in ToSet(q)
        BY <2>5 DEF Lost
      <3>2. PICK i \in 1 .. N : q[i] = Step(op, f)
        BY <2>1, <3>1
      <3>3. q[i].of = f /\ q[i].op \in {"recycleView", "remove"}
        BY <2>3, <3>1, <3>2
      <3>4. QED
        BY <3>3 DEF Recycling
    <2>6. ASSUME f \notin Got(ToSet(q)) \cup Lost(ToSet(q)), NEW i \in 1 .. N, q[i].of = f
          PROVE  q[i].op = "sweep"
      BY <2>2, <2>6 DEF Got, Lost
    <2>7. QED
      BY <2>4, <2>5, <2>6
  <1>10. QED
    BY <1>2, <1>8, <1>9 DEF ViewsBy

LEMMA StepIn ==
  ASSUME NEW q \in Seq(Steps), NEW i \in DOMAIN q
  PROVE  /\ Recycling(q[i]) => q[i].of \in Lost(ToSet(q))
         /\ \A f \in Elements : q[i] = Step("obtain", f) => f \in Got(ToSet(q))
  <1>1. q[i] \in Steps /\ q[i] \in ToSet(q)
    BY SeqIs DEF ToSet
  <1>2. q[i] = Step(q[i].op, q[i].of) /\ q[i].of \in Elements
    BY <1>1 DEF Steps, Step
  <1>3. QED
    BY <1>1, <1>2 DEF Recycling, Lost, Got

\* What a walk from e leaves, or what is left of one when e has its View.
WalkLeaves(e, vis) ==
  \E G, L : /\ WalkedFrom(e, vis, Recyclable, G, L)
            /\ \A f \in Elements : /\ f \in G => view'[f] # NoView
                                   /\ f \in L => view'[f] = NoView
                                   /\ f \notin G \cup L => view'[f] = view[f]

LEMMA WalkEnds ==
  ASSUME ~ IsFiniteSet(Views), Good(Now), NEW e \in Elements, NEW vis,
         e = Root \/ view[e] # NoView, Run(Walk(e, vis))
  PROVE  WalkLeaves(e, vis)
  <1> DEFINE q == Walk(e, vis)
             G == Got(ToSet(q))
             L == Lost(ToSet(q))
             up == {f \in {e} : view[f] # NoView}
  <1>1. q \in Seq(Steps) /\ WalkedFrom(e, vis, Recyclable, G, L)
    BY WalkVisited DEF WalkSteps
  <1>2. \A i \in DOMAIN q : q[i].of = e \/ Called(q, i, {})
    BY WalkCalls DEF CallsOf
  <1>3. Run(q)
    OBVIOUS
  <1> HIDE DEF q
  <1>4. \A i \in DOMAIN q : /\ Recycling(q[i]) => q[i].of \in L
                            /\ \A f \in Elements : q[i] = Step("obtain", f) => f \in G
    BY <1>1, StepIn
  <1>5. G \cap L = {} /\ e \notin L
    <2> HIDE DEF G, L
    <2>1. QED
      BY <1>1, WalkApart, WalkHead
  <1>6. L \subseteq Elements
    BY DEF Lost
  <1> HIDE DEF G, L
  <1>7. Apart(q, up)
    BY <1>2, <1>4, <1>5, <1>6 DEF Apart, Called
  <1>8. \A f \in Elements : /\ f \in G => view'[f] # NoView
                            /\ f \in L => view'[f] = NoView
                            /\ f \notin G \cup L => view'[f] = view[f]
    BY <1>1, <1>3, <1>7, RunViews DEF G, L
  <1>9. QED
    BY <1>1, <1>8 DEF WalkLeaves

LEMMA TailEnds ==
  ASSUME ~ IsFiniteSet(Views), Good(Now), NEW e \in Elements, NEW vis, view[e] # NoView,
         Run(Tail(Walk(e, vis)))
  PROVE  WalkLeaves(e, vis)
  <1> DEFINE w == Walk(e, vis)
             q == Tail(w)
             G == Got(ToSet(w))
             L == Lost(ToSet(w))
  <1>1. w \in Seq(Steps) /\ WalkedFrom(e, vis, Recyclable, G, L)
    BY WalkVisited DEF WalkSteps
  <1>2. /\ w # <<>> /\ w[1] = Step("obtain", e)
        /\ \A i \in DOMAIN w : w[i].of = e \/ Called(w, i, {})
    BY WalkCalls DEF CallsOf
  <1>3. Run(q)
    OBVIOUS
  <1> HIDE DEF w
  <1>4. /\ q \in Seq(Steps) /\ DOMAIN q = 1 .. Len(w) - 1 /\ DOMAIN w = 1 .. Len(w)
        /\ Len(w) \in Nat /\ Len(w) > 0
        /\ \A i \in 1 .. Len(w) - 1 : q[i] = w[i + 1]
    BY <1>1, <1>2
  <1> HIDE DEF q
  <1>5. \A i \in DOMAIN q : i + 1 \in DOMAIN w /\ q[i] = w[i + 1]
    BY <1>4
  <1>6. \A k \in DOMAIN w : k # 1 => k - 1 \in DOMAIN q /\ q[k - 1] = w[k]
    <2> SUFFICES ASSUME NEW k \in DOMAIN w, k # 1 PROVE k - 1 \in DOMAIN q /\ q[k - 1] = w[k]
      OBVIOUS
    <2>1. k - 1 \in 1 .. Len(w) - 1 /\ (k - 1) + 1 = k
      BY <1>4
    <2>2. QED
      BY <1>4, <2>1
  <1>7. ToSet(q) \subseteq ToSet(w) /\ ToSet(w) \subseteq ToSet(q) \cup {Step("obtain", e)}
    BY <1>2, <1>5, <1>6 DEF ToSet
  <1>8. /\ L = Lost(ToSet(q))
        /\ \A f \in Elements : f \in G => f = e \/ f \in Got(ToSet(q))
        /\ Got(ToSet(q)) \subseteq G
    BY <1>7 DEF Lost, Got, Step
  <1>9. \A i \in DOMAIN q : /\ Recycling(q[i]) => q[i].of \in L
                            /\ \A f \in Elements : q[i] = Step("obtain", f) => f \in G
    BY <1>4, <1>8, StepIn
  <1>10. G \cap L = {} /\ e \notin L
    <2> HIDE DEF G, L
    <2>1. QED
      BY <1>1, WalkApart, WalkHead
  <1>11. L \subseteq Elements
    BY DEF Lost
  <1> HIDE DEF G, L
  <1>12. ASSUME NEW i \in DOMAIN q, q[i].op = "obtain"
         PROVE  \/ q[i].of \in {e} \/ Above(q[i].of) \in {e} \cap Elements
                \/ \E k \in DOMAIN q : k < i /\ q[k] = Step("obtain", Above(q[i].of))
    <2>1. i + 1 \in DOMAIN w /\ q[i] = w[i + 1]
      BY <1>5
    <2>2. CASE w[i + 1].of = e
      BY <2>1, <2>2
    <2>3. ASSUME NEW k \in DOMAIN w, k < i + 1, w[k] = Step("obtain", Above(q[i].of))
          PROVE  \/ Above(q[i].of) = e
                 \/ \E m \in DOMAIN q : m < i /\ q[m] = Step("obtain", Above(q[i].of))
      <3>1. CASE k = 1
        BY <1>2, <2>3, <3>1 DEF Step
      <3>2. CASE k # 1
        <4>1. k - 1 \in DOMAIN q /\ q[k - 1] = w[k] /\ k - 1 < i
          BY <1>4, <1>6, <2>3, <3>2
        <4>2. QED
          BY <2>3, <4>1
      <3>3. QED
        BY <3>1, <3>2
    <2>4. QED
      BY <1>2, <1>12, <2>1, <2>2, <2>3 DEF Called
  <1>13. Apart(q, {e})
    BY <1>9, <1>10, <1>11, <1>12 DEF Apart
  <1>14. \A f \in Elements :
           /\ f \in {e} => view'[f] # NoView
           /\ f \in Got(ToSet(q)) => view'[f] # NoView
           /\ f \in Lost(ToSet(q)) => view'[f] = NoView
           /\ f \notin Got(ToSet(q)) \cup Lost(ToSet(q)) => view'[f] = view[f]
    BY <1>3, <1>4, <1>13, RunViews
  <1>15. e \in G
    BY <1>1 DEF WalkedFrom
  <1>16. \A f \in Elements : /\ f \in G => view'[f] # NoView
                             /\ f \in L => view'[f] = NoView
                             /\ f \notin G \cup L => view'[f] = view[f]
    BY <1>8, <1>14, <1>15
  <1>17. QED
    BY <1>1, <1>16 DEF WalkLeaves

LEMMA RemovedEnds ==
  ASSUME ~ IsFiniteSet(Views), Good(Now), NEW e \in Elements,
         Run(Visited(e, "remove", Elements, Nothing, Nothing))
  PROVE  \A f \in Elements : view'[f] = IF f \in Subtree(e) THEN NoView ELSE view[f]
  <1> DEFINE q == Visited(e, "remove", Elements, Nothing, Nothing)
             L == Lost(ToSet(q))
  <1>1. q \in RecyclingSteps("remove", e, Elements)
    BY RecyclingVisited
  <1>2. Run(q)
    OBVIOUS
  <1> HIDE DEF q
  <1>3. q \in Seq(Steps) /\ (\A s \in ToSet(q) : s.op = "remove") /\ L \in RecycledFrom(e, Elements)
    BY <1>1 DEF RecyclingSteps
  <1>4. L = Subtree(e)
    <2>1. e \in L /\ L \subseteq Subtree(e) /\ \A p \in L : Below(p) \cap Elements \subseteq L
      BY <1>3 DEF RecycledFrom
    <2> HIDE DEF L
    <2>2. \A g \in Subtree(e) \cap L : Below(g) \subseteq L
      BY <2>1, AboveBelow, SubtreeOf
    <2>3. Subtree(e) \subseteq L
      BY <2>1, <2>2, Reached
    <2>4. QED
      BY <2>1, <2>3
  <1>5. \A i \in DOMAIN q : q[i].op = "remove"
    BY <1>3 DEF ToSet
  <1>6. Got(ToSet(q)) = {}
    BY <1>3 DEF Got, Step
  <1>7. Apart(q, {})
    BY <1>5 DEF Apart, Step
  <1> HIDE DEF L
  <1>8. \A f \in Elements : /\ f \in L => view'[f] = NoView
                            /\ f \notin L => view'[f] = view[f]
    BY <1>2, <1>3, <1>6, <1>7, RunViews DEF L
  <1>9. QED
    BY <1>4, <1>8

-----------------------------------------------------------------------------
(***************************************************************************)
(* What is in sight has a View, and what can be recycled has one only there. *)
(***************************************************************************)

\* InSight, for these Views and these visible elements.
Sighted(has, vis) ==
  \A x \in Elements :
    /\ x \in vis /\ Ancestors(x) \ {Root} \subseteq vis => has[x] # NoView
    /\ has[x] # NoView /\ x \in Named /\ x # Root
         => \/ x \in vis
            \/ \E p \in Ancestors(x) \ {Root} : p \notin vis /\ (p \notin Named \/ Cut(x, p))

LEMMA SightedIs == Sighted(view, visible) <=> InSight
  <1>1. \A x \in Elements : Ancestors(x) \subseteq Elements
    BY DEF Ancestors
  <1>2. QED
    BY <1>1, KeyIs DEF Sighted, InSight

LEMMA AncestorIs ==
  ASSUME NEW x \in Elements, NEW p
  PROVE  p \in Ancestors(x) <=> p \in Elements /\ p # x /\ x \in Subtree(p)
  BY DEF Ancestors

\* What is in no sight and in no walk either: y, of those above x the first that
\* the walk did not obtain a View for, has none to give back.
LEMMA CutOff ==
  ASSUME NEW e \in Elements, NEW vis, NEW G, NEW L, WalkedFrom(e, vis, Recyclable, G, L),
         Hung(Now, {}), NEW x \in Subtree(e), x \notin G, x \notin L, view[x] # NoView,
         x \in Named
  PROVE  \E p \in Elements \ {Root} :
           /\ p \notin vis /\ x \in Subtree(p)
           /\ p \in Named => p # x /\ Cut(x, p)
  <1>1. /\ e \in G /\ G \subseteq Subtree(e)
        /\ \A p \in G : Below(p) \cap vis \subseteq G /\ (Below(p) \cap Recyclable) \ vis \subseteq L
        /\ \A p \in L : Below(p) \ InBlock \subseteq L
    BY DEF WalkedFrom
  <1>2. PICK p \in G : \E y \in Below(p) : x \in Subtree(y) /\ y \notin G
    BY <1>1, WayDown
  <1> PICK y \in Below(p) : x \in Subtree(y) /\ y \notin G
    BY <1>2
  <1>3. y \in Elements \ {Root} /\ y \notin vis /\ y \in Subtree(e)
    BY <1>1, <1>2, AboveBelow, SubtreeOf DEF Closed
  <1>4. SUFFICES ASSUME y \in Named PROVE y # x /\ Cut(x, y)
    BY <1>2, <1>3
  <1>5. view[y] # NoView => y \in L
    BY <1>1, <1>2, <1>3, <1>4, KeyIs DEF Recyclable, CanRecycle
  <1>6. y # x
    BY <1>5
  <1>7. SUFFICES ASSUME ~ Cut(x, y) PROVE FALSE
    BY <1>6
  <1>8. ASSUME NEW b \in Subtree(y), b # y, x \in Subtree(b) PROVE b \notin InBlock
    <2>1. b \in Elements /\ x \in Elements
      BY <1>3, SubtreeOf
    <2>2. b = x \/ b \in Ancestors(x)
      BY <1>8, <2>1, AncestorIs
    <2>3. y \in Ancestors(b)
      BY <1>3, <1>8, <2>1, AncestorIs
    <2>4. QED
      BY <1>7, <2>2, <2>3 DEF Cut
  <1>9. ASSUME y \in L PROVE FALSE
    <2>1. ASSUME NEW g \in L \cap Subtree(y), NEW c \in Below(g), x \in Subtree(c)
          PROVE  c \in L
      <3>1. g \in Elements /\ y \in Elements
        BY <1>3, SubtreeOf
      <3>2. c \in Subtree(y)
        BY <2>1, <3>1, SubtreeOf DEF Closed
      <3>3. c # y
        BY <2>1, <3>1, ChildIn
      <3>4. c \notin InBlock
        BY <1>8, <2>1, <3>2, <3>3
      <3>5. QED
        BY <1>1, <2>1, <3>4
    <2>2. x \in L
      BY <1>2, <1>3, <1>9, <2>1, WayDown
    <2>3. QED
      BY <2>2
  <1>10. ASSUME view[y] = NoView PROVE FALSE
    <2> DEFINE S == {c \in Elements : view[c] # NoView}
    <2>1. ASSUME NEW c \in S \cap (Subtree(y) \ {y}), x \in Subtree(c) PROVE Above(c) \in S
      <3>1. c \notin InBlock /\ c \in Elements
        BY <1>8, <2>1
      <3>2. c # Root
        BY <1>3, <2>1, SubtreeAbove
      <3>3. c \in Inner /\ view[c] # NoView
        BY <2>1, <3>1, <3>2 DEF Inner
      <3>4. view[Above(c)] # NoView
        BY <3>3 DEF Hung, HasParent, Now
      <3>5. Above(c) \in Elements
        BY <3>1, <3>2, AboveIs
      <3>6. QED
        BY <3>4, <3>5
    <2>2. x \in S
      BY SubtreeOf
    <2> HIDE DEF S
    <2>3. y \in S
      BY <1>2, <1>3, <2>1, <2>2, WayUp
    <2>4. QED
      BY <1>10, <2>3 DEF S
  <1>11. QED
    BY <1>5, <1>9, <1>10

LEMMA WalkSighted ==
  ASSUME Hung(Now, {}), Sighted(view, visible), NEW e \in Elements,
         e = Root \/ view[e] # NoView, WalkLeaves(e, visible'),
         \A f \in Elements : f = e \/ f \notin Subtree(e) => (f \in visible' <=> f \in visible)
  PROVE  Sighted(view', visible')
  <1> DEFINE vis == visible'
  <1>1. PICK G, L : /\ WalkedFrom(e, vis, Recyclable, G, L)
                    /\ \A f \in Elements : /\ f \in G => view'[f] # NoView
                                           /\ f \in L => view'[f] = NoView
                                           /\ f \notin G \cup L => view'[f] = view[f]
    BY DEF WalkLeaves
  <1>2. /\ e \in G /\ G \subseteq Subtree(e) /\ L \subseteq Subtree(e)
        /\ \A p \in G : Below(p) \cap vis \subseteq G
        /\ \A c \in G \ {e} : c \in vis
    BY <1>1 DEF WalkedFrom
  <1>3. \A f \in Elements : f = e \/ f \notin Subtree(e) => (f \in vis <=> f \in visible)
    OBVIOUS
  <1> HIDE DEF vis
  <1> SUFFICES ASSUME NEW x \in Elements
               PROVE  /\ x \in vis /\ Ancestors(x) \ {Root} \subseteq vis => view'[x] # NoView
                      /\ view'[x] # NoView /\ x \in Named /\ x # Root
                           => \/ x \in vis
                              \/ \E p \in Ancestors(x) \ {Root} :
                                   p \notin vis /\ (p \notin Named \/ Cut(x, p))
    BY DEF Sighted, vis
  \* Above x, or x itself when it is e, the walk changed nothing.
  <1>4. ASSUME x = e \/ x \notin Subtree(e), NEW p \in Ancestors(x)
        PROVE  p \in vis <=> p \in visible
    <2>1. p \in Elements /\ p # x /\ x \in Subtree(p)
      BY <1>4, AncestorIs
    <2>2. ASSUME p \in Subtree(e) PROVE p = e
      <3>1. x \in Subtree(e)
        BY <2>1, <2>2, SubtreeIn
      <3>2. QED
        BY <1>4, <2>1, <2>2, <3>1, SubtreeOnce
    <2>3. QED
      BY <1>3, <2>1, <2>2
  <1>5. ASSUME x \in vis, Ancestors(x) \ {Root} \subseteq vis PROVE view'[x] # NoView
    <2>1. CASE x \in Subtree(e)
      <3>1. ASSUME NEW g \in G \cap Subtree(e), NEW c \in Below(g), x \in Subtree(c)
            PROVE  c \in G
        <4>1. c \in Elements \ {Root}
          BY <3>1, AboveBelow, SubtreeOf
        <4>2. c = x \/ c \in Ancestors(x)
          BY <3>1, <4>1, AncestorIs
        <4>3. c \in vis
          BY <1>5, <4>1, <4>2
        <4>4. QED
          BY <1>2, <3>1, <4>3
      <3>2. x \in G
        BY <1>2, <2>1, <3>1, WayDown
      <3>3. QED
        BY <1>1, <3>2
    <2>2. CASE x \notin Subtree(e)
      <3>1. x \in visible /\ Ancestors(x) \ {Root} \subseteq visible
        BY <1>3, <1>4, <1>5, <2>2
      <3>2. view[x] # NoView
        BY <3>1 DEF Sighted
      <3>3. QED
        BY <1>1, <1>2, <2>2, <3>2
    <2>3. QED
      BY <2>1, <2>2
  <1>6. ASSUME view'[x] # NoView, x \in Named, x # Root, x \notin vis
        PROVE  \E p \in Ancestors(x) \ {Root} : p \notin vis /\ (p \notin Named \/ Cut(x, p))
    <2>1. x \notin L /\ (x \in G => x = e) /\ view[x] # NoView
      BY <1>1, <1>2, <1>6
    <2>2. CASE x = e \/ x \notin Subtree(e)
      <3>1. x \notin visible
        BY <1>3, <1>6, <2>2
      <3>2. PICK p \in Ancestors(x) \ {Root} :
              p \notin visible /\ (p \notin Named \/ Cut(x, p))
        BY <1>6, <2>1, <3>1 DEF Sighted
      <3>3. p \notin vis
        BY <1>4, <2>2, <3>2
      <3>4. QED
        BY <3>2, <3>3
    <2>3. CASE x # e /\ x \in Subtree(e)
      <3>1. PICK p \in Elements \ {Root} :
              p \notin vis /\ x \in Subtree(p) /\ (p \in Named => p # x /\ Cut(x, p))
        BY <1>1, <1>6, <2>1, <2>3, CutOff
      <3>2. p # x
        BY <1>6, <3>1
      <3>3. p \in Ancestors(x)
        BY <3>1, <3>2, AncestorIs
      <3>4. QED
        BY <3>1, <3>3
    <2>4. QED
      BY <2>2, <2>3
  <1>7. QED
    BY <1>5, <1>6

LEMMA InitSighted == Init => Sighted(view, visible)
  BY DEF Init, Sighted

LEMMA NextSighted ==
  ASSUME ~ IsFiniteSet(Views), Inv, Leveled, Sighted(view, visible), [Next]_vars
  PROVE  Sighted(view, visible)'
  <1>1. Good(Now) /\ Hung(Now, {})
    BY DEF Inv, Whole
  <1>2. visible \subseteq Elements \ {Root}
    BY DEF Leveled
  <1>3. ASSUME NEW e \in Elements \ {Root}, Add(e) PROVE Sighted(view', visible')
    BY <1>3 DEF Add
  <1>4. ASSUME NEW e \in Elements \ {Root}, Recycle(e) PROVE Sighted(view', visible')
    <2> DEFINE gone == Subtree(e)
    <2>1. /\ visible' = visible \ gone
          /\ \A f \in Elements : view'[f] = IF f \in gone THEN NoView ELSE view[f]
      BY <1>1, <1>4, RemovedEnds DEF Recycle
    <2> HIDE DEF gone
    <2>2. QED
      BY <2>1 DEF Sighted, Ancestors
  <1>5. ASSUME NEW e \in Elements, Scroll(e) PROVE Sighted(view', visible')
    <2>1. PICK vis \in SUBSET (present \cap Below(e)) :
            /\ visible' = (visible \ Below(e)) \cup vis
            /\ Run(Tail(Walk(e, visible')))
      BY <1>5 DEF Scroll
    <2>2. view[e] # NoView
      BY <1>5 DEF Scroll
    <2>3. WalkLeaves(e, visible')
      BY <1>1, <2>1, <2>2, TailEnds
    <2>4. ASSUME NEW f \in Elements, f = e \/ f \notin Subtree(e)
          PROVE  f \in visible' <=> f \in visible
      BY <2>1, <2>4, ChildIn
    <2>5. QED
      BY <1>1, <2>2, <2>3, <2>4, WalkSighted
  <1>6. ASSUME NEW e \in Elements, Hover(e) PROVE Sighted(view', visible')
    <2>1. view[e] # NoView /\ Run(Walk(e, visible)) /\ visible' = visible
      BY <1>6 DEF Hover
    <2>2. WalkLeaves(e, visible')
      BY <1>1, <2>1, WalkEnds
    <2>3. QED
      BY <1>1, <2>1, <2>2, WalkSighted
  <1>7. ASSUME Layout PROVE Sighted(view', visible')
    <2>1. PICK vis \in SUBSET (present \ {Root}) : visible' = vis /\ Run(Walk(Root, vis))
      BY <1>7 DEF Layout
    <2>2. WalkLeaves(Root, visible')
      BY <1>1, <2>1, WalkEnds, Constants
    <2>3. ASSUME NEW f \in Elements, f = Root \/ f \notin Subtree(Root)
          PROVE  f \in visible' <=> f \in visible
      BY <1>2, <2>1, <2>3, AllBelowRoot
    <2>4. QED
      BY <1>1, <2>2, <2>3, WalkSighted, Constants
  <1>8. CASE UNCHANGED vars
    BY <1>8 DEF vars
  <1>9. QED
    BY <1>3, <1>4, <1>5, <1>6, <1>7, <1>8 DEF Next

-----------------------------------------------------------------------------
(***************************************************************************)
(* The theorems.                                                           *)
(***************************************************************************)

\* The variables have their types, and no two children of an element that are
\* there at the same time have the same level id.
THEOREM TypeCorrect ==
  ASSUME ~ IsFiniteSet(Views)
  PROVE  Spec => []TypeOK
  <1>1. Init => Inv /\ Leveled
    BY InitWhole, InitLeveled
  <1>2. Inv /\ Leveled /\ [Next]_vars => Inv' /\ Leveled'
    BY NextWhole, NextLeveled
  <1>3. Inv /\ Leveled => TypeOK
    BY TypeOKHolds
  <1>4. QED
    BY <1>1, <1>2, <1>3, PTL DEF Spec

\* Whatever is laid out, scrolled, touched, added and recycled, no View is in two
\* hands, when createView() always gives one.
THEOREM OneOwner ==
  ASSUME ~ IsFiniteSet(Views)
  PROVE  Spec => []Exclusive
  <1>1. Init => Inv
    BY InitWhole
  <1>2. Inv /\ [Next]_vars => Inv'
    BY NextWhole
  <1>3. Inv => Exclusive
    BY WholeIsExclusive
  <1>4. QED
    BY <1>1, <1>2, <1>3, PTL DEF Spec

\* The View of an element is always in that of its parent, whatever was below
\* it when it was taken from a pool.
THEOREM AlwaysAttached ==
  ASSUME ~ IsFiniteSet(Views)
  PROVE  Spec => []Attached
  <1>1. Init => Inv
    BY InitWhole
  <1>2. Inv /\ [Next]_vars => Inv'
    BY NextWhole
  <1>3. Inv => Attached
    BY WholeIsAttached
  <1>4. QED
    BY <1>1, <1>2, <1>3, PTL DEF Spec

\* After every walk there is nothing below the View of an element but Views of
\* its children and of elements in blocks, when none of these has a key of its own.
THEOREM NoStrangersLeft ==
  ASSUME ~ IsFiniteSet(Views), NoBlockKeys
  PROVE  Spec => []NoStrangers
  <1>1. Init => Inv
    BY InitWhole
  <1>2. Inv /\ [Next]_vars => Inv'
    BY NextWhole
  <1>3. Inv => NoStrangers
    BY WholeHasNoStrangers
  <1>4. QED
    BY <1>1, <1>2, <1>3, PTL DEF Spec

\* After every walk, what is laid out in sight has a View, and an element with a
\* reuse key that is out of sight has given its View back, unless it is below one
\* out of sight that keeps its own or behind a block.
THEOREM SeenAndReturned ==
  ASSUME ~ IsFiniteSet(Views)
  PROVE  Spec => []InSight
  <1>1. Init => Inv /\ Leveled /\ Sighted(view, visible)
    BY InitWhole, InitLeveled, InitSighted
  <1>2. Inv /\ Leveled /\ Sighted(view, visible) /\ [Next]_vars
          => Inv' /\ Leveled' /\ Sighted(view, visible)'
    BY NextWhole, NextLeveled, NextSighted
  <1>3. Sighted(view, visible) => InSight
    BY SightedIs
  <1>4. QED
    BY <1>1, <1>2, <1>3, PTL DEF Spec

=============================================================================
