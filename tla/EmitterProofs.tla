---------------------------- MODULE EmitterProofs ----------------------------
(***************************************************************************)
(* Proofs about EventEmitter: the lists of the app hold the pages that are *)
(* alive, and an emission passes over nobody, for any number of pages,     *)
(* functions, names and nested emissions.                                  *)
(***************************************************************************)
EXTENDS EventEmitter, WellFoundedInduction, TLAPS

(***************************************************************************)
(* Sequences.                                                              *)
(***************************************************************************)

LEMMA Least ==
  ASSUME NEW S \in SUBSET Nat, S # {}
  PROVE  \E n \in S : \A m \in S : n <= m
  <1>1. PICK n \in S : \A m \in S : <<m, n>> \notin OpToRel(<, Nat)
    BY NatLessThanWellFounded, WFMin, Zenon
  <1>2. \A m \in S : ~ (m < n)
    BY <1>1, Zenon DEF OpToRel
  <1>3. QED
    BY <1>2

LEMMA ConcatIs ==
  ASSUME NEW S, NEW a \in Seq(S), NEW b \in Seq(S)
  PROVE  a \o b \in Seq(S) /\ ToSet(a \o b) = ToSet(a) \cup ToSet(b)
  <1>1. /\ a \o b \in Seq(S) /\ Len(a) \in Nat /\ Len(b) \in Nat
        /\ DOMAIN a = 1 .. Len(a) /\ DOMAIN b = 1 .. Len(b)
        /\ DOMAIN (a \o b) = 1 .. Len(a) + Len(b)
        /\ \A i \in 1 .. Len(a) : (a \o b)[i] = a[i]
        /\ \A i \in 1 .. Len(a) + Len(b) : i > Len(a) => (a \o b)[i] = b[i - Len(a)]
    OBVIOUS
  <1>2. ToSet(a) \subseteq ToSet(a \o b)
    <2>1. \A i \in 1 .. Len(a) : i \in 1 .. Len(a) + Len(b)
      BY <1>1
    <2>2. QED
      BY <1>1, <2>1 DEF ToSet
  <1>3. ToSet(b) \subseteq ToSet(a \o b)
    <2>1. ASSUME NEW i \in 1 .. Len(b) PROVE b[i] \in ToSet(a \o b)
      <3>1. /\ i + Len(a) \in 1 .. Len(a) + Len(b) /\ i + Len(a) > Len(a)
            /\ (i + Len(a)) - Len(a) = i
        BY <1>1
      <3>2. (a \o b)[i + Len(a)] = b[i]
        BY <1>1, <3>1
      <3>3. QED
        BY <1>1, <3>1, <3>2 DEF ToSet
    <2>2. QED
      BY <1>1, <2>1 DEF ToSet
  <1>4. ToSet(a \o b) \subseteq ToSet(a) \cup ToSet(b)
    <2>1. ASSUME NEW i \in 1 .. Len(a) + Len(b)
          PROVE  (a \o b)[i] \in ToSet(a) \cup ToSet(b)
      <3>1. CASE i \in 1 .. Len(a)
        BY <1>1, <3>1 DEF ToSet
      <3>2. CASE i \notin 1 .. Len(a)
        <4>1. i > Len(a) /\ i - Len(a) \in 1 .. Len(b)
          BY <1>1, <3>2
        <4>2. QED
          BY <1>1, <4>1 DEF ToSet
      <3>3. QED
        BY <3>1, <3>2
    <2>2. QED
      BY <1>1, <2>1 DEF ToSet
  <1>5. QED
    BY <1>1, <1>2, <1>3, <1>4

\* The function that FlattenSeq defines by recursion.
Joins(F, q, n) == F = [i \in 1 .. n |-> IF i = 1 THEN q[i] ELSE F[i - 1] \o q[i]]

LEMMA JoinsExist ==
  ASSUME NEW q, NEW N \in Nat
  PROVE  \E F : Joins(F, q, N)
  <1> DEFINE Bad == {n \in Nat : ~ \E F : Joins(F, q, n)}
  <1> SUFFICES ASSUME N \in Bad PROVE FALSE
    OBVIOUS
  <1>1. PICK n \in Bad : \A m \in Bad : n <= m
    <2>1. Bad \in SUBSET Nat /\ Bad # {}
      OBVIOUS
    <2> HIDE DEF Bad
    <2>2. QED
      BY <2>1, Least
  <1>2. n \in Nat /\ ~ \E F : Joins(F, q, n)
    OBVIOUS
  <1>3. CASE n = 0
    <2>1. Joins([i \in 1 .. 0 |-> 0], q, 0)
      BY DEF Joins
    <2>2. QED
      BY <1>2, <1>3, <2>1
  <1>4. CASE n # 0
    <2>1. n - 1 \in Nat /\ ~ (n <= n - 1)
      BY <1>2, <1>4
    <2>2. n - 1 \notin Bad
      BY <1>1, <2>1
    <2>3. PICK G : Joins(G, q, n - 1)
      BY <2>1, <2>2
    <2> DEFINE step(i) == IF i = 1 THEN q[i] ELSE G[i - 1] \o q[i]
               F == [i \in 1 .. n |-> step(i)]
    <2>4. /\ DOMAIN G = 1 .. n - 1
          /\ \A i \in 1 .. n - 1 : G[i] = step(i)
      BY <2>3 DEF Joins
    <2>5. \A i \in 1 .. n : i # 1 => F[i - 1] = G[i - 1]
      <3>1. \A i \in 1 .. n : i # 1 => i - 1 \in 1 .. n - 1 /\ i - 1 \in 1 .. n
        BY <1>2
      <3>2. \A j \in 1 .. n : F[j] = step(j)
        OBVIOUS
      <3> HIDE DEF F, step
      <3>3. QED
        BY <2>4, <3>1, <3>2
    <2>6. \A i \in 1 .. n : F[i] = IF i = 1 THEN q[i] ELSE F[i - 1] \o q[i]
      BY <2>5
    <2>7. F = [i \in 1 .. n |-> F[i]]
      OBVIOUS
    <2> HIDE DEF F
    <2>8. Joins(F, q, n)
      BY <2>6, <2>7 DEF Joins
    <2>9. QED
      BY <1>2, <2>8
  <1>5. QED
    BY <1>3, <1>4

\* A sequence of sequences joined: all that is in them, and nothing else.
LEMMA Flattened ==
  ASSUME NEW S, NEW q \in Seq(Seq(S))
  PROVE  /\ FlattenSeq(q) \in Seq(S)
         /\ ToSet(FlattenSeq(q)) = UNION {ToSet(q[i]) : i \in DOMAIN q}
  <1>1. CASE Len(q) = 0
    <2>1. FlattenSeq(q) = <<>> /\ q = <<>> /\ DOMAIN q = {}
      BY <1>1 DEF FlattenSeq
    <2>2. ToSet(<<>>) = {}
      BY DEF ToSet
    <2>3. QED
      BY <2>1, <2>2
  <1>2. CASE Len(q) # 0
    <2> DEFINE N == Len(q)
    <2>1. N \in Nat /\ N > 0 /\ DOMAIN q = 1 .. N /\ \A i \in 1 .. N : q[i] \in Seq(S)
      BY <1>2
    <2> DEFINE F == CHOOSE F : Joins(F, q, N)
    <2>2. FlattenSeq(q) = F[N]
      BY <1>2 DEF FlattenSeq, Joins
    <2>3. Joins(F, q, N)
      BY <2>1, JoinsExist
    <2> HIDE DEF F, N
    <2>4. \A i \in 1 .. N : F[i] = IF i = 1 THEN q[i] ELSE F[i - 1] \o q[i]
      BY <2>3 DEF Joins
    <2> DEFINE All(i) == UNION {ToSet(q[j]) : j \in 1 .. i}
               Good(i) == F[i] \in Seq(S) /\ ToSet(F[i]) = All(i)
               Bad == {i \in 1 .. N : ~ Good(i)}
    <2>5. Bad = {}
      <3> SUFFICES ASSUME Bad # {} PROVE FALSE
        OBVIOUS
      <3>1. PICK n \in Bad : \A m \in Bad : n <= m
        <4>1. Bad \in SUBSET Nat
          BY <2>1
        <4> HIDE DEF Bad
        <4>2. QED
          BY <4>1, Least
      <3>2. n \in 1 .. N /\ ~ Good(n)
        OBVIOUS
      <3>3. CASE n = 1
        <4>1. F[n] = q[1] /\ q[1] \in Seq(S)
          BY <2>1, <2>4, <3>2, <3>3
        <4>2. All(n) = ToSet(q[1])
          BY <3>3
        <4>3. QED
          BY <3>2, <4>1, <4>2
      <3>4. CASE n # 1
        <4>1. /\ n - 1 \in 1 .. N /\ ~ (n <= n - 1)
              /\ 1 .. n = (1 .. n - 1) \cup {n}
          BY <2>1, <3>2, <3>4
        <4>2. n - 1 \notin Bad
          BY <3>1, <4>1
        <4>3. F[n - 1] \in Seq(S) /\ ToSet(F[n - 1]) = All(n - 1)
          BY <4>1, <4>2
        <4>4. F[n] = F[n - 1] \o q[n] /\ q[n] \in Seq(S)
          BY <2>1, <2>4, <3>2, <3>4
        <4>5. All(n) = All(n - 1) \cup ToSet(q[n])
          BY <4>1
        <4>6. F[n] \in Seq(S) /\ ToSet(F[n]) = ToSet(F[n - 1]) \cup ToSet(q[n])
          BY <4>3, <4>4, ConcatIs
        <4>7. QED
          BY <3>2, <4>3, <4>5, <4>6
      <3>5. QED
        BY <3>3, <3>4
    <2>6. N \in 1 .. N
      BY <2>1
    <2>7. Good(N)
      BY <2>5, <2>6
    <2>8. QED
      BY <2>1, <2>2, <2>7
  <1>3. QED
    BY <1>1, <1>2

-----------------------------------------------------------------------------
(***************************************************************************)
(* The invariant of the lists.                                             *)
(***************************************************************************)

\* With the pages in al alive and those in ct cut off, pages are subscribed to
\* everything of the app and to nothing else; who is not cut off still is.
Agree(ls, al, ct) ==
  /\ ls \in [Emitters -> [Patterns -> Seq(Handlers)]]
  /\ \A e \in Emitters, n \in Patterns :
       ToSet(ls[e][n]) \cap Pages \subseteq IF e = App /\ n = Everything THEN al ELSE {}
  /\ al \ ct \subseteq ToSet(ls[App][Everything])

Listed == TypeOK /\ Agree(lists, alive, cut)

(***************************************************************************)
(* The invariant of the emissions st, with the pages in al alive and those *)
(* in he held, of apps whose pages are dropped by no handler of an event   *)
(* of the app.                                                             *)
(***************************************************************************)

\* A page lives while it is held or emits.  What is emitted, a living emitter
\* emits to everybody due; a page still to be called is held or emits below.
Kept(st, al, he) ==
  /\ \A p \in al : p \in he \/ Emitting(p, st)
  /\ \A i \in DOMAIN st :
       /\ st[i].src \in al \cup {App}
       /\ st[i].due \subseteq st[i].done \cup ToSet(st[i].rest)
       /\ \A p \in ToSet(st[i].rest) \cap Pages :
            /\ st[i].src = App
            /\ p \in he \/ \E j \in DOMAIN st : j > i /\ st[j].src = p

\* A page is not destroyed while it is alive, nor twice.
OneEnd == \A p \in Pages : destroyed[p] = 0 \/ (destroyed[p] = 1 /\ p \notin alive)

Inv == Listed /\ Kept(stack, alive, held) /\ OneEnd

-----------------------------------------------------------------------------
(***************************************************************************)
(* The operators of EventEmitter.                                          *)
(***************************************************************************)

LEMMA Basics ==
  /\ Everything \in Patterns /\ Names \subseteq Patterns
  /\ App \in Emitters /\ Pages \subseteq Emitters /\ App \notin Pages
  /\ Functions \cap Pages = {} /\ Functions \cup Pages = Handlers /\ NoHandler \notin Handlers
  /\ PrefixOrder \in Seq(Patterns)
  <1>1. PrefixOrder \in Seq(ToSet(PrefixOrder)) /\ PrefixOrder # <<>>
    BY EmitterAssumption
  <1>2. ToSet(PrefixOrder) \subseteq Patterns
    BY DEF Patterns
  <1>3. PrefixOrder \in Seq(Patterns)
    <2>1. /\ Len(PrefixOrder) \in Nat /\ DOMAIN PrefixOrder = 1 .. Len(PrefixOrder)
          /\ \A i \in 1 .. Len(PrefixOrder) : PrefixOrder[i] \in Patterns
          /\ PrefixOrder = [i \in 1 .. Len(PrefixOrder) |-> PrefixOrder[i]]
      BY <1>1, <1>2
    <2>2. QED
      BY <2>1
  <1>4. Everything \in Patterns
    BY <1>1, <1>3 DEF Everything
  <1>5. QED
    BY <1>3, <1>4, EmitterAssumption DEF Patterns, Emitters, Handlers

LEMMA AppendIs ==
  ASSUME NEW S, NEW s \in Seq(S), NEW x \in S
  PROVE  Append(s, x) \in Seq(S) /\ ToSet(Append(s, x)) = ToSet(s) \cup {x}
  <1>1. /\ Len(s) \in Nat /\ Append(s, x) \in Seq(S)
        /\ DOMAIN s = 1 .. Len(s) /\ DOMAIN Append(s, x) = 1 .. Len(s) + 1
        /\ \A i \in 1 .. Len(s) : Append(s, x)[i] = s[i]
        /\ Append(s, x)[Len(s) + 1] = x
    OBVIOUS
  <1>2. 1 .. Len(s) + 1 = (1 .. Len(s)) \cup {Len(s) + 1}
    BY <1>1
  <1>3. QED
    BY <1>1, <1>2 DEF ToSet

LEMMA HeadIs ==
  ASSUME NEW S, NEW s \in Seq(S), s # <<>>
  PROVE  /\ Head(s) \in S /\ Tail(s) \in Seq(S)
         /\ ToSet(s) = {Head(s)} \cup ToSet(Tail(s))
         /\ Len(s) \in Nat /\ Len(s) > 0
         /\ DOMAIN s = 1 .. Len(s) /\ DOMAIN Tail(s) = 1 .. Len(s) - 1
         /\ \A i \in 1 .. Len(s) - 1 : Tail(s)[i] = s[i + 1]
         /\ Head(s) = s[1]
  <1>1. /\ Head(s) \in S /\ Tail(s) \in Seq(S)
        /\ Len(s) \in Nat /\ Len(s) > 0
        /\ DOMAIN s = 1 .. Len(s) /\ DOMAIN Tail(s) = 1 .. Len(s) - 1
        /\ \A i \in 1 .. Len(s) - 1 : Tail(s)[i] = s[i + 1]
        /\ Head(s) = s[1]
    OBVIOUS
  <1>2. /\ 1 \in 1 .. Len(s)
        /\ \A i \in 1 .. Len(s) : i = 1 \/ (i - 1 \in 1 .. Len(s) - 1 /\ (i - 1) + 1 = i)
        /\ \A i \in 1 .. Len(s) - 1 : i + 1 \in 1 .. Len(s)
    BY <1>1
  <1>3. ToSet(s) \subseteq {s[1]} \cup ToSet(Tail(s))
    <2>1. ASSUME NEW i \in 1 .. Len(s), i # 1 PROVE s[i] \in ToSet(Tail(s))
      <3>1. i - 1 \in 1 .. Len(s) - 1 /\ Tail(s)[i - 1] = s[i]
        BY <1>1, <1>2, <2>1
      <3>2. QED
        BY <1>1, <3>1 DEF ToSet
    <2>2. QED
      BY <1>1, <2>1 DEF ToSet
  <1>4. ToSet(Tail(s)) \subseteq ToSet(s) /\ s[1] \in ToSet(s)
    BY <1>1, <1>2 DEF ToSet
  <1>5. QED
    BY <1>1, <1>3, <1>4

LEMMA OnlyIs ==
  ASSUME NEW S, NEW s \in Seq(S), NEW T
  PROVE  Only(s, T) \in Seq(S) /\ ToSet(Only(s, T)) = ToSet(s) \cap T
  <1> DEFINE q == [i \in DOMAIN s |-> IF s[i] \in T THEN <<s[i]>> ELSE <<>>]
  <1>1. Len(s) \in Nat /\ DOMAIN s = 1 .. Len(s) /\ \A i \in DOMAIN s : s[i] \in S
    OBVIOUS
  <1>2. \A i \in DOMAIN s : q[i] \in Seq(S)
    BY <1>1
  <1>3. q \in Seq(Seq(S)) /\ DOMAIN q = DOMAIN s
    BY <1>1, <1>2
  <1>4. \A i \in DOMAIN s : ToSet(q[i]) = {s[i]} \cap T
    <2>1. TAKE i \in DOMAIN s
    <2>2. CASE s[i] \in T
      <3>1. q[i] = <<s[i]>> /\ DOMAIN <<s[i]>> = {1} /\ <<s[i]>>[1] = s[i]
        BY <2>2
      <3> HIDE DEF q
      <3>2. QED
        BY <2>2, <3>1 DEF ToSet
    <2>3. CASE s[i] \notin T
      <3>1. q[i] = <<>> /\ DOMAIN q[i] = {}
        BY <2>3
      <3> HIDE DEF q
      <3>2. QED
        BY <2>3, <3>1 DEF ToSet
    <2>4. QED
      BY <2>2, <2>3
  <1>5. Only(s, T) = FlattenSeq(q)
    BY DEF Only
  <1> HIDE DEF q
  <1>6. Only(s, T) \in Seq(S) /\ ToSet(Only(s, T)) = UNION {ToSet(q[i]) : i \in DOMAIN q}
    BY <1>3, <1>5, Flattened
  <1>7. UNION {ToSet(q[i]) : i \in DOMAIN q} = ToSet(s) \cap T
    BY <1>3, <1>4 DEF ToSet
  <1>8. QED
    BY <1>6, <1>7

LEMMA WithoutIs ==
  ASSUME NEW s \in Seq(Handlers), NEW h
  PROVE  Without(s, h) \in Seq(Handlers) /\ ToSet(Without(s, h)) = ToSet(s) \ {h}
  <1>1. Without(s, h) \in Seq(Handlers) /\ ToSet(Without(s, h)) = ToSet(s) \cap (Handlers \ {h})
    BY OnlyIs DEF Without
  <1>2. ToSet(s) \subseteq Handlers
    BY DEF ToSet
  <1>3. QED
    BY <1>1, <1>2

LEMMA MatchingIs ==
  ASSUME NEW n \in Names
  PROVE  Matching(n) \in Seq(Patterns)
  <1>1. Only(PrefixOrder, {p \in Patterns : <<p, n>> \in Covers}) \in Seq(Patterns)
    BY Basics, OnlyIs
  <1>2. <<n>> \in Seq(Patterns)
    BY Basics
  <1>3. QED
    BY <1>1, <1>2, ConcatIs DEF Matching

\* emit() copies exactly what is subscribed.
LEMMA CopyIs ==
  ASSUME TypeOK, NEW e \in Emitters, NEW n \in Names
  PROVE  /\ Copy(e, n) \in Seq(Handlers)
         /\ ToSet(Copy(e, n)) = Subscribers(lists, e, n)
  <1> DEFINE q == [i \in DOMAIN Matching(n) |-> lists[e][Matching(n)[i]]]
  <1>1. /\ Len(Matching(n)) \in Nat /\ DOMAIN Matching(n) = 1 .. Len(Matching(n))
        /\ \A i \in DOMAIN Matching(n) : Matching(n)[i] \in Patterns
    BY MatchingIs
  <1>2. \A p \in Patterns : lists[e][p] \in Seq(Handlers)
    BY DEF TypeOK
  <1>3. q \in Seq(Seq(Handlers)) /\ DOMAIN q = DOMAIN Matching(n)
        /\ \A i \in DOMAIN q : q[i] = lists[e][Matching(n)[i]]
    BY <1>1, <1>2
  <1>4. Copy(e, n) = FlattenSeq(q)
    BY DEF Copy
  <1> HIDE DEF q
  <1>5. Copy(e, n) \in Seq(Handlers)
        /\ ToSet(Copy(e, n)) = UNION {ToSet(q[i]) : i \in DOMAIN q}
    BY <1>3, <1>4, Flattened
  <1>6. UNION {ToSet(q[i]) : i \in DOMAIN q}
          = UNION {ToSet(lists[e][p]) : p \in {Matching(n)[i] : i \in DOMAIN Matching(n)}}
    <2>1. ASSUME NEW i \in DOMAIN q
          PROVE  \E p \in {Matching(n)[j] : j \in DOMAIN Matching(n)} : q[i] = lists[e][p]
      BY <1>3
    <2>2. ASSUME NEW p \in {Matching(n)[j] : j \in DOMAIN Matching(n)}
          PROVE  \E i \in DOMAIN q : q[i] = lists[e][p]
      BY <1>3
    <2>3. QED
      BY <2>1, <2>2
  <1>7. QED
    BY <1>5, <1>6 DEF Subscribers, ToSet

LEMMA FrameIs ==
  ASSUME TypeOK, NEW e \in Emitters, NEW n \in Names
  PROVE  /\ Frame(e, n) \in Frames
         /\ Frame(e, n).src = e /\ Frame(e, n).due = ToSet(Frame(e, n).rest)
         /\ ToSet(Frame(e, n).rest) = Subscribers(lists, e, n)
  <1>1. Copy(e, n) \in Seq(Handlers) /\ ToSet(Copy(e, n)) = Subscribers(lists, e, n)
    BY CopyIs
  <1>2. ToSet(Copy(e, n)) \subseteq Handlers
    BY <1>1 DEF ToSet
  <1>3. QED
    BY <1>1, <1>2 DEF Frame, Frames

-----------------------------------------------------------------------------
(***************************************************************************)
(* What happens to the emissions.                                          *)
(***************************************************************************)

\* The emissions a are those of b, with less left to call and nobody lost.
Weaker(a, b) ==
  /\ DOMAIN a = DOMAIN b
  /\ \A i \in DOMAIN b :
       /\ a[i].src = b[i].src
       /\ ToSet(a[i].rest) \subseteq ToSet(b[i].rest)
       /\ b[i].done \cup ToSet(b[i].rest) \subseteq a[i].done \cup ToSet(a[i].rest)
       /\ a[i].due \subseteq b[i].due

LEMMA WeakerKept ==
  ASSUME NEW a, NEW b, NEW al, NEW he, Weaker(a, b), Kept(b, al, he)
  PROVE  Kept(a, al, he)
  <1>1. \A p : Emitting(p, a) <=> Emitting(p, b)
    BY DEF Weaker, Emitting
  <1>2. ASSUME NEW i \in DOMAIN a
        PROVE  /\ a[i].src \in al \cup {App}
               /\ a[i].due \subseteq a[i].done \cup ToSet(a[i].rest)
               /\ \A p \in ToSet(a[i].rest) \cap Pages :
                    /\ a[i].src = App
                    /\ p \in he \/ \E j \in DOMAIN a : j > i /\ a[j].src = p
    BY <1>2 DEF Weaker, Kept
  <1>3. QED
    BY <1>1, <1>2 DEF Kept

LEMMA PushKept ==
  ASSUME NEW st \in Seq(Frames), NEW f \in Frames, NEW al, NEW he, Kept(st, al, he),
         f.src \in al \cup {App}, f.due \subseteq f.done \cup ToSet(f.rest),
         \A p \in ToSet(f.rest) \cap Pages : f.src = App /\ p \in al
  PROVE  Kept(<<f>> \o st, al, he)
  <1> DEFINE r == <<f>> \o st
  <1>1. /\ Len(st) \in Nat /\ DOMAIN st = 1 .. Len(st) /\ DOMAIN r = 1 .. Len(st) + 1
        /\ r[1] = f
        /\ \A i \in 1 .. Len(st) : r[i + 1] = st[i]
    OBVIOUS
  <1>2. /\ 1 \in 1 .. Len(st) + 1
        /\ \A i \in 1 .. Len(st) : i + 1 \in 1 .. Len(st) + 1 /\ i + 1 > 1
        /\ \A i \in 1 .. Len(st) + 1 : i = 1 \/ \E j \in 1 .. Len(st) : i = j + 1
    <2>1. \A i \in 1 .. Len(st) + 1 : i = 1 \/ (i - 1 \in 1 .. Len(st) /\ i = (i - 1) + 1)
      BY <1>1
    <2>2. QED
      BY <1>1, <2>1
  <1> HIDE DEF r
  <1>3. \A p : Emitting(p, st) => \E j \in DOMAIN r : j > 1 /\ r[j].src = p
    BY <1>1, <1>2 DEF Emitting
  <1>4. ASSUME NEW i \in DOMAIN r
        PROVE  /\ r[i].src \in al \cup {App}
               /\ r[i].due \subseteq r[i].done \cup ToSet(r[i].rest)
               /\ \A p \in ToSet(r[i].rest) \cap Pages :
                    /\ r[i].src = App
                    /\ p \in he \/ \E j \in DOMAIN r : j > i /\ r[j].src = p
    <2>1. CASE i = 1
      BY <1>1, <1>3, <2>1 DEF Kept
    <2>2. CASE i # 1
      <3>1. PICK k \in 1 .. Len(st) : i = k + 1
        BY <1>1, <1>2, <2>2
      <3>2. /\ st[k].src \in al \cup {App}
            /\ st[k].due \subseteq st[k].done \cup ToSet(st[k].rest)
            /\ \A p \in ToSet(st[k].rest) \cap Pages :
                 /\ st[k].src = App
                 /\ p \in he \/ \E j \in DOMAIN st : j > k /\ st[j].src = p
        BY <1>1 DEF Kept
      <3>3. \A j \in 1 .. Len(st) : j > k => j + 1 > i
        BY <1>1, <3>1
      <3>4. r[i] = st[k]
        BY <1>1, <3>1
      <3>5. \A p : (\E j \in DOMAIN st : j > k /\ st[j].src = p)
                     => \E j \in DOMAIN r : j > i /\ r[j].src = p
        <4>1. ASSUME NEW j \in DOMAIN st, j > k
              PROVE  j + 1 \in DOMAIN r /\ j + 1 > i /\ r[j + 1] = st[j]
          BY <1>1, <1>2, <3>3, <4>1
        <4>2. QED
          BY <4>1
      <3>6. QED
        BY <3>2, <3>4, <3>5
    <2>3. QED
      BY <2>1, <2>2
  <1>5. \A p \in al : p \in he \/ Emitting(p, r)
    BY <1>3 DEF Kept, Emitting
  <1>6. QED
    BY <1>4, <1>5 DEF Kept, r

LEMMA PopKept ==
  ASSUME NEW st \in Seq(Frames), st # <<>>, NEW al \in SUBSET Pages, NEW he,
         Kept(st, al, he), NEW e, e = Head(st).src
  PROVE  /\ e \notin Pages \ he \/ Emitting(e, Tail(st)) => Kept(Tail(st), al, he)
         /\ e \in Pages \ he /\ ~ Emitting(e, Tail(st)) => Kept(Tail(st), al \ {e}, he)
  <1> DEFINE r == Tail(st)
  <1>1. /\ Len(st) \in Nat /\ Len(st) > 0 /\ DOMAIN st = 1 .. Len(st)
        /\ DOMAIN r = 1 .. Len(st) - 1
        /\ \A i \in 1 .. Len(st) - 1 : r[i] = st[i + 1]
        /\ st[1].src = e
    BY HeadIs
  <1> HIDE DEF r
  <1>2. /\ 1 \in 1 .. Len(st)
        /\ \A i \in 1 .. Len(st) : i = 1 \/ (i - 1 \in 1 .. Len(st) - 1 /\ (i - 1) + 1 = i)
        /\ \A i \in 1 .. Len(st) - 1 : i + 1 \in 1 .. Len(st)
        /\ \A i \in 1 .. Len(st) - 1 : \A j \in 1 .. Len(st) :
             j > i + 1 => j - 1 > i /\ j - 1 \in 1 .. Len(st) - 1 /\ (j - 1) + 1 = j
    BY <1>1
  <1>3. \A p : Emitting(p, st) => p = e \/ Emitting(p, r)
    <2>1. ASSUME NEW p, NEW i \in 1 .. Len(st), st[i].src = p, p # e PROVE Emitting(p, r)
      <3>1. i - 1 \in 1 .. Len(st) - 1 /\ r[i - 1] = st[i]
        BY <1>1, <1>2, <2>1
      <3>2. QED
        BY <1>1, <2>1, <3>1 DEF Emitting
    <2>2. QED
      BY <1>1, <2>1 DEF Emitting
  <1>4. ASSUME NEW i \in DOMAIN r
        PROVE  /\ r[i].src \in al \cup {App}
               /\ r[i].due \subseteq r[i].done \cup ToSet(r[i].rest)
               /\ \A p \in ToSet(r[i].rest) \cap Pages :
                    /\ r[i].src = App
                    /\ p \in he \/ \E j \in DOMAIN r : j > i /\ r[j].src = p
    <2>1. r[i] = st[i + 1] /\ i + 1 \in DOMAIN st
      BY <1>1, <1>2
    <2>2. /\ r[i].src \in al \cup {App}
          /\ r[i].due \subseteq r[i].done \cup ToSet(r[i].rest)
          /\ \A p \in ToSet(r[i].rest) \cap Pages :
               /\ r[i].src = App
               /\ p \in he \/ \E j \in DOMAIN st : j > i + 1 /\ st[j].src = p
      BY <2>1 DEF Kept
    <2>3. \A p : (\E j \in DOMAIN st : j > i + 1 /\ st[j].src = p)
                   => \E j \in DOMAIN r : j > i /\ r[j].src = p
      <3>1. ASSUME NEW j \in DOMAIN st, j > i + 1
            PROVE  j - 1 \in DOMAIN r /\ j - 1 > i /\ r[j - 1] = st[j]
        BY <1>1, <1>2, <3>1
      <3>2. QED
        BY <3>1
    <2>4. QED
      BY <2>2, <2>3
  <1>5. ASSUME e \notin Pages \ he \/ Emitting(e, r)
        PROVE  Kept(r, al, he)
    BY <1>3, <1>4, <1>5 DEF Kept
  <1>6. ASSUME e \in Pages \ he, ~ Emitting(e, r)
        PROVE  Kept(r, al \ {e}, he)
    <2>1. \A i \in DOMAIN r : r[i].src # e
      BY <1>6 DEF Emitting
    <2>2. \A i \in DOMAIN r : r[i].src \in (al \ {e}) \cup {App}
      BY <1>4, <2>1
    <2>3. \A p \in al \ {e} : p \in he \/ Emitting(p, r)
      BY <1>3 DEF Kept
    <2>4. QED
      BY <1>4, <2>2, <2>3 DEF Kept
  <1>7. QED
    BY <1>5, <1>6 DEF r

\* A page is dropped while the app emits nothing: nobody is still to call it.
LEMMA DropKept ==
  ASSUME NEW st, NEW al, NEW he, Kept(st, al, he), NEW p \in Pages, ~ Emitting(App, st)
  PROVE  /\ Emitting(p, st) => Kept(st, al, he \ {p})
         /\ ~ Emitting(p, st) => Kept(st, al \ {p}, he \ {p})
  <1>1. \A i \in DOMAIN st : ToSet(st[i].rest) \cap Pages = {}
    BY DEF Kept, Emitting
  <1>2. \A q \in al \ {p} : q \in he \ {p} \/ Emitting(q, st)
    BY DEF Kept
  <1>3. \A i \in DOMAIN st : /\ st[i].src \in al \cup {App}
                             /\ st[i].due \subseteq st[i].done \cup ToSet(st[i].rest)
    BY DEF Kept
  <1>4. ~ Emitting(p, st) => \A i \in DOMAIN st : st[i].src # p
    BY DEF Emitting
  <1>5. QED
    BY <1>1, <1>2, <1>3, <1>4 DEF Kept

LEMMA CreateKept ==
  ASSUME NEW st, NEW al, NEW he, Kept(st, al, he), NEW p
  PROVE  Kept(st, al \cup {p}, he \cup {p})
  BY DEF Kept

LEMMA Relisted ==
  ASSUME NEW st \in Seq(Frames), NEW ls, Relist(ls, st)
  PROVE  /\ lists' = ls
         /\ stack' \in Seq(Frames)
         /\ Weaker(stack', st)
  <1> DEFINE less(i) == [st[i] EXCEPT !.due = @ \cap Subscribers(ls, st[i].src, st[i].name)]
  <1>1. /\ Len(st) \in Nat /\ DOMAIN st = 1 .. Len(st)
        /\ \A i \in DOMAIN st : st[i] \in Frames
        /\ lists' = ls /\ stack' = [i \in DOMAIN st |-> less(i)]
    BY DEF Relist
  <1>2. ASSUME NEW f \in Frames, NEW s
        PROVE  LET g == [f EXCEPT !.due = @ \cap s]
               IN /\ g \in Frames
                  /\ g.src = f.src /\ g.rest = f.rest /\ g.done = f.done
                  /\ g.due \subseteq f.due
    BY DEF Frames
  <1>3. \A i \in DOMAIN st :
          /\ less(i) \in Frames
          /\ less(i).src = st[i].src /\ less(i).rest = st[i].rest
          /\ less(i).done = st[i].done /\ less(i).due \subseteq st[i].due
    BY <1>1, <1>2
  <1> HIDE DEF less
  <1>4. stack' \in Seq(Frames) /\ DOMAIN stack' = DOMAIN st
        /\ \A i \in DOMAIN st : stack'[i] = less(i)
    BY <1>1, <1>3
  <1>5. QED
    BY <1>1, <1>3, <1>4 DEF Weaker

-----------------------------------------------------------------------------
(***************************************************************************)
(* What happens to the lists.                                              *)
(***************************************************************************)

LEMMA OneList ==
  ASSUME NEW ls \in [Emitters -> [Patterns -> Seq(Handlers)]],
         NEW e \in Emitters, NEW n \in Patterns, NEW s \in Seq(Handlers)
  PROVE  LET r == [ls EXCEPT ![e][n] = s] IN
         /\ r \in [Emitters -> [Patterns -> Seq(Handlers)]]
         /\ r[e][n] = s
         /\ \A d \in Emitters, m \in Patterns : d # e \/ m # n => r[d][m] = ls[d][m]
  OBVIOUS

LEMMA EmptyList == <<>> \in Seq(Handlers) /\ ToSet(<<>>) = {}
  BY DEF ToSet

LEMMA OnAgrees ==
  ASSUME NEW ls, NEW al, NEW ct, Agree(ls, al, ct),
         NEW e \in Emitters, NEW n \in Patterns, NEW f \in Functions
  PROVE  Agree([ls EXCEPT ![e][n] = Append(@, f)], al, ct)
  <1> DEFINE s == Append(ls[e][n], f)
             r == [ls EXCEPT ![e][n] = s]
  <1>1. ls \in [Emitters -> [Patterns -> Seq(Handlers)]] /\ ls[e][n] \in Seq(Handlers)
    BY DEF Agree
  <1>2. s \in Seq(Handlers) /\ ToSet(s) = ToSet(ls[e][n]) \cup {f}
    BY <1>1, Basics, AppendIs
  <1> HIDE DEF s
  <1>3. /\ r \in [Emitters -> [Patterns -> Seq(Handlers)]]
        /\ r[e][n] = s
        /\ \A d \in Emitters, m \in Patterns : d # e \/ m # n => r[d][m] = ls[d][m]
    BY <1>1, <1>2, OneList
  <1> HIDE DEF r
  <1>4. f \notin Pages
    BY Basics
  <1>5. \A d \in Emitters, m \in Patterns :
          ToSet(r[d][m]) \cap Pages \subseteq IF d = App /\ m = Everything THEN al ELSE {}
    <2>1. TAKE d \in Emitters, m \in Patterns
    <2>2. ToSet(r[d][m]) \cap Pages \subseteq ToSet(ls[d][m]) \cap Pages
      <3>1. CASE d = e /\ m = n
        BY <1>2, <1>3, <1>4, <3>1
      <3>2. CASE d # e \/ m # n
        BY <1>3, <3>2
      <3>3. QED
        BY <3>1, <3>2
    <2>3. QED
      BY <2>2 DEF Agree
  <1>6. al \ ct \subseteq ToSet(r[App][Everything])
    BY <1>2, <1>3, Basics DEF Agree
  <1>7. QED
    BY <1>3, <1>5, <1>6 DEF Agree, r, s

LEMMA OffAgrees ==
  ASSUME NEW ls, NEW al \in SUBSET Pages, NEW ct, Agree(ls, al, ct),
         NEW e \in Emitters, NEW n \in Patterns, NEW f \in Functions
  PROVE  Agree([ls EXCEPT ![e][n] = Without(@, f)], al, ct)
  <1> DEFINE s == Without(ls[e][n], f)
             r == [ls EXCEPT ![e][n] = s]
  <1>1. ls \in [Emitters -> [Patterns -> Seq(Handlers)]] /\ ls[e][n] \in Seq(Handlers)
    BY DEF Agree
  <1>2. s \in Seq(Handlers) /\ ToSet(s) = ToSet(ls[e][n]) \ {f}
    BY <1>1, WithoutIs
  <1> HIDE DEF s
  <1>3. /\ r \in [Emitters -> [Patterns -> Seq(Handlers)]]
        /\ r[e][n] = s
        /\ \A d \in Emitters, m \in Patterns : d # e \/ m # n => r[d][m] = ls[d][m]
    BY <1>1, <1>2, OneList
  <1> HIDE DEF r
  <1>4. f \notin Pages
    BY Basics
  <1>5. \A d \in Emitters, m \in Patterns :
          ToSet(r[d][m]) \cap Pages \subseteq IF d = App /\ m = Everything THEN al ELSE {}
    <2>1. TAKE d \in Emitters, m \in Patterns
    <2>2. ToSet(r[d][m]) \cap Pages \subseteq ToSet(ls[d][m]) \cap Pages
      <3>1. CASE d = e /\ m = n
        BY <1>2, <1>3, <1>4, <3>1
      <3>2. CASE d # e \/ m # n
        BY <1>3, <3>2
      <3>3. QED
        BY <3>1, <3>2
    <2>3. QED
      BY <2>2 DEF Agree
  <1>6. al \ ct \subseteq ToSet(r[App][Everything])
    BY <1>2, <1>3, <1>4, Basics DEF Agree
  <1>7. QED
    BY <1>3, <1>5, <1>6 DEF Agree, r, s

LEMMA OffNameAgrees ==
  ASSUME NEW ls, NEW al, NEW ct, Agree(ls, al, ct), NEW e \in Emitters, NEW n \in Patterns
  PROVE  Agree([ls EXCEPT ![e][n] = <<>>], al,
               IF e = App /\ n = Everything THEN ct \cup al ELSE ct)
  <1> DEFINE r == [ls EXCEPT ![e][n] = <<>>]
  <1>1. /\ r \in [Emitters -> [Patterns -> Seq(Handlers)]]
        /\ r[e][n] = <<>>
        /\ \A d \in Emitters, m \in Patterns : d # e \/ m # n => r[d][m] = ls[d][m]
    BY OneList, EmptyList DEF Agree
  <1> HIDE DEF r
  <1>2. \A d \in Emitters, m \in Patterns :
          ToSet(r[d][m]) \cap Pages \subseteq IF d = App /\ m = Everything THEN al ELSE {}
    BY <1>1, EmptyList DEF Agree
  <1>3. CASE e = App /\ n = Everything
    BY <1>1, <1>2, <1>3 DEF Agree, r
  <1>4. CASE ~ (e = App /\ n = Everything)
    <2>1. r[App][Everything] = ls[App][Everything]
      BY <1>1, <1>4, Basics
    <2>2. QED
      BY <1>1, <1>2, <1>4, <2>1 DEF Agree, r
  <1>5. QED
    BY <1>3, <1>4

LEMMA OffAllAgrees ==
  ASSUME NEW ls, NEW al, NEW ct, Agree(ls, al, ct), NEW e \in Emitters
  PROVE  Agree([ls EXCEPT ![e] = [p \in Patterns |-> <<>>]], al,
               IF e = App THEN ct \cup al ELSE ct)
  <1> DEFINE none == [p \in Patterns |-> <<>>]
             r == [ls EXCEPT ![e] = none]
  <1>1. /\ none \in [Patterns -> Seq(Handlers)]
        /\ ls \in [Emitters -> [Patterns -> Seq(Handlers)]]
    BY EmptyList DEF Agree
  <1>2. /\ r \in [Emitters -> [Patterns -> Seq(Handlers)]]
        /\ \A m \in Patterns : r[e][m] = <<>>
        /\ \A d \in Emitters : d # e => r[d] = ls[d]
    BY <1>1
  <1> HIDE DEF r
  <1>3. \A d \in Emitters, m \in Patterns :
          ToSet(r[d][m]) \cap Pages \subseteq IF d = App /\ m = Everything THEN al ELSE {}
    BY <1>2, EmptyList DEF Agree
  <1>4. CASE e = App
    BY <1>2, <1>3, <1>4 DEF Agree, r
  <1>5. CASE e # App
    <2>1. r[App] = ls[App]
      BY <1>2, <1>5, Basics
    <2>2. QED
      BY <1>2, <1>3, <1>5, <2>1 DEF Agree, r
  <1>6. QED
    BY <1>4, <1>5

LEMMA CreateAgrees ==
  ASSUME NEW ls, NEW al, NEW ct, Agree(ls, al, ct), NEW p \in Pages
  PROVE  Agree([ls EXCEPT ![App][Everything] = Append(@, p)], al \cup {p}, ct)
  <1> DEFINE s == Append(ls[App][Everything], p)
             r == [ls EXCEPT ![App][Everything] = s]
  <1>1. /\ ls \in [Emitters -> [Patterns -> Seq(Handlers)]]
        /\ ls[App][Everything] \in Seq(Handlers)
    BY Basics DEF Agree
  <1>2. s \in Seq(Handlers) /\ ToSet(s) = ToSet(ls[App][Everything]) \cup {p}
    BY <1>1, Basics, AppendIs
  <1> HIDE DEF s
  <1>3. /\ r \in [Emitters -> [Patterns -> Seq(Handlers)]]
        /\ r[App][Everything] = s
        /\ \A d \in Emitters, m \in Patterns :
             d # App \/ m # Everything => r[d][m] = ls[d][m]
    BY <1>1, <1>2, Basics, OneList
  <1> HIDE DEF r
  <1>4. \A d \in Emitters, m \in Patterns :
          ToSet(r[d][m]) \cap Pages
            \subseteq IF d = App /\ m = Everything THEN al \cup {p} ELSE {}
    BY <1>2, <1>3, Basics DEF Agree
  <1>5. (al \cup {p}) \ ct \subseteq ToSet(r[App][Everything])
    BY <1>2, <1>3 DEF Agree
  <1>6. QED
    BY <1>3, <1>4, <1>5 DEF Agree, r, s

LEMMA DestroyAgrees ==
  ASSUME NEW ls, NEW al, NEW ct, Agree(ls, al, ct), NEW p \in Pages
  PROVE  Agree([ls EXCEPT ![App][Everything] = Without(@, p),
                          ![p] = [q \in Patterns |-> <<>>]], al \ {p}, ct)
  <1> DEFINE s == Without(ls[App][Everything], p)
             r == [ls EXCEPT ![App][Everything] = s]
             none == [q \in Patterns |-> <<>>]
             t == [r EXCEPT ![p] = none]
  <1>1. /\ ls \in [Emitters -> [Patterns -> Seq(Handlers)]]
        /\ ls[App][Everything] \in Seq(Handlers)
    BY Basics DEF Agree
  <1>2. s \in Seq(Handlers) /\ ToSet(s) = ToSet(ls[App][Everything]) \ {p}
    BY <1>1, WithoutIs
  <1> HIDE DEF s
  <1>3. /\ r \in [Emitters -> [Patterns -> Seq(Handlers)]]
        /\ r[App][Everything] = s
        /\ \A d \in Emitters, m \in Patterns :
             d # App \/ m # Everything => r[d][m] = ls[d][m]
    BY <1>1, <1>2, Basics, OneList
  <1>4. [ls EXCEPT ![App][Everything] = Without(@, p),
                   ![p] = [q \in Patterns |-> <<>>]] = t
    BY DEF s
  <1> HIDE DEF r
  <1>5. /\ none \in [Patterns -> Seq(Handlers)] /\ \A m \in Patterns : none[m] = <<>>
        /\ p \in Emitters /\ p # App
    BY EmptyList, Basics
  <1> HIDE DEF none
  <1>6. /\ t \in [Emitters -> [Patterns -> Seq(Handlers)]]
        /\ t[p] = none /\ \A d \in Emitters : d # p => t[d] = r[d]
    BY <1>3, <1>5
  <1> HIDE DEF t
  <1>7. \A d \in Emitters, m \in Patterns :
          ToSet(t[d][m]) \cap Pages
            \subseteq IF d = App /\ m = Everything THEN al \ {p} ELSE {}
    <2>1. TAKE d \in Emitters, m \in Patterns
    <2>2. CASE d = p
      BY <1>5, <1>6, <2>2, EmptyList
    <2>3. CASE d = App /\ m = Everything
      BY <1>2, <1>3, <1>5, <1>6, <2>3, Basics DEF Agree
    <2>4. CASE d # p /\ (d # App \/ m # Everything)
      BY <1>3, <1>6, <2>4 DEF Agree
    <2>5. QED
      BY <1>5, <2>2, <2>3, <2>4
  <1>8. (al \ {p}) \ ct \subseteq ToSet(t[App][Everything])
    BY <1>2, <1>3, <1>5, <1>6, Basics DEF Agree
  <1>9. Agree(t, al \ {p}, ct)
    BY <1>6, <1>7, <1>8 DEF Agree
  <1>10. QED
    BY <1>4, <1>9

-----------------------------------------------------------------------------
(***************************************************************************)
(* The actions.                                                            *)
(***************************************************************************)

LEMMA InitListed == Init => Listed /\ Kept(stack, alive, held) /\ OneEnd
  <1> SUFFICES ASSUME Init PROVE Listed /\ Kept(stack, alive, held) /\ OneEnd
    OBVIOUS
  <1>1. /\ lists = [e \in Emitters |-> [p \in Patterns |-> <<>>]]
        /\ stack = <<>> /\ alive = {} /\ held = {} /\ cut = {}
        /\ destroyed = [p \in Pages |-> 0]
    BY DEF Init
  <1>2. lists \in [Emitters -> [Patterns -> Seq(Handlers)]]
    BY <1>1, EmptyList
  <1>3. TypeOK
    BY <1>1, <1>2 DEF TypeOK
  <1>4. Agree(lists, alive, cut)
    BY <1>1, <1>2, EmptyList DEF Agree
  <1>5. Kept(stack, alive, held)
    <2>1. DOMAIN stack = {}
      BY <1>1
    <2>2. QED
      BY <1>1, <2>1 DEF Kept
  <1>6. QED
    BY <1>1, <1>3, <1>4, <1>5 DEF Listed, OneEnd

\* The subscriptions that a script changes.
LEMMA SubscribeKeeps ==
  ASSUME Listed,
         \/ \E e \in Emitters, p \in Patterns, f \in Functions : On(e, p, f) \/ Off(e, p, f)
         \/ \E e \in Emitters, p \in Patterns : OffName(e, p)
         \/ \E e \in Emitters : OffAll(e)
  PROVE  /\ Listed' /\ Weaker(stack', stack)
         /\ UNCHANGED <<alive, held, destroyed>>
  <1>1. TypeOK /\ Agree(lists, alive, cut)
    BY DEF Listed
  <1>2. PICK ls : /\ Relist(ls, stack) /\ UNCHANGED <<alive, held, destroyed>>
                  /\ Agree(ls, alive, cut') /\ cut' \subseteq Pages
    <2>0. alive \in SUBSET Pages /\ cut \subseteq Pages
      BY <1>1 DEF TypeOK
    <2>1. CASE \E e \in Emitters, p \in Patterns, f \in Functions : On(e, p, f)
      BY <1>1, <2>0, <2>1, OnAgrees DEF On
    <2>2. CASE \E e \in Emitters, p \in Patterns, f \in Functions : Off(e, p, f)
      BY <1>1, <2>0, <2>2, OffAgrees DEF Off
    <2>3. CASE \E e \in Emitters, p \in Patterns : OffName(e, p)
      <3>1. PICK e \in Emitters, p \in Patterns : OffName(e, p)
        BY <2>3
      <3>2. cut' = IF e = App /\ p = Everything THEN cut \cup alive ELSE cut
        BY <3>1 DEF OffName
      <3>3. Agree([lists EXCEPT ![e][p] = <<>>], alive, cut')
        BY <1>1, <3>1, <3>2, OffNameAgrees
      <3>4. QED
        BY <2>0, <3>1, <3>2, <3>3 DEF OffName
    <2>4. CASE \E e \in Emitters : OffAll(e)
      <3>1. PICK e \in Emitters : OffAll(e)
        BY <2>4
      <3>2. cut' = IF e = App THEN cut \cup alive ELSE cut
        BY <3>1 DEF OffAll
      <3>3. Agree([lists EXCEPT ![e] = [p \in Patterns |-> <<>>]], alive, cut')
        BY <1>1, <3>1, <3>2, OffAllAgrees
      <3>4. QED
        BY <2>0, <3>1, <3>2, <3>3 DEF OffAll
    <2>5. QED
      BY <2>1, <2>2, <2>3, <2>4
  <1>3. lists' = ls /\ stack' \in Seq(Frames) /\ Weaker(stack', stack)
    BY <1>1, <1>2, Relisted DEF TypeOK
  <1>4. TypeOK'
    BY <1>1, <1>2, <1>3 DEF TypeOK, Agree
  <1>5. Agree(lists, alive, cut)'
    BY <1>2, <1>3 DEF Agree
  <1>6. QED
    BY <1>2, <1>3, <1>4, <1>5 DEF Listed

LEMMA CreateKeeps ==
  ASSUME Listed, NEW p \in Pages, Create(p)
  PROVE  /\ Listed' /\ Weaker(stack', stack)
         /\ alive' = alive \cup {p} /\ held' = held \cup {p} /\ destroyed[p] = 0
         /\ UNCHANGED destroyed
  <1>1. TypeOK /\ Agree(lists, alive, cut)
    BY DEF Listed
  <1> DEFINE ls == [lists EXCEPT ![App][Everything] = Append(@, p)]
  <1>2. /\ Relist(ls, stack) /\ alive' = alive \cup {p} /\ held' = held \cup {p}
        /\ destroyed[p] = 0 /\ UNCHANGED <<destroyed, cut>>
    BY DEF Create
  <1>3. Agree(ls, alive \cup {p}, cut)
    BY <1>1, CreateAgrees
  <1> HIDE DEF ls
  <1>4. lists' = ls /\ stack' \in Seq(Frames) /\ Weaker(stack', stack)
    BY <1>1, <1>2, Relisted DEF TypeOK
  <1>5. TypeOK'
    BY <1>1, <1>2, <1>3, <1>4 DEF TypeOK, Agree
  <1>6. Agree(lists, alive, cut)'
    BY <1>2, <1>3, <1>4 DEF Agree
  <1>7. QED
    BY <1>2, <1>4, <1>5, <1>6 DEF Listed

LEMMA DestroyKeeps ==
  ASSUME Listed, NEW p \in Pages, NEW st \in Seq(Frames), Destroy(p, st),
         held' \subseteq alive \ {p}, UNCHANGED cut
  PROVE  /\ Listed' /\ Weaker(stack', st)
         /\ alive' = alive \ {p}
         /\ destroyed' = [destroyed EXCEPT ![p] = @ + 1]
  <1>1. TypeOK /\ Agree(lists, alive, cut)
    BY DEF Listed
  <1> DEFINE ls == [lists EXCEPT ![App][Everything] = Without(@, p),
                                 ![p] = [q \in Patterns |-> <<>>]]
  <1>2. /\ Relist(ls, st) /\ alive' = alive \ {p}
        /\ destroyed' = [destroyed EXCEPT ![p] = @ + 1]
    BY DEF Destroy
  <1>3. Agree(ls, alive \ {p}, cut)
    BY <1>1, DestroyAgrees
  <1> HIDE DEF ls
  <1>4. lists' = ls /\ stack' \in Seq(Frames) /\ Weaker(stack', st)
    BY <1>2, Relisted
  <1>5. TypeOK'
    BY <1>1, <1>2, <1>3, <1>4 DEF TypeOK, Agree
  <1>6. Agree(lists, alive, cut)'
    BY <1>2, <1>3, <1>4 DEF Agree
  <1>7. QED
    BY <1>2, <1>4, <1>5, <1>6 DEF Listed

\* Steps that only change the emissions.
LEMMA StackKeeps ==
  ASSUME Listed, UNCHANGED <<lists, alive, held, destroyed, cut>>, stack' \in Seq(Frames)
  PROVE  Listed'
  <1>1. TypeOK'
    BY DEF Listed, TypeOK
  <1>2. Agree(lists, alive, cut)'
    BY DEF Listed, Agree
  <1>3. QED
    BY <1>1, <1>2 DEF Listed

\* A frame is pushed on emissions that are those of now, or less.
LEMMA EmitKeeps ==
  ASSUME Listed, NEW e \in Emitters, NEW n \in Names, NEW st \in Seq(Frames),
         Usable(e), stack' = <<Frame(e, n)>> \o st,
         UNCHANGED <<lists, alive, held, destroyed, cut>>
  PROVE  Listed' /\ (Kept(st, alive, held) => Kept(stack', alive, held))
  <1>1. TypeOK /\ Agree(lists, alive, cut)
    BY DEF Listed
  <1> DEFINE f == Frame(e, n)
  <1>2. /\ f \in Frames /\ f.src = e /\ f.due = ToSet(f.rest)
        /\ ToSet(f.rest) = Subscribers(lists, e, n)
    BY <1>1, FrameIs
  <1> HIDE DEF f
  <1>3. stack' = <<f>> \o st /\ stack' \in Seq(Frames)
    BY <1>2 DEF f
  <1>4. \A p \in ToSet(f.rest) \cap Pages : f.src = App /\ p \in alive
    <2>1. TAKE p \in ToSet(f.rest) \cap Pages
    <2>2. PICK m \in ToSet(Matching(n)) : p \in ToSet(lists[e][m])
      BY <1>2 DEF Subscribers
    <2>3. m \in Patterns
      BY MatchingIs DEF ToSet
    <2>4. QED
      BY <1>1, <1>2, <2>2, <2>3 DEF Agree
  <1>5. f.src \in alive \cup {App}
    BY <1>2 DEF Usable
  <1>6. Kept(st, alive, held) => Kept(stack', alive, held)
    BY <1>2, <1>3, <1>4, <1>5, PushKept
  <1>7. QED
    BY <1>3, <1>6, StackKeeps

LEMMA WeakerSelf == ASSUME NEW st PROVE Weaker(st, st)
  BY DEF Weaker

\* The innermost emission goes on.
LEMMA Rehead ==
  ASSUME NEW st \in Seq(Frames), st # <<>>, NEW g \in Frames,
         g.src = Head(st).src, ToSet(g.rest) \subseteq ToSet(Head(st).rest),
         Head(st).done \cup ToSet(Head(st).rest) \subseteq g.done \cup ToSet(g.rest),
         g.due \subseteq Head(st).due
  PROVE  <<g>> \o Tail(st) \in Seq(Frames) /\ Weaker(<<g>> \o Tail(st), st)
  <1> DEFINE r == <<g>> \o Tail(st)
  <1>1. /\ Tail(st) \in Seq(Frames) /\ Len(st) \in Nat /\ Len(st) > 0
        /\ DOMAIN st = 1 .. Len(st) /\ DOMAIN Tail(st) = 1 .. Len(st) - 1
        /\ \A i \in 1 .. Len(st) - 1 : Tail(st)[i] = st[i + 1]
        /\ Head(st) = st[1]
    BY HeadIs
  <1>2. /\ r \in Seq(Frames) /\ DOMAIN r = 1 .. Len(st) /\ r[1] = g
        /\ \A i \in 1 .. Len(st) : i # 1 => r[i] = Tail(st)[i - 1]
    <2>1. /\ r \in Seq(Frames) /\ Len(r) = Len(Tail(st)) + 1 /\ DOMAIN r = 1 .. Len(r)
          /\ r[1] = g /\ Len(Tail(st)) = Len(st) - 1
          /\ \A i \in 1 .. Len(r) : i # 1 => r[i] = Tail(st)[i - 1]
      BY <1>1
    <2>2. Len(r) = Len(st)
      BY <1>1, <2>1
    <2>3. QED
      BY <2>1, <2>2
  <1> HIDE DEF r
  <1>3. \A i \in 1 .. Len(st) : i # 1 => i - 1 \in 1 .. Len(st) - 1 /\ (i - 1) + 1 = i
    BY <1>1
  <1>4. \A i \in 1 .. Len(st) : i # 1 => r[i] = st[i]
    BY <1>1, <1>2, <1>3
  <1>5. ASSUME NEW i \in DOMAIN st
        PROVE  /\ r[i].src = st[i].src
               /\ ToSet(r[i].rest) \subseteq ToSet(st[i].rest)
               /\ st[i].done \cup ToSet(st[i].rest) \subseteq r[i].done \cup ToSet(r[i].rest)
               /\ r[i].due \subseteq st[i].due
    <2>1. CASE i = 1
      BY <1>1, <1>2, <2>1
    <2>2. CASE i # 1
      BY <1>1, <1>4, <2>2
    <2>3. QED
      BY <2>1, <2>2
  <1>6. QED
    BY <1>1, <1>2, <1>5 DEF Weaker, r

LEMMA CalledIs ==
  ASSUME NEW f \in Frames, f.rest # <<>>
  PROVE  /\ Called(f) \in Frames /\ Called(f).src = f.src
         /\ ToSet(Called(f).rest) \subseteq ToSet(f.rest)
         /\ f.done \cup ToSet(f.rest) \subseteq Called(f).done \cup ToSet(Called(f).rest)
         /\ Called(f).due \subseteq f.due
  <1>1. f.rest \in Seq(Handlers)
    BY DEF Frames
  <1>2. /\ Head(f.rest) \in Handlers /\ Tail(f.rest) \in Seq(Handlers)
        /\ ToSet(f.rest) = {Head(f.rest)} \cup ToSet(Tail(f.rest))
    BY <1>1, HeadIs
  <1>3. /\ Called(f).src = f.src /\ Called(f).name = f.name /\ Called(f).due = f.due
        /\ Called(f).rest = Tail(f.rest) /\ Called(f).cur = Head(f.rest)
        /\ Called(f).done = f.done \cup {Head(f.rest)}
    BY DEF Called, Frames
  <1>4. Called(f) \in Frames
    BY <1>2 DEF Called, Frames
  <1>5. QED
    BY <1>2, <1>3, <1>4

LEMMA IdledIs ==
  ASSUME NEW f \in Frames
  PROVE  LET g == [f EXCEPT !.cur = NoHandler] IN
         /\ g \in Frames /\ g.src = f.src /\ g.rest = f.rest
         /\ g.done = f.done /\ g.due = f.due
  BY DEF Frames

LEMMA CallFunctionKeeps ==
  ASSUME Listed, CallFunction \/ Return
  PROVE  Listed' /\ Weaker(stack', stack) /\ UNCHANGED <<alive, held, destroyed>>
  <1>1. /\ stack \in Seq(Frames) /\ stack # <<>>
        /\ UNCHANGED <<lists, alive, held, destroyed, cut>>
    BY DEF Listed, TypeOK, CallFunction, Return, Idle
  <1>2. Head(stack) \in Frames
    BY <1>1, HeadIs
  <1>3. stack' \in Seq(Frames) /\ Weaker(stack', stack)
    <2>1. CASE CallFunction
      <3>1. Head(stack).rest # <<>> /\ stack' = <<Called(Head(stack))>> \o Tail(stack)
        BY <2>1 DEF CallFunction
      <3>2. QED
        BY <1>1, <1>2, <3>1, CalledIs, Rehead
    <2>2. CASE Return
      <3>1. stack' = <<[Head(stack) EXCEPT !.cur = NoHandler]>> \o Tail(stack)
        BY <2>2 DEF Return
      <3>2. QED
        BY <1>1, <1>2, <3>1, IdledIs, Rehead
    <2>3. QED
      BY <2>1, <2>2
  <1>4. QED
    BY <1>1, <1>3, StackKeeps

\* What the page p is called from is kept: p is alive.
LEMMA CallPageKeeps ==
  ASSUME Listed, CallPage
  PROVE  /\ Listed' /\ UNCHANGED <<alive, held, destroyed>>
         /\ Kept(stack, alive, held) => Kept(stack', alive, held)
  <1> DEFINE p == Head(Head(stack).rest)
             c == Called(Head(stack))
             st == <<c>> \o Tail(stack)
  <1>1. /\ stack \in Seq(Frames) /\ stack # <<>> /\ Head(stack).rest # <<>>
        /\ p \in Pages
        /\ stack' = <<Frame(p, Head(stack).name), c>> \o Tail(stack)
        /\ UNCHANGED <<lists, alive, held, destroyed, cut>>
    BY DEF Listed, TypeOK, CallPage, Idle
  <1>2. Head(stack) \in Frames /\ Head(stack) = stack[1] /\ 1 \in DOMAIN stack
        /\ Tail(stack) \in Seq(Frames)
    <2>1. /\ Head(stack) \in Frames /\ Head(stack) = stack[1] /\ Tail(stack) \in Seq(Frames)
          /\ DOMAIN stack = 1 .. Len(stack) /\ Len(stack) \in Nat /\ Len(stack) > 0
      BY <1>1, HeadIs
    <2>2. QED
      BY <2>1
  <1>3. c \in Frames /\ st \in Seq(Frames) /\ Weaker(st, stack)
    BY <1>1, <1>2, CalledIs, Rehead
  <1>4. Head(stack).name \in Names /\ p \in ToSet(Head(stack).rest) /\ p \in Emitters
    <2>1. Head(stack).name \in Names /\ Head(stack).rest \in Seq(Handlers)
      BY <1>2 DEF Frames
    <2>2. QED
      BY <1>1, <2>1, HeadIs, Basics
  <1> DEFINE f == Frame(p, Head(stack).name)
  <1>5. f \in Frames /\ f.src = p /\ f.due = ToSet(f.rest)
        /\ ToSet(f.rest) = Subscribers(lists, p, Head(stack).name)
    BY <1>4, FrameIs DEF Listed
  <1>6. stack' = <<f>> \o st
    <2> HIDE DEF f, c
    <2>1. <<f, c>> \o Tail(stack) = <<f>> \o (<<c>> \o Tail(stack))
      BY <1>2, <1>3, <1>5
    <2>2. QED
      BY <1>1, <2>1 DEF f
  <1> HIDE DEF f, c, st
  <1>7. stack' \in Seq(Frames)
    BY <1>3, <1>5, <1>6
  <1>8. ASSUME Kept(stack, alive, held) PROVE Kept(stack', alive, held)
    <2>1. Kept(st, alive, held)
      BY <1>3, <1>8, WeakerKept
    <2>2. p \in held \/ \E j \in DOMAIN stack : stack[j].src = p
      BY <1>1, <1>2, <1>4, <1>8 DEF Kept
    <2>3. p \in alive
      BY <1>1, <1>8, <2>2, Basics DEF Kept, Listed, TypeOK
    <2>4. ToSet(f.rest) \cap Pages = {}
      <3>1. ASSUME NEW q \in ToSet(f.rest) \cap Pages PROVE FALSE
        <4>1. PICK m \in ToSet(Matching(Head(stack).name)) : q \in ToSet(lists[p][m])
          BY <1>5, <3>1 DEF Subscribers
        <4>2. m \in Patterns
          BY <1>4, <4>1, MatchingIs DEF ToSet
        <4>3. QED
          BY <1>1, <1>4, <3>1, <4>1, <4>2, Basics DEF Listed, Agree
      <3>2. QED
        BY <3>1
    <2>5. f.src \in alive \cup {App} /\ f.due \subseteq f.done \cup ToSet(f.rest)
      BY <1>5, <2>3
    <2>6. \A q \in ToSet(f.rest) \cap Pages : f.src = App /\ q \in alive
      BY <2>4
    <2>7. QED
      BY <1>3, <1>5, <1>6, <2>1, <2>5, <2>6, PushKept
  <1>9. QED
    BY <1>1, <1>7, <1>8, StackKeeps

LEMMA DropKeeps ==
  ASSUME Listed, NEW p \in Pages, Drop(p)
  PROVE  /\ Listed'
         /\ ~ DropsInside /\ Kept(stack, alive, held) /\ OneEnd
              => Kept(stack', alive', held') /\ OneEnd'
  <1>1. /\ p \in held /\ held' = held \ {p} /\ UNCHANGED cut
        /\ ~ DropsInside => ~ Emitting(App, stack)
    BY DEF Drop, MayDrop
  <1>2. TypeOK /\ stack \in Seq(Frames) /\ held \subseteq alive
    BY DEF Listed, TypeOK
  <1>3. CASE Emitting(p, stack)
    <2>1. UNCHANGED <<lists, stack, alive, destroyed, cut>>
      BY <1>3 DEF Drop
    <2>2. Listed'
      <3>1. TypeOK'
        BY <1>1, <1>2, <2>1 DEF TypeOK
      <3>2. Agree(lists, alive, cut)'
        BY <2>1 DEF Listed, Agree
      <3>3. QED
        BY <3>1, <3>2 DEF Listed
    <2>3. ASSUME ~ DropsInside, Kept(stack, alive, held), OneEnd
          PROVE  Kept(stack', alive', held') /\ OneEnd'
      <3>1. Kept(stack, alive, held \ {p})
        BY <1>1, <1>3, <2>3, DropKept
      <3>2. QED
        BY <1>1, <2>1, <2>3, <3>1 DEF OneEnd
    <2>4. QED
      BY <2>2, <2>3
  <1>4. CASE ~ Emitting(p, stack)
    <2>1. Destroy(p, stack)
      BY <1>4 DEF Drop
    <2>2. /\ Listed' /\ Weaker(stack', stack) /\ alive' = alive \ {p}
          /\ destroyed' = [destroyed EXCEPT ![p] = @ + 1]
      BY <1>1, <1>2, <2>1, DestroyKeeps
    <2>3. ASSUME ~ DropsInside, Kept(stack, alive, held), OneEnd
          PROVE  Kept(stack', alive', held') /\ OneEnd'
      <3>1. Kept(stack, alive', held')
        BY <1>1, <1>4, <2>2, <2>3, DropKept
      <3>2. Kept(stack', alive', held')
        BY <2>2, <3>1, WeakerKept
      <3>3. OneEnd'
        BY <1>1, <1>2, <2>2, <2>3 DEF OneEnd, TypeOK
      <3>4. QED
        BY <3>2, <3>3
    <2>4. QED
      BY <2>2, <2>3
  <1>5. QED
    BY <1>3, <1>4

LEMMA ResumedIs ==
  ASSUME stack \in Seq(Frames), stack # <<>>
  PROVE  Resumed \in Seq(Frames) /\ Weaker(Resumed, Tail(stack))
  <1>1. Tail(stack) \in Seq(Frames)
    BY HeadIs
  <1>2. CASE Tail(stack) # <<>> /\ Head(Tail(stack)).cur \in Pages
    <2>1. Resumed = <<[Head(Tail(stack)) EXCEPT !.cur = NoHandler]>> \o Tail(Tail(stack))
      BY <1>2 DEF Resumed
    <2>2. Head(Tail(stack)) \in Frames
      BY <1>1, <1>2, HeadIs
    <2>3. QED
      BY <1>1, <1>2, <2>1, <2>2, IdledIs, Rehead
  <1>3. CASE ~ (Tail(stack) # <<>> /\ Head(Tail(stack)).cur \in Pages)
    <2>1. Resumed = Tail(stack)
      BY <1>3 DEF Resumed
    <2>2. QED
      BY <1>1, <2>1, WeakerSelf
  <1>4. QED
    BY <1>2, <1>3

LEMMA EndKeeps ==
  ASSUME Listed, End
  PROVE  /\ Listed'
         /\ Kept(stack, alive, held) /\ OneEnd => Kept(stack', alive', held') /\ OneEnd'
  <1>1. PICK e : e = Head(stack).src
    OBVIOUS
  <1>2. /\ stack # <<>> /\ UNCHANGED <<held, cut>>
        /\ IF e \in Pages \ held /\ ~ Emitting(e, Tail(stack))
           THEN Destroy(e, Resumed)
           ELSE stack' = Resumed /\ UNCHANGED <<lists, alive, destroyed>>
    BY <1>1 DEF End, Idle
  <1>3. /\ TypeOK /\ stack \in Seq(Frames) /\ held \subseteq alive /\ alive \in SUBSET Pages
    BY DEF Listed, TypeOK
  <1>4. Resumed \in Seq(Frames) /\ Weaker(Resumed, Tail(stack))
    BY <1>2, <1>3, ResumedIs
  <1>5. CASE e \in Pages \ held /\ ~ Emitting(e, Tail(stack))
    <2>1. /\ Listed' /\ Weaker(stack', Resumed) /\ alive' = alive \ {e}
          /\ destroyed' = [destroyed EXCEPT ![e] = @ + 1]
      <3>1. held' \subseteq alive \ {e}
        BY <1>2, <1>3, <1>5
      <3>2. QED
        BY <1>2, <1>4, <1>5, <3>1, DestroyKeeps
    <2>2. ASSUME Kept(stack, alive, held), OneEnd
          PROVE  Kept(stack', alive', held') /\ OneEnd'
      <3>1. Kept(Tail(stack), alive \ {e}, held)
        BY <1>1, <1>2, <1>3, <1>5, <2>2, PopKept
      <3>2. Kept(stack', alive', held')
        BY <1>2, <1>4, <2>1, <3>1, WeakerKept
      <3>3. e \in alive
        <4>1. 1 \in DOMAIN stack /\ stack[1].src = e
          <5>1. /\ Head(stack) = stack[1] /\ DOMAIN stack = 1 .. Len(stack)
                /\ Len(stack) \in Nat /\ Len(stack) > 0
            BY <1>2, <1>3, HeadIs
          <5>2. QED
            BY <1>1, <5>1
        <4>2. QED
          BY <1>5, <2>2, <4>1, Basics DEF Kept
      <3>4. OneEnd'
        BY <1>3, <1>5, <2>1, <2>2, <3>3 DEF OneEnd, TypeOK
      <3>5. QED
        BY <3>2, <3>4
    <2>3. QED
      BY <2>1, <2>2
  <1>6. CASE ~ (e \in Pages \ held /\ ~ Emitting(e, Tail(stack)))
    <2>1. stack' = Resumed /\ UNCHANGED <<lists, alive, destroyed>>
      BY <1>2, <1>6
    <2>2. Listed'
      BY <1>2, <1>4, <2>1, StackKeeps
    <2>3. ASSUME Kept(stack, alive, held), OneEnd
          PROVE  Kept(stack', alive', held') /\ OneEnd'
      <3>1. Kept(Tail(stack), alive, held)
        BY <1>1, <1>2, <1>3, <1>6, <2>3, PopKept
      <3>2. QED
        BY <1>2, <1>4, <2>1, <2>3, <3>1, WeakerKept DEF OneEnd
    <2>4. QED
      BY <2>2, <2>3
  <1>7. QED
    BY <1>5, <1>6

LEMMA EmitStep ==
  ASSUME Listed, NEW e \in Emitters, NEW n \in Names, Emit(e, n)
  PROVE  /\ Listed' /\ UNCHANGED <<alive, held, destroyed>>
         /\ Kept(stack, alive, held) => Kept(stack', alive, held)
  <1>1. /\ Usable(e) /\ stack' = <<Frame(e, n)>> \o stack
        /\ UNCHANGED <<lists, alive, held, destroyed, cut>>
    BY DEF Emit
  <1>2. stack \in Seq(Frames)
    BY DEF Listed, TypeOK
  <1>3. QED
    BY <1>1, <1>2, EmitKeeps

-----------------------------------------------------------------------------

LEMMA NextKeeps ==
  ASSUME Listed, [Next]_vars
  PROVE  /\ Listed'
         /\ ~ DropsInside /\ Kept(stack, alive, held) /\ OneEnd
              => Kept(stack', alive', held') /\ OneEnd'
  <1>1. CASE \/ \E e \in Emitters, p \in Patterns, f \in Functions : On(e, p, f) \/ Off(e, p, f)
             \/ \E e \in Emitters, p \in Patterns : OffName(e, p)
             \/ \E e \in Emitters : OffAll(e)
    <2>1. Listed' /\ Weaker(stack', stack) /\ UNCHANGED <<alive, held, destroyed>>
      BY <1>1, SubscribeKeeps
    <2>2. QED
      BY <2>1, WeakerKept DEF OneEnd
  <1>2. CASE \E e \in Emitters, n \in Names : Emit(e, n)
    BY <1>2, EmitStep DEF OneEnd
  <1>3. ASSUME NEW p \in Pages, Create(p)
        PROVE  Listed' /\ (Kept(stack, alive, held) /\ OneEnd
                             => Kept(stack', alive', held') /\ OneEnd')
    <2>1. /\ Listed' /\ Weaker(stack', stack) /\ alive' = alive \cup {p}
          /\ held' = held \cup {p} /\ destroyed[p] = 0 /\ UNCHANGED destroyed
      BY <1>3, CreateKeeps
    <2>2. Kept(stack, alive, held) => Kept(stack', alive', held')
      BY <2>1, CreateKept, WeakerKept
    <2>3. OneEnd => OneEnd'
      BY <2>1 DEF OneEnd
    <2>4. QED
      BY <2>1, <2>2, <2>3
  <1>4. CASE \E p \in Pages : Drop(p)
    BY <1>4, DropKeeps
  <1>5. CASE CallFunction \/ Return
    <2>1. Listed' /\ Weaker(stack', stack) /\ UNCHANGED <<alive, held, destroyed>>
      BY <1>5, CallFunctionKeeps
    <2>2. QED
      BY <2>1, WeakerKept DEF OneEnd
  <1>6. CASE CallPage
    BY <1>6, CallPageKeeps DEF OneEnd
  <1>7. CASE End
    BY <1>7, EndKeeps
  <1>8. CASE UNCHANGED vars
    <2>1. UNCHANGED <<lists, stack, alive, held, destroyed, cut>>
      BY <1>8 DEF vars
    <2>2. Listed'
      BY <2>1, StackKeeps DEF Listed, TypeOK
    <2>3. QED
      BY <2>1, <2>2 DEF OneEnd
  <1>9. QED
    BY <1>1, <1>2, <1>3, <1>4, <1>5, <1>6, <1>7, <1>8 DEF Next, Script, Emission

\* on(), off(), emit() and the pages keep every variable in its type.
THEOREM TypeCorrect == Spec => []TypeOK
  <1>1. Listed /\ [Next]_vars => Listed'
    BY NextKeeps
  <1>2. Init => Listed
    BY InitListed
  <1>3. Listed => TypeOK
    BY DEF Listed
  <1>4. QED
    BY <1>1, <1>2, <1>3, PTL DEF Spec

\* ~Page leaves no function of its own behind in the lists of the app, whoever
\* drops the page and from wherever.
THEOREM NoneStale == Spec => []NoStaleFunction
  <1>1. Listed /\ [Next]_vars => Listed'
    BY NextKeeps
  <1>2. Init => Listed
    BY InitListed
  <1>3. Listed => NoStaleFunction
    <2>1. SUFFICES ASSUME Listed, NEW p \in Patterns
                   PROVE  ToSet(lists[App][p]) \cap Pages \subseteq alive
      BY DEF NoStaleFunction
    <2>2. ToSet(lists[App][p]) \cap Pages \subseteq IF p = Everything THEN alive ELSE {}
      BY <2>1, Basics DEF Listed, Agree
    <2>3. QED
      BY <2>2
  <1>4. QED
    BY <1>1, <1>2, <1>3, PTL DEF Spec

\* A page is subscribed to its app for as long as it lives, unless a script took
\* off everything.
THEOREM AllHear == Spec => []PagesHear
  <1>1. Listed /\ [Next]_vars => Listed'
    BY NextKeeps
  <1>2. Init => Listed
    BY InitListed
  <1>3. Listed => PagesHear
    <2>1. SUFFICES ASSUME Listed, NEW p \in alive \ cut
                   PROVE  Contains(lists[App][Everything], p)
      BY DEF PagesHear
    <2>2. /\ p \in ToSet(lists[App][Everything])
          /\ lists[App][Everything] \in Seq(Handlers)
      BY <2>1, Basics DEF Listed, Agree
    <2>3. QED
      BY <2>2 DEF Contains, ToSet
  <1>4. QED
    BY <1>1, <1>2, <1>3, PTL DEF Spec

\* Where no handler of an event of the app drops a page (a native KerPage does
\* it in a function of the queue), the emitter of every emission is alive and
\* nobody who stays subscribed is passed over.
THEOREM NoneSkipped ==
  ASSUME ~ DropsInside
  PROVE  Spec => []NobodySkipped
  <1>1. Inv /\ [Next]_vars => Inv'
    BY NextKeeps DEF Inv
  <1>2. Init => Inv
    BY InitListed DEF Inv
  <1>3. Inv => NobodySkipped
    BY DEF Inv, Kept, NobodySkipped, Usable
  <1>4. QED
    BY <1>1, <1>2, <1>3, PTL DEF Spec

\* And ~Page runs once at most.
THEOREM EndsOnce ==
  ASSUME ~ DropsInside
  PROVE  Spec => []DestroyedOnce
  <1>1. Inv /\ [Next]_vars => Inv'
    BY NextKeeps DEF Inv
  <1>2. Init => Inv
    BY InitListed DEF Inv
  <1>3. Inv => DestroyedOnce
    BY DEF Inv, OneEnd, DestroyedOnce
  <1>4. QED
    BY <1>1, <1>2, <1>3, PTL DEF Spec

=============================================================================
