---------------------------- MODULE ElementProofs ----------------------------
(***************************************************************************)
(* Proofs about ElementTree, for any number of elements: pointers lead to   *)
(* elements that are allocated; and until an operation on elements adrift   *)
(* brings a fault, the pointers of neighbours agree, no element is kept by  *)
(* a cycle of them, they implement an ordered forest, and nothing but the   *)
(* loss of a parent sets an element adrift.                                *)
(***************************************************************************)
EXTENDS ElementTree, Sequences, FiniteSetTheorems, WellFoundedInduction, TLAPS

(***************************************************************************)
(* The invariant, of links L, the allocated elements S and those that are   *)
(* kept from outside.                                                      *)
(***************************************************************************)

\* Pointers of allocated elements lead to allocated elements, others are null.
Closed(L, S) ==
  /\ L \in Links
  /\ \A e \in Elements :
       {L.first[e], L.last[e], L.next[e], L.prev[e], L.parent[e]}
         \subseteq IF e \in S THEN S \cup {Nil} ELSE {Nil}

\* LinksAgree, and a parent with a first child has a last one.
AgreesAt(L, e) ==
  LET a == L.prev[e]
      b == L.next[e]
      p == L.parent[e]
  IN /\ b # Nil => L.prev[b] = e /\ L.parent[b] = p
     /\ p # Nil /\ a # Nil => L.next[a] = e /\ L.parent[a] = p
     /\ L.first[e] # Nil => L.parent[L.first[e]] = e /\ L.prev[L.first[e]] = Nil
     /\ L.last[e] # Nil => L.parent[L.last[e]] = e /\ L.next[L.last[e]] = Nil
     /\ p # Nil /\ a = Nil => L.first[p] = e
     /\ p # Nil /\ b = Nil => L.last[p] = e
     /\ L.first[e] = Nil <=> L.last[e] = Nil

Agree(L, S) == \A e \in S : AgreesAt(L, e)

\* Each of S is kept, from outside or by another of S.
Supports(L, S, keep) == \A e \in S : e \in keep \/ \E a \in S : e \in KeptBy(L, a)

Sound(L, S, keep) == S \subseteq Elements /\ keep \subseteq S /\ Closed(L, S)

Good(L, S, keep) == Sound(L, S, keep) /\ Agree(L, S) /\ Supports(L, S, keep)

\* What holds after a fault, and what holds before.
Inv ==
  /\ Sound(links, live, held)
  /\ fault \in {"none", "crashed", "crossed"}
  /\ fault = "none" => Good(links, live, held)

LEMMA InvIsAgreement == Inv => TypeOK /\ LinksAgree
  <1> SUFFICES ASSUME Inv PROVE TypeOK /\ LinksAgree
    OBVIOUS
  <1>1. TypeOK
    BY DEF Inv, Sound, Closed, TypeOK, KeptBy
  <1>2. LinksAgree
    BY DEF Inv, Good, LinksAgree, Agree, AgreesAt
  <1>3. QED
    BY <1>1, <1>2

LEMMA InvStart == Init => Inv
  BY DEF Init, Inv, Good, Sound, Closed, Agree, AgreesAt, Supports, Links, Pointers, NoPointers

-----------------------------------------------------------------------------
(***************************************************************************)
(* Reference counting.                                                     *)
(***************************************************************************)

\* Surviving() is the largest of the sets that support themselves.
LEMMA SurvivingLargest ==
  ASSUME NEW L, NEW alive, NEW keep
  PROVE  /\ Surviving(L, alive, keep) \subseteq alive
         /\ Supports(L, Surviving(L, alive, keep), keep)
         /\ \A S \in SUBSET alive : Supports(L, S, keep) => S \subseteq Surviving(L, alive, keep)
  BY DEF Surviving, Supports

\* What survives keeps what it points to by Strong pointers, and its Weak ones to
\* what survives too.
LEMMA CountedPointers ==
  ASSUME NEW L, NEW S, NEW keep, S \subseteq Elements, keep \subseteq S, Closed(L, S)
  PROVE  LET rest == Surviving(L, S, keep)
             C == Counted(L, rest)
         IN /\ rest \subseteq S /\ keep \subseteq rest
            /\ Supports(L, rest, keep)
            /\ \A T \in SUBSET S : Supports(L, T, keep) => T \subseteq rest
            /\ \A e \in rest :
                 /\ KeptBy(L, e) \subseteq rest \cup {Nil}
                 /\ C.first[e] = L.first[e] /\ C.last[e] = L.last[e] /\ C.next[e] = L.next[e]
                 /\ C.prev[e] = IF L.prev[e] \in rest THEN L.prev[e] ELSE Nil
                 /\ C.parent[e] = IF L.parent[e] \in rest THEN L.parent[e] ELSE Nil
            /\ \A e \in Elements \ rest :
                 /\ C.first[e] = Nil /\ C.last[e] = Nil /\ C.next[e] = Nil
                 /\ C.prev[e] = Nil /\ C.parent[e] = Nil
  <1> DEFINE rest == Surviving(L, S, keep)
             C == Counted(L, rest)
  <1>1. /\ rest \subseteq S /\ Supports(L, rest, keep)
        /\ \A T \in SUBSET S : Supports(L, T, keep) => T \subseteq rest
    BY SurvivingLargest
  <1>2. /\ C.first = Gone(L.first, rest) /\ C.last = Gone(L.last, rest)
        /\ C.next = Gone(L.next, rest) /\ C.prev = Gone(Cleared(L.prev, rest), rest)
        /\ C.parent = Gone(Cleared(L.parent, rest), rest)
    BY DEF Counted
  <1> HIDE DEF rest, C
  <1>3. keep \subseteq rest
    <2>1. Supports(L, keep, keep)
      BY DEF Supports
    <2>2. QED
      BY <1>1, <2>1
  <1>4. \A e \in rest : KeptBy(L, e) \subseteq rest \cup {Nil}
    <2>1. ASSUME NEW e \in rest, NEW k \in KeptBy(L, e), k # Nil PROVE k \in rest
      <3>1. k \in S
        BY <1>1, <2>1 DEF Closed, KeptBy
      <3>2. Supports(L, rest \cup {k}, keep)
        BY <1>1, <2>1 DEF Supports
      <3>3. QED
        BY <1>1, <3>1, <3>2
    <2>2. QED
      BY <2>1
  <1>5. \A e \in rest :
          /\ C.first[e] = L.first[e] /\ C.last[e] = L.last[e] /\ C.next[e] = L.next[e]
          /\ C.prev[e] = IF L.prev[e] \in rest THEN L.prev[e] ELSE Nil
          /\ C.parent[e] = IF L.parent[e] \in rest THEN L.parent[e] ELSE Nil
    BY <1>1, <1>2 DEF Gone, Cleared
  <1>6. \A e \in Elements \ rest :
          /\ C.first[e] = Nil /\ C.last[e] = Nil /\ C.next[e] = Nil
          /\ C.prev[e] = Nil /\ C.parent[e] = Nil
    BY <1>2 DEF Gone
  <1>7. QED
    BY <1>1, <1>3, <1>4, <1>5, <1>6 DEF rest, C

LEMMA CountedSound ==
  ASSUME NEW L, NEW S, NEW keep, Sound(L, S, keep)
  PROVE  Sound(Counted(L, Surviving(L, S, keep)), Surviving(L, S, keep), keep)
  <1> DEFINE rest == Surviving(L, S, keep)
             C == Counted(L, rest)
  <1>1. S \subseteq Elements /\ keep \subseteq S /\ Closed(L, S)
    BY DEF Sound
  <1>2. /\ rest \subseteq S /\ keep \subseteq rest
        /\ \A e \in rest :
             /\ KeptBy(L, e) \subseteq rest \cup {Nil}
             /\ C.first[e] = L.first[e] /\ C.last[e] = L.last[e] /\ C.next[e] = L.next[e]
             /\ C.prev[e] = IF L.prev[e] \in rest THEN L.prev[e] ELSE Nil
             /\ C.parent[e] = IF L.parent[e] \in rest THEN L.parent[e] ELSE Nil
        /\ \A e \in Elements \ rest :
             /\ C.first[e] = Nil /\ C.last[e] = Nil /\ C.next[e] = Nil
             /\ C.prev[e] = Nil /\ C.parent[e] = Nil
    BY <1>1, CountedPointers
  <1>3. /\ C = [first |-> C.first, last |-> C.last, next |-> C.next, prev |-> C.prev,
                parent |-> C.parent]
        /\ C.first = [e \in Elements |-> C.first[e]] /\ C.last = [e \in Elements |-> C.last[e]]
        /\ C.next = [e \in Elements |-> C.next[e]] /\ C.prev = [e \in Elements |-> C.prev[e]]
        /\ C.parent = [e \in Elements |-> C.parent[e]]
    BY DEF Counted, Gone
  <1> HIDE DEF rest, C
  <1>4. \A e \in Elements : {C.first[e], C.last[e], C.next[e], C.prev[e], C.parent[e]}
                              \subseteq IF e \in rest THEN rest \cup {Nil} ELSE {Nil}
    BY <1>2 DEF KeptBy
  <1>5. \A e \in Elements :
          /\ C.first[e] \in Elements \cup {Nil} /\ C.last[e] \in Elements \cup {Nil}
          /\ C.next[e] \in Elements \cup {Nil} /\ C.prev[e] \in Elements \cup {Nil}
          /\ C.parent[e] \in Elements \cup {Nil}
    BY <1>1, <1>2, <1>4
  <1>6. C \in Links
    <2>1. /\ C.first \in Pointers /\ C.last \in Pointers /\ C.next \in Pointers
          /\ C.prev \in Pointers /\ C.parent \in Pointers
      BY <1>3, <1>5 DEF Pointers
    <2>2. QED
      BY <1>3, <2>1 DEF Links
  <1>7. QED
    BY <1>1, <1>2, <1>4, <1>6 DEF Sound, Closed, rest, C

\* Children whose parent survives survive up to one that does, and so do the siblings
\* before them.
LEMMA SiblingsSurvive ==
  ASSUME NEW L, NEW S, NEW keep, Sound(L, S, keep), Agree(L, S),
         NEW c \in S, L.parent[c] \in Surviving(L, S, keep)
  PROVE  c \in Surviving(L, S, keep)
  <1> DEFINE rest == Surviving(L, S, keep)
             young == rest \cup {x \in S : L.parent[x] \in rest}
  <1>1. /\ rest \subseteq S /\ Supports(L, rest, keep) /\ S \subseteq Elements /\ Closed(L, S)
        /\ \A T \in SUBSET S : Supports(L, T, keep) => T \subseteq rest
        /\ Nil \notin Elements
    BY SurvivingLargest, NilAssumption DEF Sound
  <1> HIDE DEF rest
  <1>2. ASSUME NEW x \in S, L.parent[x] \in rest
        PROVE  \E a \in young : x \in KeptBy(L, a)
    <2>1. L.parent[x] # Nil
      BY <1>1, <1>2
    <2>2. CASE L.prev[x] = Nil
      BY <1>2, <2>1, <2>2 DEF Agree, AgreesAt, KeptBy
    <2>3. CASE L.prev[x] # Nil
      <3>1. L.prev[x] \in S
        BY <1>1, <2>3 DEF Closed
      <3>2. L.next[L.prev[x]] = x /\ L.parent[L.prev[x]] = L.parent[x]
        BY <2>1, <2>3 DEF Agree, AgreesAt
      <3>3. QED
        BY <1>2, <3>1, <3>2 DEF KeptBy
    <2>4. QED
      BY <2>2, <2>3
  <1>3. Supports(L, young, keep)
    BY <1>1, <1>2 DEF Supports
  <1>4. young \subseteq rest
    BY <1>1, <1>3
  <1>5. QED
    BY <1>4 DEF rest

\* What survives goes on agreeing.
LEMMA CountedGood ==
  ASSUME NEW L, NEW S, NEW keep, Sound(L, S, keep), Agree(L, S)
  PROVE  Good(Counted(L, Surviving(L, S, keep)), Surviving(L, S, keep), keep)
  <1> DEFINE rest == Surviving(L, S, keep)
             C == Counted(L, rest)
  <1>1. /\ S \subseteq Elements /\ keep \subseteq S /\ Closed(L, S) /\ Nil \notin Elements
    BY NilAssumption DEF Sound
  <1>2. /\ rest \subseteq S /\ keep \subseteq rest /\ Supports(L, rest, keep)
        /\ \A e \in rest :
             /\ KeptBy(L, e) \subseteq rest \cup {Nil}
             /\ C.first[e] = L.first[e] /\ C.last[e] = L.last[e] /\ C.next[e] = L.next[e]
             /\ C.prev[e] = IF L.prev[e] \in rest THEN L.prev[e] ELSE Nil
             /\ C.parent[e] = IF L.parent[e] \in rest THEN L.parent[e] ELSE Nil
    BY <1>1, CountedPointers
  <1>3. Sound(C, rest, keep)
    BY CountedSound
  <1>4. \A x \in S : L.parent[x] \in rest => x \in rest
    BY SiblingsSurvive
  <1> HIDE DEF rest, C
  <1>5. Agree(C, rest)
    <2> SUFFICES ASSUME NEW x \in rest PROVE AgreesAt(C, x)
      BY DEF Agree
    <2>1. AgreesAt(L, x)
      BY <1>2 DEF Agree
    <2>2. x \in Elements /\ x \in S /\ x # Nil
      BY <1>1, <1>2
    <2> DEFINE u == C.prev[x]
               v == C.next[x]
               q == C.parent[x]
    <2>3. v # Nil => C.prev[v] = x /\ C.parent[v] = q
      BY <1>1, <1>2, <2>1, <2>2 DEF AgreesAt, KeptBy
    <2>4. q # Nil => q \in rest /\ L.parent[x] = q /\ u = L.prev[x]
      <3>1. ASSUME q # Nil, L.prev[x] # Nil PROVE L.prev[x] \in rest
        <4>1. L.prev[x] \in S /\ L.parent[L.prev[x]] = L.parent[x] /\ L.parent[x] \in rest
          BY <1>1, <1>2, <2>1, <2>2, <3>1 DEF Closed, AgreesAt
        <4>2. QED
          BY <1>4, <4>1
      <3>2. QED
        BY <1>2, <3>1
    <2>5. q # Nil /\ u # Nil => C.next[u] = x /\ C.parent[u] = q
      <3>1. q # Nil /\ u # Nil => u \in rest /\ L.next[u] = x /\ L.parent[u] = q
        BY <1>2, <2>1, <2>4 DEF AgreesAt
      <3>2. QED
        BY <1>2, <2>4, <3>1
    <2>6. C.first[x] # Nil => C.parent[C.first[x]] = x /\ C.prev[C.first[x]] = Nil
      BY <1>1, <1>2, <2>1, <2>2 DEF AgreesAt, KeptBy
    <2>7. C.last[x] # Nil => C.parent[C.last[x]] = x /\ C.next[C.last[x]] = Nil
      BY <1>1, <1>2, <2>1, <2>2 DEF AgreesAt, KeptBy
    <2>8. q # Nil => (u = Nil => C.first[q] = x) /\ (v = Nil => C.last[q] = x)
      BY <1>2, <2>1, <2>4 DEF AgreesAt
    <2>9. C.first[x] = Nil <=> C.last[x] = Nil
      BY <1>2, <2>1 DEF AgreesAt
    <2>10. QED
      BY <2>3, <2>5, <2>6, <2>7, <2>8, <2>9 DEF AgreesAt
  <1>6. Supports(C, rest, keep)
    BY <1>2 DEF Supports, KeptBy
  <1>7. QED
    BY <1>3, <1>5, <1>6 DEF Good, rest, C

\* Links that leave everything kept lose nothing.
LEMMA CountedAll ==
  ASSUME NEW L, NEW S, NEW keep, Good(L, S, keep)
  PROVE  Surviving(L, S, keep) = S /\ Counted(L, S) = L
  <1>1. Surviving(L, S, keep) = S
    BY SurvivingLargest DEF Good
  <1>2. \A e \in Elements \ S : /\ L.first[e] = Nil /\ L.last[e] = Nil /\ L.next[e] = Nil
                                 /\ L.prev[e] = Nil /\ L.parent[e] = Nil
    BY DEF Good, Sound, Closed
  <1>3. \A e \in S : L.prev[e] \in S \cup {Nil} /\ L.parent[e] \in S \cup {Nil}
    BY DEF Good, Sound, Closed
  <1>4. /\ L.first \in Pointers /\ L.last \in Pointers /\ L.next \in Pointers
        /\ L.prev \in Pointers /\ L.parent \in Pointers
        /\ L = [first |-> L.first, last |-> L.last, next |-> L.next, prev |-> L.prev,
                parent |-> L.parent]
    BY DEF Good, Sound, Closed, Links
  <1>5. /\ Gone(L.first, S) = L.first /\ Gone(L.last, S) = L.last /\ Gone(L.next, S) = L.next
    BY <1>2, <1>4 DEF Gone, Pointers
  <1>6. /\ Gone(Cleared(L.prev, S), S) = L.prev /\ Gone(Cleared(L.parent, S), S) = L.parent
    BY <1>2, <1>3, <1>4 DEF Gone, Cleared, Pointers
  <1>7. QED
    BY <1>1, <1>4, <1>5, <1>6 DEF Counted

LEMMA CommitSound ==
  ASSUME NEW L, NEW alive, NEW keep, Sound(L, alive, keep), Commit(L, alive, keep)
  PROVE  Sound(links, live, held)'
  BY CountedSound DEF Commit

LEMMA CommitGood ==
  ASSUME NEW L, NEW alive, NEW keep, Sound(L, alive, keep), Agree(L, alive),
         Commit(L, alive, keep)
  PROVE  Good(links, live, held)'
  BY CountedGood DEF Commit

LEMMA CommitAll ==
  ASSUME NEW L, NEW alive, NEW keep, Good(L, alive, keep), Commit(L, alive, keep)
  PROVE  live' = alive /\ links' = L /\ held' = keep
  BY CountedAll DEF Commit

-----------------------------------------------------------------------------
(***************************************************************************)
(* The operations.                                                         *)
(***************************************************************************)

Apart(L, e) == L.parent[e] = Nil /\ L.prev[e] = Nil /\ L.next[e] = Nil

\* remove(), from any place where it does not call null.  Who had no parent and was
\* kept by e may be kept no more.
LEMMA DetachedGood ==
  ASSUME NEW L, NEW S, NEW keep, Good(L, S, keep), NEW e \in keep,
         L.prev[e] # Nil => L.parent[e] # Nil
  PROVE  /\ Sound(Detached(L, e), S, keep) /\ Agree(Detached(L, e), S)
         /\ Apart(Detached(L, e), e)
         /\ L.parent[e] # Nil \/ L.next[e] = Nil => Good(Detached(L, e), S, keep)
  <1> DEFINE a == L.prev[e]
             b == L.next[e]
             p == L.parent[e]
             D == Detached(L, e)
  <1>1. /\ S \subseteq Elements /\ keep \subseteq S /\ e \in S /\ e \in Elements
        /\ Closed(L, S) /\ Agree(L, S) /\ Supports(L, S, keep) /\ Nil \notin Elements
    BY NilAssumption DEF Good, Sound
  <1>2. /\ a \in S \cup {Nil} /\ b \in S \cup {Nil} /\ p \in S \cup {Nil}
        /\ b # Nil => L.prev[b] = e /\ L.parent[b] = p
        /\ a # Nil => p # Nil /\ L.next[a] = e /\ L.parent[a] = p
        /\ p # Nil /\ a = Nil => L.first[p] = e
        /\ p # Nil /\ b = Nil => L.last[p] = e
    BY <1>1 DEF Closed, Agree, AgreesAt
  <1>3. /\ D.first = IF a = Nil THEN Put(L.first, p, b) ELSE L.first
        /\ D.last = IF (a # Nil \/ p # Nil) /\ b = Nil THEN Put(L.last, p, a) ELSE L.last
        /\ D.next = [Put(L.next, a, b) EXCEPT ![e] = Nil]
        /\ D.prev = [(IF a # Nil \/ p # Nil THEN Put(L.prev, b, a) ELSE L.prev) EXCEPT ![e] = Nil]
        /\ D.parent = [L.parent EXCEPT ![e] = Nil]
        /\ D = [first |-> D.first, last |-> D.last, next |-> D.next, prev |-> D.prev,
                parent |-> D.parent]
    BY DEF Detached
  <1>4. /\ L.first \in Pointers /\ L.last \in Pointers /\ L.next \in Pointers
        /\ L.prev \in Pointers /\ L.parent \in Pointers
    BY <1>1 DEF Closed, Links
  <1> HIDE DEF D
  <1>5. \A x \in Elements :
          /\ D.first[x] = IF a = Nil /\ x = p THEN b ELSE L.first[x]
          /\ D.last[x] = IF b = Nil /\ x = p THEN a ELSE L.last[x]
          /\ D.next[x] = IF x = e THEN Nil ELSE IF x = a THEN b ELSE L.next[x]
          /\ D.prev[x] = IF x = e THEN Nil ELSE IF x = b /\ p # Nil THEN a ELSE L.prev[x]
          /\ D.parent[x] = IF x = e THEN Nil ELSE L.parent[x]
    BY <1>1, <1>2, <1>3, <1>4 DEF Put, Pointers
  <1>6. D \in Links
    <2>1. /\ D.first \in Pointers /\ D.last \in Pointers /\ D.next \in Pointers
          /\ D.prev \in Pointers /\ D.parent \in Pointers
      BY <1>1, <1>2, <1>3, <1>4 DEF Put, Pointers
    <2>2. QED
      BY <1>3, <2>1 DEF Links
  <1>7. Closed(D, S)
    <2>1. ASSUME NEW x \in Elements
          PROVE  {D.first[x], D.last[x], D.next[x], D.prev[x], D.parent[x]}
                   \subseteq IF x \in S THEN S \cup {Nil} ELSE {Nil}
      BY <1>1, <1>2, <1>5 DEF Closed
    <2>2. QED
      BY <1>6, <2>1 DEF Closed
  <1>8. Agree(D, S)
    <2> SUFFICES ASSUME NEW x \in S PROVE AgreesAt(D, x)
      BY DEF Agree
    <2>1. AgreesAt(L, x)
      BY <1>1 DEF Agree
    <2>2. x \in Elements /\ x # Nil
      BY <1>1
    <2> DEFINE u == D.prev[x]
               v == D.next[x]
               q == D.parent[x]
    <2>3. v # Nil => D.prev[v] = x /\ D.parent[v] = q
      BY <1>1, <1>2, <1>5, <2>1, <2>2 DEF Agree, AgreesAt, Closed
    <2>4. q # Nil /\ u # Nil => D.next[u] = x /\ D.parent[u] = q
      BY <1>1, <1>2, <1>5, <2>1, <2>2 DEF Agree, AgreesAt, Closed
    <2>5. D.first[x] # Nil => D.parent[D.first[x]] = x /\ D.prev[D.first[x]] = Nil
      BY <1>1, <1>2, <1>5, <2>1, <2>2 DEF Agree, AgreesAt, Closed
    <2>6. D.last[x] # Nil => D.parent[D.last[x]] = x /\ D.next[D.last[x]] = Nil
      BY <1>1, <1>2, <1>5, <2>1, <2>2 DEF Agree, AgreesAt, Closed
    <2>7. q # Nil => q \in S /\ (u = Nil => D.first[q] = x) /\ (v = Nil => D.last[q] = x)
      BY <1>1, <1>2, <1>5, <2>1, <2>2 DEF Agree, AgreesAt, Closed
    <2>8. D.first[x] = Nil <=> D.last[x] = Nil
      BY <1>1, <1>2, <1>5, <2>1, <2>2 DEF Agree, AgreesAt, Closed
    <2>9. QED
      BY <2>3, <2>4, <2>5, <2>6, <2>7, <2>8 DEF AgreesAt
  <1>9. ASSUME p # Nil \/ b = Nil PROVE Supports(D, S, keep)
    BY <1>1, <1>2, <1>5, <1>9 DEF Supports, KeptBy, Agree, AgreesAt, Closed
  <1>10. Apart(D, e)
    BY <1>1, <1>5 DEF Apart
  <1>11. QED
    BY <1>1, <1>7, <1>8, <1>9, <1>10 DEF Good, Sound, D

\* append(), of an element that has no place.
LEMMA AppendedGood ==
  ASSUME NEW L, NEW S, NEW keep, Good(L, S, keep), NEW p \in keep, NEW e \in keep,
         p # e, Apart(L, e)
  PROVE  Good(Appended(L, p, e), S, keep)
  <1> DEFINE z == L.last[p]
             D == Appended(L, p, e)
  <1>1. /\ S \subseteq Elements /\ keep \subseteq S /\ Nil \notin Elements
        /\ Closed(L, S) /\ Agree(L, S) /\ Supports(L, S, keep)
    BY NilAssumption DEF Good, Sound
  <1>2. /\ p \in S /\ e \in S /\ p \in Elements /\ e \in Elements /\ p # Nil /\ e # Nil /\ p # e
        /\ L.parent[e] = Nil /\ L.prev[e] = Nil /\ L.next[e] = Nil
        /\ z \in S \cup {Nil} /\ z # e
        /\ z # Nil => L.parent[z] = p /\ L.next[z] = Nil
        /\ z = Nil <=> L.first[p] = Nil
    BY <1>1 DEF Closed, Agree, AgreesAt, Apart
  <1>3. /\ D.first = IF z = Nil THEN [L.first EXCEPT ![p] = e] ELSE L.first
        /\ D.last = [L.last EXCEPT ![p] = e]
        /\ D.next = Put(L.next, z, e)
        /\ D.prev = [L.prev EXCEPT ![e] = z]
        /\ D.parent = [L.parent EXCEPT ![e] = p]
        /\ D = [first |-> D.first, last |-> D.last, next |-> D.next, prev |-> D.prev,
                parent |-> D.parent]
    BY <1>1, <1>2 DEF Appended
  <1>4. /\ L.first \in Pointers /\ L.last \in Pointers /\ L.next \in Pointers
        /\ L.prev \in Pointers /\ L.parent \in Pointers
    BY <1>1 DEF Closed, Links
  <1> HIDE DEF D
  <1>5. \A x \in Elements :
          /\ D.first[x] = IF z = Nil /\ x = p THEN e ELSE L.first[x]
          /\ D.last[x] = IF x = p THEN e ELSE L.last[x]
          /\ D.next[x] = IF x = z THEN e ELSE L.next[x]
          /\ D.prev[x] = IF x = e THEN z ELSE L.prev[x]
          /\ D.parent[x] = IF x = e THEN p ELSE L.parent[x]
    BY <1>1, <1>2, <1>3, <1>4 DEF Put, Pointers
  <1>6. D \in Links
    <2>1. /\ D.first \in Pointers /\ D.last \in Pointers /\ D.next \in Pointers
          /\ D.prev \in Pointers /\ D.parent \in Pointers
      BY <1>1, <1>2, <1>3, <1>4 DEF Put, Pointers
    <2>2. QED
      BY <1>3, <2>1 DEF Links
  <1>7. Closed(D, S)
    <2>1. ASSUME NEW x \in Elements
          PROVE  {D.first[x], D.last[x], D.next[x], D.prev[x], D.parent[x]}
                   \subseteq IF x \in S THEN S \cup {Nil} ELSE {Nil}
      BY <1>1, <1>2, <1>5 DEF Closed
    <2>2. QED
      BY <1>6, <2>1 DEF Closed
  <1>8. Agree(D, S)
    <2> SUFFICES ASSUME NEW x \in S PROVE AgreesAt(D, x)
      BY DEF Agree
    <2>1. AgreesAt(L, x)
      BY <1>1 DEF Agree
    <2>2. x \in Elements /\ x # Nil
      BY <1>1
    <2> DEFINE u == D.prev[x]
               v == D.next[x]
               q == D.parent[x]
    <2>3. v # Nil => D.prev[v] = x /\ D.parent[v] = q
      BY <1>1, <1>2, <1>5, <2>1, <2>2 DEF Agree, AgreesAt, Closed
    <2>4. q # Nil /\ u # Nil => D.next[u] = x /\ D.parent[u] = q
      BY <1>1, <1>2, <1>5, <2>1, <2>2 DEF Agree, AgreesAt, Closed
    <2>5. D.first[x] # Nil => D.parent[D.first[x]] = x /\ D.prev[D.first[x]] = Nil
      BY <1>1, <1>2, <1>5, <2>1, <2>2 DEF Agree, AgreesAt, Closed
    <2>6. D.last[x] # Nil => D.parent[D.last[x]] = x /\ D.next[D.last[x]] = Nil
      BY <1>1, <1>2, <1>5, <2>1, <2>2 DEF Agree, AgreesAt, Closed
    <2>7. q # Nil => q \in S /\ (u = Nil => D.first[q] = x) /\ (v = Nil => D.last[q] = x)
      BY <1>1, <1>2, <1>5, <2>1, <2>2 DEF Agree, AgreesAt, Closed
    <2>8. D.first[x] = Nil <=> D.last[x] = Nil
      BY <1>1, <1>2, <1>5, <2>1, <2>2 DEF Agree, AgreesAt, Closed
    <2>9. QED
      BY <2>3, <2>4, <2>5, <2>6, <2>7, <2>8 DEF AgreesAt
  <1>9. Supports(D, S, keep)
    BY <1>1, <1>2, <1>5 DEF Supports, KeptBy, Agree, AgreesAt, Closed
  <1>10. QED
    BY <1>1, <1>7, <1>8, <1>9 DEF Good, Sound, D

\* before(), of an element that has no place, where the links do not cross.
LEMMA BeforeGood ==
  ASSUME NEW L, NEW S, NEW keep, Good(L, S, keep), NEW s \in keep, NEW e \in keep,
         s # e, Apart(L, e), ~Stale(L, s)
  PROVE  Good(PlacedBefore(L, s, e), S, keep)
  <1> DEFINE a == L.prev[s]
             p == L.parent[s]
             D == PlacedBefore(L, s, e)
  <1>0. CASE a = Nil /\ p = Nil
    BY <1>0 DEF PlacedBefore
  <1> SUFFICES ASSUME ~ (a = Nil /\ p = Nil) PROVE Good(D, S, keep)
    BY <1>0
  <1>1. /\ S \subseteq Elements /\ keep \subseteq S /\ Nil \notin Elements
        /\ Closed(L, S) /\ Agree(L, S) /\ Supports(L, S, keep)
    BY NilAssumption DEF Good, Sound
  <1>2. /\ s \in S /\ e \in S /\ s \in Elements /\ e \in Elements /\ s # Nil /\ e # Nil /\ s # e
        /\ L.parent[e] = Nil /\ L.prev[e] = Nil /\ L.next[e] = Nil
        /\ a \in S \cup {Nil} /\ p \in S \cup {Nil} /\ a # e
        /\ ~ (a = Nil /\ p = Nil)
        /\ a # Nil => L.next[a] = s /\ L.parent[a] = p
        /\ a = Nil => L.first[p] = s
    BY <1>1 DEF Closed, Agree, AgreesAt, Apart, Stale
  <1>3. /\ D.first = IF a = Nil THEN [L.first EXCEPT ![p] = e] ELSE L.first
        /\ D.last = L.last
        /\ D.next = [Put(L.next, a, e) EXCEPT ![e] = s]
        /\ D.prev = [L.prev EXCEPT ![e] = a, ![s] = e]
        /\ D.parent = [L.parent EXCEPT ![e] = p]
        /\ D = [first |-> D.first, last |-> D.last, next |-> D.next, prev |-> D.prev,
                parent |-> D.parent]
    BY <1>1, <1>2 DEF PlacedBefore
  <1>4. /\ L.first \in Pointers /\ L.last \in Pointers /\ L.next \in Pointers
        /\ L.prev \in Pointers /\ L.parent \in Pointers
    BY <1>1 DEF Closed, Links
  <1> HIDE DEF D
  <1>5. \A x \in Elements :
          /\ D.first[x] = IF a = Nil /\ x = p THEN e ELSE L.first[x]
          /\ D.last[x] = L.last[x]
          /\ D.next[x] = IF x = e THEN s ELSE IF x = a THEN e ELSE L.next[x]
          /\ D.prev[x] = IF x = s THEN e ELSE IF x = e THEN a ELSE L.prev[x]
          /\ D.parent[x] = IF x = e THEN p ELSE L.parent[x]
    BY <1>1, <1>2, <1>3, <1>4 DEF Put, Pointers
  <1>6. D \in Links
    <2>1. /\ D.first \in Pointers /\ D.last \in Pointers /\ D.next \in Pointers
          /\ D.prev \in Pointers /\ D.parent \in Pointers
      BY <1>1, <1>2, <1>3, <1>4 DEF Put, Pointers
    <2>2. QED
      BY <1>3, <2>1 DEF Links
  <1>7. Closed(D, S)
    <2>1. ASSUME NEW x \in Elements
          PROVE  {D.first[x], D.last[x], D.next[x], D.prev[x], D.parent[x]}
                   \subseteq IF x \in S THEN S \cup {Nil} ELSE {Nil}
      BY <1>1, <1>2, <1>5 DEF Closed
    <2>2. QED
      BY <1>6, <2>1 DEF Closed
  <1>8. Agree(D, S)
    <2> SUFFICES ASSUME NEW x \in S PROVE AgreesAt(D, x)
      BY DEF Agree
    <2>1. AgreesAt(L, x)
      BY <1>1 DEF Agree
    <2>2. x \in Elements /\ x # Nil
      BY <1>1
    <2> DEFINE u == D.prev[x]
               v == D.next[x]
               q == D.parent[x]
    <2>3. v # Nil => D.prev[v] = x /\ D.parent[v] = q
      BY <1>1, <1>2, <1>5, <2>1, <2>2 DEF Agree, AgreesAt, Closed
    <2>4. q # Nil /\ u # Nil => D.next[u] = x /\ D.parent[u] = q
      BY <1>1, <1>2, <1>5, <2>1, <2>2 DEF Agree, AgreesAt, Closed
    <2>5. D.first[x] # Nil => D.parent[D.first[x]] = x /\ D.prev[D.first[x]] = Nil
      BY <1>1, <1>2, <1>5, <2>1, <2>2 DEF Agree, AgreesAt, Closed
    <2>6. D.last[x] # Nil => D.parent[D.last[x]] = x /\ D.next[D.last[x]] = Nil
      BY <1>1, <1>2, <1>5, <2>1, <2>2 DEF Agree, AgreesAt, Closed
    <2>7. q # Nil => q \in S /\ (u = Nil => D.first[q] = x) /\ (v = Nil => D.last[q] = x)
      BY <1>1, <1>2, <1>5, <2>1, <2>2 DEF Agree, AgreesAt, Closed
    <2>8. D.first[x] = Nil <=> D.last[x] = Nil
      BY <1>1, <1>2, <1>5, <2>1, <2>2 DEF Agree, AgreesAt, Closed
    <2>9. QED
      BY <2>3, <2>4, <2>5, <2>6, <2>7, <2>8 DEF AgreesAt
  <1>9. Supports(D, S, keep)
    BY <1>1, <1>2, <1>5 DEF Supports, KeptBy, Agree, AgreesAt, Closed
  <1>10. QED
    BY <1>1, <1>7, <1>8, <1>9 DEF Good, Sound, D

\* after(), of an element that has no place.
LEMMA AfterGood ==
  ASSUME NEW L, NEW S, NEW keep, Good(L, S, keep), NEW s \in keep, NEW e \in keep,
         s # e, Apart(L, e)
  PROVE  Good(PlacedAfter(L, s, e), S, keep)
  <1> DEFINE b == L.next[s]
             p == L.parent[s]
             D == PlacedAfter(L, s, e)
  <1>0. CASE b = Nil /\ p = Nil
    BY <1>0 DEF PlacedAfter
  <1> SUFFICES ASSUME ~ (b = Nil /\ p = Nil) PROVE Good(D, S, keep)
    BY <1>0
  <1>1. /\ S \subseteq Elements /\ keep \subseteq S /\ Nil \notin Elements
        /\ Closed(L, S) /\ Agree(L, S) /\ Supports(L, S, keep)
    BY NilAssumption DEF Good, Sound
  <1>2. /\ s \in S /\ e \in S /\ s \in Elements /\ e \in Elements /\ s # Nil /\ e # Nil /\ s # e
        /\ L.parent[e] = Nil /\ L.prev[e] = Nil /\ L.next[e] = Nil
        /\ b \in S \cup {Nil} /\ p \in S \cup {Nil} /\ b # e
        /\ ~ (b = Nil /\ p = Nil)
        /\ b # Nil => L.prev[b] = s /\ L.parent[b] = p
        /\ b = Nil => L.last[p] = s
    BY <1>1 DEF Closed, Agree, AgreesAt, Apart
  <1>3. /\ D.first = L.first
        /\ D.last = IF b = Nil THEN [L.last EXCEPT ![p] = e] ELSE L.last
        /\ D.next = [L.next EXCEPT ![e] = b, ![s] = e]
        /\ D.prev = [Put(L.prev, b, e) EXCEPT ![e] = s]
        /\ D.parent = [L.parent EXCEPT ![e] = p]
        /\ D = [first |-> D.first, last |-> D.last, next |-> D.next, prev |-> D.prev,
                parent |-> D.parent]
    BY <1>1, <1>2 DEF PlacedAfter
  <1>4. /\ L.first \in Pointers /\ L.last \in Pointers /\ L.next \in Pointers
        /\ L.prev \in Pointers /\ L.parent \in Pointers
    BY <1>1 DEF Closed, Links
  <1> HIDE DEF D
  <1>5. \A x \in Elements :
          /\ D.first[x] = L.first[x]
          /\ D.last[x] = IF b = Nil /\ x = p THEN e ELSE L.last[x]
          /\ D.next[x] = IF x = s THEN e ELSE IF x = e THEN b ELSE L.next[x]
          /\ D.prev[x] = IF x = e THEN s ELSE IF x = b THEN e ELSE L.prev[x]
          /\ D.parent[x] = IF x = e THEN p ELSE L.parent[x]
    BY <1>1, <1>2, <1>3, <1>4 DEF Put, Pointers
  <1>6. D \in Links
    <2>1. /\ D.first \in Pointers /\ D.last \in Pointers /\ D.next \in Pointers
          /\ D.prev \in Pointers /\ D.parent \in Pointers
      BY <1>1, <1>2, <1>3, <1>4 DEF Put, Pointers
    <2>2. QED
      BY <1>3, <2>1 DEF Links
  <1>7. Closed(D, S)
    <2>1. ASSUME NEW x \in Elements
          PROVE  {D.first[x], D.last[x], D.next[x], D.prev[x], D.parent[x]}
                   \subseteq IF x \in S THEN S \cup {Nil} ELSE {Nil}
      BY <1>1, <1>2, <1>5 DEF Closed
    <2>2. QED
      BY <1>6, <2>1 DEF Closed
  <1>8. Agree(D, S)
    <2> SUFFICES ASSUME NEW x \in S PROVE AgreesAt(D, x)
      BY DEF Agree
    <2>1. AgreesAt(L, x)
      BY <1>1 DEF Agree
    <2>2. x \in Elements /\ x # Nil
      BY <1>1
    <2> DEFINE u == D.prev[x]
               v == D.next[x]
               q == D.parent[x]
    <2>3. v # Nil => D.prev[v] = x /\ D.parent[v] = q
      BY <1>1, <1>2, <1>5, <2>1, <2>2 DEF Agree, AgreesAt, Closed
    <2>4. q # Nil /\ u # Nil => D.next[u] = x /\ D.parent[u] = q
      BY <1>1, <1>2, <1>5, <2>1, <2>2 DEF Agree, AgreesAt, Closed
    <2>5. D.first[x] # Nil => D.parent[D.first[x]] = x /\ D.prev[D.first[x]] = Nil
      BY <1>1, <1>2, <1>5, <2>1, <2>2 DEF Agree, AgreesAt, Closed
    <2>6. D.last[x] # Nil => D.parent[D.last[x]] = x /\ D.next[D.last[x]] = Nil
      BY <1>1, <1>2, <1>5, <2>1, <2>2 DEF Agree, AgreesAt, Closed
    <2>7. q # Nil => q \in S /\ (u = Nil => D.first[q] = x) /\ (v = Nil => D.last[q] = x)
      BY <1>1, <1>2, <1>5, <2>1, <2>2 DEF Agree, AgreesAt, Closed
    <2>8. D.first[x] = Nil <=> D.last[x] = Nil
      BY <1>1, <1>2, <1>5, <2>1, <2>2 DEF Agree, AgreesAt, Closed
    <2>9. QED
      BY <2>3, <2>4, <2>5, <2>6, <2>7, <2>8 DEF AgreesAt
  <1>9. Supports(D, S, keep)
    BY <1>1, <1>2, <1>5 DEF Supports, KeptBy, Agree, AgreesAt, Closed
  <1>10. QED
    BY <1>1, <1>7, <1>8, <1>9 DEF Good, Sound, D

\* before() in any case: pointers go on leading to allocated elements.
LEMMA BeforeSound ==
  ASSUME NEW L, NEW S, NEW keep, Sound(L, S, keep), NEW s \in keep, NEW e \in keep
  PROVE  Sound(PlacedBefore(L, s, e), S, keep)
  <1> DEFINE a == L.prev[s]
             p == L.parent[s]
             D == PlacedBefore(L, s, e)
  <1>0. CASE a = Nil /\ p = Nil
    BY <1>0 DEF PlacedBefore
  <1> SUFFICES ASSUME ~ (a = Nil /\ p = Nil) PROVE Sound(D, S, keep)
    BY <1>0
  <1>1. /\ S \subseteq Elements /\ keep \subseteq S /\ Nil \notin Elements /\ Closed(L, S)
        /\ s \in S /\ e \in S /\ s \in Elements /\ e \in Elements
    BY NilAssumption DEF Sound
  <1>2. a \in S \cup {Nil} /\ p \in S \cup {Nil}
    BY <1>1 DEF Closed
  <1>3. /\ D.first = IF a = Nil THEN [L.first EXCEPT ![p] = e] ELSE L.first
        /\ D.last = L.last
        /\ D.next = [Put(L.next, a, e) EXCEPT ![e] = s]
        /\ D.prev = [L.prev EXCEPT ![e] = a, ![s] = e]
        /\ D.parent = [L.parent EXCEPT ![e] = p]
        /\ D = [first |-> D.first, last |-> D.last, next |-> D.next, prev |-> D.prev,
                parent |-> D.parent]
    BY <1>1, <1>2 DEF PlacedBefore
  <1>4. /\ L.first \in Pointers /\ L.last \in Pointers /\ L.next \in Pointers
        /\ L.prev \in Pointers /\ L.parent \in Pointers
    BY <1>1 DEF Closed, Links
  <1> HIDE DEF D
  <1>5. \A x \in Elements :
          /\ D.first[x] \in {L.first[x], IF x = p THEN e ELSE L.first[x]}
          /\ D.last[x] = L.last[x]
          /\ D.next[x] = IF x = e THEN s ELSE IF x = a THEN e ELSE L.next[x]
          /\ D.prev[x] = IF x = s THEN e ELSE IF x = e THEN a ELSE L.prev[x]
          /\ D.parent[x] = IF x = e THEN p ELSE L.parent[x]
    BY <1>1, <1>2, <1>3, <1>4 DEF Put, Pointers
  <1>6. D \in Links
    <2>1. /\ D.first \in Pointers /\ D.last \in Pointers /\ D.next \in Pointers
          /\ D.prev \in Pointers /\ D.parent \in Pointers
      BY <1>1, <1>2, <1>3, <1>4 DEF Put, Pointers
    <2>2. QED
      BY <1>3, <2>1 DEF Links
  <1>7. ASSUME NEW x \in Elements
        PROVE  {D.first[x], D.last[x], D.next[x], D.prev[x], D.parent[x]}
                 \subseteq IF x \in S THEN S \cup {Nil} ELSE {Nil}
    <2>1. {L.first[x], L.last[x], L.next[x], L.prev[x], L.parent[x]}
            \subseteq IF x \in S THEN S \cup {Nil} ELSE {Nil}
      BY <1>1 DEF Closed
    <2>2. QED
      BY <1>1, <1>2, <1>5, <2>1
  <1>8. QED
    BY <1>1, <1>6, <1>7 DEF Sound, Closed, D

\* e->remove(), which every move starts with.
LEMMA RemovedGood ==
  ASSUME Good(links, live, held), NEW e \in held, ~CallsNull(e)
  PROVE  /\ Good(AfterRemove(e).links, AfterRemove(e).live, held)
         /\ Apart(AfterRemove(e).links, e)
  <1> DEFINE D == Detached(links, e)
             rest == Surviving(D, live, held)
  <1>1. AfterRemove(e).links = Counted(D, rest) /\ AfterRemove(e).live = rest
    BY DEF AfterRemove
  <1>2. Sound(D, live, held) /\ Agree(D, live) /\ Apart(D, e)
    BY DetachedGood DEF CallsNull
  <1> HIDE DEF D
  <1>3. Good(Counted(D, rest), rest, held)
    BY <1>2, CountedGood
  <1>4. Apart(Counted(D, rest), e)
    <2>1. live \subseteq Elements /\ held \subseteq live /\ Closed(D, live) /\ Nil \notin Elements
      BY <1>2, NilAssumption DEF Sound
    <2>2. held \subseteq rest
      BY <2>1, CountedPointers
    <2>3. /\ Counted(D, rest).next[e] = D.next[e]
          /\ Counted(D, rest).prev[e] = IF D.prev[e] \in rest THEN D.prev[e] ELSE Nil
          /\ Counted(D, rest).parent[e] = IF D.parent[e] \in rest THEN D.parent[e] ELSE Nil
      BY <2>1, <2>2, CountedPointers
    <2>4. QED
      BY <1>2, <2>3 DEF Apart
  <1>5. QED
    BY <1>1, <1>3, <1>4

LEMMA CreateGood ==
  ASSUME Good(links, live, held), NEW e \in Elements, e \notin live
  PROVE  /\ Good(links, live \cup {e}, held \cup {e})
         /\ Apart(links, e) /\ links.first[e] = Nil /\ links.last[e] = Nil
  <1> USE NilAssumption DEF Good, Sound
  <1>1. /\ links.first[e] = Nil /\ links.last[e] = Nil /\ links.next[e] = Nil
        /\ links.prev[e] = Nil /\ links.parent[e] = Nil
    BY DEF Closed
  <1>2. Closed(links, live \cup {e})
    BY <1>1 DEF Closed
  <1>3. Agree(links, live \cup {e})
    BY <1>1 DEF Agree, AgreesAt
  <1>4. Supports(links, live \cup {e}, held \cup {e})
    BY DEF Supports
  <1>5. QED
    BY <1>1, <1>2, <1>3, <1>4 DEF Apart

\* A move is an insertion into what remove() leaves: r are the links and the elements.
LEMMA MoveIs ==
  ASSUME NEW s, NEW e, AppendChild(s, e) \/ Before(s, e) \/ After(s, e)
  PROVE  \E r \in {AfterRemove(e)} :
           \/ Commit(Appended(r.links, s, e), r.live, held) /\ fault' = fault
           \/ /\ Commit(PlacedBefore(r.links, s, e), r.live, held)
              /\ fault' = IF Stale(r.links, s) THEN "crossed" ELSE fault
           \/ Commit(PlacedAfter(r.links, s, e), r.live, held) /\ fault' = fault
  BY DEF AppendChild, Before, After

\* Before the links cross, an insertion frees nothing more than remove().
LEMMA MovedGood ==
  ASSUME Good(links, live, held), fault = "none", NEW s, NEW e,
         AppendChild(s, e) \/ Before(s, e) \/ After(s, e)
  PROVE  /\ Sound(links, live, held)' /\ fault' \in {"none", "crossed"}
         /\ fault' = "none" =>
              \E r \in {AfterRemove(e)} :
                /\ Good(links, live, held)' /\ live' = r.live
                /\ \/ links' = Appended(r.links, s, e)
                   \/ links' = PlacedBefore(r.links, s, e) /\ ~Stale(r.links, s)
                   \/ links' = PlacedAfter(r.links, s, e)
  <1> DEFINE r == AfterRemove(e)
  <1>1. s \in held /\ e \in held /\ s # e /\ ~CallsNull(e)
    BY DEF AppendChild, Before, After, Movable
  <1>2. Good(r.links, r.live, held) /\ Apart(r.links, e)
    BY <1>1, RemovedGood
  <1>3. \/ Commit(Appended(r.links, s, e), r.live, held) /\ fault' = fault
        \/ /\ Commit(PlacedBefore(r.links, s, e), r.live, held)
           /\ fault' = IF Stale(r.links, s) THEN "crossed" ELSE fault
        \/ Commit(PlacedAfter(r.links, s, e), r.live, held) /\ fault' = fault
    BY MoveIs
  <1> HIDE DEF r
  <1> DEFINE N(L) == Good(L, r.live, held)
             Done(L) == live' = r.live /\ links' = L /\ Good(links, live, held)'
  <1>4. ASSUME NEW L, Good(L, r.live, held), Commit(L, r.live, held)
        PROVE  Done(L) /\ Sound(links, live, held)'
    <2>1. live' = r.live /\ links' = L /\ held' = held
      BY <1>4, CommitAll
    <2>2. QED
      BY <1>4, <2>1 DEF Good
  <1>5. CASE Commit(Appended(r.links, s, e), r.live, held) /\ fault' = fault
    <2>1. Good(Appended(r.links, s, e), r.live, held)
      BY <1>1, <1>2, AppendedGood
    <2>2. QED
      BY <1>4, <1>5, <2>1 DEF r
  <1>6. CASE Commit(PlacedAfter(r.links, s, e), r.live, held) /\ fault' = fault
    <2>1. Good(PlacedAfter(r.links, s, e), r.live, held)
      BY <1>1, <1>2, AfterGood
    <2>2. QED
      BY <1>4, <1>6, <2>1 DEF r
  <1>7. CASE /\ Commit(PlacedBefore(r.links, s, e), r.live, held)
             /\ fault' = IF Stale(r.links, s) THEN "crossed" ELSE fault
    <2>1. CASE Stale(r.links, s)
      <3>1. Sound(PlacedBefore(r.links, s, e), r.live, held)
        BY <1>1, <1>2, BeforeSound DEF Good
      <3>2. Sound(links, live, held)'
        BY <1>7, <3>1, CommitSound
      <3>3. QED
        BY <1>7, <2>1, <3>2
    <2>2. CASE ~Stale(r.links, s)
      <3>1. Good(PlacedBefore(r.links, s, e), r.live, held)
        BY <1>1, <1>2, <2>2, BeforeGood
      <3>2. QED
        BY <1>4, <1>7, <2>2, <3>1 DEF r
    <2>3. QED
      BY <2>1, <2>2
  <1>8. QED
    BY <1>3, <1>5, <1>6, <1>7

LEMMA InvStep ==
  ASSUME Inv, [Next]_vars
  PROVE  Inv'
  <1>1. CASE UNCHANGED vars
    BY <1>1 DEF vars, Inv
  <1>2. ASSUME Next PROVE Good(links, live, held) /\ fault = "none"
    BY <1>2 DEF Inv, Next
  <1> DEFINE J == Good(links, live, held) /\ fault = "none"
  <1>3. ASSUME J, NEW e \in Elements, Create(e) PROVE Inv'
    <2>1. Good(links, live \cup {e}, held \cup {e}) /\ Commit(links, live \cup {e}, held \cup {e})
      BY <1>3, CreateGood DEF Create
    <2>2. Good(links, live, held)'
      BY <2>1, CommitGood DEF Good
    <2>3. QED
      BY <1>3, <2>2 DEF Inv, Good, Create
  <1>4. ASSUME J, NEW e \in Elements, Remove(e) PROVE Inv'
    <2>1. /\ Sound(Detached(links, e), live, held) /\ Agree(Detached(links, e), live)
          /\ Commit(Detached(links, e), live, held)
      BY <1>4, DetachedGood DEF Remove, CallsNull
    <2>2. Good(links, live, held)'
      BY <2>1, CommitGood
    <2>3. QED
      BY <1>4, <2>2 DEF Inv, Good, Remove
  <1>5. ASSUME J, NEW s \in Elements, NEW e \in Elements,
               AppendChild(s, e) \/ Before(s, e) \/ After(s, e)
        PROVE  Inv'
    BY <1>5, MovedGood DEF Inv
  <1>6. ASSUME J, NEW e \in Elements, Hold(e) PROVE Inv'
    <2>1. Good(links, live, held \cup {e})
      BY <1>6 DEF Hold, Good, Sound, Supports
    <2>2. QED
      BY <1>6, <2>1 DEF Hold, Inv, Good
  <1>7. ASSUME J, NEW e \in Elements, Release(e) PROVE Inv'
    <2>1. Sound(links, live, held \ {e}) /\ Agree(links, live) /\ Commit(links, live, held \ {e})
      BY <1>7 DEF Good, Sound, Release
    <2>2. Good(links, live, held)'
      BY <2>1, CommitGood
    <2>3. QED
      BY <1>7, <2>2 DEF Inv, Good, Release
  <1>8. ASSUME J, NEW e \in Elements, Crash(e) PROVE Inv'
    BY <1>8 DEF Crash, Inv, Good
  <1>9. QED
    BY <1>1, <1>2, <1>3, <1>4, <1>5, <1>6, <1>7, <1>8 DEF Next

\* Whatever is appended, moved, removed and dropped, pointers are typed and those of
\* an allocated element lead to allocated elements.
THEOREM PointersValid == Spec => []TypeOK
  BY InvStart, InvStep, InvIsAgreement, PTL DEF Spec

\* Whatever is appended, moved, removed and dropped, the five pointers of neighbours
\* agree, as remove() and the walks over children take for granted, until an operation
\* on an element that lost its parent crashes or crosses links.
THEOREM NeighboursAgree == Spec => []LinksAgree
  BY InvStart, InvStep, InvIsAgreement, PTL DEF Spec

-----------------------------------------------------------------------------
(***************************************************************************)
(* No element is its own descendant or its own next sibling, however far.  *)
(***************************************************************************)

\* a is the parent of m or has it as its next sibling.
Leads(L, a, m) == L.parent[m] = a \/ L.next[a] = m

\* Every set of elements has one that no other of the set leads to.
Grounded(L, S) == \A U \in SUBSET S : U # {} => \E m \in U : \A a \in U : ~Leads(L, a, m)

GroundedInv == Inv /\ (fault = "none" => Grounded(links, live))

\* Strong pointers lead away from the parent and from the previous sibling.
LEMMA KeepersLead ==
  ASSUME NEW L, NEW S, S \subseteq Elements, Agree(L, S), Closed(L, S),
         NEW a \in S, NEW e \in S, e \in KeptBy(L, a)
  PROVE  Leads(L, a, e)
  BY NilAssumption DEF Agree, AgreesAt, Closed, KeptBy, Leads

LEMMA GroundedReached == GroundedInv => NoLeak
  <1> SUFFICES ASSUME GroundedInv, fault = "none", NEW x \in live, x \notin Reached PROVE FALSE
    BY DEF NoLeak
  <1>1. /\ live \subseteq Elements /\ held \subseteq live /\ Nil \notin Elements
        /\ Closed(links, live) /\ Agree(links, live) /\ Supports(links, live, held)
        /\ Grounded(links, live)
    BY NilAssumption DEF GroundedInv, Inv, Good, Sound
  <1>2. PICK T \in SUBSET Elements :
          /\ held \subseteq T /\ \A y \in T : KeptBy(links, y) \subseteq T \cup {Nil}
          /\ x \notin T
    BY <1>1 DEF Reached
  <1> DEFINE U == live \ T
  <1>3. PICK m \in U : \A a \in U : ~Leads(links, a, m)
    BY <1>1, <1>2 DEF Grounded
  <1>4. PICK a \in live : m \in KeptBy(links, a)
    BY <1>1, <1>2, <1>3 DEF Supports
  <1>5. a \notin U
    BY <1>1, <1>3, <1>4, KeepersLead
  <1>6. a \in T /\ m \in live /\ m # Nil
    BY <1>1, <1>3, <1>5
  <1>7. QED
    BY <1>2, <1>3, <1>4, <1>6

\* What survives is as grounded as what there was.
LEMMA CountedGrounded ==
  ASSUME NEW L, NEW S, NEW keep, Sound(L, S, keep), Grounded(L, S)
  PROVE  Grounded(Counted(L, Surviving(L, S, keep)), Surviving(L, S, keep))
  <1> DEFINE rest == Surviving(L, S, keep)
             C == Counted(L, rest)
  <1>1. /\ S \subseteq Elements /\ keep \subseteq S /\ Closed(L, S) /\ Nil \notin Elements
    BY NilAssumption DEF Sound
  <1>2. /\ rest \subseteq S
        /\ \A e \in rest : /\ C.next[e] = L.next[e]
                           /\ C.parent[e] = IF L.parent[e] \in rest THEN L.parent[e] ELSE Nil
    BY <1>1, CountedPointers
  <1> HIDE DEF rest, C
  <1>3. \A a, m \in rest : Leads(C, a, m) => Leads(L, a, m)
    BY <1>1, <1>2 DEF Leads
  <1>4. Grounded(C, rest)
    BY <1>2, <1>3 DEF Grounded
  <1>5. QED
    BY <1>4 DEF rest, C

LEMMA DetachedGrounded ==
  ASSUME NEW L, NEW S, NEW keep, Good(L, S, keep), NEW e \in keep,
         L.prev[e] # Nil => L.parent[e] # Nil, Grounded(L, S)
  PROVE  Grounded(Detached(L, e), S)
  <1> DEFINE a == L.prev[e]
             b == L.next[e]
             D == Detached(L, e)
  <1>1. /\ S \subseteq Elements /\ e \in S /\ e \in Elements /\ Closed(L, S) /\ Agree(L, S)
        /\ Nil \notin Elements /\ L.next \in Pointers /\ L.parent \in Pointers
    BY NilAssumption DEF Good, Sound, Closed, Links
  <1>2. Sound(D, S, keep) /\ Agree(D, S) /\ Apart(D, e)
    BY DetachedGood
  <1>3. /\ a \in S \cup {Nil} /\ (a # Nil => L.next[a] = e)
    BY <1>1 DEF Closed, Agree, AgreesAt
  <1>4. /\ D.parent = [L.parent EXCEPT ![e] = Nil]
        /\ D.next = [Put(L.next, a, b) EXCEPT ![e] = Nil]
    BY DEF Detached
  <1> HIDE DEF D
  <1>5. \A x \in S : /\ D.parent[x] = IF x = e THEN Nil ELSE L.parent[x]
                     /\ D.next[x] = IF x = e THEN Nil ELSE IF x = a THEN b ELSE L.next[x]
    BY <1>1, <1>3, <1>4 DEF Put, Pointers
  <1>6. \A c \in S : ~Leads(D, c, e)
    BY <1>1, <1>2 DEF Leads, Apart, Agree, AgreesAt
  <1>7. \A c, m \in S : Leads(D, c, m) => Leads(L, c, m) \/ (c = a /\ m = b)
    BY <1>1, <1>5 DEF Leads
  <1>8. ASSUME NEW U \in SUBSET S, U # {}
        PROVE  \E m \in U : \A c \in U : ~Leads(D, c, m)
    <2>1. CASE e \in U
      BY <1>6, <2>1
    <2>2. CASE e \notin U /\ ~ {a, b} \subseteq U
      <3>1. PICK m \in U : \A c \in U : ~Leads(L, c, m)
        BY <1>8 DEF Grounded
      <3>2. QED
        BY <1>7, <2>2, <3>1
    <2>3. CASE e \notin U /\ {a, b} \subseteq U
      <3>1. PICK m \in U \cup {e} : \A c \in U \cup {e} : ~Leads(L, c, m)
        BY <1>1 DEF Grounded
      <3>2. Leads(L, a, e) /\ Leads(L, e, b)
        BY <1>1, <1>3, <2>3 DEF Leads
      <3>3. m # e /\ m # b
        BY <2>3, <3>1, <3>2
      <3>4. QED
        BY <1>7, <3>1, <3>3
    <2>4. QED
      BY <2>1, <2>2, <2>3
  <1>9. QED
    BY <1>8 DEF Grounded, D

\* The ancestors of s, their children and the elements without a parent, which are all
\* that leads to s or to a child of s: e is not one of them.
LEMMA Family ==
  ASSUME NEW L, NEW S, NEW keep, Good(L, S, keep), NEW s \in S, NEW e \in S, Apart(L, e),
         e \notin Above(L, s)
  PROVE  \E K \in SUBSET S :
           /\ s \in K /\ e \notin K
           /\ \A x \in S : L.parent[x] = s => x \in K \/ x = e
           /\ \A x \in K : \A a \in S : Leads(L, a, x) => a \in K
  <1>1. /\ S \subseteq Elements /\ Closed(L, S) /\ Agree(L, S) /\ Nil \notin Elements
        /\ L.next[e] = Nil
    BY NilAssumption DEF Good, Sound, Apart
  <1>2. PICK T \in SUBSET Elements :
          s \in T /\ (\A y \in T : L.parent[y] \in T \cup {Nil}) /\ e \notin T
    BY <1>1 DEF Above
  <1> DEFINE K == {x \in S \ {e} : x \in T \/ L.parent[x] \in T \cup {Nil}}
  <1>3. ASSUME NEW x \in K, NEW a \in S, Leads(L, a, x)
        PROVE  a \in K
    <2>1. L.parent[x] \in T \cup {Nil} /\ x # Nil
      BY <1>1, <1>2
    <2>2. CASE L.parent[x] = a
      BY <1>1, <1>2, <2>1, <2>2
    <2>3. CASE L.next[a] = x
      <3>1. L.parent[a] = L.parent[x]
        BY <2>1, <2>3, <1>1 DEF Agree, AgreesAt
      <3>2. a # e
        BY <1>1, <2>1, <2>3
      <3>3. QED
        BY <2>1, <3>1, <3>2
    <2>4. QED
      BY <1>3, <2>2, <2>3 DEF Leads
  <1>4. /\ s \in K /\ e \notin K /\ K \subseteq S
        /\ \A x \in S : L.parent[x] = s => x \in K \/ x = e
    BY <1>2
  <1> HIDE DEF K
  <1>5. QED
    BY <1>3, <1>4

\* When parents are only lost, nothing more is above s.
LEMMA AboveLess ==
  ASSUME NEW L, NEW D, \A y \in Elements : D.parent[y] \in {L.parent[y], Nil},
         NEW s, NEW e \in Elements, e \notin Above(L, s)
  PROVE  e \notin Above(D, s)
  <1>1. PICK T \in SUBSET Elements :
          s \in T /\ (\A y \in T : L.parent[y] \in T \cup {Nil}) /\ e \notin T
    BY DEF Above
  <1>2. \A y \in T : D.parent[y] \in T \cup {Nil}
    BY <1>1
  <1>3. QED
    BY <1>1, <1>2 DEF Above

\* Only e has new elements that lead to it, in K, which nothing else leads to; who
\* comes after e came after them.
LEMMA PlacedGrounded ==
  ASSUME NEW L, NEW D, NEW S, Grounded(L, S), NEW e \in S, NEW K \in SUBSET S, e \notin K,
         \A x \in K : \A a \in S : Leads(L, a, x) => a \in K,
         \A a \in S : Leads(D, a, e) => a \in K,
         \A x \in S \ {e} : \A a \in S : Leads(D, a, x) =>
           Leads(L, a, x) \/ (a = e /\ \A c \in S : Leads(D, c, e) => Leads(L, c, x))
  PROVE  Grounded(D, S)
  <1>1. ASSUME NEW U \in SUBSET S, U # {}
        PROVE  \E m \in U : \A a \in U : ~Leads(D, a, m)
    <2>1. CASE e \notin U
      <3>1. PICK m \in U : \A a \in U : ~Leads(L, a, m)
        BY <1>1 DEF Grounded
      <3>2. QED
        BY <2>1, <3>1
    <2>2. CASE e \in U /\ \A a \in U : ~Leads(D, a, e)
      BY <2>2
    <2>3. ASSUME e \in U, NEW c \in U, Leads(D, c, e)
          PROVE  \E m \in U : \A a \in U : ~Leads(D, a, m)
      <3>1. U \cap K # {}
        BY <2>3
      <3>2. PICK m \in U \cap K : \A a \in U \cap K : ~Leads(L, a, m)
        BY <3>1 DEF Grounded
      <3>3. \A a \in U : ~Leads(L, a, m)
        BY <3>2
      <3>4. m \in S \ {e}
        BY <3>2
      <3>5. QED
        BY <2>3, <3>2, <3>3, <3>4
    <2>4. QED
      BY <2>1, <2>2, <2>3
  <1>2. QED
    BY <1>1 DEF Grounded

\* append(), before() and after() of an element that has no place, next to s or
\* below s, which is not below it.
LEMMA MovedGrounded ==
  ASSUME NEW L, NEW S, NEW keep, Good(L, S, keep), Grounded(L, S),
         NEW s \in keep, NEW e \in keep, s # e, Apart(L, e), e \notin Above(L, s)
  PROVE  /\ Grounded(Appended(L, s, e), S)
         /\ ~Stale(L, s) => Grounded(PlacedBefore(L, s, e), S)
         /\ Grounded(PlacedAfter(L, s, e), S)
  <1>1. /\ S \subseteq Elements /\ keep \subseteq S /\ s \in S /\ e \in S
        /\ Closed(L, S) /\ Agree(L, S) /\ Nil \notin Elements
        /\ L.next \in Pointers /\ L.parent \in Pointers
    BY NilAssumption DEF Good, Sound, Closed, Links
  <1>2. /\ L.parent[e] = Nil /\ L.next[e] = Nil /\ \A x \in S : L.next[x] # e
        /\ L.last[s] \in S \cup {Nil} /\ L.prev[s] \in S \cup {Nil}
        /\ L.next[s] \in S \cup {Nil} /\ L.parent[s] \in S \cup {Nil}
        /\ L.last[s] # Nil => L.parent[L.last[s]] = s
        /\ L.next[s] # Nil => L.parent[L.next[s]] = L.parent[s]
    <2>1. \A x \in S : AgreesAt(L, x)
      BY <1>1 DEF Agree
    <2>2. AgreesAt(L, s) /\ L.parent[e] = Nil /\ L.next[e] = Nil /\ L.prev[e] = Nil
      BY <1>1, <2>1 DEF Apart
    <2>3. \A x \in S : L.next[x] # e
      BY <1>1, <2>1, <2>2 DEF AgreesAt
    <2>4. /\ L.last[s] \in S \cup {Nil} /\ L.prev[s] \in S \cup {Nil}
          /\ L.next[s] \in S \cup {Nil} /\ L.parent[s] \in S \cup {Nil}
      BY <1>1 DEF Closed
    <2>5. QED
      BY <2>2, <2>3, <2>4 DEF AgreesAt
  <1>3. PICK K \in SUBSET S :
           /\ s \in K /\ e \notin K
           /\ \A x \in S : L.parent[x] = s => x \in K \/ x = e
           /\ \A x \in K : \A a \in S : Leads(L, a, x) => a \in K
    BY <1>1, Family
  <1>4. Grounded(Appended(L, s, e), S)
    <2> DEFINE D == Appended(L, s, e)
               z == L.last[s]
    <2>1. D.next = Put(L.next, z, e) /\ D.parent = [L.parent EXCEPT ![e] = s]
      BY DEF Appended
    <2> HIDE DEF D
    <2>2. \A x \in S : /\ D.parent[x] = IF x = e THEN s ELSE L.parent[x]
                       /\ D.next[x] = IF x = z THEN e ELSE L.next[x]
      BY <1>1, <1>2, <2>1 DEF Pointers, Put
    <2>3. \A a \in S : Leads(D, a, e) => a \in K
      <3>1. z # Nil => z \in K
        BY <1>1, <1>2, <1>3
      <3>2. QED
        BY <1>1, <1>2, <1>3, <2>2, <3>1 DEF Leads
    <2>4. \A x \in S \ {e} : \A a \in S : Leads(D, a, x) => Leads(L, a, x)
      BY <2>2 DEF Leads
    <2>5. QED
      BY <1>1, <1>3, <2>3, <2>4, PlacedGrounded DEF D
  <1>5. ASSUME ~Stale(L, s) PROVE Grounded(PlacedBefore(L, s, e), S)
    <2> DEFINE a == L.prev[s]
               p == L.parent[s]
    <2>1. CASE a = Nil /\ p = Nil
      BY <2>1 DEF PlacedBefore
    <2>2. CASE ~ (a = Nil /\ p = Nil)
      <3> DEFINE D == PlacedBefore(L, s, e)
      <3>1. /\ D.next = [Put(L.next, a, e) EXCEPT ![e] = s]
            /\ D.parent = [L.parent EXCEPT ![e] = p]
        BY <2>2 DEF PlacedBefore
      <3> HIDE DEF D
      <3>2. \A x \in S : /\ D.parent[x] = IF x = e THEN p ELSE L.parent[x]
                         /\ D.next[x] = IF x = e THEN s ELSE IF x = a THEN e ELSE L.next[x]
        BY <1>1, <1>2, <3>1 DEF Pointers, Put
      <3>3. a # Nil => L.next[a] = s
        BY <1>5 DEF Stale
      <3>4. \A c \in S : Leads(D, c, e) => Leads(L, c, s)
        BY <1>1, <1>2, <3>2, <3>3 DEF Leads
      <3>5. \A c \in S : Leads(D, c, e) => c \in K
        BY <1>3, <3>4
      <3>6. \A x \in S \ {e} : \A c \in S : Leads(D, c, x) => Leads(L, c, x) \/ (c = e /\ x = s)
        BY <3>2 DEF Leads
      <3>7. \A x \in S \ {e} : \A c \in S : Leads(D, c, x) =>
              Leads(L, c, x) \/ (c = e /\ \A d \in S : Leads(D, d, e) => Leads(L, d, x))
        BY <3>4, <3>6
      <3>8. QED
        BY <1>1, <1>3, <3>5, <3>7, PlacedGrounded DEF D
    <2>3. QED
      BY <2>1, <2>2
  <1>6. Grounded(PlacedAfter(L, s, e), S)
    <2> DEFINE b == L.next[s]
               p == L.parent[s]
    <2>1. CASE b = Nil /\ p = Nil
      BY <2>1 DEF PlacedAfter
    <2>2. CASE ~ (b = Nil /\ p = Nil)
      <3> DEFINE D == PlacedAfter(L, s, e)
      <3>1. /\ D.next = [L.next EXCEPT ![e] = b, ![s] = e]
            /\ D.parent = [L.parent EXCEPT ![e] = p]
        BY <2>2 DEF PlacedAfter
      <3> HIDE DEF D
      <3>2. \A x \in S : /\ D.parent[x] = IF x = e THEN p ELSE L.parent[x]
                         /\ D.next[x] = IF x = s THEN e ELSE IF x = e THEN b ELSE L.next[x]
        BY <1>1, <1>2, <3>1 DEF Pointers
      <3>3. \A c \in S : Leads(D, c, e) => c = s \/ c = p
        BY <1>1, <1>2, <3>2 DEF Leads
      <3>4. p # Nil => p \in K
        BY <1>1, <1>2, <1>3 DEF Leads
      <3>5. \A c \in S : Leads(D, c, e) => c \in K
        BY <1>1, <1>3, <3>3, <3>4
      <3>6. \A x \in S \ {e} : \A c \in S : Leads(D, c, x) => Leads(L, c, x) \/ (c = e /\ x = b)
        BY <3>2 DEF Leads
      <3>7. b \in S => Leads(L, s, b) /\ (p \in S => Leads(L, p, b))
        BY <1>1, <1>2 DEF Leads
      <3>8. \A x \in S \ {e} : \A c \in S : Leads(D, c, x) =>
              Leads(L, c, x) \/ (c = e /\ \A d \in S : Leads(D, d, e) => Leads(L, d, x))
        BY <3>3, <3>6, <3>7
      <3>9. QED
        BY <1>1, <1>3, <3>5, <3>8, PlacedGrounded DEF D
    <2>3. QED
      BY <2>1, <2>2
  <1>7. QED
    BY <1>4, <1>5, <1>6

\* remove() gives nobody another parent.
LEMMA RemovedParents ==
  ASSUME Good(links, live, held), NEW e \in held, ~CallsNull(e), NEW y \in Elements
  PROVE  AfterRemove(e).links.parent[y] \in {links.parent[y], Nil}
  <1> DEFINE D == Detached(links, e)
             rest == Surviving(D, live, held)
             C == Counted(D, rest)
  <1>1. AfterRemove(e).links = C
    BY DEF AfterRemove
  <1>2. /\ live \subseteq Elements /\ held \subseteq live /\ e \in Elements /\ Closed(D, live)
    BY DetachedGood DEF CallsNull, Good, Sound
  <1>3. D.parent = [links.parent EXCEPT ![e] = Nil] /\ links.parent \in Pointers
    BY DEF Detached, Good, Sound, Closed, Links
  <1> HIDE DEF D
  <1>4. D.parent[y] \in {links.parent[y], Nil}
    BY <1>2, <1>3 DEF Pointers
  <1>5. C.parent[y] \in {D.parent[y], Nil}
    <2>1. /\ \A x \in rest : C.parent[x] = IF D.parent[x] \in rest THEN D.parent[x] ELSE Nil
          /\ \A x \in Elements \ rest : C.parent[x] = Nil
      BY <1>2, CountedPointers
    <2> HIDE DEF C, rest
    <2>2. QED
      BY <2>1
  <1> HIDE DEF C
  <1>6. QED
    BY <1>1, <1>4, <1>5

\* What remove() leaves is grounded, and e is above nothing that it was not above.
LEMMA RemovedGrounded ==
  ASSUME Good(links, live, held), Grounded(links, live), NEW e \in held, ~CallsNull(e)
  PROVE  /\ Grounded(AfterRemove(e).links, AfterRemove(e).live)
         /\ \A s : e \notin Above(links, s) => e \notin Above(AfterRemove(e).links, s)
  <1> DEFINE D == Detached(links, e)
             rest == Surviving(D, live, held)
             C == Counted(D, rest)
  <1>1. AfterRemove(e).links = C /\ AfterRemove(e).live = rest
    BY DEF AfterRemove
  <1>2. Sound(D, live, held) /\ Grounded(D, live) /\ e \in Elements
    BY DetachedGood, DetachedGrounded DEF CallsNull, Good, Sound
  <1> HIDE DEF D
  <1>3. Grounded(C, rest)
    BY <1>2, CountedGrounded
  <1>4. \A y \in Elements : AfterRemove(e).links.parent[y] \in {links.parent[y], Nil}
    BY RemovedParents
  <1> HIDE DEF C, rest
  <1>5. \A s : e \notin Above(links, s) => e \notin Above(AfterRemove(e).links, s)
    BY <1>2, <1>4, AboveLess
  <1>6. QED
    BY <1>1, <1>3, <1>5

LEMMA GroundedStep ==
  ASSUME GroundedInv, [Next]_vars
  PROVE  GroundedInv'
  <1>1. Inv'
    BY InvStep DEF GroundedInv
  <1> SUFFICES ASSUME fault' = "none" PROVE Grounded(links, live)'
    BY <1>1 DEF GroundedInv
  <1>2. CASE UNCHANGED vars
    BY <1>2 DEF vars, Grounded, Leads, GroundedInv
  <1> DEFINE J == Good(links, live, held) /\ fault = "none" /\ Grounded(links, live)
  <1>3. ASSUME Next PROVE J
    BY <1>3 DEF Next, Inv, GroundedInv
  <1>4. ASSUME J, NEW e \in Elements, Create(e) PROVE Grounded(links, live)'
    <2>1. /\ Good(links, live \cup {e}, held \cup {e}) /\ Apart(links, e)
          /\ live \subseteq Elements /\ Nil \notin Elements
      BY <1>4, CreateGood, NilAssumption DEF Create, Good, Sound
    <2>2. \A x \in live : ~Leads(links, x, e) /\ ~Leads(links, e, x)
      BY <1>4, <2>1 DEF Create, Good, Sound, Closed, Apart, Leads
    <2>3. ~Leads(links, e, e)
      BY <2>1 DEF Apart, Leads
    <2>4. ASSUME NEW U \in SUBSET (live \cup {e}), U # {}
          PROVE  \E m \in U : \A a \in U : ~Leads(links, a, m)
      <3>1. CASE U \subseteq {e}
        BY <2>3, <2>4, <3>1
      <3>2. CASE ~ (U \subseteq {e})
        <4>1. PICK m \in U \ {e} : \A a \in U \ {e} : ~Leads(links, a, m)
          BY <1>4, <2>4, <3>2 DEF Grounded
        <4>2. QED
          BY <2>2, <2>4, <4>1
      <3>3. QED
        BY <3>1, <3>2
    <2>5. Grounded(links, live \cup {e})
      BY <2>4 DEF Grounded
    <2>6. QED
      BY <1>4, <2>1, <2>5, CountedGrounded DEF Create, Commit, Good
  <1>5. ASSUME J, NEW e \in Elements, Remove(e) PROVE Grounded(links, live)'
    <2>1. Sound(Detached(links, e), live, held) /\ Grounded(Detached(links, e), live)
      BY <1>5, DetachedGood, DetachedGrounded DEF Remove, CallsNull
    <2>2. QED
      BY <1>5, <2>1, CountedGrounded DEF Remove, Commit
  <1>6. ASSUME J, NEW s \in Elements, NEW e \in Elements,
               AppendChild(s, e) \/ Before(s, e) \/ After(s, e)
        PROVE  Grounded(links, live)'
    <2> DEFINE r == AfterRemove(e)
    <2>1. s \in held /\ e \in held /\ s # e /\ ~CallsNull(e) /\ e \notin Above(links, s)
      BY <1>6 DEF AppendChild, Before, After, Movable
    <2>2. /\ Good(r.links, r.live, held) /\ Apart(r.links, e) /\ Grounded(r.links, r.live)
          /\ e \notin Above(r.links, s)
      BY <1>6, <2>1, RemovedGood, RemovedGrounded
    <2>3. /\ live' = r.live
          /\ \/ links' = Appended(r.links, s, e)
             \/ links' = PlacedBefore(r.links, s, e) /\ ~Stale(r.links, s)
             \/ links' = PlacedAfter(r.links, s, e)
      BY <1>6, MovedGood
    <2> HIDE DEF r
    <2>4. /\ Grounded(Appended(r.links, s, e), r.live)
          /\ ~Stale(r.links, s) => Grounded(PlacedBefore(r.links, s, e), r.live)
          /\ Grounded(PlacedAfter(r.links, s, e), r.live)
      BY <2>1, <2>2, MovedGrounded
    <2>5. QED
      BY <2>3, <2>4
  <1>7. ASSUME J, NEW e \in Elements, Hold(e) PROVE Grounded(links, live)'
    BY <1>7 DEF Hold, Grounded, Leads
  <1>8. ASSUME J, NEW e \in Elements, Release(e) PROVE Grounded(links, live)'
    <2>1. Sound(links, live, held \ {e})
      BY <1>8 DEF Good, Sound
    <2>2. QED
      BY <1>8, <2>1, CountedGrounded DEF Release, Commit
  <1>9. ASSUME NEW e \in Elements, Crash(e) PROVE FALSE
    BY <1>9 DEF Crash
  <1>10. QED
    BY <1>2, <1>3, <1>4, <1>5, <1>6, <1>7, <1>8, <1>9 DEF Next

\* The Strong pointers of a tree never keep it alive by themselves: what nobody can
\* reach from outside is freed, whatever is appended, moved, removed and dropped, until
\* links of elements that lost their parent are crossed.
THEOREM NothingLeaks == Spec => []NoLeak
  <1>1. Init => GroundedInv
    BY InvStart DEF GroundedInv, Grounded, Init
  <1>2. QED
    BY <1>1, GroundedStep, GroundedReached, PTL DEF Spec

-----------------------------------------------------------------------------
(***************************************************************************)
(* The five pointers implement an ordered forest.                          *)
(***************************************************************************)

\* s is the children of p, in order: each once, along the next siblings of the first.
Chain(L, S, p, s) ==
  /\ s \in Seq(S)
  /\ \A i, j \in 1 .. Len(s) : s[i] = s[j] => i = j
  /\ \A c \in S : L.parent[c] = p <=> \E i \in 1 .. Len(s) : s[i] = c
  /\ \A i \in 1 .. Len(s) : L.next[s[i]] = IF i = Len(s) THEN Nil ELSE s[i + 1]
  /\ L.first[p] = IF s = <<>> THEN Nil ELSE s[1]

Chained(L, S) == \A p \in Elements : \E s : Chain(L, S, p, s)

LEMMA UpTo ==
  ASSUME NEW n \in Nat
  PROVE  Cardinality(1 .. n) = n
  <1>1. Cardinality(1 .. n) = IF 1 > n THEN 0 ELSE n - 1 + 1
    BY FS_Interval
  <1>2. QED
    BY <1>1

LEMMA ChainFits ==
  ASSUME NEW s \in Seq(Elements), \A i, j \in 1 .. Len(s) : s[i] = s[j] => i = j
  PROVE  Len(s) <= Cardinality(Elements)
  <1>1. Len(s) \in Nat /\ DOMAIN s = 1 .. Len(s) /\ s = [i \in 1 .. Len(s) |-> s[i]]
    OBVIOUS
  <1>2. s \in Injection(1 .. Len(s), Elements)
    BY <1>1 DEF Injection, IsInjective
  <1>3. Cardinality(1 .. Len(s)) = Len(s)
    BY <1>1, UpTo
  <1>4. QED
    BY <1>2, <1>3, FS_Injection, NilAssumption

LEMMA Least ==
  ASSUME NEW S \in SUBSET Nat, S # {}
  PROVE  \E n \in S : \A m \in S : n <= m
  <1>1. PICK n \in S : \A m \in S : <<m, n>> \notin OpToRel(<, Nat)
    BY NatLessThanWellFounded, WFMin, Zenon
  <1>2. \A m \in S : ~ (m < n)
    BY <1>1, Zenon DEF OpToRel
  <1>3. QED
    BY <1>2

\* Children() walks along the chain.
LEMMA ChildrenAre ==
  ASSUME NEW L, NEW S \in SUBSET Elements, NEW p, NEW s, Chain(L, S, p, s)
  PROVE  Children(L, p) = s
  <1> DEFINE N == Cardinality(Elements)
             M == Len(s)
             Walks(f) == f = [n \in 1 .. N |->
                           IF n = 1 THEN L.first[p]
                           ELSE IF f[n - 1] = Nil THEN Nil ELSE L.next[f[n - 1]]]
             kid == CHOOSE f : Walks(f)
             k == [n \in 1 .. N |-> IF n <= M THEN s[n] ELSE Nil]
             size(f) == Cardinality({n \in 1 .. N : f[n] # Nil})
  <1>1. /\ s \in Seq(Elements) /\ M \in Nat /\ N \in Nat /\ M <= N /\ Nil \notin Elements
        /\ DOMAIN s = 1 .. M /\ \A i \in 1 .. M : s[i] \in Elements
        /\ (s = <<>> <=> M = 0) /\ s = [i \in 1 .. M |-> s[i]]
    BY ChainFits, FS_CardinalityType, NilAssumption DEF Chain
  <1>2. /\ \A i \in 1 .. M : L.next[s[i]] = IF i = M THEN Nil ELSE s[i + 1]
        /\ L.first[p] = IF s = <<>> THEN Nil ELSE s[1]
    BY DEF Chain
  <1>3. Children(L, p) = [n \in 1 .. size(kid) |-> kid[n]]
    BY DEF Children
  <1> HIDE DEF N, M
  <1>4. Walks(k)
    <2>1. ASSUME NEW n \in 1 .. N
          PROVE  k[n] = IF n = 1 THEN L.first[p]
                        ELSE IF k[n - 1] = Nil THEN Nil ELSE L.next[k[n - 1]]
      <3>1. CASE n = 1
        BY <1>1, <1>2, <3>1
      <3>2. CASE n # 1
        <4>1. n - 1 \in 1 .. N /\ (n - 1) + 1 = n
          BY <1>1, <3>2
        <4>2. CASE n - 1 <= M
          <5>1. n - 1 \in 1 .. M /\ k[n - 1] = s[n - 1] /\ s[n - 1] # Nil
            BY <1>1, <4>1, <4>2
          <5>2. L.next[s[n - 1]] = IF n - 1 = M THEN Nil ELSE s[n]
            BY <1>2, <4>1, <5>1
          <5>3. n - 1 = M <=> ~ (n <= M)
            BY <1>1, <4>2
          <5>4. QED
            BY <3>2, <5>1, <5>2, <5>3
        <4>3. CASE ~ (n - 1 <= M)
          BY <1>1, <3>2, <4>1, <4>3
        <4>4. QED
          BY <4>2, <4>3
      <3>3. QED
        BY <3>1, <3>2
    <2>2. QED
      BY <2>1
  <1>5. ASSUME NEW f, Walks(f) PROVE f = k
    <2>1. DOMAIN f = 1 .. N /\ f = [n \in 1 .. N |-> f[n]]
      BY <1>5
    <2>2. \A n \in 1 .. N : f[n] = IF n = 1 THEN L.first[p]
                                   ELSE IF f[n - 1] = Nil THEN Nil ELSE L.next[f[n - 1]]
      BY <1>5
    <2>3. \A n \in 1 .. N : k[n] = IF n = 1 THEN L.first[p]
                                   ELSE IF k[n - 1] = Nil THEN Nil ELSE L.next[k[n - 1]]
      BY <1>4
    <2> HIDE DEF k
    <2> DEFINE Bad == {n \in 1 .. N : f[n] # k[n]}
    <2>4. ASSUME Bad # {} PROVE FALSE
      <3>1. PICK n \in Bad : \A m \in Bad : n <= m
        <4>1. Bad \in SUBSET Nat
          BY <1>1
        <4> HIDE DEF Bad
        <4>2. QED
          BY <2>4, <4>1, Least
      <3>2. n \in 1 .. N /\ f[n] # k[n]
        OBVIOUS
      <3>3. n # 1
        BY <2>2, <2>3, <3>2
      <3>4. n - 1 \in 1 .. N /\ ~ (n <= n - 1)
        BY <1>1, <3>2, <3>3
      <3>5. f[n - 1] = k[n - 1]
        BY <3>1, <3>4
      <3>6. QED
        BY <2>2, <2>3, <3>2, <3>3, <3>5
    <2>5. \A n \in 1 .. N : f[n] = k[n]
      BY <2>4
    <2>6. k = [n \in 1 .. N |-> k[n]]
      BY DEF k
    <2>7. QED
      BY <2>1, <2>5, <2>6
  <1>6. kid = k
    <2> HIDE DEF k, Walks
    <2>1. QED
      BY <1>4, <1>5
  <1>7. size(k) = M
    <2>1. {n \in 1 .. N : k[n] # Nil} = 1 .. M
      <3>1. \A n \in 1 .. N : k[n] # Nil <=> n \in 1 .. M
        BY <1>1
      <3>2. 1 .. M \subseteq 1 .. N
        BY <1>1
      <3> HIDE DEF k
      <3>3. QED
        BY <3>1, <3>2
    <2>2. Cardinality(1 .. M) = M
      BY <1>1, UpTo
    <2>3. QED
      BY <2>1, <2>2
  <1>8. [n \in 1 .. M |-> k[n]] = s
    <2>1. \A n \in 1 .. M : k[n] = s[n]
      BY <1>1
    <2>2. QED
      BY <1>1, <2>1
  <1>9. QED
    <2> HIDE DEF k, kid, size
    <2>1. QED
      BY <1>3, <1>6, <1>7, <1>8

\* Where an element is in the chain, its siblings are its neighbours.
LEMMA ChainNeighbours ==
  ASSUME NEW L, NEW S, S \subseteq Elements, Closed(L, S), Agree(L, S),
         NEW p \in Elements, NEW s, Chain(L, S, p, s), NEW i \in 1 .. Len(s)
  PROVE  /\ s[i] \in S /\ L.parent[s[i]] = p
         /\ L.next[s[i]] = IF i = Len(s) THEN Nil ELSE s[i + 1]
         /\ L.prev[s[i]] = IF i = 1 THEN Nil ELSE s[i - 1]
         /\ L.first[p] = s[1]
  <1>1. /\ s \in Seq(S) /\ Len(s) \in Nat /\ s # <<>> /\ Nil \notin S
        /\ \A j \in 1 .. Len(s) : s[j] \in S
    BY NilAssumption DEF Chain
  <1>2. /\ \A j \in 1 .. Len(s) : L.parent[s[j]] = p
        /\ \A j \in 1 .. Len(s) : L.next[s[j]] = IF j = Len(s) THEN Nil ELSE s[j + 1]
        /\ L.first[p] = s[1]
    BY <1>1 DEF Chain
  <1>3. CASE i = 1
    <2>1. s[1] \in S
      BY <1>1, <1>3
    <2>2. p \in S /\ L.first[p] # Nil
      BY <1>1, <1>2, <1>3, <2>1, NilAssumption DEF Closed
    <2>3. L.prev[s[1]] = Nil
      BY <1>2, <2>2 DEF Agree, AgreesAt
    <2>4. QED
      BY <1>1, <1>2, <1>3, <2>3
  <1>4. CASE i # 1
    <2>1. i - 1 \in 1 .. Len(s) /\ i - 1 # Len(s) /\ (i - 1) + 1 = i
      BY <1>1, <1>4
    <2>2. L.next[s[i - 1]] = s[i] /\ s[i - 1] \in S /\ s[i] # Nil
      BY <1>1, <1>2, <2>1
    <2>3. L.prev[s[i]] = s[i - 1]
      BY <2>2 DEF Agree, AgreesAt
    <2>4. QED
      BY <1>1, <1>2, <1>4, <2>3
  <1>5. QED
    BY <1>3, <1>4

LEMMA SameSequence ==
  ASSUME NEW S, NEW s \in Seq(S), NEW t \in Seq(S), Len(s) = Len(t),
         \A j \in 1 .. Len(s) : s[j] = t[j]
  PROVE  s = t
  <1>1. s = [j \in 1 .. Len(s) |-> s[j]]
    OBVIOUS
  <1>2. t = [j \in 1 .. Len(s) |-> t[j]]
    OBVIOUS
  <1>3. QED
    BY <1>1, <1>2

\* s without its i-th, and s with e as its i-th.
Cut(s, i)     == [j \in 1 .. Len(s) - 1 |-> IF j < i THEN s[j] ELSE s[j + 1]]
PutIn(s, i, e) == [j \in 1 .. Len(s) + 1 |->
                    IF j < i THEN s[j] ELSE IF j = i THEN e ELSE s[j - 1]]

LEMMA CutIs ==
  ASSUME NEW S, NEW s \in Seq(S), NEW i \in 1 .. Len(s)
  PROVE  /\ Cut(s, i) \in Seq(S) /\ Len(Cut(s, i)) = Len(s) - 1
         /\ \A j \in 1 .. Len(s) - 1 : Cut(s, i)[j] = IF j < i THEN s[j] ELSE s[j + 1]
         /\ Abstract!RemoveAt(s, i) = Cut(s, i)
  <1>1. Len(s) \in Nat /\ Len(s) - 1 \in Nat /\ \A j \in 1 .. Len(s) : s[j] \in S
    OBVIOUS
  <1>2. \A j \in 1 .. Len(s) - 1 : j \in 1 .. Len(s) /\ j + 1 \in 1 .. Len(s)
    BY <1>1
  <1>3. Cut(s, i) \in [1 .. Len(s) - 1 -> S]
    BY <1>1, <1>2 DEF Cut
  <1>4. Cut(s, i) \in Seq(S) /\ Len(Cut(s, i)) = Len(s) - 1
    BY <1>1, <1>3
  <1>5. Abstract!RemoveAt(s, i) = Cut(s, i)
    <2> DEFINE a == SubSeq(s, 1, i - 1)
               b == SubSeq(s, i + 1, Len(s))
    <2>1. /\ a \in Seq(S) /\ Len(a) = i - 1 /\ \A j \in 1 .. i - 1 : a[j] = s[j]
          /\ b \in Seq(S) /\ Len(b) = Len(s) - i /\ \A j \in 1 .. Len(s) - i : b[j] = s[i + j]
      BY <1>1
    <2> HIDE DEF a, b
    <2>2. a \o b \in Seq(S) /\ Len(a \o b) = Len(s) - 1
      BY <1>1, <2>1
    <2>3. ASSUME NEW j \in 1 .. Len(s) - 1 PROVE (a \o b)[j] = Cut(s, i)[j]
      <3>1. CASE j < i
        <4>1. j \in 1 .. i - 1 /\ (a \o b)[j] = a[j]
          BY <1>1, <2>1, <3>1
        <4>2. QED
          BY <2>1, <3>1, <4>1 DEF Cut
      <3>2. CASE ~ (j < i)
        <4>1. /\ j - (i - 1) \in 1 .. Len(s) - i /\ i + (j - (i - 1)) = j + 1
              /\ (a \o b)[j] = b[j - (i - 1)]
          BY <1>1, <2>1, <3>2
        <4>2. QED
          BY <2>1, <3>2, <4>1 DEF Cut
      <3>3. QED
        BY <3>1, <3>2
    <2>4. a \o b = Cut(s, i)
      BY <1>4, <2>2, <2>3, SameSequence
    <2>5. QED
      BY <2>4 DEF Abstract!RemoveAt, a, b
  <1>6. QED
    BY <1>4, <1>5 DEF Cut

LEMMA PutIs ==
  ASSUME NEW S, NEW s \in Seq(S), NEW i \in 1 .. Len(s) + 1, NEW e \in S
  PROVE  /\ PutIn(s, i, e) \in Seq(S) /\ Len(PutIn(s, i, e)) = Len(s) + 1
         /\ \A j \in 1 .. Len(s) + 1 :
              PutIn(s, i, e)[j] = IF j < i THEN s[j] ELSE IF j = i THEN e ELSE s[j - 1]
  <1>1. Len(s) \in Nat /\ Len(s) + 1 \in Nat /\ \A j \in 1 .. Len(s) : s[j] \in S
    OBVIOUS
  <1>2. /\ \A j \in 1 .. Len(s) + 1 : j < i => j \in 1 .. Len(s)
        /\ \A j \in 1 .. Len(s) + 1 : ~ (j < i) /\ j # i => j - 1 \in 1 .. Len(s)
    BY <1>1
  <1>3. PutIn(s, i, e) \in [1 .. Len(s) + 1 -> S]
    BY <1>1, <1>2 DEF PutIn
  <1>4. PutIn(s, i, e) \in Seq(S) /\ Len(PutIn(s, i, e)) = Len(s) + 1
    BY <1>1, <1>3
  <1>5. QED
    BY <1>4 DEF PutIn

\* RemoveFirst() takes out the only place of e, if there is one.
LEMMA RemoveFirstIs ==
  ASSUME NEW s, NEW e, Len(s) \in Nat
  PROVE  /\ (\A i \in 1 .. Len(s) : s[i] # e) => Abstract!RemoveFirst(s, e) = s
         /\ \A k \in 1 .. Len(s) :
              s[k] = e /\ (\A i \in 1 .. Len(s) : s[i] = e => i = k)
                => Abstract!RemoveFirst(s, e) = Abstract!RemoveAt(s, k)
  <1>1. ASSUME \A i \in 1 .. Len(s) : s[i] # e
        PROVE  Abstract!RemoveFirst(s, e) = s
    BY <1>1 DEF Abstract!RemoveFirst
  <1>2. ASSUME NEW k \in 1 .. Len(s), s[k] = e, \A i \in 1 .. Len(s) : s[i] = e => i = k
        PROVE  Abstract!RemoveFirst(s, e) = Abstract!RemoveAt(s, k)
    <2>1. {i \in 1 .. Len(s) : s[i] = e} = {k} /\ {k} # {}
      BY <1>2
    <2>2. Abstract!Min({k}) = k
      BY DEF Abstract!Min
    <2>3. QED
      BY <1>2, <2>1, <2>2 DEF Abstract!RemoveFirst, Abstract!SelectInSeq
  <1>3. QED
    BY <1>1, <1>2

\* What was put in can be taken out.
LEMMA RemoveFirstPut ==
  ASSUME NEW S, NEW s \in Seq(S), NEW i \in 1 .. Len(s) + 1, NEW e \in S,
         \A j \in 1 .. Len(s) : s[j] # e
  PROVE  Abstract!RemoveFirst(PutIn(s, i, e), e) = s
  <1> DEFINE t == PutIn(s, i, e)
  <1>1. s \in Seq(S) /\ Len(s) \in Nat /\ \A j \in 1 .. Len(s) : s[j] \in S
    OBVIOUS
  <1>2. /\ t \in Seq(S) /\ Len(t) = Len(s) + 1
        /\ \A j \in 1 .. Len(s) + 1 : t[j] = IF j < i THEN s[j] ELSE IF j = i THEN e ELSE s[j - 1]
    BY PutIs
  <1> HIDE DEF t
  <1>3. i \in 1 .. Len(t) /\ t[i] = e
    BY <1>1, <1>2
  <1>4. \A j \in 1 .. Len(t) : t[j] = e => j = i
    <2> SUFFICES ASSUME NEW j \in 1 .. Len(t), j # i PROVE t[j] # e
      OBVIOUS
    <2>1. CASE j < i
      <3>1. j \in 1 .. Len(s) /\ j \in 1 .. Len(s) + 1
        BY <1>1, <1>2, <2>1
      <3>2. QED
        BY <1>2, <2>1, <3>1
    <2>2. CASE ~ (j < i)
      <3>1. j - 1 \in 1 .. Len(s) /\ j \in 1 .. Len(s) + 1
        BY <1>1, <1>2, <2>2
      <3>2. QED
        BY <1>2, <2>2, <3>1
    <2>3. QED
      BY <2>1, <2>2
  <1>5. Len(t) \in Nat
    BY <1>1, <1>2
  <1>6. Abstract!RemoveFirst(t, e) = Cut(t, i)
    <2>1. Abstract!RemoveFirst(t, e) = Abstract!RemoveAt(t, i)
      BY <1>3, <1>4, <1>5, RemoveFirstIs
    <2>2. QED
      BY <1>2, <1>3, <2>1, CutIs
  <1>7. /\ Cut(t, i) \in Seq(S) /\ Len(Cut(t, i)) = Len(s)
        /\ \A j \in 1 .. Len(s) : Cut(t, i)[j] = IF j < i THEN t[j] ELSE t[j + 1]
    <2>1. Len(t) - 1 = Len(s)
      BY <1>1, <1>2
    <2>2. QED
      BY <1>2, <1>3, <2>1, CutIs
  <1>8. ASSUME NEW j \in 1 .. Len(s) PROVE Cut(t, i)[j] = s[j]
    <2>1. CASE j < i
      <3>1. j \in 1 .. Len(s) + 1
        BY <1>1
      <3>2. QED
        BY <1>2, <1>7, <2>1, <3>1
    <2>2. CASE ~ (j < i)
      <3>1. j + 1 \in 1 .. Len(s) + 1 /\ ~ (j + 1 < i) /\ j + 1 # i /\ (j + 1) - 1 = j
        BY <1>1, <2>2
      <3>2. t[j + 1] = s[j]
        BY <1>2, <3>1
      <3>3. QED
        BY <1>7, <2>2, <3>2
    <2>3. QED
      BY <2>1, <2>2
  <1>9. Cut(t, i) = s
    BY <1>1, <1>7, <1>8, SameSequence
  <1>10. QED
    BY <1>6, <1>9 DEF t

\* What the operations do to the pointers, at every element.
LEMMA DetachedPointers ==
  ASSUME NEW L, NEW S, NEW keep, Good(L, S, keep), NEW e \in S,
         L.prev[e] # Nil => L.parent[e] # Nil, NEW x \in Elements
  PROVE  LET a == L.prev[e]
             b == L.next[e]
             p == L.parent[e]
             D == Detached(L, e)
         IN /\ D.first[x] = IF a = Nil /\ x = p THEN b ELSE L.first[x]
            /\ D.last[x] = IF b = Nil /\ x = p THEN a ELSE L.last[x]
            /\ D.next[x] = IF x = e THEN Nil ELSE IF x = a THEN b ELSE L.next[x]
            /\ D.prev[x] = IF x = e THEN Nil ELSE IF x = b /\ p # Nil THEN a ELSE L.prev[x]
            /\ D.parent[x] = IF x = e THEN Nil ELSE L.parent[x]
  <1> DEFINE a == L.prev[e]
             b == L.next[e]
             p == L.parent[e]
             D == Detached(L, e)
  <1>1. /\ e \in Elements /\ Closed(L, S) /\ Agree(L, S) /\ Nil \notin Elements
    BY NilAssumption DEF Good, Sound
  <1>2. /\ a \in Elements \cup {Nil} /\ b \in Elements \cup {Nil} /\ p \in Elements \cup {Nil}
        /\ p = Nil => a = Nil
    BY <1>1 DEF Good, Sound, Closed, Agree, AgreesAt
  <1>3. /\ D.first = IF a = Nil THEN Put(L.first, p, b) ELSE L.first
        /\ D.last = IF (a # Nil \/ p # Nil) /\ b = Nil THEN Put(L.last, p, a) ELSE L.last
        /\ D.next = [Put(L.next, a, b) EXCEPT ![e] = Nil]
        /\ D.prev = [(IF a # Nil \/ p # Nil THEN Put(L.prev, b, a) ELSE L.prev) EXCEPT ![e] = Nil]
        /\ D.parent = [L.parent EXCEPT ![e] = Nil]
    BY DEF Detached
  <1>4. /\ L.first \in Pointers /\ L.last \in Pointers /\ L.next \in Pointers
        /\ L.prev \in Pointers /\ L.parent \in Pointers
    BY <1>1 DEF Closed, Links
  <1> HIDE DEF D
  <1>5. /\ D.first[x] = IF a = Nil /\ x = p THEN b ELSE L.first[x]
        /\ D.last[x] = IF b = Nil /\ x = p THEN a ELSE L.last[x]
        /\ D.next[x] = IF x = e THEN Nil ELSE IF x = a THEN b ELSE L.next[x]
        /\ D.prev[x] = IF x = e THEN Nil ELSE IF x = b /\ p # Nil THEN a ELSE L.prev[x]
        /\ D.parent[x] = IF x = e THEN Nil ELSE L.parent[x]
    BY <1>1, <1>2, <1>3, <1>4 DEF Put, Pointers
  <1>6. QED
    BY <1>5 DEF D

\* A child is taken from its chain, and the other chains stay.
LEMMA DetachedChain ==
  ASSUME NEW L, NEW S, NEW keep, Good(L, S, keep), NEW e \in S,
         L.prev[e] # Nil => L.parent[e] # Nil, NEW q \in Elements, NEW s, Chain(L, S, q, s)
  PROVE  Chain(Detached(L, e), S, q, Abstract!RemoveFirst(s, e))
  <1> DEFINE a == L.prev[e]
             b == L.next[e]
             p == L.parent[e]
             D == Detached(L, e)
             N == Len(s)
  <1>1. /\ S \subseteq Elements /\ e \in Elements /\ Nil \notin Elements
        /\ Closed(L, S) /\ Agree(L, S)
    BY NilAssumption DEF Good, Sound
  <1>2. \A x \in Elements :
          /\ D.first[x] = IF a = Nil /\ x = p THEN b ELSE L.first[x]
          /\ D.next[x] = IF x = e THEN Nil ELSE IF x = a THEN b ELSE L.next[x]
          /\ D.parent[x] = IF x = e THEN Nil ELSE L.parent[x]
    BY DetachedPointers
  <1>3. /\ s \in Seq(S) /\ N \in Nat /\ \A i \in 1 .. N : s[i] \in S
        /\ \A i, j \in 1 .. N : s[i] = s[j] => i = j
        /\ \A c \in S : L.parent[c] = q <=> \E i \in 1 .. N : s[i] = c
        /\ \A i \in 1 .. N : L.next[s[i]] = IF i = N THEN Nil ELSE s[i + 1]
        /\ L.first[q] = IF s = <<>> THEN Nil ELSE s[1]
        /\ (s = <<>> <=> N = 0)
    BY DEF Chain
  <1> HIDE DEF D
  <1>4. CASE p # q
    <2>1. \A i \in 1 .. N : s[i] # e
      BY <1>3, <1>4
    <2>2. Abstract!RemoveFirst(s, e) = s
      BY <1>3, <2>1, RemoveFirstIs
    <2>3. \A i \in 1 .. N : s[i] # a
      <3>1. ASSUME a # Nil PROVE a \in S /\ L.parent[a] = p
        BY <1>1, <3>1 DEF Closed, Agree, AgreesAt
      <3>2. QED
        BY <1>1, <1>3, <1>4, <3>1
    <2>4. \A c \in S : D.parent[c] = q <=> \E i \in 1 .. N : s[i] = c
      BY <1>1, <1>2, <1>3, <1>4, <2>1
    <2>5. \A i \in 1 .. N : D.next[s[i]] = IF i = N THEN Nil ELSE s[i + 1]
      BY <1>1, <1>2, <1>3, <2>1, <2>3
    <2>6. D.first[q] = IF s = <<>> THEN Nil ELSE s[1]
      BY <1>2, <1>3, <1>4
    <2>7. Chain(D, S, q, s)
      BY <1>3, <2>4, <2>5, <2>6 DEF Chain
    <2>8. QED
      BY <2>2, <2>7 DEF D
  <1>5. CASE p = q
    <2>1. PICK i \in 1 .. N : s[i] = e
      BY <1>3, <1>5
    <2>2. /\ b = IF i = N THEN Nil ELSE s[i + 1]
          /\ a = IF i = 1 THEN Nil ELSE s[i - 1]
          /\ L.first[q] = s[1]
      BY <1>1, <2>1, ChainNeighbours
    <2> DEFINE t == Cut(s, i)
    <2>3. Abstract!RemoveFirst(s, e) = t
      <3>1. \A j \in 1 .. N : s[j] = e => j = i
        BY <1>3, <2>1
      <3>2. Abstract!RemoveFirst(s, e) = Abstract!RemoveAt(s, i)
        BY <1>3, <2>1, <3>1, RemoveFirstIs
      <3>3. QED
        BY <1>3, <3>2, CutIs
    <2>4. /\ t \in Seq(S) /\ Len(t) = N - 1
          /\ \A j \in 1 .. N - 1 : t[j] = IF j < i THEN s[j] ELSE s[j + 1]
      BY <1>3, CutIs
    <2> HIDE DEF t, N, a, b, p
    <2>5. \A j \in 1 .. N - 1 : /\ j \in 1 .. N /\ j + 1 \in 1 .. N
      BY <1>3
    <2>6. \A j, k \in 1 .. N - 1 : t[j] = t[k] => j = k
      <3> SUFFICES ASSUME NEW j \in 1 .. N - 1, NEW k \in 1 .. N - 1, t[j] = t[k] PROVE j = k
        OBVIOUS
      <3>1. (IF j < i THEN j ELSE j + 1) = (IF k < i THEN k ELSE k + 1)
        BY <1>3, <2>4, <2>5
      <3>2. QED
        BY <2>1, <1>3, <3>1
    <2>7. \A c \in S : D.parent[c] = q <=> \E j \in 1 .. N - 1 : t[j] = c
      <3> SUFFICES ASSUME NEW c \in S PROVE D.parent[c] = q <=> \E j \in 1 .. N - 1 : t[j] = c
        OBVIOUS
      <3>1. D.parent[c] = q <=> c # e /\ L.parent[c] = q
        BY <1>1, <1>2
      <3>2. ASSUME c # e, L.parent[c] = q PROVE \E j \in 1 .. N - 1 : t[j] = c
        <4>1. PICK k \in 1 .. N : s[k] = c
          BY <1>3, <3>2
        <4>2. k # i
          BY <2>1, <3>2, <4>1
        <4>3. CASE k < i
          <5>1. k \in 1 .. N - 1
            BY <1>3, <2>1, <4>3
          <5>2. QED
            BY <2>4, <4>1, <4>3, <5>1
        <4>4. CASE ~ (k < i)
          <5>1. k - 1 \in 1 .. N - 1 /\ ~ (k - 1 < i) /\ (k - 1) + 1 = k
            BY <1>3, <2>1, <4>2, <4>4
          <5>2. QED
            BY <2>4, <4>1, <5>1
        <4>5. QED
          BY <4>3, <4>4
      <3>3. ASSUME NEW j \in 1 .. N - 1, t[j] = c PROVE c # e /\ L.parent[c] = q
        <4>1. PICK k \in 1 .. N : t[j] = s[k] /\ k # i
          <5>1. CASE j < i
            BY <1>3, <2>1, <2>4, <2>5, <5>1
          <5>2. CASE ~ (j < i)
            <6>1. j + 1 \in 1 .. N /\ t[j] = s[j + 1] /\ j + 1 # i
              BY <1>3, <2>1, <2>4, <2>5, <5>2
            <6>2. QED
              BY <6>1
          <5>3. QED
            BY <5>1, <5>2
        <4>2. QED
          BY <1>3, <2>1, <3>3, <4>1
      <3>4. QED
        BY <3>1, <3>2, <3>3
    <2>8. \A j \in 1 .. N - 1 : D.next[t[j]] = IF j = N - 1 THEN Nil ELSE t[j + 1]
      <3> SUFFICES ASSUME NEW j \in 1 .. N - 1
                   PROVE  D.next[t[j]] = IF j = N - 1 THEN Nil ELSE t[j + 1]
        OBVIOUS
      <3>1. CASE j < i - 1
        <4>1. /\ t[j] = s[j] /\ t[j + 1] = s[j + 1] /\ j # N - 1 /\ j # N
          BY <1>3, <2>1, <2>4, <3>1
        <4>2. s[j] # e /\ s[j] # a
          BY <1>3, <2>1, <2>2, <2>5, <3>1
        <4>3. L.next[s[j]] = s[j + 1]
          BY <1>3, <2>5, <4>1
        <4>4. QED
          BY <1>1, <1>2, <1>3, <2>5, <4>1, <4>2, <4>3
      <3>2. CASE j = i - 1
        <4>1. t[j] = s[j] /\ a = s[j] /\ s[j] # e
          BY <1>3, <2>1, <2>2, <2>4, <2>5, <3>2
        <4>2. D.next[s[j]] = b
          BY <1>1, <1>2, <1>3, <2>5, <4>1
        <4>3. j = N - 1 <=> i = N
          BY <1>3, <3>2
        <4>4. j # N - 1 => t[j + 1] = s[i + 1]
          BY <1>3, <2>1, <2>4, <3>2
        <4>5. QED
          BY <2>2, <4>1, <4>2, <4>3, <4>4
      <3>3. CASE j > i - 1
        <4>1. /\ t[j] = s[j + 1]
              /\ j # N - 1 => t[j + 1] = s[(j + 1) + 1]
          BY <1>3, <2>1, <2>4, <3>3
        <4>2. s[j + 1] # e
          BY <1>3, <2>1, <2>5, <3>3
        <4>3. s[j + 1] # a
          <5>1. i # 1 => i - 1 \in 1 .. N /\ i - 1 # j + 1
            BY <1>3, <2>1, <3>3
          <5>2. s[j + 1] # Nil
            BY <1>1, <1>3, <2>5
          <5>3. QED
            BY <1>3, <2>2, <2>5, <5>1, <5>2
        <4>4. L.next[s[j + 1]] = IF j + 1 = N THEN Nil ELSE s[(j + 1) + 1]
          BY <1>3, <2>5
        <4>5. j + 1 = N <=> j = N - 1
          BY <1>3
        <4>6. D.next[s[j + 1]] = L.next[s[j + 1]]
          BY <1>1, <1>2, <1>3, <2>5, <4>2, <4>3
        <4>7. QED
          BY <4>1, <4>4, <4>5, <4>6
      <3>4. QED
        BY <1>3, <2>1, <3>1, <3>2, <3>3
    <2>9. D.first[q] = IF t = <<>> THEN Nil ELSE t[1]
      <3>1. t = <<>> <=> N = 1
        BY <1>3, <2>1, <2>4
      <3>2. CASE i = 1
        <4>1. a = Nil /\ D.first[q] = b
          BY <1>2, <1>5, <2>2, <3>2
        <4>2. N # 1 => t[1] = s[1 + 1]
          BY <1>3, <2>1, <2>4, <3>2
        <4>3. QED
          BY <2>2, <3>1, <3>2, <4>1, <4>2
      <3>3. CASE i # 1
        <4>1. i - 1 \in 1 .. N /\ N # 1 /\ t[1] = s[1]
          BY <1>3, <2>1, <2>4, <3>3
        <4>2. a # Nil
          BY <1>1, <1>3, <2>2, <3>3, <4>1
        <4>3. QED
          BY <1>2, <2>2, <3>1, <4>1, <4>2
      <3>4. QED
        BY <3>2, <3>3
    <2>10. Chain(D, S, q, t)
      <3>1. Len(t) = N - 1 /\ t \in Seq(S)
        BY <2>4
      <3>2. \A j, k \in 1 .. Len(t) : t[j] = t[k] => j = k
        BY <2>6, <3>1, Zenon
      <3>3. \A c \in S : D.parent[c] = q <=> \E j \in 1 .. Len(t) : t[j] = c
        BY <2>7, <3>1, Zenon
      <3>4. \A j \in 1 .. Len(t) : D.next[t[j]] = IF j = Len(t) THEN Nil ELSE t[j + 1]
        BY <2>8, <3>1, Zenon
      <3>5. QED
        BY <2>9, <3>1, <3>2, <3>3, <3>4, Zenon DEF Chain
    <2>11. QED
      BY <2>3, <2>10 DEF D
  <1>6. QED
    BY <1>4, <1>5

\* What an operation that makes e the i-th child of p, whose children are s, does
\* to the pointers of L that a chain consists of.
Takes(L, D, p, s, i, e) ==
  \A x \in Elements :
    /\ D.first[x] = IF i = 1 /\ x = p THEN e ELSE L.first[x]
    /\ D.next[x] = IF x = e THEN (IF i = Len(s) + 1 THEN Nil ELSE s[i])
                   ELSE IF i > 1 /\ x = s[i - 1] THEN e ELSE L.next[x]
    /\ D.parent[x] = IF x = e THEN p ELSE L.parent[x]

\* e, which has no place, becomes the i-th child of p, and the other chains stay.
LEMMA InsertedChain ==
  ASSUME NEW L, NEW D, NEW S, S \subseteq Elements, Nil \notin S, NEW e \in S, L.parent[e] = Nil,
         NEW p \in S, p # e, NEW s, Chain(L, S, p, s), NEW i \in 1 .. Len(s) + 1,
         Takes(L, D, p, s, i, e),
         NEW q \in Elements, NEW r, Chain(L, S, q, r)
  PROVE  Chain(D, S, q, IF q = p THEN PutIn(s, i, e) ELSE r)
  <1> DEFINE N == Len(s)
             t == PutIn(s, i, e)
  <1>1. /\ s \in Seq(S) /\ N \in Nat /\ \A j \in 1 .. N : s[j] \in S
        /\ \A j, k \in 1 .. N : s[j] = s[k] => j = k
        /\ \A c \in S : L.parent[c] = p <=> \E j \in 1 .. N : s[j] = c
        /\ \A j \in 1 .. N : L.next[s[j]] = IF j = N THEN Nil ELSE s[j + 1]
        /\ L.first[p] = IF s = <<>> THEN Nil ELSE s[1]
        /\ (s = <<>> <=> N = 0)
    BY DEF Chain
  <1>2. \A j \in 1 .. N : s[j] # e /\ s[j] # Nil
    BY <1>1
  <1>3. /\ t \in Seq(S) /\ Len(t) = N + 1
        /\ \A j \in 1 .. N + 1 : t[j] = IF j < i THEN s[j] ELSE IF j = i THEN e ELSE s[j - 1]
    <2>1. s \in Seq(S) /\ e \in S /\ i \in 1 .. Len(s) + 1
      BY <1>1
    <2>2. QED
      BY <2>1, PutIs
  <1> USE DEF Takes
  <1>4. i \in 1 .. N + 1
    OBVIOUS
  <1>5. CASE q # p
    <2>1. /\ r \in Seq(S) /\ Len(r) \in Nat /\ \A j \in 1 .. Len(r) : r[j] \in S
          /\ \A j, k \in 1 .. Len(r) : r[j] = r[k] => j = k
          /\ \A c \in S : L.parent[c] = q <=> \E j \in 1 .. Len(r) : r[j] = c
          /\ \A j \in 1 .. Len(r) : L.next[r[j]] = IF j = Len(r) THEN Nil ELSE r[j + 1]
          /\ L.first[q] = IF r = <<>> THEN Nil ELSE r[1]
      <3>1. r \in Seq(S)
        BY DEF Chain
      <3>2. Len(r) \in Nat /\ \A j \in 1 .. Len(r) : r[j] \in S
        BY <3>1
      <3>3. QED
        BY <3>1, <3>2 DEF Chain
    <2>2. q # Nil => \A j \in 1 .. Len(r) : r[j] # e
      BY <2>1
    <2>3. q \in Elements /\ q # Nil
      BY NilAssumption
    <2>4. i > 1 => \A j \in 1 .. Len(r) : r[j] # s[i - 1]
      <3>1. ASSUME i > 1 PROVE L.parent[s[i - 1]] = p
        <4>1. i - 1 \in 1 .. N
          BY <1>1, <1>4, <3>1
        <4>2. QED
          BY <1>1, <4>1
      <3>2. QED
        BY <1>5, <2>1, <3>1
    <2>5. \A c \in S : D.parent[c] = q <=> \E j \in 1 .. Len(r) : r[j] = c
      BY <1>5, <2>1, <2>2, <2>3
    <2>6. \A j \in 1 .. Len(r) : D.next[r[j]] = IF j = Len(r) THEN Nil ELSE r[j + 1]
      <3> SUFFICES ASSUME NEW j \in 1 .. Len(r) PROVE D.next[r[j]] = L.next[r[j]]
        BY <2>1
      <3>1. r[j] \in Elements /\ r[j] # e /\ (i > 1 => r[j] # s[i - 1])
        BY <2>1, <2>2, <2>3, <2>4
      <3>2. QED
        BY <3>1
    <2>7. D.first[q] = IF r = <<>> THEN Nil ELSE r[1]
      BY <1>5, <2>1, <2>3
    <2>8. Chain(D, S, q, r)
      BY <2>1, <2>5, <2>6, <2>7 DEF Chain
    <2>9. QED
      BY <1>5, <2>8
  <1>6. CASE q = p
    <2> HIDE DEF t
    <2>1. \A j \in 1 .. N + 1 :
            /\ j < i => j \in 1 .. N
            /\ ~ (j < i) /\ j # i => j - 1 \in 1 .. N /\ j - 1 # i - 1
      BY <1>1, <1>4
    <2>2. \A j, k \in 1 .. N + 1 : t[j] = t[k] => j = k
      <3> SUFFICES ASSUME NEW j \in 1 .. N + 1, NEW k \in 1 .. N + 1, t[j] = t[k] PROVE j = k
        OBVIOUS
      <3>1. CASE j = i \/ k = i
        <4>1. \A h \in 1 .. N + 1 : h # i => t[h] # e
          BY <1>2, <1>3, <2>1
        <4>2. t[i] = e
          BY <1>3, <1>4
        <4>3. QED
          BY <3>1, <4>1, <4>2
      <3>2. CASE j # i /\ k # i
        <4> DEFINE at(h) == IF h < i THEN h ELSE h - 1
        <4>0. ASSUME NEW h \in 1 .. N + 1, h # i PROVE at(h) \in 1 .. N /\ t[h] = s[at(h)]
          BY <1>3, <2>1, <4>0
        <4>1. at(j) = at(k)
          BY <1>1, <4>0, <3>2
        <4>2. QED
          BY <1>1, <1>4, <3>2, <4>1
      <3>3. QED
        BY <3>1, <3>2
    <2>3. \A c \in S : D.parent[c] = p <=> \E j \in 1 .. N + 1 : t[j] = c
      <3> SUFFICES ASSUME NEW c \in S PROVE D.parent[c] = p <=> \E j \in 1 .. N + 1 : t[j] = c
        OBVIOUS
      <3>1. D.parent[c] = p <=> c = e \/ L.parent[c] = p
        OBVIOUS
      <3>2. t[i] = e
        BY <1>3, <1>4
      <3>3. ASSUME L.parent[c] = p PROVE \E j \in 1 .. N + 1 : t[j] = c
        <4>1. PICK k \in 1 .. N : s[k] = c
          BY <1>1, <3>3
        <4>2. CASE k < i
          <5>1. k \in 1 .. N + 1 /\ t[k] = s[k]
            BY <1>1, <1>3, <4>2
          <5>2. QED
            BY <4>1, <5>1
        <4>3. CASE ~ (k < i)
          <5>1. k + 1 \in 1 .. N + 1 /\ ~ (k + 1 < i) /\ k + 1 # i /\ (k + 1) - 1 = k
            BY <1>1, <1>4, <4>3
          <5>2. t[k + 1] = s[k]
            BY <1>3, <5>1
          <5>3. QED
            BY <4>1, <5>1, <5>2
        <4>4. QED
          BY <4>2, <4>3
      <3>4. ASSUME NEW j \in 1 .. N + 1, t[j] = c, c # e PROVE L.parent[c] = p
        <4>1. PICK k \in 1 .. N : s[k] = c
          BY <1>3, <2>1, <3>4
        <4>2. QED
          BY <1>1, <4>1
      <3>5. QED
        BY <1>4, <3>1, <3>2, <3>3, <3>4
    <2>4. \A j \in 1 .. N + 1 : D.next[t[j]] = IF j = N + 1 THEN Nil ELSE t[j + 1]
      <3> SUFFICES ASSUME NEW j \in 1 .. N + 1
                   PROVE  D.next[t[j]] = IF j = N + 1 THEN Nil ELSE t[j + 1]
        OBVIOUS
      <3>1. CASE j < i - 1
        <4>1. /\ j \in 1 .. N /\ j # N /\ j # N + 1 /\ t[j] = s[j] /\ t[j + 1] = s[j + 1]
              /\ i - 1 \in 1 .. N /\ j # i - 1
          BY <1>1, <1>3, <1>4, <3>1
        <4>2. s[j] # e /\ s[j] # s[i - 1] /\ s[j] \in Elements
          BY <1>1, <1>2, <4>1
        <4>3. D.next[s[j]] = L.next[s[j]]
          BY <4>2
        <4>4. QED
          BY <1>1, <4>1, <4>3
      <3>2. CASE j = i - 1
        <4>1. /\ j \in 1 .. N /\ j # N + 1 /\ i > 1 /\ t[j] = s[i - 1] /\ t[j + 1] = e
          BY <1>1, <1>3, <1>4, <3>2
        <4>2. s[i - 1] # e /\ s[i - 1] \in Elements
          BY <1>1, <1>2, <3>2, <4>1
        <4>3. QED
          BY <4>1, <4>2
      <3>3. CASE j = i
        <4>1. t[j] = e /\ (j # N + 1 => t[j + 1] = s[i])
          BY <1>1, <1>3, <1>4, <3>3
        <4>2. e \in Elements
          OBVIOUS
        <4>3. QED
          BY <3>3, <4>1, <4>2
      <3>4. CASE j > i
        <4>1. /\ j - 1 \in 1 .. N /\ t[j] = s[j - 1] /\ (j - 1) + 1 = j
              /\ j # N + 1 => t[j + 1] = s[j]
              /\ j - 1 = N <=> j = N + 1
          BY <1>1, <1>3, <1>4, <3>4
        <4>2. s[j - 1] # e /\ s[j - 1] \in Elements
          BY <1>1, <1>2, <4>1
        <4>3. i > 1 => s[j - 1] # s[i - 1]
          <5>1. ASSUME i > 1 PROVE i - 1 \in 1 .. N /\ i - 1 # j - 1
            BY <1>1, <1>4, <3>4, <5>1
          <5>2. QED
            BY <1>1, <4>1, <5>1
        <4>4. D.next[s[j - 1]] = L.next[s[j - 1]]
          BY <4>2, <4>3
        <4>5. L.next[s[j - 1]] = IF j - 1 = N THEN Nil ELSE s[j]
          BY <1>1, <4>1
        <4>6. QED
          BY <4>1, <4>4, <4>5
      <3>5. QED
        BY <1>1, <1>4, <3>1, <3>2, <3>3, <3>4
    <2>5. D.first[p] = IF t = <<>> THEN Nil ELSE t[1]
      <3>1. t # <<>>
        BY <1>1, <1>3
      <3>2. CASE i = 1
        BY <1>1, <1>3, <3>1, <3>2
      <3>3. CASE i # 1
        <4>1. 1 \in 1 .. N + 1 /\ 1 < i /\ N # 0
          BY <1>1, <1>4, <3>3
        <4>2. t[1] = s[1] /\ s # <<>>
          BY <1>1, <1>3, <4>1
        <4>3. QED
          BY <1>1, <3>1, <3>3, <4>2
      <3>4. QED
        BY <3>2, <3>3
    <2>6. Chain(D, S, p, t)
      BY <1>3, <2>2, <2>3, <2>4, <2>5 DEF Chain
    <2>7. QED
      BY <1>6, <2>6 DEF t
  <1>7. QED
    BY <1>5, <1>6

\* The children of every element are a chain of S, those of others are none.
LEMMA ChainedKids ==
  ASSUME NEW L, NEW S \in SUBSET Elements, Closed(L, S), Chained(L, S), NEW p \in Elements
  PROVE  /\ Chain(L, S, p, Children(L, p))
         /\ p \notin S => Children(L, p) = <<>>
  <1>1. PICK s : Chain(L, S, p, s)
    BY DEF Chained
  <1>2. Children(L, p) = s
    BY <1>1, ChildrenAre
  <1>3. ASSUME p \notin S PROVE s = <<>>
    <2>1. L.first[p] = Nil /\ Nil \notin S
      BY <1>3, NilAssumption DEF Closed
    <2>2. s \in Seq(S) /\ L.first[p] = IF s = <<>> THEN Nil ELSE s[1]
      BY <1>1 DEF Chain
    <2>3. s # <<>> => s[1] \in S
      BY <2>2
    <2>4. QED
      BY <2>1, <2>2, <2>3
  <1>4. QED
    BY <1>1, <1>2, <1>3

\* What is left of children k of the elements S when only the elements R are.
Settled(S, R, k, new) ==
  /\ R \subseteq S
  /\ \A p \in R : new[p] = k[p] /\ Abstract!ToSet(k[p]) \subseteq R
  /\ \A p \in Elements \ R :
       /\ new[p] = <<>>
       /\ \A i, j \in DOMAIN k[p] : i < j /\ k[p][i] \in R => k[p][j] \in R

\* The children of every element, which is what the forest keeps.
Kids(L) == [p \in Elements |-> Children(L, p)]

\* Among the children of an element, those after one that survives survive.
LEMMA SuffixSurvives ==
  ASSUME NEW L, NEW S, NEW keep, Sound(L, S, keep), NEW p, NEW s, Chain(L, S, p, s),
         NEW i \in 1 .. Len(s), s[i] \in Surviving(L, S, keep)
  PROVE  \A j \in 1 .. Len(s) : i < j => s[j] \in Surviving(L, S, keep)
  <1> DEFINE rest == Surviving(L, S, keep)
             Lost == {j \in 1 .. Len(s) : i < j /\ s[j] \notin rest}
  <1>1. /\ S \subseteq Elements /\ keep \subseteq S /\ Closed(L, S) /\ Nil \notin Elements
    BY NilAssumption DEF Sound
  <1>2. \A x \in rest : KeptBy(L, x) \subseteq rest \cup {Nil}
    BY <1>1, CountedPointers
  <1>3. /\ s \in Seq(S) /\ Len(s) \in Nat
        /\ \A j \in 1 .. Len(s) : s[j] \in S
        /\ \A j \in 1 .. Len(s) : L.next[s[j]] = IF j = Len(s) THEN Nil ELSE s[j + 1]
    <2>1. s \in Seq(S)
      BY DEF Chain
    <2>2. QED
      BY <2>1 DEF Chain
  <1>4. s[i] \in rest
    OBVIOUS
  <1> HIDE DEF rest
  <1>5. ASSUME Lost # {} PROVE FALSE
    <2>1. PICK j \in Lost : \A m \in Lost : j <= m
      <3>1. Lost \in SUBSET Nat
        BY <1>3
      <3> HIDE DEF Lost
      <3>2. QED
        BY <1>5, <3>1, Least
    <2>2. j \in 1 .. Len(s) /\ i < j /\ s[j] \notin rest
      OBVIOUS
    <2>3. j - 1 \in 1 .. Len(s) /\ j - 1 # Len(s) /\ (j - 1) + 1 = j /\ ~ (j <= j - 1)
      BY <1>3, <2>2
    <2>4. s[j - 1] \in rest
      <3>1. CASE i = j - 1
        BY <1>4, <3>1
      <3>2. CASE i # j - 1
        <4>1. i < j - 1
          BY <1>3, <2>2, <3>2
        <4>2. QED
          BY <2>1, <2>3, <4>1
      <3>3. QED
        BY <3>1, <3>2
    <2>5. L.next[s[j - 1]] = s[j] /\ s[j] # Nil
      BY <1>1, <1>3, <2>2, <2>3
    <2>6. QED
      BY <1>2, <2>2, <2>4, <2>5 DEF KeptBy
  <1>6. QED
    BY <1>5 DEF rest

\* Who survives has the same children, and they survive.
LEMMA CountedKids ==
  ASSUME NEW L, NEW S, NEW keep, Sound(L, S, keep), Agree(L, S), Chained(L, S)
  PROVE  LET rest == Surviving(L, S, keep)
             C == Counted(L, rest)
         IN Chained(C, rest) /\ Settled(S, rest, Kids(L), Kids(C))
  <1> DEFINE rest == Surviving(L, S, keep)
             C == Counted(L, rest)
  <1>1. S \subseteq Elements /\ keep \subseteq S /\ Closed(L, S) /\ Nil \notin Elements
    BY NilAssumption DEF Sound
  <1>2. /\ rest \subseteq S
        /\ \A x \in rest :
             /\ C.first[x] = L.first[x] /\ C.next[x] = L.next[x]
             /\ C.parent[x] = IF L.parent[x] \in rest THEN L.parent[x] ELSE Nil
        /\ \A x \in Elements \ rest : C.first[x] = Nil
    BY <1>1, CountedPointers
  <1>3. \A c \in S : L.parent[c] \in rest => c \in rest
    BY SiblingsSurvive
  <1>4. ASSUME NEW p, NEW s, Chain(L, S, p, s)
        PROVE  \A i, j \in 1 .. Len(s) : i < j /\ s[i] \in rest => s[j] \in rest
    BY <1>4, SuffixSurvives
  <1> HIDE DEF rest, C
  <1>5. ASSUME NEW p \in Elements
        PROVE  /\ Chain(C, rest, p, IF p \in rest THEN Children(L, p) ELSE <<>>)
               /\ p \in rest => Abstract!ToSet(Children(L, p)) \subseteq rest
               /\ \A i, j \in DOMAIN Children(L, p) :
                    i < j /\ Children(L, p)[i] \in rest => Children(L, p)[j] \in rest
    <2> DEFINE s == Children(L, p)
    <2>1. Chain(L, S, p, s)
      BY <1>1, ChainedKids
    <2>2. p # Nil
      BY <1>1
    <2> HIDE DEF s
    <2>3. s \in Seq(S) /\ Len(s) \in Nat /\ DOMAIN s = 1 .. Len(s)
      <3>1. s \in Seq(S)
        BY <2>1 DEF Chain
      <3>2. QED
        BY <3>1
    <2>4. \A i, j \in DOMAIN s : i < j /\ s[i] \in rest => s[j] \in rest
      BY <1>4, <2>1, <2>3
    <2>5. CASE p \in rest
      <3>1. \A i \in 1 .. Len(s) : s[i] \in S /\ L.parent[s[i]] = p
        <4>1. \A i \in 1 .. Len(s) : s[i] \in S
          BY <2>3
        <4>2. QED
          BY <2>1, <4>1 DEF Chain
      <3>2. \A i \in 1 .. Len(s) : s[i] \in rest
        BY <1>3, <2>5, <3>1
      <3>3. s \in Seq(rest)
        BY <2>3, <3>2
      <3>4. \A c \in rest : C.parent[c] = p <=> \E i \in 1 .. Len(s) : s[i] = c
        BY <1>1, <1>2, <2>1, <2>2, <2>5 DEF Chain
      <3>5. \A i \in 1 .. Len(s) : C.next[s[i]] = IF i = Len(s) THEN Nil ELSE s[i + 1]
        BY <1>2, <2>1, <3>2 DEF Chain
      <3>6. C.first[p] = IF s = <<>> THEN Nil ELSE s[1]
        BY <1>2, <2>1, <2>5 DEF Chain
      <3>7. Chain(C, rest, p, s)
        BY <2>1, <3>3, <3>4, <3>5, <3>6 DEF Chain
      <3>8. Abstract!ToSet(s) \subseteq rest
        BY <2>3, <3>2 DEF Abstract!ToSet
      <3>9. QED
        BY <2>4, <2>5, <3>7, <3>8 DEF s
    <2>6. CASE p \notin rest
      <3>1. \A c \in rest : C.parent[c] # p
        BY <1>1, <1>2, <2>2, <2>6
      <3>2. C.first[p] = Nil
        BY <1>2, <2>6
      <3>3. <<>> \in Seq(rest) /\ Len(<<>>) = 0 /\ 1 .. 0 = {}
        OBVIOUS
      <3>4. Chain(C, rest, p, <<>>)
        BY <3>1, <3>2, <3>3 DEF Chain
      <3>5. QED
        BY <2>4, <2>6, <3>4 DEF s
    <2>7. QED
      BY <2>5, <2>6
  <1>6. ASSUME NEW p \in Elements
        PROVE  Children(C, p) = IF p \in rest THEN Children(L, p) ELSE <<>>
    BY <1>1, <1>2, <1>5, <1>6, ChildrenAre
  <1>7. Chained(C, rest)
    BY <1>5 DEF Chained
  <1>8. Settled(S, rest, Kids(L), Kids(C))
    BY <1>1, <1>2, <1>5, <1>6 DEF Settled, Kids
  <1>9. QED
    BY <1>7, <1>8 DEF rest, C

LEMMA DetachedKids ==
  ASSUME NEW L, NEW S, NEW keep, Good(L, S, keep), Chained(L, S), NEW e \in S,
         L.prev[e] # Nil => L.parent[e] # Nil
  PROVE  /\ Chained(Detached(L, e), S)
         /\ \A q \in Elements :
              Children(Detached(L, e), q) = Abstract!RemoveFirst(Children(L, q), e)
  <1>1. ASSUME NEW q \in Elements
        PROVE  Chain(Detached(L, e), S, q, Abstract!RemoveFirst(Children(L, q), e))
    <2>1. Chain(L, S, q, Children(L, q))
      BY ChainedKids DEF Good, Sound
    <2>2. QED
      BY <2>1, DetachedChain
  <1>2. QED
    BY <1>1, ChildrenAre DEF Chained, Good, Sound

\* Who takes e as the i-th child has it there, and nobody else's children change.
Placing(L, D, S, p, i, e) ==
  /\ Chained(D, S)
  /\ \A q \in Elements :
       Children(D, q) = IF q = p THEN PutIn(Children(L, p), i, e) ELSE Children(L, q)

LEMMA InsertedKids ==
  ASSUME NEW L, NEW D, NEW S \in SUBSET Elements, Closed(L, S), Chained(L, S),
         NEW e \in S, L.parent[e] = Nil, NEW p \in S, p # e,
         NEW i, i \in 1 .. Len(Children(L, p)) + 1, Takes(L, D, p, Children(L, p), i, e)
  PROVE  Placing(L, D, S, p, i, e)
  <1> DEFINE s == Children(L, p)
  <1>0. Takes(L, D, p, s, i, e) /\ i \in 1 .. Len(s) + 1
    OBVIOUS
  <1>1. ASSUME NEW q \in Elements
        PROVE  Chain(D, S, q, IF q = p THEN PutIn(s, i, e) ELSE Children(L, q))
    <2>1. /\ Chain(L, S, q, Children(L, q)) /\ Chain(L, S, p, s)
          /\ S \subseteq Elements /\ Nil \notin S
      BY ChainedKids, NilAssumption
    <2> DEFINE r == Children(L, q)
    <2>2. Chain(L, S, q, r)
      BY <2>1
    <2> HIDE DEF r, s
    <2>3. Chain(D, S, q, IF q = p THEN PutIn(s, i, e) ELSE r)
      BY <1>0, <2>1, <2>2, InsertedChain
    <2>4. QED
      BY <2>3 DEF r, s
  <1>2. QED
    BY <1>1, ChildrenAre DEF Chained, Placing

LEMMA AppendedKids ==
  ASSUME NEW L, NEW S, NEW keep, Good(L, S, keep), Chained(L, S), NEW p \in S, NEW e \in S,
         p # e, Apart(L, e)
  PROVE  \E i \in 1 .. Len(Children(L, p)) + 1 : Placing(L, Appended(L, p, e), S, p, i, e)
  <1> DEFINE z == L.last[p]
             D == Appended(L, p, e)
             s == Children(L, p)
             N == Len(s)
  <1>1. /\ S \subseteq Elements /\ Closed(L, S) /\ Agree(L, S) /\ Nil \notin Elements
        /\ p \in Elements /\ e \in Elements /\ p # Nil /\ e # Nil
    BY NilAssumption DEF Good, Sound
  <1>2. /\ L.next[e] = Nil /\ L.prev[e] = Nil /\ L.parent[e] = Nil
        /\ z \in S \cup {Nil} /\ z # e
        /\ z = Nil <=> L.first[p] = Nil
    BY <1>1 DEF Closed, Agree, AgreesAt, Apart
  <1>3. \A x \in Elements :
          /\ D.first[x] = IF z = Nil /\ x = p THEN e ELSE L.first[x]
          /\ D.next[x] = IF x = z THEN e ELSE L.next[x]
          /\ D.parent[x] = IF x = e THEN p ELSE L.parent[x]
    BY <1>1, <1>2 DEF Appended, Put, Pointers, Links, Closed
  <1>4. Chain(L, S, p, s)
    BY <1>1, ChainedKids
  <1> HIDE DEF D, s
  <1>5. s \in Seq(S) /\ N \in Nat /\ (s = <<>> <=> N = 0)
    BY <1>4 DEF Chain
  <1> DEFINE i == N + 1
  <1>6. /\ i \in 1 .. N + 1 /\ (i = 1 <=> z = Nil)
        /\ \A x \in Elements : i > 1 /\ x = s[i - 1] <=> x = z
    <2>1. CASE s = <<>>
      <3>1. z = Nil /\ N = 0
        BY <1>2, <1>4, <1>5, <2>1 DEF Chain
      <3>2. QED
        BY <1>1, <3>1
    <2>2. CASE s # <<>>
      <3>1. N \in 1 .. N /\ N > 0 /\ s[N] \in S
        BY <1>5, <2>2
      <3>2. L.parent[s[N]] = p /\ L.next[s[N]] = Nil
        BY <1>1, <1>4, <3>1, ChainNeighbours
      <3>3. z = s[N] /\ z # Nil
        BY <1>1, <3>1, <3>2 DEF Agree, AgreesAt
      <3>4. i \in 1 .. N + 1 /\ i # 1 /\ i > 1 /\ i - 1 = N
        BY <1>5, <3>1
      <3>5. QED
        BY <3>3, <3>4
    <2>3. QED
      BY <2>1, <2>2
  <1>7. Takes(L, D, p, s, i, e)
    BY <1>1, <1>2, <1>3, <1>6 DEF Takes
  <1>8. Placing(L, D, S, p, i, e)
    <2>1. Takes(L, D, p, Children(L, p), i, e) /\ i \in 1 .. Len(Children(L, p)) + 1
      BY <1>6, <1>7 DEF s
    <2> HIDE DEF i
    <2>2. QED
      BY <1>1, <1>2, <2>1, InsertedKids
  <1>9. QED
    BY <1>6, <1>8 DEF D, s

LEMMA BeforeKids ==
  ASSUME NEW L, NEW S, NEW keep, Good(L, S, keep), Chained(L, S), NEW s \in S, NEW e \in S,
         s # e, Apart(L, e), NEW p \in S, p # e, p = L.parent[s],
         NEW i \in 1 .. Len(Children(L, p)), Children(L, p)[i] = s
  PROVE  Placing(L, PlacedBefore(L, s, e), S, p, i, e)
  <1> DEFINE a == L.prev[s]
             D == PlacedBefore(L, s, e)
             t == Children(L, p)
             N == Len(t)
  <1>1. /\ S \subseteq Elements /\ Closed(L, S) /\ Agree(L, S) /\ Nil \notin Elements
        /\ s \in Elements /\ e \in Elements /\ s # Nil /\ e # Nil /\ p \in Elements /\ p # Nil
    BY NilAssumption DEF Good, Sound
  <1>2. L.prev[e] = Nil /\ L.next[e] = Nil /\ L.parent[e] = Nil /\ a \in S \cup {Nil} /\ a # e
    BY <1>1 DEF Closed, Agree, AgreesAt, Apart
  <1>3. \A x \in Elements :
          /\ D.first[x] = IF a = Nil /\ x = p THEN e ELSE L.first[x]
          /\ D.next[x] = IF x = e THEN s ELSE IF x = a THEN e ELSE L.next[x]
          /\ D.parent[x] = IF x = e THEN p ELSE L.parent[x]
    BY <1>1, <1>2 DEF PlacedBefore, Put, Pointers, Links, Closed
  <1>4. Chain(L, S, p, t)
    BY <1>1, ChainedKids
  <1>5. t[i] = s
    OBVIOUS
  <1> HIDE DEF D, t
  <1>6. t \in Seq(S) /\ N \in Nat /\ i \in 1 .. N /\ i \in 1 .. N + 1 /\ i # N + 1
    <2>1. t \in Seq(S) /\ i \in 1 .. N
      BY <1>4 DEF Chain, t
    <2>2. QED
      BY <2>1
  <1>7. a = IF i = 1 THEN Nil ELSE t[i - 1]
    BY <1>1, <1>4, <1>5, <1>6, ChainNeighbours
  <1>8. i # 1 => i > 1 /\ t[i - 1] \in S
    BY <1>6
  <1>9. Takes(L, D, p, t, i, e)
    BY <1>1, <1>3, <1>5, <1>6, <1>7, <1>8 DEF Takes
  <1>10. Takes(L, D, p, Children(L, p), i, e) /\ i \in 1 .. Len(Children(L, p)) + 1
    BY <1>6, <1>9 DEF t
  <1>11. Placing(L, D, S, p, i, e)
    BY <1>1, <1>2, <1>10, InsertedKids
  <1>12. QED
    BY <1>11 DEF D

LEMMA AfterKids ==
  ASSUME NEW L, NEW S, NEW keep, Good(L, S, keep), Chained(L, S), NEW s \in S, NEW e \in S,
         s # e, Apart(L, e), NEW p \in S, p # e, p = L.parent[s],
         NEW i \in 1 .. Len(Children(L, p)), Children(L, p)[i] = s
  PROVE  Placing(L, PlacedAfter(L, s, e), S, p, i + 1, e)
  <1> DEFINE b == L.next[s]
             D == PlacedAfter(L, s, e)
             t == Children(L, p)
             N == Len(t)
             h == i + 1
  <1>1. /\ S \subseteq Elements /\ Closed(L, S) /\ Agree(L, S) /\ Nil \notin Elements
        /\ s \in Elements /\ e \in Elements /\ s # Nil /\ e # Nil /\ p \in Elements /\ p # Nil
    BY NilAssumption DEF Good, Sound
  <1>2. \A x \in Elements :
          /\ D.first[x] = L.first[x]
          /\ D.next[x] = IF x = s THEN e ELSE IF x = e THEN b ELSE L.next[x]
          /\ D.parent[x] = IF x = e THEN p ELSE L.parent[x]
    BY <1>1 DEF PlacedAfter, Put, Pointers, Links, Closed
  <1>3. Chain(L, S, p, t)
    BY <1>1, ChainedKids
  <1>4. t[i] = s
    OBVIOUS
  <1> HIDE DEF D, t
  <1>5. t \in Seq(S) /\ N \in Nat /\ i \in 1 .. N
    BY <1>3 DEF Chain, t
  <1>6. h \in 1 .. N + 1 /\ h # 1 /\ h > 1 /\ h - 1 = i /\ (h = N + 1 <=> i = N)
    BY <1>5
  <1>7. b = IF i = N THEN Nil ELSE t[i + 1]
    BY <1>1, <1>3, <1>4, <1>5, ChainNeighbours
  <1>8. Takes(L, D, p, t, h, e)
    BY <1>1, <1>2, <1>4, <1>6, <1>7 DEF Takes
  <1> HIDE DEF h
  <1>9. Takes(L, D, p, Children(L, p), h, e) /\ h \in 1 .. Len(Children(L, p)) + 1
    BY <1>6, <1>8 DEF t
  <1>10. Placing(L, D, S, p, h, e)
    BY <1>1, <1>9, InsertedKids DEF Apart
  <1>11. QED
    BY <1>10 DEF D, h

\* Whose child an element is, the forest reads from the sequences.
LEMMA ToSetIs ==
  ASSUME NEW L, NEW S, NEW p, NEW s, Chain(L, S, p, s)
  PROVE  /\ Abstract!ToSet(s) \subseteq S
         /\ \A c \in S : c \in Abstract!ToSet(s) <=> L.parent[c] = p
  <1>1. s \in Seq(S) /\ DOMAIN s = 1 .. Len(s) /\ \A i \in 1 .. Len(s) : s[i] \in S
    <2>1. s \in Seq(S)
      BY DEF Chain
    <2>2. QED
      BY <2>1
  <1>2. Abstract!ToSet(s) = {s[i] : i \in 1 .. Len(s)}
    BY <1>1 DEF Abstract!ToSet
  <1>3. \A c \in S : L.parent[c] = p <=> \E i \in 1 .. Len(s) : s[i] = c
    BY DEF Chain
  <1>4. QED
    BY <1>1, <1>2, <1>3

\* e is nobody's child: taking it out of a chain changes nothing.
LEMMA AbsentKids ==
  ASSUME NEW L, NEW S, NEW q \in Elements, NEW s, Chain(L, S, q, s), NEW e \in S,
         L.parent[e] = Nil
  PROVE  Abstract!RemoveFirst(s, e) = s /\ \A j \in 1 .. Len(s) : s[j] # e
  <1>1. s \in Seq(S) /\ q # Nil
    BY NilAssumption DEF Chain
  <1>2. Len(s) \in Nat
    BY <1>1
  <1>3. \A j \in 1 .. Len(s) : s[j] # e
    BY <1>1 DEF Chain
  <1>4. QED
    BY <1>2, <1>3, RemoveFirstIs

LEMMA SameChains ==
  ASSUME NEW L, NEW D, NEW S \in SUBSET Elements, Closed(L, S), Chained(L, S),
         D.first = L.first, D.parent = L.parent,
         \A x \in S : L.parent[x] # Nil => D.next[x] = L.next[x]
  PROVE  Chained(D, S) /\ \A q \in Elements : Children(D, q) = Children(L, q)
  <1>1. ASSUME NEW q \in Elements PROVE Chain(D, S, q, Children(L, q))
    <2> DEFINE s == Children(L, q)
    <2>1. Chain(L, S, q, s) /\ q # Nil
      BY ChainedKids, NilAssumption
    <2> HIDE DEF s
    <2>2. s \in Seq(S)
      BY <2>1 DEF Chain
    <2>3. \A i \in 1 .. Len(s) : s[i] \in S
      BY <2>2
    <2>4. \A i \in 1 .. Len(s) : L.parent[s[i]] = q
      BY <2>1, <2>3 DEF Chain
    <2>5. \A i \in 1 .. Len(s) : D.next[s[i]] = IF i = Len(s) THEN Nil ELSE s[i + 1]
      BY <2>1, <2>3, <2>4 DEF Chain
    <2>6. Chain(D, S, q, s)
      BY <2>1, <2>5 DEF Chain
    <2>7. QED
      BY <2>6 DEF s
  <1>2. QED
    BY <1>1, ChildrenAre DEF Chained

LEMMA PlacingKids ==
  ASSUME NEW L, NEW S \in SUBSET Elements, Closed(L, S), Chained(L, S), NEW e \in S,
         L.parent[e] = Nil, NEW p \in Elements,
         NEW i \in 1 .. Len(Children(L, p)) + 1, NEW D, Placing(L, D, S, p, i, e),
         NEW q \in Elements
  PROVE  Abstract!RemoveFirst(Children(D, q), e) = Children(L, q)
  <1>1. CASE q = p
    <2> DEFINE s == Children(L, p)
    <2>1. Chain(L, S, p, s) /\ i \in 1 .. Len(s) + 1
      BY ChainedKids
    <2>2. Children(D, q) = PutIn(s, i, e)
      BY <1>1 DEF Placing
    <2> HIDE DEF s
    <2>3. s \in Seq(S) /\ \A j \in 1 .. Len(s) : s[j] # e
      <3>1. s \in Seq(S)
        BY <2>1 DEF Chain
      <3>2. \A j \in 1 .. Len(s) : s[j] # e
        BY <2>1, AbsentKids
      <3>3. QED
        BY <3>1, <3>2
    <2>4. Abstract!RemoveFirst(PutIn(s, i, e), e) = s
      BY <2>1, <2>3, RemoveFirstPut
    <2>5. QED
      BY <1>1, <2>2, <2>4 DEF s
  <1>2. CASE q # p
    <2>1. Children(D, q) = Children(L, q)
      BY <1>2 DEF Placing
    <2>2. Chain(L, S, q, Children(L, q))
      BY ChainedKids
    <2> DEFINE s == Children(L, q)
    <2> HIDE DEF s
    <2>3. Abstract!RemoveFirst(s, e) = s
      BY <2>2, AbsentKids, Zenon DEF s
    <2>4. QED
      BY <2>1, <2>3 DEF s
  <1>3. QED
    BY <1>1, <1>2

\* Wherever e is placed, all others keep their places.
LEMMA PlacedKids ==
  ASSUME NEW L, NEW S, NEW keep, Good(L, S, keep), Chained(L, S),
         NEW s \in keep, NEW e \in keep, s # e, Apart(L, e), e \notin Above(L, s), NEW D,
         \/ D = Appended(L, s, e)
         \/ D = PlacedBefore(L, s, e) /\ ~Stale(L, s)
         \/ D = PlacedAfter(L, s, e)
  PROVE  /\ Chained(D, S)
         /\ \A q \in Elements : Abstract!RemoveFirst(Children(D, q), e) = Children(L, q)
  <1> DEFINE p == L.parent[s]
             Kept(X) == /\ Chained(X, S)
                        /\ \A q \in Elements : Abstract!RemoveFirst(Children(X, q), e) = Children(L, q)
  <1>1. /\ S \in SUBSET Elements /\ s \in S /\ e \in S /\ Closed(L, S) /\ Agree(L, S)
        /\ Nil \notin Elements /\ L.parent[e] = Nil /\ p \in S \cup {Nil}
    BY NilAssumption DEF Good, Sound, Apart, Closed
  <1>2. p # e
    BY <1>1 DEF Above
  <1>3. ASSUME NEW X, NEW x \in S, NEW i \in 1 .. Len(Children(L, x)) + 1,
               Placing(L, X, S, x, i, e)
        PROVE  Kept(X)
    BY <1>1, <1>3, PlacingKids DEF Placing
  <1>4. ASSUME NEW X, X.first = L.first, X.parent = L.parent,
               \A x \in S : L.parent[x] # Nil => X.next[x] = L.next[x]
        PROVE  Kept(X)
    <2>1. Chained(X, S) /\ \A q \in Elements : Children(X, q) = Children(L, q)
      BY <1>1, <1>4, SameChains
    <2>2. ASSUME NEW q \in Elements
          PROVE  Abstract!RemoveFirst(Children(L, q), e) = Children(L, q)
      <3>1. Chain(L, S, q, Children(L, q))
        BY <1>1, ChainedKids
      <3>2. QED
        BY <1>1, <3>1, AbsentKids
    <2>3. QED
      BY <2>1, <2>2
  <1>5. p # Nil => \E i \in 1 .. Len(Children(L, p)) : Children(L, p)[i] = s
    <2>1. ASSUME p # Nil PROVE Chain(L, S, p, Children(L, p))
      BY <1>1, <2>1, ChainedKids
    <2>2. QED
      BY <1>1, <2>1 DEF Chain
  <1>6. p # Nil => Len(Children(L, p)) \in Nat
    <2>1. ASSUME p # Nil PROVE Children(L, p) \in Seq(S)
      BY <1>1, <2>1, ChainedKids DEF Chain
    <2>2. QED
      BY <2>1
  <1> HIDE DEF Kept
  <1>7. Kept(Appended(L, s, e))
    BY <1>1, <1>3, AppendedKids
  <1>8. ASSUME ~Stale(L, s) PROVE Kept(PlacedBefore(L, s, e))
    <2>1. CASE p # Nil
      <3>1. PICK i \in 1 .. Len(Children(L, p)) : Children(L, p)[i] = s
        BY <1>5, <2>1
      <3>2. p \in S /\ i \in 1 .. Len(Children(L, p)) + 1
        BY <1>1, <1>6, <2>1
      <3>3. Placing(L, PlacedBefore(L, s, e), S, p, i, e)
        BY <1>1, <1>2, <3>1, <3>2, BeforeKids
      <3>4. QED
        BY <1>3, <3>2, <3>3
    <2>2. CASE p = Nil
      <3> DEFINE a == L.prev[s]
                 X == PlacedBefore(L, s, e)
      <3>1. CASE a = Nil
        <4>1. X = L
          BY <2>2, <3>1 DEF PlacedBefore
        <4>2. QED
          BY <1>4, <4>1
      <3>2. CASE a # Nil
        <4>1. a \in S /\ L.next[a] = s /\ L.parent[a] = Nil
          BY <1>1, <1>8, <2>2, <3>2 DEF Stale, Closed, Agree, AgreesAt
        <4>2. /\ X.first = L.first /\ X.parent = [L.parent EXCEPT ![e] = p]
              /\ X.next = [Put(L.next, a, e) EXCEPT ![e] = s]
          BY <3>2 DEF PlacedBefore
        <4> HIDE DEF X
        <4>3. X.parent = L.parent
          BY <1>1, <2>2, <4>2 DEF Closed, Links, Pointers
        <4>4. \A x \in S : L.parent[x] # Nil => X.next[x] = L.next[x]
          BY <1>1, <4>1, <4>2 DEF Put, Closed, Links, Pointers
        <4>5. QED
          BY <1>4, <4>2, <4>3, <4>4 DEF X
      <3>3. QED
        BY <3>1, <3>2
    <2>3. QED
      BY <2>1, <2>2
  <1>9. Kept(PlacedAfter(L, s, e))
    <2>1. CASE p # Nil
      <3>1. PICK i \in 1 .. Len(Children(L, p)) : Children(L, p)[i] = s
        BY <1>5, <2>1
      <3>2. p \in S /\ i + 1 \in 1 .. Len(Children(L, p)) + 1
        BY <1>1, <1>6, <2>1
      <3>3. Placing(L, PlacedAfter(L, s, e), S, p, i + 1, e)
        BY <1>1, <1>2, <3>1, <3>2, AfterKids
      <3>4. QED
        BY <1>3, <3>2, <3>3
    <2>2. CASE p = Nil
      <3> DEFINE b == L.next[s]
                 X == PlacedAfter(L, s, e)
      <3>1. CASE b = Nil
        <4>1. X = L
          BY <2>2, <3>1 DEF PlacedAfter
        <4>2. QED
          BY <1>4, <4>1
      <3>2. CASE b # Nil
        <4>1. /\ X.first = L.first /\ X.parent = [L.parent EXCEPT ![e] = p]
              /\ X.next = [L.next EXCEPT ![e] = b, ![s] = e]
          BY <3>2 DEF PlacedAfter
        <4> HIDE DEF X
        <4>2. X.parent = L.parent
          BY <1>1, <2>2, <4>1 DEF Closed, Links, Pointers
        <4>3. \A x \in S : L.parent[x] # Nil => X.next[x] = L.next[x]
          BY <1>1, <2>2, <4>1 DEF Closed, Links, Pointers
        <4>4. QED
          BY <1>4, <4>1, <4>2, <4>3 DEF X
      <3>3. QED
        BY <3>1, <3>2
    <2>3. QED
      BY <2>1, <2>2
  <1>10. QED
    BY <1>7, <1>8, <1>9 DEF Kept

\* What remove() leaves of the children: e is taken out, and those may go that were
\* kept by e alone.
LEMMA RemovedKids ==
  ASSUME Good(links, live, held), Chained(links, live), NEW e \in held, ~CallsNull(e)
  PROVE  LET r == AfterRemove(e)
         IN /\ Chained(r.links, r.live)
            /\ Settled(live, r.live, [q \in Elements |-> Abstract!RemoveFirst(Children(links, q), e)],
                       Kids(r.links))
            /\ r.live # live => links.parent[e] = Nil
  <1> DEFINE D == Detached(links, e)
             rest == Surviving(D, live, held)
             W == [q \in Elements |-> Abstract!RemoveFirst(Children(links, q), e)]
  <1>1. AfterRemove(e).links = Counted(D, rest) /\ AfterRemove(e).live = rest
    BY DEF AfterRemove
  <1>2. /\ e \in live /\ (links.prev[e] # Nil => links.parent[e] # Nil)
        /\ Sound(D, live, held) /\ Agree(D, live)
        /\ links.parent[e] # Nil => Good(D, live, held)
    BY DetachedGood DEF CallsNull, Good, Sound
  <1>3. /\ Chained(D, live)
        /\ \A q \in Elements : Children(D, q) = Abstract!RemoveFirst(Children(links, q), e)
    BY <1>2, DetachedKids
  <1> HIDE DEF D
  <1>4. Kids(D) = W
    BY <1>3 DEF Kids
  <1>5. Chained(Counted(D, rest), rest) /\ Settled(live, rest, Kids(D), Kids(Counted(D, rest)))
    BY <1>2, <1>3, CountedKids
  <1>6. links.parent[e] # Nil => rest = live
    BY <1>2, CountedAll
  <1> HIDE DEF rest
  <1>7. QED
    BY <1>1, <1>4, <1>5, <1>6

\* When the children settle so and e is where one parent has it, the forest moved e.
LEMMA MovesInForest ==
  ASSUME Closed(links, live), live \in SUBSET Elements, Chained(links, live), NEW e \in live,
         e \in live', (live \in SUBSET Elements)', Closed(links, live)', Chained(links, live)',
         Settled(live, live',
                 [q \in Elements |-> Abstract!RemoveFirst(Children(links, q), e)],
                 [q \in Elements |-> Abstract!RemoveFirst(Children(links', q), e)]),
         live' # live => links.parent[e] = Nil
  PROVE  Abstract!Move(e)
  <1> DEFINE W  == [q \in Elements |-> Abstract!RemoveFirst(Children(links, q), e)]
             Wp == [q \in Elements |-> Abstract!RemoveFirst(Children(links', q), e)]
             K  == [q \in Elements |-> Children(links, q)]
             Kp == [q \in Elements |-> Children(links', q)]
  <1>1. W = Abstract!Without(e) /\ Wp = Abstract!Without(e)'
    BY DEF Abstract!Without
  <1>2. Abstract!Settle(Abstract!Without(e), Abstract!Without(e)')
    <2>1. Settled(live, live', W, Wp)
      OBVIOUS
    <2> HIDE DEF W, Wp
    <2>2. Abstract!Settle(W, Wp)
      BY <2>1 DEF Abstract!Settle, Settled
    <2>3. QED
      BY <1>1, <2>2
  <1>3. ASSUME NEW q \in Elements
        PROVE  /\ e \in Abstract!ToSet(Children(links, q)) <=> links.parent[e] = q
               /\ e \in Abstract!ToSet(Children(links', q)) <=> links.parent[e]' = q
    <2>1. Chain(links, live, q, Children(links, q))
      BY ChainedKids
    <2>2. Chain(links', live', q, Children(links', q))
      BY ChainedKids
    <2>3. QED
      BY <2>1, <2>2, ToSetIs
  <1>4. \A p, q \in Abstract!ParentOf(e)' : p = q
    BY <1>3 DEF Abstract!ParentOf
  <1>5. live' # live => Abstract!ParentOf(e) = {}
    BY <1>3, NilAssumption DEF Abstract!ParentOf
  <1>6. QED
    BY <1>2, <1>4, <1>5 DEF Abstract!Move

LEMMA MoveForest ==
  ASSUME Good(links, live, held), Chained(links, live), fault = "none",
         NEW s \in Elements, NEW e \in Elements,
         AppendChild(s, e) \/ Before(s, e) \/ After(s, e), fault' = "none"
  PROVE  Chained(links, live)' /\ Abstract!Move(e)
  <1> DEFINE r == AfterRemove(e)
             W == [q \in Elements |-> Abstract!RemoveFirst(Children(links, q), e)]
  <1>1. /\ s \in held /\ e \in held /\ s # e /\ ~CallsNull(e) /\ e \notin Above(links, s)
        /\ held' = held
    BY DEF AppendChild, Before, After, Movable, Commit
  <1>2. /\ Good(r.links, r.live, held) /\ Apart(r.links, e)
        /\ e \notin Above(r.links, s)
    <2>1. /\ Good(r.links, r.live, held) /\ Apart(r.links, e)
      BY <1>1, RemovedGood
    <2>2. \A y \in Elements : r.links.parent[y] \in {links.parent[y], Nil}
      BY <1>1, RemovedParents
    <2>3. QED
      BY <1>1, <2>1, <2>2, AboveLess
  <1>3. /\ Chained(r.links, r.live) /\ Settled(live, r.live, W, Kids(r.links))
        /\ r.live # live => links.parent[e] = Nil
    BY <1>1, RemovedKids
  <1>4. /\ live' = r.live /\ Good(links, live, held)'
        /\ \/ links' = Appended(r.links, s, e)
           \/ links' = PlacedBefore(r.links, s, e) /\ ~Stale(r.links, s)
           \/ links' = PlacedAfter(r.links, s, e)
    BY MovedGood
  <1> HIDE DEF r, W
  <1>5. /\ Chained(links', r.live)
        /\ \A q \in Elements : Abstract!RemoveFirst(Children(links', q), e) = Children(r.links, q)
    BY <1>1, <1>2, <1>3, <1>4, PlacedKids
  <1>6. Kids(r.links) = [q \in Elements |-> Abstract!RemoveFirst(Children(links', q), e)]
    BY <1>5 DEF Kids
  <1>7. Settled(live, live', W, [q \in Elements |-> Abstract!RemoveFirst(Children(links', q), e)])
    BY <1>3, <1>4, <1>6
  <1>8. e \in live /\ e \in live'
    BY <1>1, <1>4 DEF Good, Sound
  <1>9. QED
    BY <1>3, <1>4, <1>5, <1>7, <1>8, MovesInForest DEF Good, Sound, W

LEMMA RemoveForest ==
  ASSUME Good(links, live, held), Chained(links, live), NEW e \in Elements, Remove(e)
  PROVE  Chained(links, live)' /\ Abstract!Move(e)
  <1> DEFINE r == AfterRemove(e)
             W == [q \in Elements |-> Abstract!RemoveFirst(Children(links, q), e)]
  <1>1. /\ e \in held /\ ~CallsNull(e)
        /\ links' = r.links /\ live' = r.live /\ held' = held
    BY DEF Remove, Commit, AfterRemove
  <1>2. Good(r.links, r.live, held) /\ Apart(r.links, e)
    BY <1>1, RemovedGood
  <1>3. /\ Chained(r.links, r.live) /\ Settled(live, r.live, W, Kids(r.links))
        /\ r.live # live => links.parent[e] = Nil
    BY <1>1, RemovedKids
  <1> HIDE DEF r, W
  <1>4. e \in live /\ e \in live'
    BY <1>1, <1>2 DEF Good, Sound
  <1>5. ASSUME NEW q \in Elements
        PROVE  Abstract!RemoveFirst(Children(links', q), e) = Children(links', q)
    <2>1. Chain(links', live', q, Children(links', q))
      BY <1>1, <1>2, <1>3, ChainedKids DEF Good, Sound
    <2>2. links'.parent[e] = Nil
      BY <1>1, <1>2 DEF Apart
    <2>3. QED
      BY <1>4, <2>1, <2>2, AbsentKids, Zenon
  <1>6. Kids(r.links) = [q \in Elements |-> Abstract!RemoveFirst(Children(links', q), e)]
    BY <1>1, <1>5 DEF Kids
  <1>7. Settled(live, live', W, [q \in Elements |-> Abstract!RemoveFirst(Children(links', q), e)])
    BY <1>1, <1>3, <1>6
  <1>8. Good(links, live, held)'
    BY <1>1, <1>2
  <1>9. QED
    BY <1>1, <1>3, <1>4, <1>7, <1>8, MovesInForest DEF Good, Sound, W

LEMMA CreateForest ==
  ASSUME Good(links, live, held), Chained(links, live), NEW e \in Elements, Create(e)
  PROVE  Chained(links, live)' /\ Abstract!Create(e)
  <1>1. /\ e \notin live /\ Commit(links, live \cup {e}, held \cup {e})
        /\ Good(links, live \cup {e}, held \cup {e}) /\ Apart(links, e)
        /\ live \in SUBSET Elements /\ Closed(links, live)
    BY CreateGood DEF Create, Good, Sound
  <1>2. links' = links /\ live' = live \cup {e}
    BY <1>1, CommitAll
  <1>3. ASSUME NEW q \in Elements PROVE Chain(links, live \cup {e}, q, Children(links, q))
    <2> DEFINE s == Children(links, q)
    <2>1. Chain(links, live, q, s) /\ q # Nil
      BY <1>1, ChainedKids, NilAssumption
    <2> HIDE DEF s
    <2>2. s \in Seq(live) /\ s \in Seq(live \cup {e})
      BY <2>1 DEF Chain
    <2>3. \A i \in 1 .. Len(s) : s[i] # e
      BY <1>1, <2>2
    <2>4. \A c \in live \cup {e} : links.parent[c] = q <=> \E i \in 1 .. Len(s) : s[i] = c
      BY <1>1, <2>1, <2>3 DEF Chain, Apart
    <2>5. Chain(links, live \cup {e}, q, s)
      BY <2>1, <2>2, <2>4 DEF Chain
    <2>6. QED
      BY <2>5 DEF s
  <1>4. Chained(links', live')
    BY <1>2, <1>3 DEF Chained
  <1>5. QED
    BY <1>1, <1>2, <1>4 DEF Abstract!Create

LEMMA ReleaseForest ==
  ASSUME Good(links, live, held), Chained(links, live), NEW e \in Elements, Release(e)
  PROVE  Chained(links, live)' /\ Abstract!Drop
  <1> DEFINE keep == held \ {e}
             rest == Surviving(links, live, keep)
  <1>1. Sound(links, live, keep) /\ Agree(links, live)
    BY DEF Good, Sound
  <1>2. live' = rest /\ links' = Counted(links, rest)
    BY DEF Release, Commit
  <1> HIDE DEF keep
  <1>3. Chained(Counted(links, rest), rest) /\ Settled(live, rest, Kids(links), Kids(Counted(links, rest)))
    BY <1>1, CountedKids
  <1> HIDE DEF rest
  <1>4. Settled(live, live', Kids(links), Kids(links'))
    BY <1>2, <1>3
  <1>5. Abstract!Settle(Kids(links), Kids(links'))
    BY <1>4 DEF Settled, Abstract!Settle
  <1>6. QED
    BY <1>2, <1>3, <1>5 DEF Abstract!Drop, Kids

ForestInv == Inv /\ (fault = "none" => Chained(links, live))

LEMMA ForestStart == Init => ForestInv /\ Abstract!Init
  <1> SUFFICES ASSUME Init PROVE ForestInv /\ Abstract!Init
    OBVIOUS
  <1>1. Inv /\ live = {} /\ \A p \in Elements : links.first[p] = Nil
    BY InvStart DEF Init, NoPointers
  <1>2. ASSUME NEW p \in Elements PROVE Chain(links, {}, p, <<>>)
    <2>1. <<>> \in Seq({}) /\ Len(<<>>) = 0 /\ 1 .. 0 = {}
      OBVIOUS
    <2>2. QED
      BY <1>1, <2>1 DEF Chain
  <1>3. Chained(links, live)
    BY <1>1, <1>2 DEF Chained
  <1>4. \A p \in Elements : Children(links, p) = <<>>
    BY <1>1, <1>2, ChildrenAre
  <1>5. QED
    BY <1>1, <1>3, <1>4 DEF ForestInv, Abstract!Init

LEMMA ForestStep ==
  ASSUME ForestInv, [Next]_vars
  PROVE  ForestInv' /\ [fault' # "none" \/ Abstract!Next]_(Abstract!vars)
  <1>1. Inv' /\ Inv
    BY InvStep DEF ForestInv
  <1>2. CASE UNCHANGED vars
    BY <1>1, <1>2 DEF vars, ForestInv, Abstract!vars
  <1> DEFINE J == Good(links, live, held) /\ fault = "none" /\ Chained(links, live)
             Done == Chained(links, live)' /\ (Abstract!Next \/ UNCHANGED Abstract!vars)
  <1>3. ASSUME Next PROVE J
    BY <1>3 DEF Next, Inv, ForestInv
  <1>4. ASSUME J, NEW e \in Elements, Create(e) PROVE Done
    BY <1>4, CreateForest DEF Abstract!Next
  <1>5. ASSUME J, NEW e \in Elements, Remove(e) PROVE Done
    BY <1>5, RemoveForest DEF Abstract!Next
  <1>6. ASSUME J, NEW s \in Elements, NEW e \in Elements,
               AppendChild(s, e) \/ Before(s, e) \/ After(s, e), fault' = "none"
        PROVE  Done
    BY <1>6, MoveForest DEF Abstract!Next
  <1>7. ASSUME J, NEW e \in Elements, Hold(e) PROVE Done
    BY <1>7 DEF Hold, Abstract!vars
  <1>8. ASSUME J, NEW e \in Elements, Release(e) PROVE Done
    BY <1>8, ReleaseForest DEF Abstract!Next
  <1>9. ASSUME NEW e \in Elements, Crash(e) PROVE fault' # "none"
    BY <1>9 DEF Crash
  <1> HIDE DEF Done
  <1>10. ASSUME Next, fault' = "none" PROVE Done
    BY <1>3, <1>4, <1>5, <1>6, <1>7, <1>8, <1>9, <1>10 DEF Next
  <1>11. QED
    BY <1>1, <1>2, <1>10 DEF Done, ForestInv

\* The five pointers implement an ordered forest, until a fault: each operation moves one
\* element and nothing else changes its place; what nobody holds any more goes, and of the
\* children of who goes the last ones may stay, as roots.
THEOREM PointersAreForest == Spec => ImplementsForest
  <1>1. Init => ForestInv /\ Abstract!Init
    BY ForestStart
  <1>2. ForestInv /\ [Next]_vars => ForestInv' /\ [fault' # "none" \/ Abstract!Next]_(Abstract!vars)
    BY ForestStep
  <1>3. QED
    BY <1>1, <1>2, PTL DEF Spec, ImplementsForest

-----------------------------------------------------------------------------
(***************************************************************************)
(* Elements adrift.                                                        *)
(***************************************************************************)

\* Who has no parent has no siblings.
Moored(L, S) == \A x \in S : L.parent[x] = Nil => L.prev[x] = Nil /\ L.next[x] = Nil

LEMMA DetachedMoored ==
  ASSUME NEW L, NEW S, NEW keep, Good(L, S, keep), Moored(L, S), NEW e \in S
  PROVE  Moored(Detached(L, e), S)
  <1> DEFINE a == L.prev[e]
             b == L.next[e]
             p == L.parent[e]
             D == Detached(L, e)
  <1>1. S \subseteq Elements /\ Nil \notin Elements /\ a \in S \cup {Nil} /\ b \in S \cup {Nil}
    BY NilAssumption DEF Good, Sound, Closed
  <1>2. a # Nil => p # Nil
    BY DEF Moored
  <1>3. /\ p # Nil /\ a # Nil => L.parent[a] = p
        /\ b # Nil => L.parent[b] = p
    BY DEF Good, Agree, AgreesAt
  <1>4. \A x \in S : /\ D.next[x] = IF x = e THEN Nil ELSE IF x = a THEN b ELSE L.next[x]
                     /\ D.prev[x] = IF x = e THEN Nil
                                    ELSE IF x = b /\ p # Nil THEN a ELSE L.prev[x]
                     /\ D.parent[x] = IF x = e THEN Nil ELSE L.parent[x]
    BY <1>1, <1>2, DetachedPointers
  <1> HIDE DEF D
  <1>5. QED
    BY <1>1, <1>2, <1>3, <1>4 DEF Moored, D

LEMMA PlacedMoored ==
  ASSUME NEW L, NEW S, NEW keep, Good(L, S, keep), Moored(L, S), NEW s \in S, NEW e \in S,
         s # e, Apart(L, e), NEW D,
         \/ D = Appended(L, s, e) \/ D = PlacedBefore(L, s, e) \/ D = PlacedAfter(L, s, e)
  PROVE  Moored(D, S)
  <1> DEFINE z == L.last[s]
             a == L.prev[s]
             b == L.next[s]
             p == L.parent[s]
  <1>1. /\ S \subseteq Elements /\ Nil \notin Elements
        /\ L.next \in Pointers /\ L.prev \in Pointers /\ L.parent \in Pointers
        /\ p \in S \cup {Nil}
    BY NilAssumption DEF Good, Sound, Closed, Links
  <1>2. /\ z # Nil => L.parent[z] = s
        /\ b # Nil => L.parent[b] = p
        /\ p # Nil /\ a # Nil => L.parent[a] = p
        /\ p = Nil => a = Nil /\ b = Nil
    BY DEF Good, Agree, AgreesAt, Moored
  <1>3. CASE D = Appended(L, s, e)
    <2>1. /\ D.next = Put(L.next, z, e) /\ D.prev = [L.prev EXCEPT ![e] = z]
          /\ D.parent = [L.parent EXCEPT ![e] = s]
      BY <1>3 DEF Appended
    <2>2. \A x \in S : /\ D.parent[x] = IF x = e THEN s ELSE L.parent[x]
                       /\ D.next[x] = IF x = z THEN e ELSE L.next[x]
                       /\ D.prev[x] = IF x = e THEN z ELSE L.prev[x]
      BY <1>1, <2>1 DEF Put, Pointers
    <2>3. QED
      BY <1>1, <1>2, <2>2 DEF Moored
  <1>4. CASE D = PlacedBefore(L, s, e)
    <2>1. CASE p = Nil
      BY <1>2, <1>4, <2>1 DEF PlacedBefore
    <2>2. CASE p # Nil
      <3>1. /\ D.next = [Put(L.next, a, e) EXCEPT ![e] = s]
            /\ D.prev = [L.prev EXCEPT ![e] = a, ![s] = e]
            /\ D.parent = [L.parent EXCEPT ![e] = p]
        BY <1>4, <2>2 DEF PlacedBefore
      <3>2. \A x \in S : /\ D.parent[x] = IF x = e THEN p ELSE L.parent[x]
                         /\ x # e => D.next[x] = IF x = a THEN e ELSE L.next[x]
                         /\ x # e => D.prev[x] = IF x = s THEN e ELSE L.prev[x]
        BY <1>1, <3>1 DEF Put, Pointers
      <3>3. QED
        BY <1>1, <1>2, <2>2, <3>2 DEF Moored
    <2>3. QED
      BY <2>1, <2>2
  <1>5. CASE D = PlacedAfter(L, s, e)
    <2>1. CASE p = Nil
      BY <1>2, <1>5, <2>1 DEF PlacedAfter
    <2>2. CASE p # Nil
      <3>1. /\ D.next = [L.next EXCEPT ![e] = b, ![s] = e]
            /\ D.prev = [Put(L.prev, b, e) EXCEPT ![e] = s]
            /\ D.parent = [L.parent EXCEPT ![e] = p]
        BY <1>5, <2>2 DEF PlacedAfter
      <3>2. \A x \in S : /\ D.parent[x] = IF x = e THEN p ELSE L.parent[x]
                         /\ x # e => D.next[x] = IF x = s THEN e ELSE L.next[x]
                         /\ x # e => D.prev[x] = IF x = b THEN e ELSE L.prev[x]
        BY <1>1, <3>1 DEF Put, Pointers
      <3>3. QED
        BY <1>1, <1>2, <2>2, <3>2 DEF Moored
    <2>3. QED
      BY <2>1, <2>2
  <1>6. QED
    BY <1>3, <1>4, <1>5

\* Where nobody is adrift remove() frees nothing.
LEMMA RemovedMoored ==
  ASSUME Good(links, live, held), Moored(links, live), NEW e \in held
  PROVE  /\ ~CallsNull(e)
         /\ AfterRemove(e).live = live
         /\ Good(AfterRemove(e).links, live, held) /\ Moored(AfterRemove(e).links, live)
         /\ Apart(AfterRemove(e).links, e)
  <1> DEFINE D == Detached(links, e)
  <1>1. e \in live /\ (links.parent[e] = Nil => links.prev[e] = Nil /\ links.next[e] = Nil)
    BY DEF Good, Sound, Moored
  <1>2. Good(D, live, held) /\ Apart(D, e)
    BY <1>1, DetachedGood
  <1>3. Moored(D, live)
    BY <1>1, DetachedMoored
  <1> HIDE DEF D
  <1>4. Surviving(D, live, held) = live /\ Counted(D, live) = D
    BY <1>2, CountedAll
  <1>5. AfterRemove(e).live = live /\ AfterRemove(e).links = D
    BY <1>4 DEF AfterRemove, D
  <1>6. QED
    BY <1>1, <1>2, <1>3, <1>5 DEF CallsNull

LEMMA MooredIs ==
  ASSUME Sound(links, live, held)
  PROVE  Adrift = {} <=> Moored(links, live)
  BY DEF Adrift, Moored

LEMMA DriftStep ==
  ASSUME Inv, Next
  PROVE  IF fault' = "none"
         THEN Adrift = {} /\ Adrift' # {} => \E c \in Adrift' : links.parent[c] \in live \ live'
         ELSE Adrift # {}
  <1> DEFINE J == Good(links, live, held) /\ fault = "none"
             Moors == fault' = "none" /\ Adrift' = {}
  <1>1. J /\ Sound(links, live, held) /\ Sound(links, live, held)'
    BY InvStep DEF Next, Inv
  <1>2. /\ Adrift = {} <=> Moored(links, live)
        /\ Adrift' = {} <=> Moored(links', live')
    <2>1. Adrift = {} <=> Moored(links, live)
      BY <1>1, MooredIs
    <2>2. Adrift' = {} <=> Moored(links', live')
      BY DEF Adrift, Moored
    <2>3. QED
      BY <2>1, <2>2
  <1>3. ASSUME NEW e \in Elements, Create(e), Moored(links, live) PROVE Moors
    <2>1. /\ Good(links, live \cup {e}, held \cup {e}) /\ Apart(links, e)
          /\ Commit(links, live \cup {e}, held \cup {e})
      BY <1>1, <1>3, CreateGood DEF Create
    <2>2. links' = links /\ live' = live \cup {e}
      BY <2>1, CommitAll
    <2>3. Moored(links', live')
      BY <1>3, <2>1, <2>2 DEF Moored, Apart
    <2>4. QED
      BY <1>1, <1>2, <1>3, <2>3 DEF Create
  <1>4. ASSUME NEW e \in Elements, Remove(e), Moored(links, live) PROVE Moors
    <2> DEFINE r == AfterRemove(e)
    <2>1. e \in held /\ links' = r.links /\ live' = r.live
      BY <1>4 DEF Remove, Commit, AfterRemove
    <2>2. r.live = live /\ Moored(r.links, live)
      BY <1>1, <1>4, <2>1, RemovedMoored
    <2> HIDE DEF r
    <2>3. Moored(links', live')
      BY <2>1, <2>2
    <2>4. QED
      BY <1>1, <1>2, <1>4, <2>3 DEF Remove
  <1>5. ASSUME NEW s \in Elements, NEW e \in Elements,
               AppendChild(s, e) \/ Before(s, e) \/ After(s, e), Moored(links, live)
        PROVE  Moors
    <2> DEFINE r == AfterRemove(e)
    <2>1. s \in held /\ e \in held /\ s # e
      BY <1>5 DEF AppendChild, Before, After, Movable
    <2>2. /\ r.live = live /\ Good(r.links, live, held) /\ Moored(r.links, live)
          /\ Apart(r.links, e)
      BY <1>1, <1>5, <2>1, RemovedMoored
    <2>3. s \in live /\ e \in live
      BY <1>1, <2>1 DEF Sound
    <2>4. \/ Commit(Appended(r.links, s, e), r.live, held) /\ fault' = fault
          \/ /\ Commit(PlacedBefore(r.links, s, e), r.live, held)
             /\ fault' = IF Stale(r.links, s) THEN "crossed" ELSE fault
          \/ Commit(PlacedAfter(r.links, s, e), r.live, held) /\ fault' = fault
      BY <1>5, MoveIs
    <2> HIDE DEF r
    <2>5. ~Stale(r.links, s)
      BY <2>2, <2>3 DEF Moored, Stale, Good, Agree, AgreesAt
    <2>6. fault' = "none"
      BY <1>1, <2>4, <2>5
    <2>7. /\ live' = r.live
          /\ \/ links' = Appended(r.links, s, e)
             \/ links' = PlacedBefore(r.links, s, e)
             \/ links' = PlacedAfter(r.links, s, e)
      BY <1>1, <1>5, <2>6, MovedGood DEF r
    <2>8. Moored(links', live')
      BY <2>2, <2>3, <2>1, <2>7, PlacedMoored
    <2>9. QED
      BY <1>2, <2>6, <2>8
  <1>6. ASSUME NEW e \in Elements, Hold(e), Moored(links, live) PROVE Moors
    <2>1. links' = links /\ live' = live /\ fault' = fault
      BY <1>6 DEF Hold
    <2>2. QED
      BY <1>1, <1>2, <1>6, <2>1
  <1>7. ASSUME NEW e \in Elements, Release(e), Moored(links, live)
        PROVE  fault' = "none" /\ \A c \in Adrift' : links.parent[c] \in live \ live'
    <2> DEFINE rest == Surviving(links, live, held \ {e})
               C == Counted(links, rest)
    <2>1. links' = C /\ live' = rest /\ fault' = fault
      BY <1>7 DEF Release, Commit
    <2>2. Sound(links, live, held \ {e})
      BY <1>1 DEF Sound
    <2>3. /\ rest \subseteq live
          /\ \A x \in rest :
               /\ C.next[x] = links.next[x]
               /\ C.prev[x] = IF links.prev[x] \in rest THEN links.prev[x] ELSE Nil
               /\ C.parent[x] = IF links.parent[x] \in rest THEN links.parent[x] ELSE Nil
      BY <2>2, CountedPointers DEF Sound
    <2> HIDE DEF rest, C
    <2>4. ASSUME NEW c \in Adrift' PROVE links.parent[c] \in live \ live'
      <3>1. /\ c \in rest /\ C.parent[c] = Nil /\ (C.prev[c] # Nil \/ C.next[c] # Nil)
        BY <2>1 DEF Adrift
      <3>2. links.prev[c] # Nil \/ links.next[c] # Nil
        BY <2>3, <3>1
      <3>3. links.parent[c] # Nil /\ c \in live
        BY <1>7, <2>3, <3>1, <3>2 DEF Moored
      <3>4. links.parent[c] \in live
        BY <1>1, <3>3 DEF Sound, Closed
      <3>5. QED
        BY <2>1, <2>3, <3>1, <3>3, <3>4
    <2>5. QED
      BY <1>1, <2>1, <2>4
  <1>8. ASSUME NEW e \in Elements, Crash(e) PROVE ~Moored(links, live)
    BY <1>1, <1>8 DEF Crash, CallsNull, Moored, Sound
  <1> DEFINE Losing == fault' = "none" /\ \A c \in Adrift' : links.parent[c] \in live \ live'
  <1> HIDE DEF Moors, Losing
  <1>9. ASSUME Moored(links, live) PROVE Moors \/ Losing
    BY <1>3, <1>4, <1>5, <1>6, <1>7, <1>8, <1>9 DEF Next, Losing
  <1>10. QED
    BY <1>2, <1>9 DEF Moors, Losing

\* A program in which no element loses its parent while it has siblings has no element
\* adrift, and neither crashes in remove() nor crosses links in before().
THEOREM DriftByLossOnly == Spec => AdriftByLoss
  <1>1. Inv /\ [Next]_vars =>
          [IF fault' = "none"
           THEN Adrift = {} /\ Adrift' # {} => \E c \in Adrift' : links.parent[c] \in live \ live'
           ELSE Adrift # {}]_vars
    BY DriftStep
  <1>2. QED
    BY <1>1, InvStart, InvStep, PTL DEF Spec, AdriftByLoss

=============================================================================
