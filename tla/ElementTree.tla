----------------------------- MODULE ElementTree -----------------------------
(***************************************************************************)
(* The links between the elements of a document: document/element.cc.      *)
(* Every element keeps its first child, its last child and its next        *)
(* sibling (Strong), and knows its previous sibling and its parent (Weak). *)
(* The tree belongs to one thread.  An operation is one step; what it does *)
(* to the links is written as a function from links to links, and every    *)
(* step ends with what reference counting does to the elements it cuts off. *)
(* A parent may go while something keeps one of its children: that child    *)
(* and those after it are adrift, siblings without a parent.  What remove() *)
(* and before() do with them can break the links: the fault is recorded,   *)
(* and the specification stops there.                                      *)
(*                                                                         *)
(* Element::_depth is left out: only the indentation of toString() reads   *)
(* it.                                                                     *)
(***************************************************************************)
EXTENDS Naturals, FiniteSets

CONSTANTS
  Elements,  \* the elements that may be allocated
  Nil        \* nullptr

ASSUME NilAssumption == Nil \notin Elements /\ IsFiniteSet(Elements)

VARIABLES
  links,  \* _firstChild, _lastChild, _nextSibling, _prevSibling, _parent
  live,   \* the elements that are allocated
  held,   \* the elements something outside the tree has a Strong to
  fault   \* "none", "crashed" or "crossed": what an operation on elements
          \* adrift did to the program or to the links

vars == <<links, live, held, fault>>

Pointers == [Elements -> Elements \cup {Nil}]

Links == [first : Pointers, last : Pointers, next : Pointers,
          prev : Pointers, parent : Pointers]

NoPointers == [e \in Elements |-> Nil]

Init ==
  /\ links = [first |-> NoPointers, last |-> NoPointers, next |-> NoPointers,
              prev |-> NoPointers, parent |-> NoPointers]
  /\ live = {}
  /\ held = {}
  /\ fault = "none"

-----------------------------------------------------------------------------
(* The assignments each operation makes. *)

\* x->field = v, when there is an x.
Put(f, x, v) == IF x = Nil THEN f ELSE [f EXCEPT ![x] = v]

\* Mutant: the detached element keeps its next sibling.
DetachedKeepingNext(L, e) ==
  LET a == L.prev[e]
      b == L.next[e]
      p == L.parent[e]
      linked == a # Nil \/ p # Nil
  IN [first |-> IF a = Nil THEN Put(L.first, p, b) ELSE L.first,
      last |-> IF linked /\ b = Nil THEN Put(L.last, p, a) ELSE L.last,
      next |-> Put(L.next, a, b),
      prev |-> [(IF linked THEN Put(L.prev, b, a) ELSE L.prev)
                  EXCEPT ![e] = Nil],
      parent |-> [L.parent EXCEPT ![e] = Nil]]

\* Element::remove()
Detached(L, e) ==
  LET a == L.prev[e]
      b == L.next[e]
      p == L.parent[e]
      linked == a # Nil \/ p # Nil
  IN [first |-> IF a = Nil THEN Put(L.first, p, b) ELSE L.first,
      last |-> IF linked /\ b = Nil THEN Put(L.last, p, a) ELSE L.last,
      next |-> [Put(L.next, a, b) EXCEPT ![e] = Nil],
      prev |-> [(IF linked THEN Put(L.prev, b, a) ELSE L.prev)
                  EXCEPT ![e] = Nil],
      parent |-> [L.parent EXCEPT ![e] = Nil]]

\* Element::append(), once the element is detached.
Appended(L, p, e) ==
  LET z == L.last[p]
  IN [first |-> IF z = Nil THEN [L.first EXCEPT ![p] = e] ELSE L.first,
      last |-> [L.last EXCEPT ![p] = e],
      next |-> Put(L.next, z, e),
      prev |-> [L.prev EXCEPT ![e] = z],
      parent |-> [L.parent EXCEPT ![e] = p]]

\* Mutant: the first child of the parent is not updated.
PlacedBeforeUnled(L, s, e) ==
  LET a == L.prev[s]
      p == L.parent[s]
  IN IF a = Nil /\ p = Nil THEN L
     ELSE [first |-> L.first,
           last |-> L.last,
           next |-> [Put(L.next, a, e) EXCEPT ![e] = s],
           prev |-> [L.prev EXCEPT ![e] = a, ![s] = e],
           parent |-> [L.parent EXCEPT ![e] = p]]

\* Element::before(), once the element is detached.
PlacedBefore(L, s, e) ==
  LET a == L.prev[s]
      p == L.parent[s]
  IN IF a = Nil /\ p = Nil THEN L
     ELSE [first |-> IF a = Nil THEN [L.first EXCEPT ![p] = e] ELSE L.first,
           last |-> L.last,
           next |-> [Put(L.next, a, e) EXCEPT ![e] = s],
           prev |-> [L.prev EXCEPT ![e] = a, ![s] = e],
           parent |-> [L.parent EXCEPT ![e] = p]]

\* Element::after(), once the element is detached.
PlacedAfter(L, s, e) ==
  LET b == L.next[s]
      p == L.parent[s]
  IN IF b = Nil /\ p = Nil THEN L
     ELSE [first |-> L.first,
           last |-> IF b = Nil THEN [L.last EXCEPT ![p] = e] ELSE L.last,
           next |-> [L.next EXCEPT ![e] = b, ![s] = e],
           prev |-> [Put(L.prev, b, e) EXCEPT ![e] = s],
           parent |-> [L.parent EXCEPT ![e] = p]]

-----------------------------------------------------------------------------
(* What reference counting leaves allocated. *)

KeptBy(L, a) == {L.first[a], L.last[a], L.next[a]}

\* The largest set in which every element has a Strong from outside the tree
\* or from another of the set: a cycle of Strongs keeps itself.
Surviving(L, alive, keep) ==
  UNION {S \in SUBSET alive :
           \A e \in S : e \in keep \/ \E a \in S : e \in KeptBy(L, a)}

\* The Weak pointers to what was freed are null.
Cleared(f, alive) == [e \in Elements |-> IF f[e] \in alive THEN f[e] ELSE Nil]

\* The members of what was freed are gone too.
Gone(f, alive) == [e \in Elements |-> IF e \in alive THEN f[e] ELSE Nil]

\* What is left of the links when only the elements of rest are.
Counted(L, rest) ==
  [first |-> Gone(L.first, rest),
   last |-> Gone(L.last, rest),
   next |-> Gone(L.next, rest),
   prev |-> Gone(Cleared(L.prev, rest), rest),
   parent |-> Gone(Cleared(L.parent, rest), rest)]

\* The step's new links, and the elements outside references keep.
Commit(L, alive, keep) ==
  LET rest == Surviving(L, alive, keep)
  IN /\ live' = rest
     /\ held' = keep
     /\ links' = Counted(L, rest)

-----------------------------------------------------------------------------
(* The operations, on elements the caller holds. *)

\* The elements from s up to its root: what has s and the parents of all it has.
Above(L, s) ==
  {x \in Elements : \A T \in SUBSET Elements :
     s \in T /\ (\A y \in T : L.parent[y] \in T \cup {Nil}) => x \in T}

\* The code checks none of this: callers move an element neither next to
\* itself nor below itself.
Movable(s, e) == {s, e} \subseteq held /\ s # e /\ e \notin Above(links, s)

\* new Element(), in Document::createElement.
Create(e) ==
  /\ e \notin live
  /\ Commit(links, live \cup {e}, held \cup {e})
  /\ UNCHANGED fault

\* remove() calls the parent of an element that has a previous sibling, without
\* looking whether it has one.  Every move begins with remove().
CallsNull(e) == links.prev[e] # Nil /\ links.parent[e] = Nil

Crash(e) ==
  /\ e \in held /\ CallsNull(e)
  /\ fault' = "crashed"
  /\ UNCHANGED <<links, live, held>>

\* What is left after e->remove(), which the moves start with: the head of siblings
\* adrift lets go of the next one.
AfterRemove(e) ==
  LET rest == Surviving(Detached(links, e), live, held)
  IN [live |-> rest, links |-> Counted(Detached(links, e), rest)]

\* Mutant: append() does not detach the element first.
AppendAttached(p, e) ==
  /\ Movable(p, e) /\ ~CallsNull(e)
  /\ Commit(Appended(links, p, e), live, held)
  /\ UNCHANGED fault

AppendChild(p, e) ==
  /\ Movable(p, e) /\ ~CallsNull(e)
  /\ \E r \in {AfterRemove(e)} : Commit(Appended(r.links, p, e), r.live, held)
  /\ UNCHANGED fault

\* The previous sibling of s was taken away: without a parent remove() leaves
\* the next sibling as it is.
Stale(L, s) == L.prev[s] # Nil /\ L.next[L.prev[s]] # s

\* The new element becomes the next one of an element that is somewhere else.
Before(s, e) ==
  /\ Movable(s, e) /\ ~CallsNull(e)
  /\ \E r \in {AfterRemove(e)} :
       /\ Commit(PlacedBefore(r.links, s, e), r.live, held)
       /\ fault' = IF Stale(r.links, s) THEN "crossed" ELSE fault

After(s, e) ==
  /\ Movable(s, e) /\ ~CallsNull(e)
  /\ \E r \in {AfterRemove(e)} : Commit(PlacedAfter(r.links, s, e), r.live, held)
  /\ UNCHANGED fault

Remove(e) ==
  /\ e \in held /\ ~CallsNull(e)
  /\ Commit(Detached(links, e), live, held)
  /\ UNCHANGED fault

\* A caller walks the tree and keeps the element it arrives at.
Hold(e) ==
  /\ e \in live \ held
  /\ held' = held \cup {e}
  /\ UNCHANGED <<links, live, fault>>

\* The last outside reference to e is dropped, by a script or by C++.
Release(e) ==
  /\ e \in held
  /\ Commit(links, live, held \ {e})
  /\ UNCHANGED fault

Next ==
  /\ fault = "none"
  /\ \/ \E e \in Elements : Create(e) \/ Remove(e) \/ Hold(e) \/ Release(e) \/ Crash(e)
     \/ \E s, e \in Elements : AppendChild(s, e) \/ Before(s, e) \/ After(s, e)

Spec == Init /\ [][Next]_vars

-----------------------------------------------------------------------------
(***************************************************************************)
(* Properties.                                                             *)
(***************************************************************************)

\* The type invariant; the pointers of an element that is allocated lead to
\* elements that are, and so do the references from outside.
TypeOK ==
  /\ links \in Links
  /\ live \subseteq Elements
  /\ held \subseteq live
  /\ \A e \in live : KeptBy(links, e) \cup {links.prev[e], links.parent[e]}
                       \subseteq live \cup {Nil}
  /\ fault \in {"none", "crashed", "crossed"}

\* The five pointers of two neighbours agree: what is next knows its
\* previous, siblings have one parent, a first child has no previous sibling,
\* a last child no next one, and a child with no sibling is an end.  That the
\* previous sibling of an element has it as its next is promised to elements
\* with a parent: the head of siblings adrift leaves the others as they are when
\* it is moved away.  All of it holds until the program crashes there, or
\* crosses the links.
LinksAgree ==
  fault = "none" => \A e \in live :
    LET a == links.prev[e]
        b == links.next[e]
        p == links.parent[e]
    IN /\ b # Nil => links.prev[b] = e /\ links.parent[b] = p
       /\ p # Nil /\ a # Nil => links.next[a] = e /\ links.parent[a] = p
       /\ links.first[e] # Nil =>
            links.parent[links.first[e]] = e /\ links.prev[links.first[e]] = Nil
       /\ links.last[e] # Nil =>
            links.parent[links.last[e]] = e /\ links.next[links.last[e]] = Nil
       /\ p # Nil /\ a = Nil => links.first[p] = e
       /\ p # Nil /\ b = Nil => links.last[p] = e

\* What can be reached from outside along Strong pointers: what has the elements
\* held and those that each of its elements keeps.
Reached ==
  {x \in Elements : \A T \in SUBSET Elements :
     held \subseteq T /\ (\A y \in T : KeptBy(links, y) \subseteq T \cup {Nil}) => x \in T}

\* An element nobody can reach is freed: the Strong pointers of the tree never
\* form a cycle, until links are crossed.
NoLeak == fault = "none" => live \subseteq Reached

\* The children of p, along the next siblings of the first.
Children(L, p) ==
  LET N == Cardinality(Elements)
      kid[n \in 1..N] ==
        IF n = 1 THEN L.first[p]
        ELSE LET a == kid[n - 1] IN IF a = Nil THEN Nil ELSE L.next[a]
      size == Cardinality({n \in 1..N : kid[n] # Nil})
  IN [n \in 1..size |-> kid[n]]

Abstract == INSTANCE Forest WITH
  alive <- live,
  kids  <- [p \in Elements |-> Children(links, p)]

\* Until a fault the five pointers implement an ordered forest.
ImplementsForest ==
  Abstract!Init /\ [][fault' # "none" \/ Abstract!Next]_(Abstract!vars)

\* The elements that have siblings and no parent.
Adrift ==
  {e \in live : links.parent[e] = Nil /\ {links.prev[e], links.next[e]} # {Nil}}

\* Only the loss of a parent sets elements adrift, never a move or a removal, and
\* only what is adrift brings a fault: a program that keeps every parent as long
\* as its children is safe.
AdriftByLoss ==
  [][IF fault' = "none"
     THEN Adrift = {} /\ Adrift' # {} => \E c \in Adrift' : links.parent[c] \in live \ live'
     ELSE Adrift # {}]_vars

=============================================================================
