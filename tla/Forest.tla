------------------------------- MODULE Forest -------------------------------
(***************************************************************************)
(* What the element tree of document/element.h is to its users: an ordered *)
(* forest.  Each element has a sequence of children, an element is a child *)
(* at one place at most, and an operation moves one element.               *)
(***************************************************************************)
EXTENDS Naturals, SequencesExt

CONSTANT Elements

VARIABLES
  alive,  \* the elements that exist
  kids    \* the children of each element, in order

vars == <<alive, kids>>

Init ==
  /\ alive = {}
  /\ kids = [p \in Elements |-> <<>>]

\* With children k some elements disappear, and k becomes new.  Who stays keeps
\* all its children.  The children of who goes were kept by one another: those
\* from some child on may stay, each as a root.
Settle(k, new) ==
  /\ alive' \subseteq alive
  /\ \A p \in alive' : new[p] = k[p] /\ ToSet(k[p]) \subseteq alive'
  /\ \A p \in Elements \ alive' :
       /\ new[p] = <<>>
       /\ \A i, j \in DOMAIN k[p] : i < j /\ k[p][i] \in alive' => k[p][j] \in alive'

ParentOf(e) == {p \in Elements : e \in ToSet(kids[p])}

\* The children of every element but for e.
Without(e) == [p \in Elements |-> RemoveFirst(kids[p], e)]

Create(e) ==
  /\ e \notin alive
  /\ alive' = alive \cup {e}
  /\ UNCHANGED kids

\* e goes to another place or to none, and all others keep theirs.  When e is a
\* root, what only e had kept may disappear: siblings that lost their parent.
Move(e) ==
  /\ e \in alive'
  /\ Settle(Without(e), Without(e)')
  /\ \A p, q \in ParentOf(e)' : p = q
  /\ alive' # alive => ParentOf(e) = {}

\* Nobody refers to some elements any more.
Drop == Settle(kids, kids')

Next == Drop \/ \E e \in Elements : Create(e) \/ Move(e)

Spec == Init /\ [][Next]_vars

=============================================================================
