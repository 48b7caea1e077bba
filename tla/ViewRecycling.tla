--------------------------- MODULE ViewRecycling ---------------------------
(***************************************************************************)
(* How the elements of a page get, share and give back their Views           *)
(* (ui/ViewElement.cc over View::obtainView() and recycleView() of           *)
(* ui/view.cc).  A layout, a scroll or a change of state walks the tree:     *)
(* an element that is visible obtains a View, from the pool of its parent's  *)
(* View when one with its reuse key is there; one that is not puts its View  *)
(* into this pool.  Everything runs on the UI queue: each walk is one step.  *)
(* Attributes, frames and the commands of the Views are left out.            *)
(***************************************************************************)
EXTENDS Integers, Sequences, SequencesExt, FiniteSets

CONSTANTS
  Elements,
  Root,
  Children,  \* the ViewElements below each one, in document order
  InBlock,   \* those whose parent in the document is a BlockElement
  OwnKey,    \* the attribute "reuse" of each element, <<>> when it has none
  Views,     \* the Views that may exist at the same time, as numbers
  MaxLevel   \* bound: how many children are ever added to each element

Below(e) == {Children[e][i] : i \in DOMAIN Children[e]}

NoView == 0
Page   == 1 \* the View of the context

\* The elements are a tree.
ASSUME RecyclingAssumption ==
  /\ Root \in Elements /\ InBlock \subseteq Elements \ {Root}
  /\ OwnKey \in [Elements -> Seq(STRING)]
  /\ IsFiniteSet(Elements)
  /\ Views \subseteq Nat \ {NoView} /\ Page \in Views
  /\ Children \in [Elements -> Seq(Elements)]
  /\ \A e \in Elements : Root \notin Below(e)
  /\ \A e \in Elements \ {Root} :
       \E p \in Elements : \A q \in Elements : e \in Below(q) <=> q = p
  /\ \E height \in [Elements -> 0..Cardinality(Elements)] :
       \A e \in Elements : \A c \in Below(e) : height[c] < height[e]
  /\ MaxLevel \in [Elements -> Nat]

VARIABLES
  present, \* the elements in the document
  level,   \* _levelId
  auto,    \* _autoLevelId
  visible, \* those for which isVisibleChildren() was true when last laid out
  view,    \* _view
  parent,  \* _parent of each View
  pool     \* _obtainViews of each View, the oldest first, with their keys

vars == <<present, level, auto, visible, view, parent, pool>>

Init ==
  /\ present = {Root}
  /\ level = [e \in Elements |-> 0]
  /\ auto = [e \in Elements |-> 0]
  /\ visible = {}
  /\ view = [e \in Elements |-> NoView]
  /\ parent = [v \in Views |-> NoView]
  /\ pool = [v \in Views |-> <<>>]

\* parentViewElement().
Parents  == [e \in Elements \ {Root} |-> CHOOSE p \in Elements : e \in Below(p)]
Above(e) == Parents[e]

\* reuse(), <<>> when it is empty: the name of an element is its place here.
Key(e) ==
  LET key[f \in Elements] ==
        IF OwnKey[f] # <<>> THEN OwnKey[f]
        ELSE IF f = Root \/ f \in InBlock \/ key[Above(f)] = <<>> THEN <<>>
        ELSE Append(key[Above(f)], level[f])
  IN key[e]

-----------------------------------------------------------------------------
(* The Views and who has them: [view, parent, pool] as a record that a walk    *)
(* changes step by step.                                                       *)

Pooled(s, v) == {s.pool[v][i].view : i \in DOMAIN s.pool[v]}

Own(s)    == {Page} \cup ({s.view[e] : e \in Elements} \ {NoView})
Placed(s) == {v \in Views : s.parent[v] # NoView} \cup UNION {Pooled(s, v) : v \in Views}

\* A View keeps its subviews alive, and what is in its pool.
Keeps(s, T) ==
  /\ \A v \in Views : s.parent[v] \in T => v \in T
  /\ \A v \in T : Pooled(s, v) \subseteq T

\* The Views of the context and of the elements, and what they keep.
Live(s) ==
  LET sets == {T \in SUBSET (Placed(s) \ Own(s)) : Keeps(s, Own(s) \cup T)}
  IN Own(s) \cup {v \in Placed(s) : \A T \in sets : v \in T}

\* ~View: the pointers to it are weak, its subviews have no parent.
Reclaimed(s) ==
  LET live == Live(s) IN
  [s EXCEPT !.parent = [v \in Views |->
              IF v \in live /\ @[v] \in live THEN @[v] ELSE NoView],
            !.pool = [v \in Views |-> IF v \in live THEN @[v] ELSE <<>>]]

\* app->createView().
Fresh(s) ==
  LET free == Views \ Live(s) IN CHOOSE v \in free : \A w \in free : v <= w

RemoveView(s, v) == [s EXCEPT !.parent[v] = NoView]

\* View::obtainView(): the places of the pool of p that have this key.
Matching(s, p, key) == {i \in DOMAIN s.pool[p] : key # <<>> /\ s.pool[p][i].key = key}

\* Mutant: a View stays in the pool when it is taken.
TakeKeeping(s, p, i) == s

\* q.erase(n).
Take(s, p, i) == [s EXCEPT !.pool[p] = RemoveAt(@, i)]

\* For the next mutant: the pool is never asked.
ObtainFresh(s, e) ==
  IF s.view[e] # NoView THEN s
  ELSE IF e = Root THEN [s EXCEPT !.view[e] = Page]
  ELSE IF s.view[Above(e)] = NoView THEN s
  ELSE [s EXCEPT !.view[e] = Fresh(s), !.parent[Fresh(s)] = s.view[Above(e)]]

\* Mutant: a View from the pool is not added to the parent again.
ObtainLoose(s, e) ==
  IF s.view[e] # NoView THEN s
  ELSE IF e = Root THEN [s EXCEPT !.view[e] = Page]
  ELSE LET p  == s.view[Above(e)]
           is == Matching(s, p, Key(e)) IN
       IF p = NoView THEN s
       ELSE IF is = {} THEN ObtainFresh(s, e)
       ELSE LET i == CHOOSE j \in is : \A k \in is : j <= k IN
            [Take(s, p, i) EXCEPT !.view[e] = s.pool[p][i].view]

\* ViewElement::obtainView() without the children.
Obtain(s, e) ==
  IF s.view[e] # NoView THEN s
  ELSE IF e = Root THEN [s EXCEPT !.view[e] = Page]
  ELSE LET p  == s.view[Above(e)]
           is == Matching(s, p, Key(e)) IN
       IF p = NoView THEN s
       ELSE IF is = {}
       THEN LET v == Fresh(s) IN
            [s EXCEPT !.view[e] = v, !.parent[v] = p]
       ELSE LET i == CHOOSE j \in is : \A k \in is : j <= k
                v == s.pool[p][i].view IN
            [Take(s, p, i) EXCEPT !.view[e] = v, !.parent[v] = p]

\* ViewElement::recycleView() and View::recycleView(): only a View that does not
\* go to a pool can be left to nobody.
RecycleView(s, e) ==
  LET v == s.view[e]
      p == s.parent[v] IN
  IF v = NoView THEN s
  ELSE IF p = NoView \/ Key(e) = <<>>
  THEN Reclaimed([RemoveView(s, v) EXCEPT !.view[e] = NoView])
  ELSE [s EXCEPT !.view[e] = NoView,
                 !.pool[p] = Append(@, [key |-> Key(e), view |-> v])]

\* Mutant: removeRecycleViews() is not called at the end of a walk.
SweepNothing(s, e) == s

\* removeRecycleViews() of the View of e: the pool keeps them.
Sweep(s, e) ==
  LET v == s.view[e] IN
  [s EXCEPT !.parent = [w \in Views |-> IF v # NoView /\ w \in Pooled(s, v)
                                        THEN NoView ELSE @[w]]]

-----------------------------------------------------------------------------
(* The walks, as sequences of such steps. *)

Step(op, e) == [op |-> op, of |-> e]

\* op of e and of what is below it, in document order, through the elements of
\* inner; each of the others has its own steps.
Visited(e, op, inner, other, last) ==
  LET visit[f \in Elements] ==
        <<Step(op, f)>>
          \o FlattenSeq([i \in DOMAIN Children[f] |->
               IF Children[f][i] \in inner THEN visit[Children[f][i]]
               ELSE other[Children[f][i]]])
          \o last[f]
  IN visit[e]

Nothing == [f \in Elements |-> <<>>]

\* Mutant: recycleChildrenView() stops at the children.
RecycledOnly(e) == <<Step("recycleView", e)>>

\* recycleView() and recycleChildrenView(), which looks at the children in the
\* document only: not into a block.
Recycled(e) == Visited(e, "recycleView", Elements \ InBlock, Nothing, Nothing)

\* canRecycleView().
CanRecycle(e) == view[e] # NoView /\ Key(e) # <<>>

\* obtainView() of e where the elements in vis are visible.
Walk(e, vis) ==
  Visited(e, "obtain", vis,
          [f \in Elements |-> IF CanRecycle(f) THEN Recycled(f) ELSE <<>>],
          [f \in Elements |-> <<Step("sweep", f)>>])

Do(s, step) ==
  CASE step.op = "obtain"      -> Obtain(s, step.of)
    [] step.op = "sweep"       -> Sweep(s, step.of)
    [] step.op = "recycleView" -> RecycleView(s, step.of)
    [] step.op = "remove"      ->
         IF s.view[step.of] = NoView THEN s
         ELSE RecycleView(RemoveView(s, s.view[step.of]), step.of)

Now == [view |-> view, parent |-> parent, pool |-> pool]

\* These steps, one after the other.
Run(steps) ==
  LET after[n \in 0..Len(steps)] ==
        IF n = 0 THEN Now ELSE Do(after[n - 1], steps[n])
      s == after[Len(steps)]
  IN view' = s.view /\ parent' = s.parent /\ pool' = s.pool

-----------------------------------------------------------------------------
(* Actions. *)

\* Mutant: _autoLevelId stays as it is.
AddUncounted(e) ==
  /\ e \notin present /\ Above(e) \in present
  /\ auto[Above(e)] < MaxLevel[Above(e)]
  /\ present' = present \cup {e}
  /\ level' = [level EXCEPT ![e] = auto[Above(e)] + 1]
  /\ UNCHANGED <<auto, visible, view, parent, pool>>

\* append(), before() or after() of a new element: onDidAddChildren() of its parent.
Add(e) ==
  LET p == Above(e) IN
  /\ e \notin present /\ p \in present
  /\ auto[p] < MaxLevel[p]
  /\ present' = present \cup {e}
  /\ \/ e \in InBlock /\ UNCHANGED <<level, auto>>
     \/ /\ e \notin InBlock
        /\ auto' = [auto EXCEPT ![p] = @ + 1]
        /\ level' = [level EXCEPT ![e] = auto[p] + 1]
  /\ UNCHANGED <<visible, view, parent, pool>>

\* e and what is below it.
Subtrees ==
  [e \in Elements |->
     {f \in Elements :
        \A T \in SUBSET Elements : e \in T /\ (\A g \in T : Below(g) \subseteq T) => f \in T}]
Subtree(e) == Subtrees[e]

\* recycle() and remove(), as v_For and v_IfElseIfElse call them: e and what is
\* below it, in document order, blocks included.  The elements are not used again.
Recycle(e) ==
  LET gone == Subtree(e)
  IN /\ e \in present \ {Root}
     /\ Run(Visited(e, "remove", Elements, Nothing, Nothing))
     /\ present' = present \ gone
     /\ visible' = visible \ gone
     /\ level' = [f \in Elements |-> IF f \in gone THEN 0 ELSE level[f]]
     /\ auto' = [f \in Elements |-> IF f \in gone THEN 0 ELSE auto[f]]

\* layout() of a page or dialog: every frame may change, then obtainView().
Layout ==
  /\ \E vis \in SUBSET (present \ {Root}) :
       /\ visible' = vis
       /\ Run(Walk(Root, vis))
  /\ UNCHANGED <<present, level, auto>>

\* setContentOffset() after a "scroll" of the View of e.
Scroll(e) ==
  /\ view[e] # NoView
  /\ \E vis \in SUBSET (present \cap Below(e)) :
       /\ visible' = (visible \ Below(e)) \cup vis
       /\ Run(Tail(Walk(e, visible')))
  /\ UNCHANGED <<present, level, auto>>

\* The View of e is touched: addStatus() or removeStatus() and obtainView().
Hover(e) ==
  /\ view[e] # NoView
  /\ Run(Walk(e, visible))
  /\ UNCHANGED <<present, level, auto, visible>>

Next ==
  \/ \E e \in Elements \ {Root} : Add(e) \/ Recycle(e)
  \/ \E e \in Elements : Scroll(e) \/ Hover(e)
  \/ Layout

Spec == Init /\ [][Next]_vars

-----------------------------------------------------------------------------

\* Types, and what the level ids are for: no two children have the same one.
TypeOK ==
  /\ present \subseteq Elements /\ Root \in present
  /\ \A e \in Elements : auto[e] \in 0..MaxLevel[e]
  /\ \A e \in Elements \ {Root} : level[e] \in 0..auto[Above(e)]
  /\ \A p \in Elements : \A c, d \in (present \cap Below(p)) \ InBlock :
       level[c] = level[d] => c = d
  /\ visible \subseteq present \ {Root}
  /\ view \in [Elements -> Views \cup {NoView}]
  /\ parent \in [Views -> Views \cup {NoView}]
  /\ \A v \in Views : \A i \in DOMAIN pool[v] : pool[v][i].view \in Views \ {Page}

Ancestors(e) == {p \in Elements \ {e} : e \in Subtree(p)}

\* No View is in two hands: of two elements, of two pools, or of an element and
\* a pool, whatever the order in which elements are recycled and obtained.
Exclusive ==
  /\ \A e, f \in Elements : view[e] = view[f] /\ view[e] # NoView => e = f
  /\ \A v, w \in Views : \A i \in DOMAIN pool[v], j \in DOMAIN pool[w] :
       pool[v][i].view = pool[w][j].view => v = w /\ i = j
  /\ \A e \in Elements, v \in Views : \A i \in DOMAIN pool[v] : pool[v][i].view # view[e]

\* The Views form the tree of the elements, also after a View came from another
\* element with the Views that were below it.  Elements in blocks are left out:
\* they keep their View when the one it is in is recycled.
Attached ==
  \A e \in Elements \ (InBlock \cup {Root}) :
    view[e] # NoView => view[Above(e)] # NoView /\ parent[view[e]] = view[Above(e)]

\* Between e and p there is a block: recycling p does not reach e.
Cut(e, p) == \E b \in InBlock \cap (Ancestors(e) \cup {e}) : p \in Ancestors(b)

\* After every walk, what is laid out in sight has a View, and an element that
\* can give its View back has one only in sight, or below an element that is out
\* of sight and cannot, or whose Views are recycled without those in a block.
InSight ==
  \A e \in Elements :
    /\ e \in visible /\ Ancestors(e) \ {Root} \subseteq visible => view[e] # NoView
    /\ view[e] # NoView /\ Key(e) # <<>> /\ e # Root
         => \/ e \in visible
            \/ \E p \in Ancestors(e) \ {Root} :
                 p \notin visible /\ (Key(p) = <<>> \/ Cut(e, p))

\* Below the View of an element there is nothing but Views of its children, and
\* those that elements in blocks have kept in it.
NoStrangers ==
  \A e \in Elements : \A v \in Views :
    view[e] # NoView /\ parent[v] = view[e] => \E c \in Below(e) \cup InBlock : view[c] = v

=============================================================================
