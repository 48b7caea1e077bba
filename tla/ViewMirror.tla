----------------------------- MODULE ViewMirror -----------------------------
(***************************************************************************)
(* The View objects of ui/view.cc, on the UI queue, and their native views *)
(* on the main thread.  Each change of a View sends a command named by its *)
(* id; the native side (native/Ker/Ker/KerUI.mm) queues it on the main     *)
(* queue, finds the native view by the id and ignores an id it does not    *)
(* know.  The native side reports the content offset back, by id, through  *)
(* the UI queue.  Ids are never used again, so a View is its id here.      *)
(***************************************************************************)
EXTENDS Sequences, SequencesExt, FiniteSets, Integers

CONSTANTS
  Views,       \* the View objects, each constructed once
  Roots,       \* those made over a page's native view
  Scrollers,   \* those that can be scrolled
  Offsets,     \* the content offsets
  Start,       \* the offset of a new view
  MaxCommands, \* bound: commands in flight when a script makes another call
  MaxReports,  \* bound: offsets on their way back
  NoView, Screen

ASSUME ViewAssumption ==
  /\ Roots \cup Scrollers \subseteq Views /\ IsFiniteSet(Views)
  /\ NoView \notin Views /\ Screen \notin Views /\ NoView # Screen
  /\ Start \in Offsets
  /\ MaxCommands \in Nat /\ MaxReports \in Nat

VARIABLES
  used,     \* the views constructed so far
  exists,   \* those not destroyed
  held,     \* those a Strong outside of the tree keeps (an element, a script)
  parent,   \* _parent
  subviews, \* _subviews
  pool,     \* _obtainViews, of one reuse key
  shown,    \* _showToScreen
  offset,   \* _contentOffset
  commands, \* sent and not yet executed on the main thread
  native,   \* KerUIViews, with the superview and the offset of every native view
  reports   \* the offsets on their way back: <<view, offset>>

tree == <<exists, held, parent, subviews, pool, shown>>
vars == <<used, tree, offset, commands, native, reports>>

Command(op, v) == [op |-> op, view |-> v]
Add(p, v)      == [op |-> "add", view |-> p, sub |-> v]
Scroll(v, o)   == [op |-> "scroll", view |-> v, to |-> o]

Init ==
  /\ used = {} /\ exists = {} /\ held = {}
  /\ parent = [v \in Views |-> NoView]
  /\ subviews = [v \in Views |-> {}]
  /\ pool = [v \in Views |-> {}]
  /\ shown = {}
  /\ offset = [v \in Views |-> Start]
  /\ commands = <<>>
  /\ native = [table |-> {},
               super |-> [v \in Views |-> NoView],
               offset |-> [v \in Views |-> Start]]
  /\ reports = <<>>

-----------------------------------------------------------------------------
(* Reference counting: what the Strong pointers keep, and ~View. *)

\* The views that are reached from these: the least set that has them and what
\* its views keep.
Kept(subs, pools, roots) ==
  {v \in Views : \A T \in SUBSET Views :
     roots \subseteq T /\ (\A w \in T : subs[w] \cup pools[w] \subseteq T) => v \in T}

\* The sequences that have each of S once.
Orders(S) == Bijection(1..Cardinality(S), S)

\* Mutant: the view is deleted first.
LastWordsLate(v, sh) ==
  <<Command("delete", v)>> \o (IF v \in sh THEN <<Command("remove", v)>> ELSE <<>>)

\* The commands of ~View.
LastWords(v, sh) ==
  (IF v \in sh THEN <<Command("remove", v)>> ELSE <<>>) \o <<Command("delete", v)>>

\* The pointers become these and cs is sent; what nothing keeps is destroyed.
\* The commands of two destructors name two views and are sent in some order.
Settle(hold, par, subs, pools, sh, cs) ==
  LET kept == Kept(subs, pools, hold)
  IN /\ exists' = kept
     /\ held' = hold
     /\ parent' = [v \in Views |->
          IF v \in kept /\ par[v] \in kept THEN par[v] ELSE NoView]
     /\ subviews' = [v \in Views |-> IF v \in kept THEN subs[v] ELSE {}]
     /\ pool' = [v \in Views |-> IF v \in kept THEN pools[v] ELSE {}]
     /\ shown' = sh \cap kept
     /\ \E dying \in Orders(exists \ kept) :
          commands' = commands \o cs \o
            FlattenSeq([i \in DOMAIN dying |-> LastWords(dying[i], sh)])

-----------------------------------------------------------------------------
(* The calls of scripts and elements on the UI queue. *)

Ready == Len(commands) < MaxCommands

Create(v) ==
  /\ Ready
  /\ v \notin used
  /\ used' = used \cup {v}
  /\ Settle(held \cup {v}, parent, subviews, pool, shown, <<Command("create", v)>>)
  /\ UNCHANGED <<offset, native, reports>>

\* App::getView() and the properties of scripts hand out a Strong.
Hold(v) ==
  /\ Ready
  /\ v \in exists \ held
  /\ Settle(held \cup {v}, parent, subviews, pool, shown, <<>>)
  /\ UNCHANGED <<used, offset, native, reports>>

\* The View of a page is dropped by ~Page only: see Close.
Drop(v) ==
  /\ Ready
  /\ v \in held \ Roots
  /\ Settle(held \ {v}, parent, subviews, pool, shown, <<>>)
  /\ UNCHANGED <<used, offset, native, reports>>

Orphaned(vs) == [v \in Views |-> IF v \in vs THEN NoView ELSE parent[v]]

Without(v) ==
  IF parent[v] = NoView THEN subviews
  ELSE [subviews EXCEPT ![parent[v]] = @ \ {v}]

\* A view is not put into itself: nothing in the code tests it.
Movable(p, v) == p \notin Kept(subviews, pool, {v})

AddSubview(p, v) ==
  /\ Ready
  /\ p \in held /\ v \in held \ Roots /\ Movable(p, v)
  /\ Settle(held, [parent EXCEPT ![v] = p],
            [Without(v) EXCEPT ![p] = @ \cup {v}], pool, shown \ {v},
            <<Command("remove", v), Add(p, v)>>)
  /\ UNCHANGED <<used, offset, native, reports>>

\* Mutant: nothing is sent for a view that has no parent.
RemoveViewSilent(v) ==
  /\ Ready
  /\ v \in held \ Roots
  /\ Settle(held, Orphaned({v}), Without(v), pool, shown \ {v},
            IF parent[v] = NoView THEN <<>> ELSE <<Command("remove", v)>>)
  /\ UNCHANGED <<used, offset, native, reports>>

RemoveView(v) ==
  /\ Ready
  /\ v \in held \ Roots
  /\ Settle(held, Orphaned({v}), Without(v), pool, shown \ {v},
            <<Command("remove", v)>>)
  /\ UNCHANGED <<used, offset, native, reports>>

\* The commands that take views out, in this order.
Removals(order) == [i \in DOMAIN order |-> Command("remove", order[i])]

\* removeAllSubviews() leaves _showToScreen of the subviews alone.
RemoveAllSubviews(p) ==
  /\ Ready
  /\ p \in held
  /\ \E order \in Orders(subviews[p]) :
       Settle(held, Orphaned(subviews[p]), [subviews EXCEPT ![p] = {}], pool, shown,
              Removals(order))
  /\ UNCHANGED <<used, offset, native, reports>>

\* A view in the pool goes on being a subview; its element drops it.
RecycleView(v) ==
  /\ Ready
  /\ v \in held \ Roots /\ parent[v] # NoView
  /\ Settle(held \ {v}, parent, subviews,
            [pool EXCEPT ![parent[v]] = @ \cup {v}], shown, <<>>)
  /\ UNCHANGED <<used, offset, native, reports>>

ObtainView(p, v) ==
  /\ Ready
  /\ p \in held /\ v \in pool[p]
  /\ Settle(held \cup {v}, parent, subviews, [pool EXCEPT ![p] = @ \ {v}], shown,
            <<>>)
  /\ UNCHANGED <<used, offset, native, reports>>

\* removeView() of each view of the pool, which stays in the pool.
WithoutAll(vs) == [p \in Views |-> subviews[p] \ {v \in vs : parent[v] = p}]

RemoveRecycleViews(p) ==
  /\ Ready
  /\ p \in held
  /\ \E order \in Orders(pool[p]) :
       Settle(held, Orphaned(pool[p]), WithoutAll(pool[p]), pool, shown \ pool[p],
              Removals(order))
  /\ UNCHANGED <<used, offset, native, reports>>

ShowToScreen(v) ==
  /\ Ready
  /\ v \in held \ Roots
  /\ Settle(held, parent, subviews, pool, shown \cup {v}, <<Command("show", v)>>)
  /\ UNCHANGED <<used, offset, native, reports>>

\* Mutant: ~Page does not remove the subviews.
CloseAsIs(r) ==
  /\ Ready
  /\ r \in held \cap Roots
  /\ Settle(held \ {r}, parent, subviews, pool, shown, <<>>)
  /\ UNCHANGED <<used, offset, native, reports>>

\* ~Page: removeRecycleViews(), removeAllSubviews(), and the view is dropped.
Close(r) ==
  LET rest == subviews[r] \ pool[r] IN
  /\ Ready
  /\ r \in held \cap Roots
  /\ \E pooled \in Orders(pool[r]), others \in Orders(rest) :
       Settle(held \ {r}, Orphaned(pool[r] \cup rest),
              [WithoutAll(pool[r]) EXCEPT ![r] = {}], pool, shown \ pool[r],
              Removals(pooled) \o Removals(others))
  /\ UNCHANGED <<used, offset, native, reports>>

\* setFrame(), setContentSize(), set(), setContent() and the like.
SetAttribute(v) ==
  /\ Ready
  /\ v \in held
  /\ commands' = Append(commands, Command("set", v))
  /\ UNCHANGED <<used, tree, offset, native, reports>>

SetContentOffset(v, o) ==
  /\ Ready
  /\ v \in held \cap Scrollers
  /\ offset' = [offset EXCEPT ![v] = o]
  /\ commands' = Append(commands, Scroll(v, o))
  /\ UNCHANGED <<used, tree, native, reports>>

\* UI::dispatchCommand(): a report for a view that is gone is dropped.
Deliver ==
  /\ reports # <<>>
  /\ reports' = Tail(reports)
  /\ LET v == Head(reports)[1] IN
     offset' = IF v \in exists THEN [offset EXCEPT ![v] = Head(reports)[2]] ELSE offset
  /\ UNCHANGED <<used, tree, commands, native>>

-----------------------------------------------------------------------------
(* The main thread. *)

\* The views that a command finds by their ids.
Named(c) == IF c.op = "add" THEN {c.view, c.sub} ELSE {c.view}

\* What a command does to the native views.
Effect(n, c) ==
  IF c.op # "create" /\ ~(Named(c) \subseteq n.table) THEN n
  ELSE CASE c.op = "create" -> [n EXCEPT !.table = @ \cup {c.view}]
         [] c.op = "delete" -> [n EXCEPT !.table = @ \ {c.view}]
         [] c.op = "add"    -> [n EXCEPT !.super[c.sub] = c.view]
         [] c.op = "remove" -> [n EXCEPT !.super[c.view] = NoView]
         [] c.op = "show"   -> [n EXCEPT !.super[c.view] = Screen]
         [] c.op = "set"    -> n
         [] c.op = "scroll" -> [n EXCEPT !.offset[c.view] = c.to]

\* The observer of contentOffset reports every change, whoever made it.
Told(v, o) == IF native.offset[v] # o THEN <<<<v, o>>>> ELSE <<>>

\* Mutant: the offset that a command sets is not reported.
ExecuteSilently ==
  /\ commands # <<>>
  /\ native' = Effect(native, Head(commands))
  /\ commands' = Tail(commands)
  /\ UNCHANGED <<used, tree, offset, reports>>

Execute ==
  /\ commands # <<>>
  /\ LET c == Head(commands) IN
     /\ native' = Effect(native, c)
     /\ reports' = IF c.op = "scroll" /\ c.view \in native.table
                   THEN reports \o Told(c.view, c.to) ELSE reports
     /\ Len(reports') <= MaxReports
  /\ commands' = Tail(commands)
  /\ UNCHANGED <<used, tree, offset>>

\* The user scrolls a view.
UserScrolls(v, o) ==
  /\ v \in native.table \cap Scrollers
  /\ native.offset[v] # o
  /\ native' = [native EXCEPT !.offset[v] = o]
  /\ reports' = reports \o Told(v, o)
  /\ Len(reports') <= MaxReports
  /\ UNCHANGED <<used, tree, offset, commands>>

-----------------------------------------------------------------------------
Call(v) ==
  \/ Create(v) \/ Hold(v) \/ Drop(v) \/ RemoveView(v) \/ RemoveAllSubviews(v)
  \/ RecycleView(v) \/ RemoveRecycleViews(v) \/ ShowToScreen(v) \/ SetAttribute(v)
  \/ Close(v)
  \/ \E w \in Views : AddSubview(v, w) \/ ObtainView(v, w)
  \/ \E o \in Offsets : SetContentOffset(v, o)

Next ==
  \/ \E v \in Views : Call(v) \/ \E o \in Offsets : UserScrolls(v, o)
  \/ Deliver
  \/ Execute

Spec == Init /\ [][Next]_vars

-----------------------------------------------------------------------------
(***************************************************************************)
(* Properties.                                                             *)
(***************************************************************************)

\* The type invariant; the tree and the pools keep what they point to.
TypeOK ==
  /\ used \subseteq Views /\ exists \subseteq used /\ held \subseteq exists
  /\ parent \in [Views -> exists \cup {NoView}]
  /\ subviews \in [Views -> SUBSET exists]
  /\ pool \in [Views -> SUBSET exists]
  /\ shown \subseteq exists
  /\ offset \in [Views -> Offsets]
  /\ \A i \in DOMAIN commands : Named(commands[i]) \subseteq used
  /\ native.table \subseteq used
  /\ native.super \in [Views -> used \cup {NoView, Screen}]
  /\ native.offset \in [Views -> Offsets]
  /\ reports \in Seq(Views \X Offsets)

\* A view is in the subviews of its parent and of no other view, whatever
\* became of its former parents: _parent is Weak, _subviews is Strong, and
\* four functions of ui/view.cc change them.
ParentsAgree ==
  \A v, p \in Views : v \in subviews[p] <=> parent[v] = p /\ p \in exists

\* The native views from n on, after each of the commands cs.
States(n, cs) ==
  LET after[k \in 0..Len(cs)] == IF k = 0 THEN n ELSE Effect(after[k - 1], cs[k])
  IN after

\* The native views when every command sent so far has been executed.
Caught == States(native, commands)[Len(commands)]

\* The native tree follows the tree of the views: once the commands in flight
\* are executed the native side knows exactly the views that exist, each under
\* the native view of its parent, unless it was put on the screen.
Mirrored ==
  /\ Caught.table = exists
  /\ \A v \in exists :
       IF v \in shown THEN Caught.super[v] \in {Screen, NoView}
       ELSE \/ Caught.super[v] = parent[v]
            \/ parent[v] = NoView /\ Caught.super[v] \in used \ exists

\* No command is lost for want of its view: the id that it names is known to
\* the main thread when its turn comes.
NothingIgnored ==
  \A i \in DOMAIN commands :
    commands[i].op # "create" =>
      Named(commands[i]) \subseteq States(native, commands)[i - 1].table

\* A native view is in a window: what has it and the superviews of all it has
\* has the screen or the view of a page.
InWindow(n, v) ==
  \A T \in SUBSET (Views \cup {NoView, Screen}) :
    v \in T /\ (\A w \in T \cap Views : n.super[w] \in T)
      => T \cap (Roots \cup {Screen}) # {}

\* A view that no longer exists is in no window once the commands it sent are
\* executed: ~View, removeView() and ~Page take it out.
NoGhosts == \A v \in used \ (exists \cup Roots) : ~InWindow(Caught, v)

\* The script and the user set the offset of a view at the same time, each
\* unaware of the other: when nothing is in flight both sides agree.
OffsetsAgree ==
  commands = <<>> /\ reports = <<>> =>
    \A v \in exists : offset[v] = native.offset[v]

=============================================================================
