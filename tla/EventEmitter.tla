---------------------------- MODULE EventEmitter ----------------------------
(***************************************************************************)
(* EventEmitter of core/event.cc, on its most entangled user: the App and  *)
(* the Pages of ui/page.cc, all on the UI queue.  Every page subscribes to *)
(* "*" of the app with a function that captures the page as a raw pointer  *)
(* and emits "app.<name>" on the page.  emit() calls a copy of the lists,  *)
(* so a handler may subscribe, unsubscribe, emit and drop pages meanwhile. *)
(* The name n of a page stands for its "app.<n>".                          *)
(***************************************************************************)
EXTENDS Sequences, SequencesExt, FiniteSets, Integers

CONSTANTS
  App,         \* the emitter that pages subscribe to
  Pages,       \* the Page objects, each constructed once
  Functions,   \* the JSObject handlers of scripts
  Names,       \* the event names
  PrefixOrder,    \* the prefixes of _prefixs in the order of the map
  Covers,      \* <<prefix, name>>: the name begins with the prefix
  DropsInside, \* scripts drop pages while the app emits (PageElement)
  MaxDepth,    \* bound: emissions that scripts nest
  MaxList,     \* bound: subscriptions in one list
  NoHandler

Emitters == {App} \cup Pages
Handlers == Functions \cup Pages
Patterns == Names \cup ToSet(PrefixOrder)
Everything == PrefixOrder[1]

ASSUME EmitterAssumption ==
  /\ App \notin Pages /\ Functions \cap Pages = {}
  /\ NoHandler \notin Handlers
  /\ PrefixOrder \in Seq(ToSet(PrefixOrder)) /\ PrefixOrder # <<>>
  /\ Names \cap ToSet(PrefixOrder) = {}
  /\ Covers \subseteq ToSet(PrefixOrder) \X Names
  /\ \A n \in Names : <<Everything, n>> \in Covers
  /\ DropsInside \in BOOLEAN
  /\ MaxDepth \in Nat /\ MaxList \in Nat

VARIABLES
  lists,     \* _events and _prefixs of each emitter
  stack,     \* the emissions in progress, innermost first
  alive,     \* the pages that are constructed and not destroyed
  held,      \* the pages that a Strong outside of emit() keeps
  destroyed, \* how often the destructor of each page has run
  cut        \* the pages whose subscription to the app a script took off

vars == <<lists, stack, alive, held, destroyed, cut>>

\* rest: the handlers of the copy still to be called; cur: the one running;
\* done: those called; due: those subscribed from the start until now.
Frames ==
  [src: Emitters, name: Names, rest: Seq(Handlers),
   cur: Handlers \cup {NoHandler}, done: SUBSET Handlers,
   due: SUBSET Handlers]

Init ==
  /\ lists = [e \in Emitters |-> [p \in Patterns |-> <<>>]]
  /\ stack = <<>>
  /\ alive = {} /\ held = {}
  /\ destroyed = [p \in Pages |-> 0]
  /\ cut = {}

-----------------------------------------------------------------------------
(* The lists. *)

\* What of s is in T, in the order of s.
Only(s, T) == FlattenSeq([i \in DOMAIN s |-> IF s[i] \in T THEN <<s[i]>> ELSE <<>>])

Matching(n) == <<n>> \o Only(PrefixOrder, {p \in Patterns : <<p, n>> \in Covers})

Subscribers(ls, e, n) == UNION {ToSet(ls[e][p]) : p \in ToSet(Matching(n))}

\* Mutant: the prefixes are not looked at when the name itself has handlers.
CopyExactFirst(e, n) ==
  IF lists[e][n] # <<>>
  THEN lists[e][n]
  ELSE FlattenSeq([i \in DOMAIN Matching(n) |-> lists[e][Matching(n)[i]]])

\* The copy that emit() makes of the lists that match a name.
Copy(e, n) == FlattenSeq([i \in DOMAIN Matching(n) |-> lists[e][Matching(n)[i]]])

\* Mutant: what was subscribed after a function goes with it.
WithoutRest(s, h) ==
  IF Contains(s, h) THEN SubSeq(s, 1, SelectInSeq(s, LAMBDA x : x = h) - 1) ELSE s

Without(s, h) == Only(s, Handlers \ {h})

\* The lists become ls: who lost the last subscription is no longer due.
Relist(ls, st) ==
  /\ lists' = ls
  /\ stack' = [i \in DOMAIN st |->
       [st[i] EXCEPT !.due = @ \cap Subscribers(ls, st[i].src, st[i].name)]]

Frame(e, n) ==
  [src |-> e, name |-> n, rest |-> Copy(e, n), cur |-> NoHandler, done |-> {},
   due |-> Subscribers(lists, e, n)]

-----------------------------------------------------------------------------
(* What a script does, in a handler or in another function of the queue. *)

Scripting == stack # <<>> => Head(stack).cur \in Functions

Usable(e) == e = App \/ e \in alive

On(e, p, f) ==
  /\ Scripting /\ Usable(e)
  /\ Len(lists[e][p]) < MaxList
  /\ Relist([lists EXCEPT ![e][p] = Append(@, f)], stack)
  /\ UNCHANGED <<alive, held, destroyed, cut>>

\* off(name, func): every subscription of func to the name.
Off(e, p, f) ==
  /\ Scripting /\ Usable(e)
  /\ Relist([lists EXCEPT ![e][p] = Without(@, f)], stack)
  /\ UNCHANGED <<alive, held, destroyed, cut>>

\* off(name): every subscription to the name, whoever made it.
OffName(e, p) ==
  /\ Scripting /\ Usable(e)
  /\ Relist([lists EXCEPT ![e][p] = <<>>], stack)
  /\ cut' = IF e = App /\ p = Everything THEN cut \cup alive ELSE cut
  /\ UNCHANGED <<alive, held, destroyed>>

\* off(): every subscription to every name.
OffAll(e) ==
  /\ Scripting /\ Usable(e)
  /\ Relist([lists EXCEPT ![e] = [p \in Patterns |-> <<>>]], stack)
  /\ cut' = IF e = App THEN cut \cup alive ELSE cut
  /\ UNCHANGED <<alive, held, destroyed>>

\* emit(), of a script or of UI::emit().
Emit(e, n) ==
  /\ Scripting /\ Usable(e)
  /\ Len(stack) < MaxDepth
  /\ stack' = <<Frame(e, n)>> \o stack
  /\ UNCHANGED <<lists, alive, held, destroyed, cut>>

\* new Page: it subscribes to "*" of the app.
Create(p) ==
  /\ Scripting
  /\ p \notin alive /\ destroyed[p] = 0
  /\ Relist([lists EXCEPT ![App][Everything] = Append(@, p)], stack)
  /\ alive' = alive \cup {p}
  /\ held' = held \cup {p}
  /\ UNCHANGED <<destroyed, cut>>

-----------------------------------------------------------------------------
(* The end of a page. *)

\* Mutant: a page does not unsubscribe.
DestroyQuietly(p, st) ==
  /\ alive' = alive \ {p}
  /\ destroyed' = [destroyed EXCEPT ![p] = @ + 1]
  /\ Relist(lists, st)

\* ~Page: app->off("*", _func); the lists of the page are freed with it.
Destroy(p, st) ==
  /\ alive' = alive \ {p}
  /\ destroyed' = [destroyed EXCEPT ![p] = @ + 1]
  /\ Relist([lists EXCEPT ![App][Everything] = Without(@, p),
                          ![p] = [q \in Patterns |-> <<>>]], st)

\* emit() holds a Strong to its own emitter.
Emitting(p, st) == \E i \in DOMAIN st : st[i].src = p

\* A native KerPage drops its page in a function of the queue of its own, a
\* PageElement when its path is set or its view recycled.
MayDrop ==
  /\ Scripting
  /\ ~DropsInside => ~Emitting(App, stack)

\* Mutant: an emission does not keep its emitter.
DropNow(p) ==
  /\ MayDrop
  /\ p \in held
  /\ held' = held \ {p}
  /\ Destroy(p, stack)
  /\ UNCHANGED cut

\* The last Strong outside of emit() is dropped; the "unload" that unloadPage()
\* and KerPage emit on the page before is an Emit.
Drop(p) ==
  /\ MayDrop
  /\ p \in held
  /\ held' = held \ {p}
  /\ IF Emitting(p, stack)
     THEN UNCHANGED <<lists, stack, alive, destroyed>>
     ELSE Destroy(p, stack)
  /\ UNCHANGED cut

-----------------------------------------------------------------------------
(* emit() goes on. *)

Idle == stack # <<>> /\ Head(stack).cur = NoHandler

\* The next handler of the copy is called.
Called(f) ==
  [f EXCEPT !.rest = Tail(@), !.cur = Head(f.rest), !.done = @ \cup {Head(f.rest)}]

CallFunction ==
  /\ Idle /\ Head(stack).rest # <<>>
  /\ Head(Head(stack).rest) \in Functions
  /\ stack' = <<Called(Head(stack))>> \o Tail(stack)
  /\ UNCHANGED <<lists, alive, held, destroyed, cut>>

\* _func of a page: emit("app.<name>") on the page that it captured, dead or
\* alive; the maps of a destroyed page are taken to be empty.
CallPage ==
  /\ Idle /\ Head(stack).rest # <<>>
  /\ LET p == Head(Head(stack).rest) IN
     /\ p \in Pages
     /\ stack' = <<Frame(p, Head(stack).name), Called(Head(stack))>> \o Tail(stack)
  /\ UNCHANGED <<lists, alive, held, destroyed, cut>>

\* The script's function returns.
Return ==
  /\ stack # <<>> /\ Head(stack).cur \in Functions
  /\ stack' = <<[Head(stack) EXCEPT !.cur = NoHandler]>> \o Tail(stack)
  /\ UNCHANGED <<lists, alive, held, destroyed, cut>>

\* The emissions under one that ended; the _func that made it returns.
Resumed ==
  LET below == Tail(stack) IN
  IF below # <<>> /\ Head(below).cur \in Pages
  THEN <<[Head(below) EXCEPT !.cur = NoHandler]>> \o Tail(below)
  ELSE below

\* emit() ends and drops its Strong: the emitter is destroyed if it was the last.
End ==
  /\ Idle /\ Head(stack).rest = <<>>
  /\ LET e == Head(stack).src IN
     IF e \in Pages \ held /\ ~Emitting(e, Tail(stack))
     THEN Destroy(e, Resumed)
     ELSE stack' = Resumed /\ UNCHANGED <<lists, alive, destroyed>>
  /\ UNCHANGED <<held, cut>>

-----------------------------------------------------------------------------
Script ==
  \/ \E e \in Emitters, p \in Patterns, f \in Functions : On(e, p, f) \/ Off(e, p, f)
  \/ \E e \in Emitters, p \in Patterns : OffName(e, p)
  \/ \E e \in Emitters : OffAll(e)
  \/ \E e \in Emitters, n \in Names : Emit(e, n)
  \/ \E p \in Pages : Create(p) \/ Drop(p)

Emission == CallFunction \/ CallPage \/ End

Next == Script \/ Emission \/ Return

Spec == Init /\ [][Next]_vars

-----------------------------------------------------------------------------
(***************************************************************************)
(* Properties.                                                             *)
(***************************************************************************)

\* The type invariant; a Strong is held to living pages only.
TypeOK ==
  /\ lists \in [Emitters -> [Patterns -> Seq(Handlers)]]
  /\ stack \in Seq(Frames)
  /\ held \subseteq alive /\ alive \subseteq Pages
  /\ destroyed \in [Pages -> Nat]
  /\ cut \subseteq Pages

\* Whatever handlers do while an emission is in progress, dropping the emitter
\* itself included, emit() runs on a living emitter (the Strong at
\* core/event.cc:176) and passes over no function that is subscribed from its
\* start to its end.
NobodySkipped ==
  \A i \in DOMAIN stack :
    /\ Usable(stack[i].src)
    /\ stack[i].due \subseteq stack[i].done \cup ToSet(stack[i].rest)

\* ~Page of ui/page.cc relies on off(): the app keeps no function that captured
\* a destroyed page.
NoStaleFunction ==
  \A p \in Patterns : ToSet(lists[App][p]) \cap Pages \subseteq alive

\* A page hears the events of its app for as long as it lives, unless a script
\* took off everything: off("*") and off() of the app do not tell the functions
\* of scripts from those of pages (core/event.cc:94, ui/page.cc:32).
PagesHear ==
  \A p \in alive \ cut : Contains(lists[App][Everything], p)

\* core/zombies.cc:217 asserts of every destructor that the object was not
\* destroyed before.
DestroyedOnce == \A p \in Pages : destroyed[p] <= 1

=============================================================================
