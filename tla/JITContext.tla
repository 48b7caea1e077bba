----------------------------- MODULE JITContext -----------------------------
(***************************************************************************)
(* The tables of a JITContext (core/jit.cc), one per dispatch queue: which *)
(* C++ object a script value (a heap pointer) stands for and, per context, *)
(* which value stands for an object.  The operators return the new tables. *)
(***************************************************************************)
CONSTANTS NoObject, NoHeapptr

With(f, x, v) == [y \in DOMAIN f \cup {x} |-> IF y = x THEN v ELSE f[y]]

Without(f, S) == [y \in DOMAIN f \ S |-> f[y]]

\* strong, weak: heap pointer to object; objs: object to context to heap pointer.
NoEntries == [strong |-> <<>>, weak |-> <<>>, objs |-> <<>>]

Entered(T, ctx, h, o) ==
  With(T.objs, o, With(IF o \in DOMAIN T.objs THEN T.objs[o] ELSE <<>>, ctx, h))

\* A key that is there already is left alone, even one whose object died.
Strong(T, ctx, h, o) ==
  IF h \in DOMAIN T.strong
  THEN T
  ELSE [T EXCEPT !.strong = With(@, h, o), !.objs = Entered(T, ctx, h, o)]

Weak(T, ctx, h, o) ==
  IF h \in DOMAIN T.weak
  THEN T
  ELSE [T EXCEPT !.weak = With(@, h, o), !.objs = Entered(T, ctx, h, o)]

\* The value was collected: its object loses the values of all contexts.
RemoveHeapptr(T, h) ==
  LET objects == {T.weak[x] : x \in DOMAIN T.weak \cap {h}}
                 \cup {T.strong[x] : x \in DOMAIN T.strong \cap {h}} IN
  [strong |-> Without(T.strong, {h}),
   weak |-> Without(T.weak, {h}),
   objs |-> Without(T.objs, objects)]

\* The values of an object, in whatever context.
Values(T, o) ==
  IF o \in DOMAIN T.objs THEN {T.objs[o][c] : c \in DOMAIN T.objs[o]} ELSE {}

\* The object died.
RemoveObject(T, o) ==
  [strong |-> Without(T.strong, Values(T, o)),
   weak |-> Without(T.weak, Values(T, o)),
   objs |-> Without(T.objs, {o})]

GetObject(T, h) ==
  CASE h \in DOMAIN T.weak -> T.weak[h]
    [] h \in DOMAIN T.strong /\ h \notin DOMAIN T.weak -> T.strong[h]
    [] OTHER -> NoObject

GetHeapptr(T, o, ctx) ==
  IF o \in DOMAIN T.objs /\ ctx \in DOMAIN T.objs[o] THEN T.objs[o][ctx] ELSE NoHeapptr

\* The weak entries of an object that is being destroyed are cleared.
Cleared(T, o) ==
  [T EXCEPT !.weak = [h \in DOMAIN @ |-> IF @[h] = o THEN NoObject ELSE @[h]]]

=============================================================================
