----------------------------- MODULE MCRefCount -----------------------------
(***************************************************************************)
(* Instances of RefCount: a layout is the set of smart pointers a program  *)
(* has and where they live.                                                *)
(***************************************************************************)
EXTENDS RefCount, TLC

CONSTANTS t1, t2, o1, o2, o3, a1, a2, b1, m1, m2, c1, wa, wb, wm

Program(owner, captured) ==
  [owner |-> owner @@ [s \in Slots |-> Nowhere], captured |-> captured]

\* Two threads; every pointer is on the stack of one, and none is sent to the
\* other.
Confined == Program(a1 :> t1 @@ a2 :> t1 @@ wa :> t1 @@ b1 :> t2 @@ wb :> t2, {})

\* One thread; objects have members, and a function captures a pointer.
Single ==
  Program(a1 :> t1 @@ c1 :> t1 @@ m1 :> o1 @@ m2 :> o2 @@ wm :> o1 @@ wa :> t1,
          {c1})

SafeLayouts == {Confined, Single}

\* Two threads that never send each other anything; the objects of the first
\* have a member.
CompositeLayouts == {Program(a1 :> t1 @@ a2 :> t1 @@ m1 :> o1 @@ b1 :> t2, {})}

=============================================================================
