----------------------------- MODULE ViewProofs -----------------------------
(***************************************************************************)
(* Proofs about ViewMirror: the views form a tree, the native views follow  *)
(* it, no command is lost, what is gone is in no window and both sides      *)
(* agree on the offsets, for any number of views, pages and commands.       *)
(***************************************************************************)
EXTENDS ViewMirror, FiniteSetTheorems, WellFoundedInduction, TLAPS

(***************************************************************************)
(* The invariant.                                                          *)
(***************************************************************************)

\* Of the views ex, those in hold are kept from outside; parents and subviews
\* agree; the view of a page is put into nothing.
Tree(ex, hold, par, subs, pools, sh) ==
  /\ ex \subseteq Views /\ hold \subseteq ex
  /\ par \in [Views -> ex \cup {NoView}]
  /\ subs \in [Views -> SUBSET (ex \ Roots)]
  /\ pools \in [Views -> SUBSET (ex \ Roots)]
  /\ sh \subseteq ex \ Roots
  /\ \A v, p \in Views : v \in subs[p] <=> par[v] = p

\* The views that were used and are gone, without those of pages.
Ghosts(ex, us) == us \ (ex \cup Roots)

\* The native views n are those of ex, each under its parent or on the screen; what
\* has lost its parent, and what is gone, may still be below what is gone.
Follows(n, ex, par, sh, us) ==
  /\ n.table = ex
  /\ \A v \in ex :
       IF v \in sh THEN n.super[v] \in {Screen, NoView}
       ELSE \/ n.super[v] = par[v]
            \/ par[v] = NoView /\ n.super[v] \in Ghosts(ex, us)
  /\ \A v \in Views \ (ex \cup (Roots \cap us)) : n.super[v] \in Ghosts(ex, us) \cup {NoView}

Scrolls(c, v) == c.op = "scroll" /\ c.view = v

\* The last of the reports rs about v, if there is one, says o.
LastSays(rs, v, o) ==
  \A i \in DOMAIN rs :
    rs[i][1] = v /\ (\A j \in DOMAIN rs : j > i => rs[j][1] # v) => rs[i][2] = o

NoneOf(rs, v) == \A i \in DOMAIN rs : rs[i][1] # v

\* The last of the commands cs that scrolls v does so to o.
Underway(cs, v, o) ==
  \E i \in DOMAIN cs :
    /\ Scrolls(cs[i], v) /\ cs[i].to = o
    /\ \A j \in DOMAIN cs : j > i => ~ Scrolls(cs[j], v)

\* The last report of the offset of v tells where the native view is; when there is
\* none, v knows that, or what it told the native view last is on its way.
Knows(v) ==
  /\ LastSays(reports, v, native.offset[v])
  /\ NoneOf(reports, v) =>
       offset[v] = native.offset[v] \/ Underway(commands, v, offset[v])

Unused(v) == offset[v] = native.offset[v] /\ NoneOf(reports, v)

OffsetsKnown == (\A v \in exists : Knows(v)) /\ (\A v \in Views \ used : Unused(v))

(***************************************************************************)
(* What a sequence of commands does to the native views.                   *)
(***************************************************************************)

Commands ==
  [op : {"create", "delete", "remove", "show", "set"}, view : Views]
    \cup [op : {"add"}, view : Views, sub : Views]
    \cup [op : {"scroll"}, view : Views, to : Offsets]

Natives(us) ==
  [table : SUBSET us, super : [Views -> us \cup {NoView, Screen}],
   offset : [Views -> Offsets]]

Known(n, c) == c.op # "create" => Named(c) \subseteq n.table

\* From a the commands cs, none of which is ignored, give these states in turn.
Trace(a, cs, st) ==
  /\ st \in [0 .. Len(cs) -> Natives(Views)]
  /\ st[0] = a
  /\ \A i \in 1 .. Len(cs) : st[i] = Effect(st[i - 1], cs[i]) /\ Known(st[i - 1], cs[i])

Leads(a, cs, b) == \E st : Trace(a, cs, st) /\ st[Len(cs)] = b

LEMMA Least ==
  ASSUME NEW S \in SUBSET Nat, S # {}
  PROVE  \E n \in S : \A m \in S : n <= m
  <1>1. PICK n \in S : \A m \in S : <<m, n>> \notin OpToRel(<, Nat)
    BY NatLessThanWellFounded, WFMin, Zenon
  <1>2. \A m \in S : ~ (m < n)
    BY <1>1, Zenon DEF OpToRel
  <1>3. QED
    BY <1>2

LEMMA EffectTyped ==
  ASSUME NEW us \in SUBSET Views, NEW n \in Natives(us), NEW c \in Commands, Named(c) \subseteq us
  PROVE  Effect(n, c) \in Natives(us)
  BY DEF Effect, Natives, Commands, Named

\* A state sequence that is right at every step is the one that States() computes.
LEMMA TraceIs ==
  ASSUME NEW a, NEW cs \in Seq(Commands), NEW st, Trace(a, cs, st)
  PROVE  States(a, cs) = st
  <1> DEFINE N == Len(cs)
             Right(f) == f = [k \in 0 .. N |-> IF k = 0 THEN a ELSE Effect(f[k - 1], cs[k])]
  <1>1. N \in Nat
    OBVIOUS
  <1>2. DOMAIN st = 0 .. N /\ st[0] = a /\ \A i \in 1 .. N : st[i] = Effect(st[i - 1], cs[i])
    BY DEF Trace
  <1>3. States(a, cs) = CHOOSE f : Right(f)
    BY DEF States
  <1> HIDE DEF N
  <1>4. Right(st)
    <2>1. \A k \in 0 .. N : st[k] = IF k = 0 THEN a ELSE Effect(st[k - 1], cs[k])
      BY <1>1, <1>2
    <2>2. st = [k \in 0 .. N |-> st[k]]
      BY <1>2 DEF Trace, N
    <2>3. QED
      BY <2>1, <2>2
  <1>5. ASSUME NEW f, Right(f) PROVE f = st
    <2>1. DOMAIN f = 0 .. N /\ f = [k \in 0 .. N |-> f[k]]
      BY <1>5
    <2>2. \A k \in 0 .. N : f[k] = IF k = 0 THEN a ELSE Effect(f[k - 1], cs[k])
      BY <1>5
    <2> DEFINE Bad == {k \in 0 .. N : f[k] # st[k]}
    <2>3. ASSUME Bad # {} PROVE FALSE
      <3>1. PICK k \in Bad : \A m \in Bad : k <= m
        <4>1. Bad \in SUBSET Nat
          BY <1>1
        <4> HIDE DEF Bad
        <4>2. QED
          BY <2>3, <4>1, Least
      <3>2. k \in 0 .. N /\ f[k] # st[k]
        OBVIOUS
      <3>3. k # 0
        BY <1>1, <1>2, <2>2, <3>2
      <3>4. k \in 1 .. N /\ k - 1 \in 0 .. N /\ ~ (k <= k - 1)
        BY <1>1, <3>2, <3>3
      <3>5. f[k - 1] = st[k - 1]
        BY <3>1, <3>4
      <3>6. QED
        BY <1>2, <2>2, <3>2, <3>3, <3>4, <3>5
    <2>4. \A k \in 0 .. N : f[k] = st[k]
      BY <2>3
    <2>5. QED
      BY <2>1, <2>4, <1>2, <1>4
  <1>6. QED
    BY <1>3, <1>4, <1>5

LEMMA LeadsNone ==
  ASSUME NEW a \in Natives(Views)
  PROVE  Leads(a, <<>>, a)
  <1>1. Len(<<>>) = 0 /\ 0 .. 0 = {0} /\ 1 .. 0 = {}
    OBVIOUS
  <1>2. Trace(a, <<>>, [i \in {0} |-> a])
    BY <1>1 DEF Trace
  <1>3. QED
    BY <1>1, <1>2 DEF Leads

LEMMA LeadsOne ==
  ASSUME NEW a \in Natives(Views), NEW c \in Commands, Known(a, c)
  PROVE  Leads(a, <<c>>, Effect(a, c))
  <1> DEFINE st == [i \in {0, 1} |-> IF i = 0 THEN a ELSE Effect(a, c)]
  <1>1. Len(<<c>>) = 1 /\ 0 .. 1 = {0, 1} /\ 1 .. 1 = {1} /\ <<c>>[1] = c
    OBVIOUS
  <1>2. Effect(a, c) \in Natives(Views)
    <2>1. Named(c) \subseteq Views
      BY DEF Named, Commands
    <2>2. QED
      BY <2>1, EffectTyped
  <1>3. st[0] = a /\ st[1] = Effect(a, c) /\ st \in [{0, 1} -> Natives(Views)]
    BY <1>2
  <1> HIDE DEF st
  <1>4. 1 - 1 = 0
    OBVIOUS
  <1>5. Trace(a, <<c>>, st)
    BY <1>1, <1>3, <1>4 DEF Trace
  <1>6. QED
    BY <1>1, <1>3, <1>5 DEF Leads

LEMMA LeadsJoin ==
  ASSUME NEW a, NEW b, NEW c, NEW s \in Seq(Commands), NEW t \in Seq(Commands),
         Leads(a, s, b), Leads(b, t, c)
  PROVE  Leads(a, s \o t, c)
  <1> DEFINE M == Len(s)
             N == Len(t)
             u == s \o t
  <1>1. PICK f : Trace(a, s, f) /\ f[Len(s)] = b
    BY DEF Leads
  <1>2. PICK g : Trace(b, t, g) /\ g[Len(t)] = c
    BY DEF Leads
  <1>3. /\ M \in Nat /\ N \in Nat /\ Len(u) = M + N
        /\ \A i \in 1 .. M : u[i] = s[i]
        /\ \A i \in 1 .. M + N : i > M => u[i] = t[i - M]
    OBVIOUS
  <1>4. /\ f \in [0 .. M -> Natives(Views)] /\ f[0] = a /\ f[M] = b
        /\ \A i \in 1 .. M : f[i] = Effect(f[i - 1], s[i]) /\ Known(f[i - 1], s[i])
    BY <1>1 DEF Trace
  <1>5. /\ g \in [0 .. N -> Natives(Views)] /\ g[0] = b /\ g[N] = c
        /\ \A i \in 1 .. N : g[i] = Effect(g[i - 1], t[i]) /\ Known(g[i - 1], t[i])
    BY <1>2 DEF Trace
  <1> HIDE DEF M, N, u
  <1> DEFINE h == [i \in 0 .. M + N |-> IF i <= M THEN f[i] ELSE g[i - M]]
  <1>6. h \in [0 .. M + N -> Natives(Views)]
    BY <1>3, <1>4, <1>5
  <1>7. \A i \in 0 .. M : i \in 0 .. M + N /\ h[i] = f[i]
    BY <1>3
  <1>8. \A i \in M .. M + N : i - M \in 0 .. N /\ i \in 0 .. M + N /\ h[i] = g[i - M]
    <2>1. ASSUME NEW i \in M .. M + N PROVE i - M \in 0 .. N /\ i \in 0 .. M + N /\ h[i] = g[i - M]
      <3>1. i - M \in 0 .. N /\ i \in 0 .. M + N /\ (i <= M => i = M /\ i - M = 0)
        BY <1>3, <2>1
      <3>2. QED
        BY <1>4, <1>5, <3>1
    <2>2. QED
      BY <2>1
  <1> HIDE DEF h
  <1>9. h[0] = a
    BY <1>3, <1>4, <1>7
  <1>10. M + N \in M .. M + N /\ (M + N) - M = N
    BY <1>3
  <1>11. h[M + N] = c
    BY <1>5, <1>8, <1>10
  <1>12. ASSUME NEW i \in 1 .. M + N
         PROVE  h[i] = Effect(h[i - 1], u[i]) /\ Known(h[i - 1], u[i])
    <2>1. CASE i <= M
      <3>1. i \in 1 .. M /\ i \in 0 .. M /\ i - 1 \in 0 .. M
        BY <1>3, <2>1
      <3>2. QED
        BY <1>3, <1>4, <1>7, <3>1
    <2>2. CASE i > M
      <3>1. /\ i \in M .. M + N /\ i - 1 \in M .. M + N /\ i - M \in 1 .. N
            /\ (i - 1) - M = (i - M) - 1
        BY <1>3, <2>2
      <3>2. h[i] = g[i - M] /\ h[i - 1] = g[(i - M) - 1] /\ u[i] = t[i - M]
        BY <1>3, <1>8, <2>2, <3>1
      <3>3. QED
        BY <1>5, <3>1, <3>2
    <2>3. QED
      BY <1>3, <2>1, <2>2
  <1>13. Trace(a, u, h)
    BY <1>3, <1>6, <1>9, <1>12 DEF Trace
  <1>14. QED
    BY <1>3, <1>11, <1>13 DEF Leads, u

LEMMA LeadsTail ==
  ASSUME NEW a, NEW b, NEW s \in Seq(Commands), s # <<>>, Leads(a, s, b)
  PROVE  Known(a, Head(s)) /\ Leads(Effect(a, Head(s)), Tail(s), b)
  <1> DEFINE N == Len(s)
             t == Tail(s)
  <1>1. PICK f : Trace(a, s, f) /\ f[Len(s)] = b
    BY DEF Leads
  <1>2. /\ N \in Nat /\ N > 0 /\ Len(t) = N - 1 /\ Head(s) = s[1]
        /\ \A i \in 1 .. N - 1 : t[i] = s[i + 1]
    OBVIOUS
  <1>3. /\ f \in [0 .. N -> Natives(Views)] /\ f[0] = a /\ f[N] = b
        /\ \A i \in 1 .. N : f[i] = Effect(f[i - 1], s[i]) /\ Known(f[i - 1], s[i])
    BY <1>1 DEF Trace
  <1> HIDE DEF N, t
  <1>4. 1 \in 1 .. N /\ 1 - 1 = 0
    BY <1>2
  <1>5. Known(a, Head(s)) /\ f[1] = Effect(a, Head(s))
    BY <1>2, <1>3, <1>4
  <1> DEFINE g == [i \in 0 .. N - 1 |-> f[i + 1]]
  <1>6. \A i \in 0 .. N - 1 : i + 1 \in 0 .. N /\ g[i] = f[i + 1]
    BY <1>2
  <1>7. g \in [0 .. N - 1 -> Natives(Views)]
    BY <1>3, <1>6
  <1>8. 0 \in 0 .. N - 1 /\ N - 1 \in 0 .. N - 1 /\ 0 + 1 = 1 /\ (N - 1) + 1 = N
    BY <1>2
  <1>9. g[0] = Effect(a, Head(s)) /\ g[N - 1] = b
    BY <1>3, <1>5, <1>6, <1>8
  <1> HIDE DEF g
  <1>10. ASSUME NEW i \in 1 .. N - 1
         PROVE  g[i] = Effect(g[i - 1], t[i]) /\ Known(g[i - 1], t[i])
    <2>1. /\ i + 1 \in 1 .. N /\ i \in 0 .. N - 1 /\ i - 1 \in 0 .. N - 1
          /\ (i - 1) + 1 = i /\ (i + 1) - 1 = i
      BY <1>2
    <2>2. g[i] = f[i + 1] /\ g[i - 1] = f[i] /\ t[i] = s[i + 1]
      BY <1>2, <1>6, <2>1
    <2>3. QED
      BY <1>3, <2>1, <2>2
  <1>11. Trace(Effect(a, Head(s)), t, g)
    BY <1>2, <1>7, <1>9, <1>10 DEF Trace
  <1>12. QED
    BY <1>2, <1>5, <1>9, <1>11 DEF Leads, t

\* An order of a finite set is a sequence that has each of it at one place.
LEMMA OrderIs ==
  ASSUME NEW S, IsFiniteSet(S), NEW f \in Orders(S)
  PROVE  /\ f \in Seq(S) /\ DOMAIN f = 1 .. Len(f)
         /\ \A x \in S : \E i \in 1 .. Len(f) : f[i] = x
         /\ \A i, j \in 1 .. Len(f) : f[i] = f[j] => i = j
  <1>1. Cardinality(S) \in Nat
    BY FS_CardinalityType
  <1>2. f \in [1 .. Cardinality(S) -> S]
    BY DEF Orders, Bijection, Injection
  <1>3. f \in Seq(S) /\ Len(f) = Cardinality(S)
    BY <1>1, <1>2
  <1>4. IsInjective(f) /\ \A x \in S : \E i \in 1 .. Cardinality(S) : f[i] = x
    BY DEF Orders, Bijection, Injection, Surjection
  <1>5. QED
    BY <1>2, <1>3, <1>4 DEF IsInjective

\* The commands cs name views in us only.
Pending(cs, us) == cs \in Seq(Commands) /\ \A i \in DOMAIN cs : Named(cs[i]) \subseteq us

\* They also leave the offsets alone.
Sent(cs, us) == Pending(cs, us) /\ \A i \in DOMAIN cs : cs[i].op # "scroll"

LEMMA PendingOne ==
  ASSUME NEW c \in Commands, NEW us, Named(c) \subseteq us
  PROVE  Pending(<<c>>, us)
  BY DEF Pending

LEMMA SentOne ==
  ASSUME NEW c \in Commands, NEW us, Named(c) \subseteq us, c.op # "scroll"
  PROVE  Sent(<<c>>, us)
  BY DEF Pending, Sent

LEMMA PendingJoin ==
  ASSUME NEW s, NEW t, NEW us, Pending(s, us), Pending(t, us)
  PROVE  Pending(s \o t, us) /\ (Sent(s, us) /\ Sent(t, us) => Sent(s \o t, us))
  <1> DEFINE u == s \o t
             Quiet(c) == c.op # "scroll"
  <1>1. s \in Seq(Commands) /\ t \in Seq(Commands) /\ u \in Seq(Commands)
    BY DEF Pending
  <1>2. ASSUME NEW i \in DOMAIN u
        PROVE  (i \in DOMAIN s /\ u[i] = s[i]) \/ \E j \in DOMAIN t : u[i] = t[j]
    <2>1. CASE i \in DOMAIN s
      BY <1>1, <2>1
    <2>2. CASE i \notin DOMAIN s
      <3>1. i - Len(s) \in DOMAIN t /\ u[i] = t[i - Len(s)]
        BY <1>1, <1>2, <2>2
      <3>2. QED
        BY <3>1
    <2>3. QED
      BY <2>1, <2>2
  <1> HIDE DEF u
  <1>3. Pending(u, us)
    BY <1>1, <1>2 DEF Pending
  <1>4. Sent(s, us) /\ Sent(t, us) => Sent(u, us)
    BY <1>2, <1>3 DEF Sent
  <1>5. QED
    BY <1>3, <1>4 DEF u

LEMMA SentJoin ==
  ASSUME NEW s, NEW t, NEW us, Sent(s, us), Sent(t, us)
  PROVE  Sent(s \o t, us)
  BY PendingJoin DEF Sent

\* n when the views in vs have been taken out.
Cut(n, vs) ==
  [table |-> n.table,
   super |-> [v \in Views |-> IF v \in vs THEN NoView ELSE n.super[v]],
   offset |-> n.offset]

LEMMA LeadsRemovals ==
  ASSUME NEW a \in Natives(Views), NEW vs \in SUBSET a.table, NEW order \in Orders(vs)
  PROVE  Sent(Removals(order), vs) /\ Leads(a, Removals(order), Cut(a, vs))
  <1>1. a.table \subseteq Views /\ vs \subseteq Views /\ IsFiniteSet(vs)
    <2>1. vs \subseteq Views /\ a.table \subseteq Views /\ IsFiniteSet(Views)
      BY ViewAssumption DEF Natives
    <2>2. QED
      BY <2>1, FS_Subset
  <1> DEFINE N == Len(order)
             r == Removals(order)
             St(S) == Cut(a, S)
             Done(i) == {order[j] : j \in 1 .. i}
             st == [i \in 0 .. N |-> St(Done(i))]
  <1>2. /\ order \in Seq(vs) /\ N \in Nat /\ DOMAIN order = 1 .. N
        /\ \A x \in vs : \E i \in 1 .. N : order[i] = x
    BY <1>1, OrderIs
  <1>3. \A i \in 1 .. N : order[i] \in vs
    BY <1>2
  <1>4. /\ r = [i \in 1 .. N |-> Command("remove", order[i])]
        /\ r \in Seq(Commands) /\ Len(r) = N /\ DOMAIN r = 1 .. N
    <2>1. r = [i \in 1 .. N |-> Command("remove", order[i])]
      BY <1>2 DEF Removals
    <2>2. \A i \in 1 .. N : Command("remove", order[i]) \in Commands
      BY <1>1, <1>3 DEF Command, Commands
    <2> HIDE DEF r, N
    <2>3. QED
      BY <1>2, <2>1, <2>2
  <1>5. \A i \in 1 .. N : r[i] = Command("remove", order[i])
    BY <1>4
  <1>6. \A S \in SUBSET vs : St(S) \in Natives(Views)
    BY <1>1, ViewAssumption DEF Natives, Cut
  <1>7. \A i \in 0 .. N : Done(i) \subseteq vs
    BY <1>2, <1>3
  <1>8. Done(0) = {} /\ Done(N) = vs
    BY <1>2, <1>3
  <1>9. St({}) = a
    <2>1. a = [table |-> a.table, super |-> a.super, offset |-> a.offset]
          /\ a.super = [v \in Views |-> a.super[v]]
      BY DEF Natives
    <2>2. QED
      BY <2>1 DEF Cut
  <1>10. \A S \in SUBSET vs, v \in vs :
           /\ Known(St(S), Command("remove", v))
           /\ Effect(St(S), Command("remove", v)) = St(S \cup {v})
    BY <1>1 DEF Known, Effect, Named, Command, Cut
  <1>11. ASSUME NEW i \in 1 .. N
         PROVE  Done(i) = Done(i - 1) \cup {order[i]} /\ i - 1 \in 0 .. N /\ i \in 0 .. N
    <2>1. i - 1 \in 0 .. N /\ i \in 0 .. N /\ 1 .. i = (1 .. i - 1) \cup {i}
      BY <1>2
    <2>2. QED
      BY <2>1
  <1>12. \A i \in 0 .. N : st[i] = St(Done(i))
    OBVIOUS
  <1>13. st \in [0 .. N -> Natives(Views)]
    <2> HIDE DEF St, Done
    <2>1. QED
      BY <1>6, <1>7
  <1>14. 0 \in 0 .. N /\ N \in 0 .. N
    BY <1>2
  <1> HIDE DEF r, N, St, Done, st
  <1>15. \A i \in 1 .. N : st[i] = Effect(st[i - 1], r[i]) /\ Known(st[i - 1], r[i])
    BY <1>3, <1>5, <1>7, <1>10, <1>11, <1>12
  <1>16. Trace(a, r, st) /\ st[N] = St(vs)
    BY <1>4, <1>8, <1>9, <1>12, <1>13, <1>14, <1>15 DEF Trace
  <1>17. Leads(a, r, St(vs))
    BY <1>4, <1>16 DEF Leads
  <1>18. \A v \in vs : Named(Command("remove", v)) = {v} /\ Command("remove", v).op # "scroll"
    BY DEF Named, Command
  <1>19. \A i \in 1 .. N : Named(r[i]) \subseteq vs /\ r[i].op # "scroll"
    BY <1>3, <1>5, <1>18
  <1>20. QED
    BY <1>4, <1>17, <1>19 DEF r, St, Sent, Pending

\* n when the views in vs have been deleted, those in sh after they were taken out.
Buried(n, vs, sh) ==
  [table |-> n.table \ vs,
   super |-> [v \in Views |-> IF v \in vs \cap sh THEN NoView ELSE n.super[v]],
   offset |-> n.offset]

LEMMA LastWordsLead ==
  ASSUME NEW a \in Natives(Views), NEW v \in a.table, NEW sh
  PROVE  /\ Sent(LastWords(v, sh), {v})
         /\ Leads(a, LastWords(v, sh), Buried(a, {v}, sh))
  <1> DEFINE rm == Command("remove", v)
             del == Command("delete", v)
             m == Cut(a, {v})
  <1>1. v \in Views /\ rm \in Commands /\ del \in Commands
        /\ Named(rm) = {v} /\ Named(del) = {v} /\ rm.op # "scroll" /\ del.op # "scroll"
    BY DEF Natives, Commands, Command, Named
  <1>2. CASE v \in sh
    <2>1. LastWords(v, sh) = <<rm>> \o <<del>>
      BY <1>2 DEF LastWords
    <2>2. Known(a, rm) /\ Effect(a, rm) = m /\ m \in Natives(Views)
      BY <1>1, ViewAssumption DEF Known, Effect, Named, Command, Cut, Natives
    <2>3. Known(m, del) /\ Effect(m, del) = Buried(a, {v}, sh)
      BY <1>1, <1>2 DEF Known, Effect, Named, Command, Cut, Natives, Buried
    <2> HIDE DEF rm, del, m
    <2>4. Leads(a, <<rm>>, m)
      BY <1>1, <2>2, LeadsOne
    <2>5. Leads(m, <<del>>, Buried(a, {v}, sh))
      <3>1. Leads(m, <<del>>, Effect(m, del))
        BY <1>1, <2>2, <2>3, LeadsOne
      <3>2. QED
        BY <2>3, <3>1
    <2>6. Sent(<<rm>>, {v}) /\ Sent(<<del>>, {v})
      BY <1>1, SentOne
    <2>7. Leads(a, <<rm>> \o <<del>>, Buried(a, {v}, sh))
      BY <2>4, <2>5, <2>6, LeadsJoin DEF Sent, Pending
    <2>8. Sent(<<rm>> \o <<del>>, {v})
      BY <2>6, SentJoin
    <2>9. QED
      BY <2>1, <2>7, <2>8
  <1>3. CASE v \notin sh
    <2>1. LastWords(v, sh) = <<del>>
      BY <1>3 DEF LastWords
    <2>2. Known(a, del) /\ Effect(a, del) = Buried(a, {v}, sh)
      BY <1>1, <1>3 DEF Known, Effect, Named, Command, Natives, Buried
    <2> HIDE DEF del
    <2>3. Leads(a, <<del>>, Effect(a, del)) /\ Sent(<<del>>, {v})
      BY <1>1, <2>2, LeadsOne, SentOne
    <2>4. QED
      BY <2>1, <2>2, <2>3
  <1>4. QED
    BY <1>2, <1>3

\* The function that FlattenSeq defines by recursion.
Joins(F, q, n) == F = [i \in 1 .. n |-> IF i = 1 THEN q[i] ELSE F[i - 1] \o q[i]]

LEMMA JoinsExist ==
  ASSUME NEW q, NEW N \in Nat
  PROVE  \E F : Joins(F, q, N)
  <1> DEFINE Bad == {n \in Nat : ~ \E F : Joins(F, q, n)}
  <1> SUFFICES ASSUME N \in Bad PROVE FALSE
    OBVIOUS
  <1>1. PICK n \in Bad : \A m \in Bad : n <= m
    <2>1. Bad \in SUBSET Nat /\ Bad # {}
      OBVIOUS
    <2> HIDE DEF Bad
    <2>2. QED
      BY <2>1, Least
  <1>2. n \in Nat /\ ~ \E F : Joins(F, q, n)
    OBVIOUS
  <1>3. CASE n = 0
    <2>1. Joins([i \in 1 .. 0 |-> 0], q, 0)
      BY DEF Joins
    <2>2. QED
      BY <1>2, <1>3, <2>1
  <1>4. CASE n # 0
    <2>1. n - 1 \in Nat /\ ~ (n <= n - 1)
      BY <1>2, <1>4
    <2>2. n - 1 \notin Bad
      BY <1>1, <2>1
    <2>3. PICK G : Joins(G, q, n - 1)
      BY <2>1, <2>2
    <2> DEFINE step(i) == IF i = 1 THEN q[i] ELSE G[i - 1] \o q[i]
               F == [i \in 1 .. n |-> step(i)]
    <2>4. /\ DOMAIN G = 1 .. n - 1
          /\ \A i \in 1 .. n - 1 : G[i] = step(i)
      BY <2>3 DEF Joins
    <2>5. \A i \in 1 .. n : i # 1 => F[i - 1] = G[i - 1]
      <3>1. \A i \in 1 .. n : i # 1 => i - 1 \in 1 .. n - 1 /\ i - 1 \in 1 .. n
        BY <1>2
      <3>2. \A j \in 1 .. n : F[j] = step(j)
        OBVIOUS
      <3> HIDE DEF F, step
      <3>3. QED
        BY <2>4, <3>1, <3>2
    <2>6. \A i \in 1 .. n : F[i] = IF i = 1 THEN q[i] ELSE F[i - 1] \o q[i]
      BY <2>5
    <2>7. F = [i \in 1 .. n |-> F[i]]
      OBVIOUS
    <2> HIDE DEF F
    <2>8. Joins(F, q, n)
      BY <2>6, <2>7 DEF Joins
    <2>9. QED
      BY <1>2, <2>8
  <1>5. QED
    BY <1>3, <1>4

\* The last words of the views in vs, in whatever order they are destroyed.
Farewell(order, sh) == FlattenSeq([i \in DOMAIN order |-> LastWords(order[i], sh)])

LEMMA FarewellLeads ==
  ASSUME NEW a \in Natives(Views), NEW vs \in SUBSET a.table, NEW order \in Orders(vs), NEW sh
  PROVE  Sent(Farewell(order, sh), vs) /\ Leads(a, Farewell(order, sh), Buried(a, vs, sh))
  <1>1. a.table \subseteq Views /\ vs \subseteq Views /\ IsFiniteSet(vs)
    <2>1. vs \subseteq Views /\ a.table \subseteq Views /\ IsFiniteSet(Views)
      BY ViewAssumption DEF Natives
    <2>2. QED
      BY <2>1, FS_Subset
  <1> DEFINE N == Len(order)
             q == [i \in 1 .. N |-> LastWords(order[i], sh)]
             Done(i) == {order[j] : j \in 1 .. i}
             At(S) == Buried(a, S, sh)
  <1>2. /\ order \in Seq(vs) /\ N \in Nat /\ DOMAIN order = 1 .. N
        /\ \A x \in vs : \E i \in 1 .. N : order[i] = x
        /\ \A i, j \in 1 .. N : order[i] = order[j] => i = j
    BY <1>1, OrderIs
  <1>3. \A i \in 1 .. N : order[i] \in vs
    BY <1>2
  <1>4. \A i \in 0 .. N : Done(i) \subseteq vs
    BY <1>2, <1>3
  <1>5. Done(0) = {} /\ Done(N) = vs
    BY <1>2, <1>3
  <1>6. At({}) = a
    <2>1. a = [table |-> a.table, super |-> a.super, offset |-> a.offset]
          /\ a.super = [v \in Views |-> a.super[v]]
      BY DEF Natives
    <2>2. QED
      BY <2>1 DEF Buried
  <1>7. \A S \in SUBSET vs : At(S) \in Natives(Views) /\ At(S).table = a.table \ S
    BY <1>1, ViewAssumption DEF Natives, Buried
  <1>8. \A S, R \in SUBSET vs : Buried(At(S), R, sh) = At(S \cup R)
    BY <1>1 DEF Buried
  <1>9. ASSUME NEW S \in SUBSET vs, NEW v \in vs \ S
        PROVE  /\ Sent(LastWords(v, sh), vs)
               /\ Leads(At(S), LastWords(v, sh), At(S \cup {v}))
    <2>1. At(S) \in Natives(Views) /\ v \in At(S).table
      BY <1>7
    <2>2. Buried(At(S), {v}, sh) = At(S \cup {v})
      BY <1>8
    <2> HIDE DEF At
    <2>3. Sent(LastWords(v, sh), {v}) /\ Leads(At(S), LastWords(v, sh), At(S \cup {v}))
      BY <2>1, <2>2, LastWordsLead
    <2>4. QED
      BY <2>3 DEF Sent, Pending
  <1>10. ASSUME NEW i \in 1 .. N
         PROVE  /\ Done(i) = Done(i - 1) \cup {order[i]} /\ i - 1 \in 0 .. N /\ i \in 0 .. N
                /\ order[i] \in vs \ Done(i - 1)
    <2>1. /\ i - 1 \in 0 .. N /\ i \in 0 .. N /\ 1 .. i = (1 .. i - 1) \cup {i}
          /\ i \notin 1 .. i - 1 /\ \A j \in 1 .. i - 1 : j \in 1 .. N
      BY <1>2
    <2>2. QED
      BY <1>2, <1>3, <2>1
  <1>11. Farewell(order, sh) = FlattenSeq(q)
    BY <1>2 DEF Farewell
  <1>12. N = Len(q) /\ \A i \in 1 .. N : q[i] = LastWords(order[i], sh)
    BY <1>2
  <1> HIDE DEF N, q, Done, At
  <1>13. CASE N = 0
    <2>1. q = <<>>
      BY <1>12, <1>13 DEF q
    <2>2. FlattenSeq(q) = <<>>
      BY <1>12, <1>13, <2>1 DEF FlattenSeq
    <2>3. Sent(<<>>, vs)
      BY DEF Sent, Pending
    <2>4. Leads(a, <<>>, a) /\ At(vs) = a
      BY <1>5, <1>6, <1>13, LeadsNone
    <2>5. QED
      BY <1>11, <2>2, <2>3, <2>4 DEF At
  <1>14. CASE N # 0
    <2> DEFINE F == CHOOSE F : Joins(F, q, N)
    <2>1. FlattenSeq(q) = F[N]
      BY <1>12, <1>14 DEF FlattenSeq, Joins
    <2>2. Joins(F, q, N)
      BY <1>2, JoinsExist
    <2> HIDE DEF F
    <2>3. \A i \in 1 .. N : F[i] = IF i = 1 THEN q[i] ELSE F[i - 1] \o q[i]
      BY <2>2 DEF Joins
    <2> DEFINE Good(i) == Sent(F[i], vs) /\ Leads(a, F[i], At(Done(i)))
               Bad == {i \in 1 .. N : ~ Good(i)}
    <2>4. Bad = {}
      <3> SUFFICES ASSUME Bad # {} PROVE FALSE
        OBVIOUS
      <3>1. PICK n \in Bad : \A m \in Bad : n <= m
        <4>1. Bad \in SUBSET Nat
          BY <1>2
        <4> HIDE DEF Bad
        <4>2. QED
          BY <4>1, Least
      <3>2. n \in 1 .. N /\ ~ Good(n)
        OBVIOUS
      <3>3. /\ Sent(q[n], vs) /\ Leads(At(Done(n - 1)), q[n], At(Done(n)))
        <4>1. /\ Done(n) = Done(n - 1) \cup {order[n]} /\ n - 1 \in 0 .. N
              /\ order[n] \in vs \ Done(n - 1) /\ q[n] = LastWords(order[n], sh)
          BY <1>10, <1>12, <3>2
        <4>2. Done(n - 1) \in SUBSET vs
          BY <1>4, <4>1
        <4> DEFINE S == Done(n - 1)
                   v == order[n]
        <4> HIDE DEF S, v
        <4>3. S \in SUBSET vs /\ v \in vs \ S
          BY <4>1, <4>2 DEF S, v
        <4>4. Sent(LastWords(v, sh), vs) /\ Leads(At(S), LastWords(v, sh), At(S \cup {v}))
          BY <1>9, <4>3
        <4>5. QED
          BY <4>1, <4>4 DEF S, v
      <3>4. CASE n = 1
        <4>1. F[n] = q[n] /\ n - 1 = 0
          BY <2>3, <3>2, <3>4
        <4>2. QED
          BY <1>5, <1>6, <3>2, <3>3, <4>1
      <3>5. CASE n # 1
        <4>1. n - 1 \in 1 .. N /\ ~ (n <= n - 1)
          BY <1>2, <3>2, <3>5
        <4>2. Good(n - 1)
          BY <3>1, <4>1
        <4>3. F[n] = F[n - 1] \o q[n]
          BY <2>3, <3>2, <3>5
        <4>4. Sent(F[n], vs)
          BY <3>3, <4>2, <4>3, SentJoin
        <4>5. Leads(a, F[n], At(Done(n)))
          BY <3>3, <4>2, <4>3, LeadsJoin DEF Sent, Pending
        <4>6. QED
          BY <3>2, <4>4, <4>5
      <3>6. QED
        BY <3>4, <3>5
    <2>5. N \in 1 .. N
      BY <1>2, <1>14
    <2>6. Good(N)
      BY <2>4, <2>5
    <2>7. QED
      BY <1>5, <1>11, <2>1, <2>6 DEF At
  <1>15. QED
    BY <1>13, <1>14

-----------------------------------------------------------------------------
(***************************************************************************)
(* What every step but those of offsets does: new pointers, new commands,   *)
(* and what reference counting makes of them.                               *)
(***************************************************************************)

TreeInv ==
  /\ Tree(exists, held, parent, subviews, pool, shown)
  /\ exists \cap Roots \subseteq held
  /\ exists \subseteq used /\ used \subseteq Views
  /\ Pending(commands, used)
  /\ \E n : Leads(native, commands, n) /\ Follows(n, exists, parent, shown, used)

\* The step sends commands that leave the offsets alone, and no view comes into
\* being but one that was never used.
SendsQuietly ==
  /\ \E t : Sent(t, used') /\ commands' = commands \o t
  /\ exists' \subseteq exists \cup (used' \ used)

\* Kept() is the least set that has the roots and what its views keep.
LEMMA KeptIs ==
  ASSUME NEW subs \in [Views -> SUBSET Views], NEW pools \in [Views -> SUBSET Views],
         NEW hold \in SUBSET Views
  PROVE  /\ hold \subseteq Kept(subs, pools, hold)
         /\ Kept(subs, pools, hold) \subseteq Views
         /\ \A w \in Kept(subs, pools, hold) :
              subs[w] \cup pools[w] \subseteq Kept(subs, pools, hold)
         /\ \A T \in SUBSET Views :
              hold \subseteq T /\ (\A w \in T : subs[w] \cup pools[w] \subseteq T)
                => Kept(subs, pools, hold) \subseteq T
  <1> DEFINE Closed(T) == hold \subseteq T /\ (\A w \in T : subs[w] \cup pools[w] \subseteq T)
             K == Kept(subs, pools, hold)
  <1>1. K = {v \in Views : \A T \in SUBSET Views : Closed(T) => v \in T}
    BY DEF Kept
  <1>2. ASSUME NEW w \in K, NEW x \in subs[w] \cup pools[w] PROVE x \in K
    <2>1. x \in Views
      BY <1>1
    <2>2. ASSUME NEW T \in SUBSET Views, Closed(T) PROVE x \in T
      <3>1. w \in T
        BY <1>1, <2>2
      <3>2. QED
        BY <2>2, <3>1
    <2> HIDE DEF Closed
    <2>3. QED
      BY <1>1, <2>1, <2>2
  <1>3. hold \subseteq K
    BY <1>1
  <1>4. \A T \in SUBSET Views : Closed(T) => K \subseteq T
    BY <1>1
  <1> HIDE DEF K
  <1>5. K \subseteq Views
    BY <1>1
  <1>6. QED
    BY <1>2, <1>3, <1>4, <1>5 DEF K

LEMMA LeadsTyped ==
  ASSUME NEW a, NEW b, NEW cs \in Seq(Commands), Leads(a, cs, b)
  PROVE  a \in Natives(Views) /\ b \in Natives(Views)
  <1>1. PICK st : Trace(a, cs, st) /\ st[Len(cs)] = b
    BY DEF Leads
  <1>2. Len(cs) \in Nat /\ 0 \in 0 .. Len(cs) /\ Len(cs) \in 0 .. Len(cs)
    OBVIOUS
  <1>3. QED
    BY <1>1, <1>2 DEF Trace

LEMMA SettleKeeps ==
  ASSUME NEW us, NEW ex, NEW hold, NEW par, NEW subs, NEW pools, NEW sh, NEW cs,
         NEW n0, NEW n1,
         ex = exists \cup hold, us \subseteq Views, ex \subseteq us, used' = us, native' = native,
         hold \subseteq exists \cup (us \ used),
         Tree(ex, hold, par, subs, pools, sh), \A v \in Views : par[v] \notin Roots \ hold,
         Pending(commands, us), Sent(cs, us),
         Leads(native, commands, n0), Leads(n0, cs, n1), Follows(n1, ex, par, sh, us),
         Settle(hold, par, subs, pools, sh, cs)
  PROVE  TreeInv' /\ SendsQuietly
  <1> DEFINE kept == Kept(subs, pools, hold)
             dead == exists \ kept
  <1>1. /\ exists' = kept /\ held' = hold /\ shown' = sh \cap kept
        /\ parent' = [v \in Views |-> IF v \in kept /\ par[v] \in kept THEN par[v] ELSE NoView]
        /\ subviews' = [v \in Views |-> IF v \in kept THEN subs[v] ELSE {}]
        /\ pool' = [v \in Views |-> IF v \in kept THEN pools[v] ELSE {}]
    BY DEF Settle
  <1>2. PICK dying \in Orders(dead) : commands' = (commands \o cs) \o Farewell(dying, sh)
    BY DEF Settle, Farewell
  <1>3. /\ ex \subseteq Views /\ hold \subseteq ex /\ par \in [Views -> ex \cup {NoView}]
        /\ subs \in [Views -> SUBSET (ex \ Roots)] /\ pools \in [Views -> SUBSET (ex \ Roots)]
        /\ sh \subseteq ex \ Roots
        /\ \A v, p \in Views : v \in subs[p] <=> par[v] = p
        /\ NoView \notin Views /\ Screen \notin Views /\ NoView # Screen
    BY ViewAssumption DEF Tree
  <1>4. /\ hold \subseteq kept
        /\ \A w \in kept : subs[w] \cup pools[w] \subseteq kept
        /\ \A T \in SUBSET Views :
              hold \subseteq T /\ (\A w \in T : subs[w] \cup pools[w] \subseteq T)
                => kept \subseteq T
    <2>1. /\ subs \in [Views -> SUBSET Views] /\ pools \in [Views -> SUBSET Views]
          /\ hold \in SUBSET Views
      BY <1>3
    <2>2. QED
      BY <2>1, KeptIs
  <1> HIDE DEF kept
  <1>5. kept \subseteq ex /\ ex \ kept = dead
    <2>1. \A w \in ex : subs[w] \cup pools[w] \subseteq ex
      BY <1>3
    <2>2. QED
      BY <1>3, <1>4, <2>1
  <1>6. kept \cap Roots \subseteq hold
    <2>1. \A w \in Views \ (Roots \ hold) : subs[w] \cup pools[w] \subseteq Views \ (Roots \ hold)
      BY <1>3
    <2> DEFINE T == Views \ (Roots \ hold)
    <2>2. T \in SUBSET Views /\ hold \subseteq T /\ \A w \in T : subs[w] \cup pools[w] \subseteq T
      BY <1>3, <2>1
    <2> HIDE DEF T
    <2>3. kept \subseteq T
      BY <1>4, <2>2
    <2>4. QED
      BY <2>3 DEF T
  <1>7. Tree(exists', held', parent', subviews', pool', shown')
    <2>1. /\ kept \subseteq Views /\ hold \subseteq kept /\ sh \cap kept \subseteq kept \ Roots
      BY <1>3, <1>4, <1>5
    <2>2. parent' \in [Views -> kept \cup {NoView}]
      BY <1>1
    <2>3. subviews' \in [Views -> SUBSET (kept \ Roots)] /\ pool' \in [Views -> SUBSET (kept \ Roots)]
      BY <1>1, <1>3, <1>4
    <2>4. ASSUME NEW v \in Views, NEW p \in Views
          PROVE  v \in subviews'[p] <=> parent'[v] = p
      BY <1>1, <1>3, <1>4
    <2>5. QED
      BY <1>1, <2>1, <2>2, <2>3, <2>4 DEF Tree
  <1>8. exists' \cap Roots \subseteq held' /\ exists' \subseteq used' /\ used' \subseteq Views
    BY <1>1, <1>5, <1>6
  <1>9. n1 \in Natives(Views) /\ n0 \in Natives(Views) /\ dead \in SUBSET n1.table
    <2>1. cs \in Seq(Commands)
      BY DEF Sent, Pending
    <2>2. n1.table = ex
      BY DEF Follows
    <2>3. QED
      BY <1>5, <2>1, <2>2, LeadsTyped
  <1> DEFINE n2 == Buried(n1, dead, sh)
             words == Farewell(dying, sh)
  <1>10. Sent(words, dead) /\ Leads(n1, words, n2)
    BY <1>9, FarewellLeads
  <1>11. dead \subseteq us
    BY <1>5
  <1> HIDE DEF words, dead
  <1>12. Sent(words, us)
    BY <1>10, <1>11 DEF Sent, Pending
  <1>13. /\ Pending(commands', used')
         /\ \E t : Sent(t, us) /\ commands' = commands \o t
    <2>1. Pending(words, us) /\ Pending(cs, us)
      BY <1>12 DEF Sent
    <2>2. Pending((commands \o cs) \o words, us)
      BY <2>1, PendingJoin
    <2>3. Sent(cs \o words, us) /\ (commands \o cs) \o words = commands \o (cs \o words)
      <3>1. commands \in Seq(Commands) /\ cs \in Seq(Commands) /\ words \in Seq(Commands)
        BY <2>1 DEF Pending
      <3>2. QED
        BY <1>12, <3>1, SentJoin
    <2>4. QED
      BY <1>2, <2>2, <2>3 DEF words
  <1>14. Leads(native', commands', n2)
    <2>1. commands \in Seq(Commands) /\ cs \in Seq(Commands) /\ words \in Seq(Commands)
      BY <1>12 DEF Sent, Pending
    <2>2. Leads(native, commands \o cs, n1) /\ commands \o cs \in Seq(Commands)
      BY <2>1, LeadsJoin
    <2>3. Leads(native, (commands \o cs) \o words, n2)
      BY <1>10, <2>1, <2>2, LeadsJoin
    <2>4. QED
      BY <1>2, <2>3 DEF words
  <1>15. Follows(n2, exists', parent', shown', used')
    <2> DEFINE G == Ghosts(ex, us)
               G2 == Ghosts(kept, us)
    <2>1. /\ n1.table = ex
          /\ \A v \in ex : IF v \in sh THEN n1.super[v] \in {Screen, NoView}
                           ELSE \/ n1.super[v] = par[v]
                                \/ par[v] = NoView /\ n1.super[v] \in G
          /\ \A v \in Views \ (ex \cup (Roots \cap us)) : n1.super[v] \in G \cup {NoView}
      BY DEF Follows
    <2>2. G \subseteq G2 /\ dead \ Roots \subseteq G2
      BY <1>5, <1>11 DEF Ghosts, dead
    <2>3. /\ n2.table = ex \ dead
          /\ \A v \in Views : n2.super[v] = IF v \in dead /\ v \in sh THEN NoView ELSE n1.super[v]
      BY <2>1 DEF Buried
    <2>4. ex \ dead = kept /\ \A v \in ex : v \in dead <=> v \notin kept
      BY <1>5
    <2> HIDE DEF G, G2
    <2>5. \A v \in Views : par[v] \in dead => par[v] \in G2
      <3>1. ASSUME NEW v \in Views, par[v] \in dead PROVE par[v] \notin Roots
        <4>1. par[v] \notin kept /\ par[v] \notin Roots \ hold
          BY <1>5, <3>1
        <4>2. QED
          BY <1>4, <4>1
      <3>2. QED
        BY <2>2, <3>1
    <2>6. ASSUME NEW v \in kept
          PROVE  IF v \in sh \cap kept THEN n2.super[v] \in {Screen, NoView}
                 ELSE \/ n2.super[v] = parent'[v]
                      \/ parent'[v] = NoView /\ n2.super[v] \in G2
      <3>1. v \in ex /\ v \in Views /\ v \notin dead /\ n2.super[v] = n1.super[v]
        BY <1>3, <1>5, <2>3, <2>4
      <3>2. CASE v \in sh
        BY <2>1, <3>1, <3>2
      <3>3. CASE v \notin sh /\ par[v] \in kept
        <4>1. parent'[v] = par[v] /\ par[v] # NoView
          BY <1>1, <1>3, <1>5, <3>1, <3>3
        <4>2. QED
          BY <2>1, <3>1, <3>3, <4>1
      <3>4. CASE v \notin sh /\ par[v] \notin kept
        <4>1. parent'[v] = NoView
          BY <1>1, <3>1, <3>4
        <4>2. par[v] = NoView \/ par[v] \in dead
          BY <1>3, <2>4, <3>1, <3>4
        <4>3. QED
          BY <2>1, <2>2, <2>5, <3>1, <3>4, <4>1, <4>2
      <3>5. QED
        BY <3>2, <3>3, <3>4
    <2>7. ASSUME NEW v \in Views \ (kept \cup (Roots \cap us)) PROVE n2.super[v] \in G2 \cup {NoView}
      <3>1. CASE v \notin ex
        BY <1>5, <2>1, <2>2, <2>3, <2>7, <3>1
      <3>2. CASE v \in ex /\ v \in sh
        BY <1>5, <2>3, <2>7, <3>2
      <3>3. CASE v \in ex /\ v \notin sh
        <4>1. n2.super[v] = n1.super[v]
          BY <2>3, <3>3
        <4>2. CASE n1.super[v] \in G
          BY <2>2, <4>1, <4>2
        <4>3. CASE n1.super[v] = par[v]
          <5>1. par[v] \notin kept
            BY <1>3, <1>4, <1>5, <2>7
          <5>2. par[v] \in dead \/ par[v] = NoView
            BY <1>3, <2>4, <5>1
          <5>3. QED
            BY <2>5, <4>1, <4>3, <5>2
        <4>4. QED
          BY <2>1, <3>3, <4>2, <4>3
      <3>4. QED
        BY <3>1, <3>2, <3>3
    <2>8. QED
      BY <1>1, <2>3, <2>4, <2>6, <2>7 DEF Follows, G2
  <1>16. QED
    BY <1>1, <1>5, <1>7, <1>8, <1>13, <1>14, <1>15 DEF TreeInv, SendsQuietly

-----------------------------------------------------------------------------
(***************************************************************************)
(* The calls.                                                              *)
(***************************************************************************)

LEMMA TwoIs ==
  ASSUME NEW a \in Commands, NEW b \in Commands
  PROVE  <<a>> \o <<b>> = <<a, b>>
  <1> DEFINE s == <<a>> \o <<b>>
  <1>1. s \in Seq(Commands) /\ Len(s) = 2 /\ s[1] = a /\ s[2] = b
    OBVIOUS
  <1>2. <<a, b>> \in Seq(Commands) /\ Len(<<a, b>>) = 2
    OBVIOUS
  <1> HIDE DEF s
  <1>3. \A i \in 1 .. 2 : i = 1 \/ i = 2
    OBVIOUS
  <1>4. s = [i \in 1 .. 2 |-> s[i]] /\ <<a, b>> = [i \in 1 .. 2 |-> <<a, b>>[i]]
    BY <1>1, <1>2
  <1>5. s = <<a, b>>
    BY <1>1, <1>3, <1>4
  <1>6. QED
    BY <1>5 DEF s

LEMMA SentNone == ASSUME NEW us PROVE Sent(<<>>, us)
  BY DEF Sent, Pending

\* Only what is kept from outside and the pools change, and nothing is sent.
LEMMA QuietKeeps ==
  ASSUME TreeInv, NEW hold \in SUBSET exists, NEW pools \in [Views -> SUBSET (exists \ Roots)],
         exists \cap Roots \subseteq hold, Settle(hold, parent, subviews, pools, shown, <<>>),
         UNCHANGED <<used, native>>
  PROVE  TreeInv' /\ SendsQuietly
  <1>1. PICK n : Leads(native, commands, n) /\ Follows(n, exists, parent, shown, used)
    BY DEF TreeInv
  <1>2. /\ Tree(exists, hold, parent, subviews, pools, shown) /\ exists = exists \cup hold
        /\ exists \subseteq used /\ used \subseteq Views /\ Pending(commands, used)
    BY DEF TreeInv, Tree
  <1>3. Leads(n, <<>>, n) /\ Sent(<<>>, used) /\ hold \subseteq exists \cup (used \ used)
    BY <1>1, <1>2, LeadsTyped, LeadsNone, SentNone DEF Sent, Pending
  <1>4. \A v \in Views : parent[v] \notin Roots \ hold
    BY <1>2, ViewAssumption DEF Tree
  <1>5. QED
    BY <1>1, <1>2, <1>3, <1>4, SettleKeeps

LEMMA CreateKeeps ==
  ASSUME TreeInv, NEW v \in Views, Create(v)
  PROVE  TreeInv' /\ SendsQuietly
  <1> DEFINE ex == exists \cup {v}
             hold == held \cup {v}
             us == used \cup {v}
             c == Command("create", v)
  <1>1. PICK n : Leads(native, commands, n) /\ Follows(n, exists, parent, shown, used)
    BY DEF TreeInv
  <1>2. /\ Tree(exists, held, parent, subviews, pool, shown)
        /\ exists \cap Roots \subseteq held
        /\ exists \subseteq used /\ used \subseteq Views /\ Pending(commands, used)
    BY DEF TreeInv
  <1>3. /\ v \notin used /\ used' = us /\ native' = native
        /\ Settle(hold, parent, subviews, pool, shown, <<c>>)
    BY DEF Create
  <1>4. Tree(ex, hold, parent, subviews, pool, shown)
    BY <1>2 DEF Tree
  <1>5. n \in Natives(Views)
    BY <1>1, <1>2, LeadsTyped DEF Sent, Pending
  <1>6. c \in Commands /\ Known(n, c) /\ Named(c) \subseteq us /\ c.op # "scroll"
    BY DEF Command, Commands, Known, Named
  <1> DEFINE m == Effect(n, c)
  <1>7. m = [n EXCEPT !.table = @ \cup {v}]
    BY DEF Effect, Command
  <1>8. parent[v] = NoView
    <2>1. v \notin exists /\ \A p \in Views : v \notin subviews[p]
      BY <1>2, <1>3 DEF Tree
    <2>2. QED
      BY <1>2, <2>1 DEF Tree
  <1>9. Ghosts(ex, us) = Ghosts(exists, used)
    BY <1>2, <1>3 DEF Ghosts
  <1>10. m.table = n.table \cup {v} /\ m.super = n.super
    BY <1>5, <1>7 DEF Natives
  <1>11. Follows(m, ex, parent, shown, us)
    <2>1. v \notin shown /\ v \notin exists
      BY <1>2, <1>3 DEF Tree
    <2> HIDE DEF m
    <2>2. QED
      BY <1>1, <1>2, <1>3, <1>8, <1>9, <1>10, <2>1 DEF Follows
  <1>12. Leads(n, <<c>>, m) /\ Sent(<<c>>, us)
    BY <1>5, <1>6, LeadsOne, SentOne
  <1>13. Pending(commands, us)
    BY <1>2 DEF Sent, Pending
  <1>14. \A w \in Views : parent[w] \notin Roots \ hold
    BY <1>2, ViewAssumption DEF Tree
  <1>15. /\ ex = exists \cup hold /\ us \subseteq Views /\ ex \subseteq us
         /\ hold \subseteq exists \cup (us \ used)
    BY <1>2, <1>3 DEF Tree
  <1> HIDE DEF m, c, ex, us, hold
  <1>16. QED
    BY <1>1, <1>3, <1>4, <1>11, <1>12, <1>13, <1>14, <1>15, SettleKeeps

\* The views in vs are taken out, those in down are no longer shown, and those in
\* hold are kept.
LEMMA CutKeeps ==
  ASSUME TreeInv, NEW hold \in SUBSET held, NEW vs \in SUBSET (exists \ Roots),
         NEW down \in SUBSET vs, NEW subs \in [Views -> SUBSET (exists \ Roots)], NEW cs,
         \A p \in Views : subs[p] = {w \in subviews[p] : w \notin vs},
         \A v \in Views : parent[v] \in exists \cap Roots => v \in vs \/ parent[v] \in hold,
         Sent(cs, used), \A n \in Natives(Views) : n.table = exists => Leads(n, cs, Cut(n, vs)),
         Settle(hold, Orphaned(vs), subs, pool, shown \ down, cs), UNCHANGED <<used, native>>
  PROVE  TreeInv' /\ SendsQuietly
  <1> DEFINE par == Orphaned(vs)
             sh == shown \ down
  <1>1. PICK n : Leads(native, commands, n) /\ Follows(n, exists, parent, shown, used)
    BY DEF TreeInv
  <1>2. /\ Tree(exists, held, parent, subviews, pool, shown)
        /\ exists \cap Roots \subseteq held
        /\ exists \subseteq used /\ used \subseteq Views /\ Pending(commands, used)
        /\ NoView \notin Views
    BY ViewAssumption DEF TreeInv
  <1>3. \A v \in Views : par[v] = IF v \in vs THEN NoView ELSE parent[v]
    BY DEF Orphaned
  <1>4. /\ Tree(exists, hold, par, subs, pool, sh) /\ exists = exists \cup hold
        /\ hold \subseteq exists \cup (used \ used)
    <2>1. par \in [Views -> exists \cup {NoView}]
      BY <1>2 DEF Tree, Orphaned
    <2> HIDE DEF par
    <2>2. \A v, p \in Views : v \in subs[p] <=> par[v] = p
      BY <1>2, <1>3 DEF Tree
    <2>3. QED
      BY <1>2, <2>1, <2>2 DEF Tree
  <1>5. n \in Natives(Views) /\ n.table = exists
    BY <1>1, <1>2, LeadsTyped DEF Sent, Pending, Follows
  <1>6. Leads(n, cs, Cut(n, vs))
    BY <1>5
  <1>7. Follows(Cut(n, vs), exists, par, sh, used)
    <2>1. /\ Cut(n, vs).table = exists
          /\ \A v \in Views : Cut(n, vs).super[v] = IF v \in vs THEN NoView ELSE n.super[v]
      BY <1>5 DEF Cut
    <2> HIDE DEF par
    <2>2. QED
      BY <1>1, <1>2, <1>3, <2>1 DEF Follows, Tree
  <1>8. \A v \in Views : par[v] \notin Roots \ hold
    BY <1>2, <1>3, ViewAssumption DEF Tree
  <1> HIDE DEF par, sh
  <1>9. Settle(hold, par, subs, pool, sh, cs)
    BY DEF par, sh
  <1>10. QED
    BY <1>1, <1>2, <1>4, <1>6, <1>7, <1>8, <1>9, SettleKeeps

LEMMA RemoveViewKeeps ==
  ASSUME TreeInv, NEW v \in Views, RemoveView(v)
  PROVE  TreeInv' /\ SendsQuietly
  <1> DEFINE c == Command("remove", v)
             subs == Without(v)
  <1>1. /\ Tree(exists, held, parent, subviews, pool, shown)
        /\ exists \cap Roots \subseteq held
        /\ exists \subseteq used /\ used \subseteq Views /\ NoView \notin Views
    BY ViewAssumption DEF TreeInv
  <1>2. /\ v \in exists \ Roots /\ UNCHANGED <<used, native>>
        /\ Settle(held, Orphaned({v}), subs, pool, shown \ {v}, <<c>>)
    BY <1>1 DEF RemoveView, Tree
  <1>3. /\ subs \in [Views -> SUBSET (exists \ Roots)]
        /\ \A p \in Views : subs[p] = {w \in subviews[p] : w # v}
    BY <1>1 DEF Without, Tree
  <1>4. c \in Commands /\ Named(c) \subseteq used /\ c.op # "scroll"
    BY <1>1, <1>2 DEF Command, Commands, Named
  <1>5. ASSUME NEW n \in Natives(Views), n.table = exists PROVE Leads(n, <<c>>, Cut(n, {v}))
    <2>1. Known(n, c)
      BY <1>2, <1>5 DEF Known, Named, Command
    <2>2. Effect(n, c) = Cut(n, {v})
      BY <1>2, <1>5 DEF Effect, Named, Command, Cut, Natives
    <2> HIDE DEF c
    <2>3. QED
      BY <1>4, <2>1, <2>2, LeadsOne
  <1>6. Sent(<<c>>, used)
    BY <1>4, SentOne
  <1> HIDE DEF subs, c
  <1>7. /\ held \in SUBSET held /\ {v} \in SUBSET (exists \ Roots) /\ {v} \in SUBSET {v}
        /\ \A p \in Views : subs[p] = {w \in subviews[p] : w \notin {v}}
        /\ \A w \in Views : parent[w] \in exists \cap Roots => w \in {v} \/ parent[w] \in held
    BY <1>1, <1>2, <1>3
  <1>8. QED
    BY <1>2, <1>3, <1>5, <1>6, <1>7, CutKeeps

LEMMA RemovalsSent ==
  ASSUME TreeInv, NEW vs \in SUBSET exists, NEW order \in Orders(vs)
  PROVE  /\ Sent(Removals(order), used)
         /\ \A n \in Natives(Views) :
              n.table = exists => Leads(n, Removals(order), Cut(n, vs))
  <1>1. vs \subseteq used
    BY DEF TreeInv
  <1>2. PICK m : Leads(native, commands, m) /\ m.table = exists
    BY DEF TreeInv, Follows
  <1>3. m \in Natives(Views)
    BY <1>2, LeadsTyped DEF TreeInv, Sent, Pending
  <1>4. Sent(Removals(order), vs)
    BY <1>2, <1>3, LeadsRemovals
  <1>5. Sent(Removals(order), used)
    BY <1>1, <1>4 DEF Sent, Pending
  <1>6. QED
    BY <1>5, LeadsRemovals

LEMMA RemoveAllKeeps ==
  ASSUME TreeInv, NEW p \in Views, RemoveAllSubviews(p)
  PROVE  TreeInv' /\ SendsQuietly
  <1> DEFINE vs == subviews[p]
             subs == [subviews EXCEPT ![p] = {}]
  <1>1. /\ Tree(exists, held, parent, subviews, pool, shown)
        /\ exists \cap Roots \subseteq held /\ NoView \notin Views
    BY ViewAssumption DEF TreeInv
  <1>2. PICK order \in Orders(vs) :
          Settle(held, Orphaned(vs), subs, pool, shown, Removals(order))
    BY DEF RemoveAllSubviews
  <1>3. UNCHANGED <<used, native>>
    BY DEF RemoveAllSubviews
  <1>4. /\ vs \in SUBSET (exists \ Roots) /\ subs \in [Views -> SUBSET (exists \ Roots)]
        /\ \A q \in Views : subs[q] = {w \in subviews[q] : w \notin vs}
    BY <1>1 DEF Tree
  <1>5. /\ held \in SUBSET held /\ {} \in SUBSET vs /\ shown = shown \ {}
        /\ \A w \in Views : parent[w] \in exists \cap Roots => w \in vs \/ parent[w] \in held
    BY <1>1
  <1> HIDE DEF vs, subs
  <1>6. /\ Sent(Removals(order), used)
        /\ \A n \in Natives(Views) : n.table = exists => Leads(n, Removals(order), Cut(n, vs))
    BY <1>4, RemovalsSent
  <1>7. Settle(held, Orphaned(vs), subs, pool, shown \ {}, Removals(order))
    BY <1>2, <1>5
  <1>8. QED
    BY <1>3, <1>4, <1>5, <1>6, <1>7, CutKeeps

LEMMA RemovePoolKeeps ==
  ASSUME TreeInv, NEW p \in Views, RemoveRecycleViews(p)
  PROVE  TreeInv' /\ SendsQuietly
  <1> DEFINE vs == pool[p]
             subs == WithoutAll(vs)
  <1>1. /\ Tree(exists, held, parent, subviews, pool, shown)
        /\ exists \cap Roots \subseteq held /\ NoView \notin Views
    BY ViewAssumption DEF TreeInv
  <1>2. PICK order \in Orders(vs) :
          Settle(held, Orphaned(vs), subs, pool, shown \ vs, Removals(order))
    BY DEF RemoveRecycleViews
  <1>3. UNCHANGED <<used, native>>
    BY DEF RemoveRecycleViews
  <1>4. /\ vs \in SUBSET (exists \ Roots) /\ subs \in [Views -> SUBSET (exists \ Roots)]
        /\ \A q \in Views : subs[q] = {w \in subviews[q] : w \notin vs}
    BY <1>1 DEF Tree, WithoutAll
  <1>5. /\ held \in SUBSET held /\ vs \in SUBSET vs
        /\ \A w \in Views : parent[w] \in exists \cap Roots => w \in vs \/ parent[w] \in held
    BY <1>1
  <1> HIDE DEF vs, subs
  <1>6. /\ Sent(Removals(order), used)
        /\ \A n \in Natives(Views) : n.table = exists => Leads(n, Removals(order), Cut(n, vs))
    BY <1>4, RemovalsSent
  <1>7. QED
    BY <1>2, <1>3, <1>4, <1>5, <1>6, CutKeeps

LEMMA CloseKeeps ==
  ASSUME TreeInv, NEW r \in Views, Close(r)
  PROVE  TreeInv' /\ SendsQuietly
  <1> DEFINE rest == subviews[r] \ pool[r]
             pooled == pool[r]
             vs == pooled \cup rest
             subs == [WithoutAll(pool[r]) EXCEPT ![r] = {}]
             hold == held \ {r}
  <1>1. /\ Tree(exists, held, parent, subviews, pool, shown)
        /\ exists \cap Roots \subseteq held /\ NoView \notin Views
    BY ViewAssumption DEF TreeInv
  <1>2. PICK one \in Orders(pooled), two \in Orders(rest) :
          Settle(hold, Orphaned(vs), subs, pool, shown \ pooled, Removals(one) \o Removals(two))
    BY DEF Close
  <1>3. UNCHANGED <<used, native>> /\ r \in held
    BY DEF Close
  <1>4. /\ pooled \in SUBSET (exists \ Roots) /\ rest \in SUBSET (exists \ Roots)
        /\ vs = pool[r] \cup subviews[r]
    BY <1>1 DEF Tree
  <1>5. subs \in [Views -> SUBSET (exists \ Roots)]
    BY <1>1 DEF Tree, WithoutAll
  <1>6. \A q \in Views : subs[q] = {w \in subviews[q] : w \notin vs}
    <2>1. ASSUME NEW q \in Views, q # r, NEW w \in subviews[q] PROVE w \notin subviews[r] /\ parent[w] = q
      BY <1>1, <2>1 DEF Tree
    <2>2. ASSUME NEW q \in Views, q # r PROVE subs[q] = {w \in subviews[q] : w \notin vs}
      <3>1. subs[q] = subviews[q] \ {w \in pool[r] : parent[w] = q}
        BY <2>2 DEF WithoutAll
      <3> HIDE DEF subs, vs
      <3>2. QED
        BY <1>4, <2>1, <2>2, <3>1
    <2>3. subs[r] = {} /\ \A w \in subviews[r] : w \in vs
      BY <1>4 DEF WithoutAll
    <2> HIDE DEF subs, vs
    <2>4. QED
      BY <2>2, <2>3
  <1>7. /\ hold \in SUBSET held /\ pooled \in SUBSET vs
        /\ \A w \in Views : parent[w] \in exists \cap Roots => w \in vs \/ parent[w] \in hold
    BY <1>1, <1>4 DEF Tree
  <1>8. /\ Sent(Removals(one), used) /\ Sent(Removals(two), used)
        /\ \A n \in Natives(Views) : n.table = exists =>
             /\ Leads(n, Removals(one), Cut(n, pooled))
             /\ Leads(n, Removals(two), Cut(n, rest))
    <2> HIDE DEF pooled, rest
    <2>1. QED
      BY <1>4, RemovalsSent
  <1> DEFINE cs == Removals(one) \o Removals(two)
  <1>9. Sent(cs, used)
    BY <1>8, SentJoin
  <1>10. ASSUME NEW n \in Natives(Views), n.table = exists PROVE Leads(n, cs, Cut(n, vs))
    <2> DEFINE m == Cut(n, pooled)
    <2>1. m \in Natives(Views) /\ m.table = exists
      BY <1>10, ViewAssumption DEF Cut, Natives
    <2>2. Cut(m, rest) = Cut(n, vs)
      BY DEF Cut
    <2> HIDE DEF m, rest, vs
    <2>3. Leads(n, Removals(one), m) /\ Leads(m, Removals(two), Cut(m, rest))
      BY <1>8, <1>10, <2>1 DEF m
    <2>4. QED
      BY <1>8, <2>2, <2>3, LeadsJoin DEF Sent, Pending
  <1>11. vs \in SUBSET (exists \ Roots) /\ pooled \in SUBSET vs
    BY <1>4
  <1> HIDE DEF vs, subs, cs, hold, rest, pooled
  <1>12. Settle(hold, Orphaned(vs), subs, pool, shown \ pooled, cs)
    BY <1>2 DEF cs
  <1>13. QED
    BY <1>3, <1>5, <1>6, <1>7, <1>9, <1>10, <1>11, <1>12, CutKeeps

\* v is below p or on the screen from now on.
LEMMA PutKeeps ==
  ASSUME TreeInv, NEW v \in exists \ Roots, NEW to \in Views \cup {Screen}, NEW cs,
         NEW par, NEW subs, NEW sh,
         Sent(cs, used),
         \A n \in Natives(Views) :
           n.table = exists => Leads(n, cs, [n EXCEPT !.super[v] = to]),
         Tree(exists, held, par, subs, pool, sh),
         \A w \in Views : w # v => par[w] = parent[w],
         \A w \in Views : w # v => (w \in sh <=> w \in shown),
         \/ to = Screen /\ v \in sh
         \/ to \in Views /\ to = par[v] /\ v \notin sh,
         Settle(held, par, subs, pool, sh, cs), UNCHANGED <<used, native>>
  PROVE  TreeInv' /\ SendsQuietly
  <1>1. PICK n : Leads(native, commands, n) /\ Follows(n, exists, parent, shown, used)
    BY DEF TreeInv
  <1>2. /\ Tree(exists, held, parent, subviews, pool, shown)
        /\ exists \cap Roots \subseteq held
        /\ exists \subseteq used /\ used \subseteq Views /\ Pending(commands, used)
        /\ NoView \notin Views /\ Screen \notin Views
    BY ViewAssumption DEF TreeInv
  <1>3. n \in Natives(Views) /\ n.table = exists
    BY <1>1, <1>2, LeadsTyped DEF Sent, Pending, Follows
  <1> DEFINE m == [n EXCEPT !.super[v] = to]
  <1>4. Leads(n, cs, m)
    BY <1>3
  <1>5. Follows(m, exists, par, sh, used)
    <2>1. /\ m.table = exists
          /\ \A w \in Views : m.super[w] = IF w = v THEN to ELSE n.super[w]
      BY <1>3 DEF Natives
    <2> HIDE DEF m
    <2>2. QED
      BY <1>1, <1>2, <2>1 DEF Follows
  <1>6. \A w \in Views : par[w] \notin Roots \ held
    BY <1>2, ViewAssumption DEF Tree
  <1>7. exists = exists \cup held /\ held \subseteq exists \cup (used \ used)
    BY <1>2 DEF Tree
  <1> HIDE DEF m
  <1>8. QED
    BY <1>1, <1>2, <1>4, <1>5, <1>6, <1>7, SettleKeeps

LEMMA AddSubviewKeeps ==
  ASSUME TreeInv, NEW p \in Views, NEW v \in Views, AddSubview(p, v)
  PROVE  TreeInv' /\ SendsQuietly
  <1> DEFINE c == Command("remove", v)
             d == Add(p, v)
             par == [parent EXCEPT ![v] = p]
             subs == [Without(v) EXCEPT ![p] = @ \cup {v}]
             sh == shown \ {v}
  <1>1. /\ Tree(exists, held, parent, subviews, pool, shown)
        /\ exists \cap Roots \subseteq held
        /\ exists \subseteq used /\ used \subseteq Views /\ NoView \notin Views
    BY ViewAssumption DEF TreeInv
  <1>2. /\ v \in exists \ Roots /\ p \in exists /\ UNCHANGED <<used, native>>
        /\ Settle(held, par, subs, pool, sh, <<c, d>>)
    BY <1>1 DEF AddSubview, Tree
  <1>3. Tree(exists, held, par, subs, pool, sh)
    <2>1. par \in [Views -> exists \cup {NoView}] /\ \A w \in Views : par[w] = IF w = v THEN p ELSE parent[w]
      BY <1>1, <1>2 DEF Tree
    <2>2. /\ Without(v) \in [Views -> SUBSET (exists \ Roots)]
          /\ \A q \in Views : Without(v)[q] = {w \in subviews[q] : w # v}
      BY <1>1 DEF Without, Tree
    <2>3. subs \in [Views -> SUBSET (exists \ Roots)]
      BY <1>2, <2>2
    <2>4. \A w, q \in Views : w \in subs[q] <=> IF w = v THEN q = p ELSE w \in subviews[q]
      BY <1>2, <2>2
    <2> HIDE DEF par, subs
    <2>5. \A w, q \in Views : w \in subs[q] <=> par[w] = q
      BY <1>1, <2>1, <2>4 DEF Tree
    <2>6. QED
      BY <1>1, <2>1, <2>3, <2>5 DEF Tree
  <1>4. /\ c \in Commands /\ d \in Commands /\ Named(c) \subseteq used /\ Named(d) \subseteq used
        /\ c.op # "scroll" /\ d.op # "scroll"
    BY <1>1, <1>2 DEF Command, Commands, Named, Add
  <1>5. ASSUME NEW n \in Natives(Views), n.table = exists
        PROVE  Leads(n, <<c, d>>, [n EXCEPT !.super[v] = p])
    <2> DEFINE m == Effect(n, c)
    <2>1. Known(n, c) /\ m = [n EXCEPT !.super[v] = NoView] /\ m \in Natives(Views)
      BY <1>2, <1>5 DEF Known, Effect, Named, Command, Natives
    <2>2. Known(m, d) /\ Effect(m, d) = [n EXCEPT !.super[v] = p]
      <3>1. m.table = exists /\ d.op = "add" /\ d.view = p /\ d.sub = v /\ Named(d) = {p, v}
        BY <1>5, <2>1 DEF Named, Add, Natives
      <3> HIDE DEF c, d, m
      <3>2. Named(d) \subseteq m.table
        BY <1>2, <3>1
      <3>3. Effect(m, d) = [m EXCEPT !.super[v] = p]
        BY <3>1, <3>2 DEF Effect
      <3>4. [m EXCEPT !.super[v] = p] = [n EXCEPT !.super[v] = p]
        BY <1>5, <2>1 DEF Natives
      <3>5. QED
        BY <3>2, <3>3, <3>4 DEF Known
    <2> HIDE DEF c, d, m
    <2>3. Leads(n, <<c>>, m) /\ Leads(m, <<d>>, Effect(m, d))
      BY <1>4, <2>1, <2>2, LeadsOne DEF m
    <2>4. Leads(n, <<c>> \o <<d>>, Effect(m, d))
      BY <1>4, <2>3, LeadsJoin, SentOne DEF Sent, Pending
    <2>5. QED
      BY <1>4, <2>2, <2>4, TwoIs
  <1>6. Sent(<<c, d>>, used)
    <2> HIDE DEF c, d
    <2>1. Sent(<<c>> \o <<d>>, used)
      BY <1>4, SentOne, SentJoin
    <2>2. QED
      BY <1>4, <2>1, TwoIs
  <1>7. /\ \A w \in Views : w # v => par[w] = parent[w]
        /\ \A w \in Views : w # v => (w \in sh <=> w \in shown)
        /\ p \in Views /\ p = par[v] /\ v \notin sh
    BY <1>1 DEF Tree
  <1> HIDE DEF par, subs, sh, c, d
  <1>8. QED
    BY <1>2, <1>3, <1>5, <1>6, <1>7, PutKeeps

LEMMA ShowKeeps ==
  ASSUME TreeInv, NEW v \in Views, ShowToScreen(v)
  PROVE  TreeInv' /\ SendsQuietly
  <1> DEFINE c == Command("show", v)
             sh == shown \cup {v}
  <1>1. /\ Tree(exists, held, parent, subviews, pool, shown)
        /\ exists \subseteq used /\ used \subseteq Views
    BY DEF TreeInv
  <1>2. /\ v \in exists \ Roots /\ UNCHANGED <<used, native>>
        /\ Settle(held, parent, subviews, pool, sh, <<c>>)
    BY <1>1 DEF ShowToScreen, Tree
  <1>3. Tree(exists, held, parent, subviews, pool, sh)
    BY <1>1, <1>2 DEF Tree
  <1>4. c \in Commands /\ Named(c) \subseteq used /\ c.op # "scroll"
    BY <1>1, <1>2 DEF Command, Commands, Named
  <1>5. ASSUME NEW n \in Natives(Views), n.table = exists
        PROVE  Leads(n, <<c>>, [n EXCEPT !.super[v] = Screen])
    <2>1. Known(n, c) /\ Effect(n, c) = [n EXCEPT !.super[v] = Screen]
      BY <1>2, <1>5 DEF Known, Effect, Named, Command, Natives
    <2> HIDE DEF c
    <2>2. Leads(n, <<c>>, Effect(n, c))
      BY <1>4, <2>1, LeadsOne
    <2>3. QED
      BY <2>1, <2>2
  <1>6. Sent(<<c>>, used)
    BY <1>4, SentOne
  <1>7. \A w \in Views : w # v => (w \in sh <=> w \in shown)
    OBVIOUS
  <1>8. v \in sh
    OBVIOUS
  <1> HIDE DEF sh, c
  <1>9. QED
    BY <1>2, <1>3, <1>5, <1>6, <1>7, <1>8, PutKeeps

\* A command that changes neither the native views nor where they are.
LEMMA SetKeeps ==
  ASSUME TreeInv, NEW c \in Commands, Named(c) \subseteq exists, c.op \in {"set", "scroll"},
         commands' = Append(commands, c), UNCHANGED <<used, tree, native>>
  PROVE  TreeInv'
  <1>1. PICK n : Leads(native, commands, n) /\ Follows(n, exists, parent, shown, used)
    BY DEF TreeInv
  <1>2. commands \in Seq(Commands) /\ exists \subseteq used /\ Pending(commands, used)
    BY DEF TreeInv, Sent, Pending
  <1>3. n \in Natives(Views) /\ n.table = exists /\ Known(n, c)
    BY <1>1, <1>2, LeadsTyped DEF Follows, Known
  <1>4. Leads(n, <<c>>, Effect(n, c)) /\ Pending(<<c>>, used)
    BY <1>2, <1>3, LeadsOne, PendingOne
  <1>5. commands' = commands \o <<c>>
    BY <1>2
  <1>6. Leads(native, commands', Effect(n, c)) /\ Pending(commands', used)
    BY <1>1, <1>2, <1>4, <1>5, LeadsJoin, PendingJoin DEF Pending
  <1>7. Effect(n, c).table = n.table /\ Effect(n, c).super = n.super
    BY <1>3 DEF Effect, Natives
  <1>8. Follows(Effect(n, c), exists, parent, shown, used)
    BY <1>1, <1>7 DEF Follows
  <1>9. QED
    BY <1>6, <1>8 DEF TreeInv, tree

LEMMA ExecuteKeeps ==
  ASSUME TreeInv, Execute
  PROVE  TreeInv' /\ Known(native, Head(commands))
  <1>1. PICK n : Leads(native, commands, n) /\ Follows(n, exists, parent, shown, used)
    BY DEF TreeInv
  <1>2. /\ commands # <<>> /\ native' = Effect(native, Head(commands))
        /\ commands' = Tail(commands) /\ UNCHANGED <<used, tree>>
    BY DEF Execute
  <1>3. commands \in Seq(Commands) /\ Pending(commands, used)
    BY DEF TreeInv, Sent, Pending
  <1>4. Leads(native', commands', n) /\ Known(native, Head(commands))
    BY <1>1, <1>2, <1>3, LeadsTail
  <1>5. Pending(commands', used)
    <2> DEFINE t == Tail(commands)
    <2>1. /\ t \in Seq(Commands)
          /\ \A i \in DOMAIN t : i + 1 \in DOMAIN commands /\ t[i] = commands[i + 1]
      BY <1>2, <1>3
    <2> HIDE DEF t
    <2>2. Pending(t, used)
      BY <1>3, <2>1 DEF Pending
    <2>3. QED
      BY <1>2, <2>2 DEF t
  <1>6. QED
    BY <1>1, <1>2, <1>4, <1>5 DEF TreeInv, tree

LEMMA EffectAlike ==
  ASSUME NEW a \in Natives(Views), NEW b \in Natives(Views), NEW c \in Commands,
         a.table = b.table, a.super = b.super
  PROVE  Effect(a, c).table = Effect(b, c).table /\ Effect(a, c).super = Effect(b, c).super
  <1>1. CASE c.op # "create" /\ ~ (Named(c) \subseteq a.table)
    BY <1>1 DEF Effect
  <1>2. CASE ~ (c.op # "create" /\ ~ (Named(c) \subseteq a.table))
    <2>1. c.op \in {"create", "delete", "remove", "show", "set", "add", "scroll"}
      BY DEF Commands
    <2>2. CASE c.op \in {"create", "delete"}
      BY <1>2, <2>2 DEF Effect, Natives
    <2>3. CASE c.op \in {"remove", "show", "add"}
      BY <1>2, <2>3 DEF Effect, Natives
    <2>4. CASE c.op \in {"set", "scroll"}
      BY <1>2, <2>4 DEF Effect, Natives
    <2>5. QED
      BY <2>1, <2>2, <2>3, <2>4
  <1>3. QED
    BY <1>1, <1>2

\* Where the user has scrolled to changes nothing else.
LEMMA ScrolledLeads ==
  ASSUME NEW a \in Natives(Views), NEW b, NEW cs \in Seq(Commands), NEW n, Leads(a, cs, n),
         b \in Natives(Views), b.table = a.table, b.super = a.super
  PROVE  \E m : Leads(b, cs, m) /\ m.table = n.table /\ m.super = n.super
  <1> DEFINE N == Len(cs)
  <1>1. PICK st : Trace(a, cs, st) /\ st[Len(cs)] = n
    BY DEF Leads
  <1>2. /\ N \in Nat /\ \A i \in 1 .. N : cs[i] \in Commands
        /\ st \in [0 .. N -> Natives(Views)] /\ st[0] = a
        /\ \A i \in 1 .. N : st[i] = Effect(st[i - 1], cs[i]) /\ Known(st[i - 1], cs[i])
    BY <1>1 DEF Trace
  <1> HIDE DEF N
  <1> DEFINE Like(k, m) == m \in Natives(Views) /\ m.table = st[k].table /\ m.super = st[k].super
             Up(k, f) == /\ f \in [0 .. k -> Natives(Views)] /\ f[0] = b
                         /\ \A i \in 0 .. k : Like(i, f[i])
                         /\ \A i \in 1 .. k : f[i] = Effect(f[i - 1], cs[i])
             Bad == {k \in 0 .. N : ~ \E f : Up(k, f)}
  <1>3. Bad = {}
    <2> SUFFICES ASSUME Bad # {} PROVE FALSE
      OBVIOUS
    <2>1. PICK k \in Bad : \A m \in Bad : k <= m
      <3>1. Bad \in SUBSET Nat
        BY <1>2
      <3> HIDE DEF Bad
      <3>2. QED
        BY <3>1, Least
    <2>2. k \in 0 .. N /\ ~ \E f : Up(k, f)
      OBVIOUS
    <2>3. CASE k = 0
      <3>1. Up(0, [i \in 0 .. 0 |-> b])
        BY <1>2
      <3>2. QED
        BY <2>2, <2>3, <3>1
    <2>4. CASE k # 0
      <3>1. k \in 1 .. N /\ k - 1 \in 0 .. N /\ ~ (k <= k - 1) /\ k \in Nat
        BY <1>2, <2>2, <2>4
      <3>2. PICK f : Up(k - 1, f)
        BY <2>1, <3>1
      <3>3. /\ f \in [0 .. k - 1 -> Natives(Views)] /\ f[0] = b
            /\ \A i \in 0 .. k - 1 : Like(i, f[i])
            /\ \A i \in 1 .. k - 1 : f[i] = Effect(f[i - 1], cs[i])
        BY <3>2
      <3> DEFINE m == Effect(f[k - 1], cs[k])
                 g == [i \in 0 .. k |-> IF i = k THEN m ELSE f[i]]
      <3>4. k - 1 \in 0 .. k - 1 /\ Like(k - 1, f[k - 1]) /\ st[k - 1] \in Natives(Views)
        BY <1>2, <3>1, <3>3
      <3>5. /\ cs[k] \in Commands /\ st[k] = Effect(st[k - 1], cs[k])
        BY <1>2, <3>1
      <3>6. m \in Natives(Views)
        <4>1. Named(cs[k]) \subseteq Views
          BY <3>5 DEF Named, Commands
        <4>2. QED
          BY <3>4, <3>5, <4>1, EffectTyped
      <3>7. Like(k, m)
        <4>1. m.table = st[k].table /\ m.super = st[k].super
          BY <3>4, <3>5, EffectAlike
        <4>2. QED
          BY <3>6, <4>1
      <3>8. \A i \in 0 .. k : i # k => i \in 0 .. k - 1
        BY <3>1
      <3>9. /\ g[k] = m /\ \A i \in 0 .. k - 1 : g[i] = f[i]
        BY <3>1
      <3>10. g \in [0 .. k -> Natives(Views)]
        BY <3>3, <3>6, <3>8
      <3> HIDE DEF g, m, Like
      <3>11. g[0] = b /\ \A i \in 0 .. k : Like(i, g[i])
        BY <3>1, <3>3, <3>7, <3>8, <3>9
      <3>12. ASSUME NEW i \in 1 .. k PROVE g[i] = Effect(g[i - 1], cs[i])
        <4>1. CASE i = k
          BY <3>4, <3>9, <4>1 DEF m
        <4>2. CASE i # k
          <5>1. i \in 1 .. k - 1 /\ i \in 0 .. k - 1 /\ i - 1 \in 0 .. k - 1
            BY <3>1, <4>2
          <5>2. QED
            BY <3>3, <3>9, <5>1
        <4>3. QED
          BY <4>1, <4>2
      <3>13. Up(k, g)
        BY <3>10, <3>11, <3>12
      <3>14. QED
        BY <2>2, <3>13
    <2>5. QED
      BY <2>3, <2>4
  <1>4. N \in 0 .. N
    BY <1>2
  <1>5. PICK f : Up(N, f)
    BY <1>3, <1>4
  <1>6. ASSUME NEW i \in 1 .. N PROVE f[i] = Effect(f[i - 1], cs[i]) /\ Known(f[i - 1], cs[i])
    <2>1. i - 1 \in 0 .. N
      BY <1>2
    <2>2. f[i - 1].table = st[i - 1].table
      BY <1>5, <2>1
    <2>3. QED
      BY <1>2, <1>5, <2>2 DEF Known
  <1>7. Trace(b, cs, f)
    BY <1>5, <1>6 DEF Trace, N
  <1>8. f[N].table = n.table /\ f[N].super = n.super
    BY <1>1, <1>4, <1>5 DEF N
  <1>9. QED
    BY <1>7, <1>8 DEF Leads, N

LEMMA CallKeeps ==
  ASSUME TreeInv, NEW v \in Views, Call(v),
         ~ SetAttribute(v), \A o \in Offsets : ~ SetContentOffset(v, o)
  PROVE  TreeInv' /\ SendsQuietly
  <1>1. Tree(exists, held, parent, subviews, pool, shown) /\ exists \cap Roots \subseteq held
    BY DEF TreeInv
  <1>2. CASE Hold(v)
    BY <1>1, <1>2, QuietKeeps DEF Hold, Tree
  <1>3. CASE Drop(v)
    BY <1>1, <1>3, QuietKeeps DEF Drop, Tree
  <1>4. CASE RecycleView(v)
    <2> DEFINE pools == [pool EXCEPT ![parent[v]] = @ \cup {v}]
    <2>1. /\ held \ {v} \in SUBSET exists /\ exists \cap Roots \subseteq held \ {v}
          /\ pools \in [Views -> SUBSET (exists \ Roots)]
      BY <1>1, <1>4 DEF RecycleView, Tree
    <2>2. Settle(held \ {v}, parent, subviews, pools, shown, <<>>) /\ UNCHANGED <<used, native>>
      BY <1>4 DEF RecycleView
    <2> HIDE DEF pools
    <2>3. QED
      BY <2>1, <2>2, QuietKeeps
  <1>5. CASE \E w \in Views : ObtainView(v, w)
    <2>1. PICK w \in Views : ObtainView(v, w)
      BY <1>5
    <2> DEFINE pools == [pool EXCEPT ![v] = @ \ {w}]
    <2>2. /\ held \cup {w} \in SUBSET exists /\ exists \cap Roots \subseteq held \cup {w}
          /\ pools \in [Views -> SUBSET (exists \ Roots)]
      BY <1>1, <2>1 DEF ObtainView, Tree
    <2>3. Settle(held \cup {w}, parent, subviews, pools, shown, <<>>) /\ UNCHANGED <<used, native>>
      BY <2>1 DEF ObtainView
    <2> HIDE DEF pools
    <2>4. QED
      BY <2>2, <2>3, QuietKeeps
  <1>6. CASE Create(v) \/ RemoveView(v) \/ RemoveAllSubviews(v) \/ RemoveRecycleViews(v)
             \/ ShowToScreen(v) \/ Close(v) \/ \E w \in Views : AddSubview(v, w)
    BY <1>6, CreateKeeps, RemoveViewKeeps, RemoveAllKeeps, RemovePoolKeeps, ShowKeeps,
       CloseKeeps, AddSubviewKeeps
  <1>7. QED
    BY <1>2, <1>3, <1>4, <1>5, <1>6 DEF Call

\* Types: the rest of the variables.
RestTyped ==
  native \in Natives(used) /\ offset \in [Views -> Offsets] /\ reports \in Seq(Views \X Offsets)

LEMMA OffsetCommands ==
  ASSUME TreeInv, NEW v \in held
  PROVE  /\ Command("set", v) \in Commands /\ Named(Command("set", v)) = {v}
         /\ \A o \in Offsets : Scroll(v, o) \in Commands /\ Named(Scroll(v, o)) = {v}
         /\ v \in exists
  BY DEF TreeInv, Tree, Command, Scroll, Commands, Named

LEMMA TreeStep ==
  ASSUME TreeInv, RestTyped, Next
  PROVE  TreeInv'
  <1>1. CASE \E v \in Views : Call(v)
    <2>1. PICK v \in Views : Call(v)
      BY <1>1
    <2>2. CASE SetAttribute(v)
      <3>1. v \in held /\ commands' = Append(commands, Command("set", v))
            /\ UNCHANGED <<used, tree, native>>
        BY <2>2 DEF SetAttribute
      <3>2. Command("set", v).op = "set"
        BY DEF Command
      <3>3. QED
        BY <3>1, <3>2, OffsetCommands, SetKeeps
    <2>3. CASE \E o \in Offsets : SetContentOffset(v, o)
      <3>1. PICK o \in Offsets : SetContentOffset(v, o)
        BY <2>3
      <3>2. v \in held /\ commands' = Append(commands, Scroll(v, o))
            /\ UNCHANGED <<used, tree, native>>
        BY <3>1 DEF SetContentOffset
      <3>3. Scroll(v, o).op = "scroll"
        BY DEF Scroll
      <3>4. QED
        BY <3>2, <3>3, OffsetCommands, SetKeeps
    <2>4. CASE ~ SetAttribute(v) /\ \A o \in Offsets : ~ SetContentOffset(v, o)
      BY <2>1, <2>4, CallKeeps
    <2>5. QED
      BY <2>2, <2>3, <2>4
  <1>2. CASE \E v \in Views, o \in Offsets : UserScrolls(v, o)
    <2>1. PICK v \in Views, o \in Offsets : UserScrolls(v, o)
      BY <1>2
    <2>2. /\ native' = [native EXCEPT !.offset[v] = o] /\ UNCHANGED <<used, tree, commands>>
      BY <2>1 DEF UserScrolls
    <2>3. PICK n : Leads(native, commands, n) /\ Follows(n, exists, parent, shown, used)
      BY DEF TreeInv
    <2>4. commands \in Seq(Commands) /\ native \in Natives(Views)
      BY <2>3, LeadsTyped DEF TreeInv, Pending
    <2>5. native' \in Natives(Views) /\ native'.table = native.table /\ native'.super = native.super
      BY <2>2, <2>4 DEF Natives
    <2> DEFINE b == native'
    <2> HIDE DEF b
    <2>6. PICK m : Leads(b, commands, m) /\ m.table = n.table /\ m.super = n.super
      BY <2>3, <2>4, <2>5, ScrolledLeads DEF b
    <2>7. Follows(m, exists, parent, shown, used)
      BY <2>3, <2>6 DEF Follows
    <2>8. QED
      BY <2>2, <2>6, <2>7 DEF TreeInv, tree, b
  <1>3. CASE Deliver
    BY <1>3 DEF Deliver, TreeInv, tree
  <1>4. CASE Execute
    BY <1>4, ExecuteKeeps
  <1>5. QED
    BY <1>1, <1>2, <1>3, <1>4 DEF Next

-----------------------------------------------------------------------------
(***************************************************************************)
(* The offsets.                                                            *)
(***************************************************************************)

Reports == Seq(Views \X Offsets)

LEMMA ReportAdded ==
  ASSUME NEW rs \in Reports, NEW w \in Views, NEW x \in Offsets, NEW v \in Views
  PROVE  /\ Append(rs, <<w, x>>) \in Reports
         /\ NoneOf(Append(rs, <<w, x>>), v) <=> v # w /\ NoneOf(rs, v)
         /\ v = w => LastSays(Append(rs, <<w, x>>), v, x)
         /\ \A o : v # w /\ LastSays(rs, v, o) => LastSays(Append(rs, <<w, x>>), v, o)
  <1> DEFINE r == Append(rs, <<w, x>>)
             N == Len(rs)
  <1>1. /\ r \in Reports /\ N \in Nat /\ DOMAIN rs = 1 .. N /\ DOMAIN r = 1 .. N + 1
        /\ r[N + 1] = <<w, x>> /\ \A i \in 1 .. N : r[i] = rs[i]
    BY DEF Reports
  <1> HIDE DEF r, N
  <1>2. \A i \in 1 .. N + 1 : i \in 1 .. N \/ i = N + 1
    BY <1>1
  <1>3. N + 1 \in 1 .. N + 1 /\ \A i \in 1 .. N : i \in 1 .. N + 1 /\ N + 1 > i
    BY <1>1
  <1>4. NoneOf(r, v) <=> v # w /\ NoneOf(rs, v)
    BY <1>1, <1>2, <1>3 DEF NoneOf
  <1>5. v = w => LastSays(r, v, x)
    BY <1>1, <1>2, <1>3 DEF LastSays
  <1>6. ASSUME NEW o, v # w, LastSays(rs, v, o) PROVE LastSays(r, v, o)
    <2>1. ASSUME NEW i \in 1 .. N + 1, r[i][1] = v, \A j \in 1 .. N + 1 : j > i => r[j][1] # v
          PROVE  r[i][2] = o
      <3>1. i \in 1 .. N
        BY <1>1, <1>2, <1>6, <2>1
      <3>2. rs[i][1] = v /\ \A j \in 1 .. N : j > i => rs[j][1] # v
        BY <1>1, <1>3, <2>1, <3>1
      <3>3. rs[i][2] = o
        BY <1>1, <1>6, <3>1, <3>2 DEF LastSays
      <3>4. QED
        BY <1>1, <3>1, <3>3
    <2>2. QED
      BY <1>1, <2>1 DEF LastSays
  <1>7. QED
    BY <1>1, <1>4, <1>5, <1>6 DEF r

LEMMA ReportTaken ==
  ASSUME NEW rs \in Reports, rs # <<>>, NEW v
  PROVE  /\ Tail(rs) \in Reports /\ Head(rs) \in Views \X Offsets
         /\ \A o : LastSays(rs, v, o) => LastSays(Tail(rs), v, o)
         /\ NoneOf(rs, v) => NoneOf(Tail(rs), v)
         /\ NoneOf(Tail(rs), v) /\ Head(rs)[1] # v => NoneOf(rs, v)
         /\ \A o : NoneOf(Tail(rs), v) /\ Head(rs)[1] = v /\ LastSays(rs, v, o)
              => Head(rs)[2] = o
  <1> DEFINE t == Tail(rs)
             N == Len(rs)
  <1>1. /\ t \in Reports /\ N \in Nat /\ N > 0 /\ DOMAIN rs = 1 .. N /\ DOMAIN t = 1 .. N - 1
        /\ Head(rs) = rs[1] /\ Head(rs) \in Views \X Offsets
        /\ \A i \in 1 .. N - 1 : t[i] = rs[i + 1]
    BY DEF Reports
  <1> HIDE DEF t, N
  <1>2. \A i \in 1 .. N - 1 : i + 1 \in 1 .. N
    BY <1>1
  <1>3. \A i \in 1 .. N : i # 1 => i - 1 \in 1 .. N - 1 /\ rs[i] = t[i - 1]
    <2>1. \A i \in 1 .. N : i # 1 => i - 1 \in 1 .. N - 1 /\ (i - 1) + 1 = i
      BY <1>1
    <2>2. QED
      BY <1>1, <2>1
  <1>4. 1 \in 1 .. N
    BY <1>1
  <1>5. ASSUME NEW o, LastSays(rs, v, o) PROVE LastSays(t, v, o)
    <2>1. ASSUME NEW i \in 1 .. N - 1, t[i][1] = v,
                 \A j \in 1 .. N - 1 : j > i => t[j][1] # v
          PROVE  t[i][2] = o
      <3>1. i + 1 \in 1 .. N /\ rs[i + 1] = t[i]
        BY <1>1, <1>2
      <3>2. ASSUME NEW j \in 1 .. N, j > i + 1 PROVE rs[j][1] # v
        <4>1. j # 1 /\ j - 1 > i
          BY <1>1, <3>1, <3>2
        <4>2. QED
          BY <1>3, <2>1, <4>1
      <3>3. QED
        BY <1>1, <1>5, <2>1, <3>1, <3>2 DEF LastSays
    <2>2. QED
      BY <1>1, <2>1 DEF LastSays
  <1>6. NoneOf(rs, v) => NoneOf(t, v)
    BY <1>1, <1>2 DEF NoneOf
  <1>7. ASSUME NoneOf(t, v) PROVE \A i \in 1 .. N : i # 1 => rs[i][1] # v
    BY <1>1, <1>3, <1>7 DEF NoneOf
  <1>8. NoneOf(t, v) /\ rs[1][1] # v => NoneOf(rs, v)
    BY <1>1, <1>7 DEF NoneOf
  <1>9. ASSUME NEW o, NoneOf(t, v), rs[1][1] = v, LastSays(rs, v, o) PROVE rs[1][2] = o
    <2>1. \A j \in 1 .. N : j > 1 => rs[j][1] # v
      BY <1>7, <1>9
    <2>2. QED
      BY <1>1, <1>4, <1>9, <2>1 DEF LastSays
  <1>10. QED
    BY <1>1, <1>5, <1>6, <1>8, <1>9 DEF t

LEMMA StillUnderway ==
  ASSUME NEW cs \in Seq(Commands), NEW t \in Seq(Commands), NEW v, NEW o,
         Underway(cs, v, o), \A i \in DOMAIN t : ~ Scrolls(t[i], v)
  PROVE  Underway(cs \o t, v, o)
  <1> DEFINE M == Len(cs)
             N == Len(t)
             u == cs \o t
  <1>1. /\ M \in Nat /\ N \in Nat /\ DOMAIN cs = 1 .. M /\ DOMAIN t = 1 .. N
        /\ DOMAIN u = 1 .. M + N
        /\ \A i \in 1 .. M : u[i] = cs[i]
        /\ \A i \in 1 .. M + N : i > M => u[i] = t[i - M]
    OBVIOUS
  <1> HIDE DEF M, N, u
  <1>2. PICK i \in 1 .. M :
          /\ Scrolls(cs[i], v) /\ cs[i].to = o
          /\ \A j \in 1 .. M : j > i => ~ Scrolls(cs[j], v)
    BY <1>1 DEF Underway
  <1>3. i \in 1 .. M + N /\ u[i] = cs[i]
    BY <1>1
  <1>4. ASSUME NEW j \in 1 .. M + N, j > i PROVE ~ Scrolls(u[j], v)
    <2>1. CASE j <= M
      <3>1. j \in 1 .. M
        BY <1>1, <2>1
      <3>2. QED
        BY <1>1, <1>2, <1>4, <3>1
    <2>2. CASE j > M
      <3>1. j - M \in 1 .. N /\ u[j] = t[j - M]
        BY <1>1, <2>2
      <3>2. QED
        BY <1>1, <3>1
    <2>3. QED
      BY <1>1, <2>1, <2>2
  <1>5. Underway(u, v, o)
    BY <1>1, <1>2, <1>3, <1>4 DEF Underway
  <1>6. QED
    BY <1>5 DEF u

LEMMA NowUnderway ==
  ASSUME NEW cs \in Seq(Commands), NEW v, NEW o
  PROVE  Underway(Append(cs, Scroll(v, o)), v, o)
  <1> DEFINE N == Len(cs)
             u == Append(cs, Scroll(v, o))
  <1>1. N \in Nat /\ DOMAIN u = 1 .. N + 1 /\ u[N + 1] = Scroll(v, o)
    OBVIOUS
  <1>2. Scrolls(Scroll(v, o), v) /\ Scroll(v, o).to = o
    BY DEF Scrolls, Scroll
  <1> HIDE DEF N, u
  <1>3. N + 1 \in 1 .. N + 1 /\ \A j \in 1 .. N + 1 : ~ (j > N + 1)
    BY <1>1
  <1>4. Underway(u, v, o)
    BY <1>1, <1>2, <1>3 DEF Underway
  <1>5. QED
    BY <1>4 DEF u

LEMMA UnderwayNext ==
  ASSUME NEW cs \in Seq(Commands), cs # <<>>, NEW v, NEW o, Underway(cs, v, o)
  PROVE  \/ Underway(Tail(cs), v, o)
         \/ Scrolls(Head(cs), v) /\ Head(cs).to = o
  <1> DEFINE N == Len(cs)
             t == Tail(cs)
  <1>1. /\ N \in Nat /\ N > 0 /\ DOMAIN cs = 1 .. N /\ DOMAIN t = 1 .. N - 1
        /\ Head(cs) = cs[1]
        /\ \A i \in 1 .. N - 1 : t[i] = cs[i + 1]
    OBVIOUS
  <1> HIDE DEF N, t
  <1>2. PICK i \in 1 .. N :
          /\ Scrolls(cs[i], v) /\ cs[i].to = o
          /\ \A j \in 1 .. N : j > i => ~ Scrolls(cs[j], v)
    BY <1>1 DEF Underway
  <1>3. CASE i = 1
    BY <1>1, <1>2, <1>3
  <1>4. CASE i # 1
    <2>1. i - 1 \in 1 .. N - 1 /\ (i - 1) + 1 = i
      BY <1>1, <1>4
    <2>2. t[i - 1] = cs[i]
      BY <1>1, <2>1
    <2>3. ASSUME NEW j \in 1 .. N - 1, j > i - 1 PROVE ~ Scrolls(t[j], v)
      <3>1. j + 1 \in 1 .. N /\ j + 1 > i /\ t[j] = cs[j + 1]
        BY <1>1, <2>1, <2>3
      <3>2. QED
        BY <1>2, <3>1
    <2>4. Underway(t, v, o)
      BY <1>1, <1>2, <2>1, <2>2, <2>3 DEF Underway
    <2>5. QED
      BY <2>4 DEF t
  <1>5. QED
    BY <1>3, <1>4

LEMMA QuietOffsets ==
  ASSUME TreeInv, RestTyped, OffsetsKnown, SendsQuietly, TreeInv',
         used \subseteq used', UNCHANGED <<offset, native, reports>>
  PROVE  RestTyped' /\ OffsetsKnown'
  <1>1. commands \in Seq(Commands) /\ used' \subseteq Views /\ exists \subseteq used
    BY DEF TreeInv, Pending
  <1>2. PICK t : Sent(t, used') /\ commands' = commands \o t
    BY DEF SendsQuietly
  <1>3. t \in Seq(Commands) /\ \A i \in DOMAIN t, v \in Views : ~ Scrolls(t[i], v)
    BY <1>2 DEF Sent, Pending, Scrolls
  <1>4. RestTyped'
    BY <1>1 DEF RestTyped, Natives
  <1>5. ASSUME NEW v \in exists, Knows(v) PROVE Knows(v)'
    <2>1. Underway(commands, v, offset[v]) => Underway(commands', v, offset[v])
      BY <1>1, <1>2, <1>3, StillUnderway
    <2>2. QED
      BY <1>5, <2>1 DEF Knows
  <1>6. ASSUME NEW v \in used' \ used PROVE Knows(v)'
    BY <1>1, <1>6 DEF OffsetsKnown, Unused, Knows, NoneOf, LastSays
  <1>7. \A v \in exists' : Knows(v)'
    BY <1>5, <1>6 DEF OffsetsKnown, SendsQuietly
  <1>8. ASSUME NEW v \in Views \ used' PROVE Unused(v)'
    BY <1>8 DEF OffsetsKnown, Unused
  <1>9. QED
    BY <1>4, <1>7, <1>8 DEF OffsetsKnown

LEMMA SetOffsets ==
  ASSUME TreeInv, RestTyped, OffsetsKnown, NEW v \in Views, NEW o \in Offsets,
         SetAttribute(v) \/ SetContentOffset(v, o)
  PROVE  RestTyped' /\ OffsetsKnown'
  <1>1. /\ commands \in Seq(Commands) /\ held \subseteq exists /\ exists \subseteq used
        /\ used \subseteq Views
    BY DEF TreeInv, Pending, Tree
  <1>2. CASE SetAttribute(v)
    <2> DEFINE c == Command("set", v)
    <2>1. /\ v \in held /\ commands' = Append(commands, c)
          /\ UNCHANGED <<used, exists, offset, native, reports>>
      BY <1>2 DEF SetAttribute, tree
    <2>2. c \in Commands /\ c.op = "set"
      BY <2>1, OffsetCommands DEF Command
    <2> HIDE DEF c
    <2>3. commands' = commands \o <<c>>
      BY <1>1, <2>1, <2>2
    <2>4. ASSUME NEW w \in exists, Knows(w) PROVE Knows(w)'
      <3>1. <<c>> \in Seq(Commands) /\ \A i \in DOMAIN <<c>> : ~ Scrolls(<<c>>[i], w)
        BY <2>2 DEF Scrolls
      <3>2. Underway(commands, w, offset[w]) => Underway(commands', w, offset[w])
        BY <1>1, <2>3, <3>1, StillUnderway
      <3>3. QED
        BY <2>1, <2>4, <3>2 DEF Knows
    <2>5. QED
      BY <2>1, <2>4 DEF OffsetsKnown, RestTyped, Unused
  <1>3. CASE SetContentOffset(v, o)
    <2> DEFINE c == Scroll(v, o)
    <2>1. /\ v \in held /\ commands' = Append(commands, c) /\ offset' = [offset EXCEPT ![v] = o]
          /\ UNCHANGED <<used, exists, native, reports>>
      BY <1>3 DEF SetContentOffset, tree
    <2>2. c \in Commands /\ c.view = v
      BY <2>1, OffsetCommands DEF Scroll
    <2>3. offset \in [Views -> Offsets]
      BY DEF RestTyped
    <2>4. offset'[v] = o /\ \A w \in Views : w # v => offset'[w] = offset[w]
      BY <2>1, <2>3
    <2>5. Underway(commands', v, o)
      BY <1>1, <2>1, NowUnderway
    <2> HIDE DEF c
    <2>6. commands' = commands \o <<c>>
      BY <1>1, <2>1, <2>2
    <2>7. ASSUME NEW w \in exists, Knows(w) PROVE Knows(w)'
      <3>1. CASE w = v
        BY <2>1, <2>4, <2>5, <2>7, <3>1 DEF Knows
      <3>2. CASE w # v
        <4>1. <<c>> \in Seq(Commands) /\ \A i \in DOMAIN <<c>> : ~ Scrolls(<<c>>[i], w)
          BY <2>2, <3>2 DEF Scrolls
        <4>2. Underway(commands, w, offset[w]) => Underway(commands', w, offset[w])
          BY <1>1, <2>6, <4>1, StillUnderway
        <4>3. offset'[w] = offset[w]
          BY <1>1, <2>4, <3>2
        <4>4. QED
          BY <2>1, <2>7, <4>2, <4>3 DEF Knows
      <3>3. QED
        BY <3>1, <3>2
    <2>8. ASSUME NEW w \in Views \ used PROVE Unused(w)'
      <3>1. w # v
        BY <1>1, <2>1
      <3>2. QED
        BY <2>1, <2>4, <3>1 DEF OffsetsKnown, Unused
    <2>9. RestTyped'
      BY <2>1, <2>3 DEF RestTyped
    <2>10. QED
      BY <2>1, <2>7, <2>8, <2>9 DEF OffsetsKnown
  <1>4. QED
    BY <1>2, <1>3

LEMMA DeliverOffsets ==
  ASSUME TreeInv, RestTyped, OffsetsKnown, Deliver
  PROVE  RestTyped' /\ OffsetsKnown'
  <1> DEFINE w == Head(reports)[1]
             x == Head(reports)[2]
  <1>1. /\ exists \subseteq used /\ used \subseteq Views
    BY DEF TreeInv
  <1>2. /\ reports # <<>> /\ reports' = Tail(reports)
        /\ offset' = IF w \in exists THEN [offset EXCEPT ![w] = x] ELSE offset
        /\ UNCHANGED <<used, exists, commands, native>>
    BY DEF Deliver, tree
  <1>3. reports \in Reports /\ offset \in [Views -> Offsets]
    BY DEF RestTyped, Reports
  <1>4. reports' \in Reports /\ w \in Views /\ x \in Offsets
    BY <1>2, <1>3, ReportTaken
  <1> HIDE DEF w, x
  <1>5. RestTyped'
    BY <1>2, <1>3, <1>4 DEF RestTyped, Reports
  <1>6. ASSUME NEW v \in exists, Knows(v) PROVE Knows(v)'
    <2>1. LastSays(reports, v, native.offset[v])
      BY <1>6 DEF Knows
    <2>2. LastSays(reports', v, native.offset[v])
      BY <1>2, <1>3, <2>1, ReportTaken
    <2>3. CASE v = w
      <3>1. offset'[v] = x
        BY <1>1, <1>2, <1>3, <2>3
      <3>2. NoneOf(reports', v) => x = native.offset[v]
        BY <1>2, <1>3, <2>1, <2>3, ReportTaken DEF w, x
      <3>3. QED
        BY <1>2, <2>2, <3>1, <3>2 DEF Knows
    <2>4. CASE v # w
      <3>1. offset'[v] = offset[v]
        BY <1>1, <1>2, <1>3, <2>4
      <3>2. NoneOf(reports', v) => NoneOf(reports, v)
        BY <1>2, <1>3, <2>4, ReportTaken DEF w
      <3>3. QED
        BY <1>2, <1>6, <2>2, <3>1, <3>2 DEF Knows
    <2>5. QED
      BY <2>3, <2>4
  <1>7. ASSUME NEW v \in Views \ used, Unused(v) PROVE Unused(v)'
    <2>1. offset'[v] = offset[v]
      BY <1>1, <1>2, <1>3
    <2>2. NoneOf(reports', v)
      BY <1>2, <1>3, <1>7, ReportTaken DEF Unused
    <2>3. QED
      BY <1>2, <1>7, <2>1, <2>2 DEF Unused
  <1>8. QED
    BY <1>2, <1>5, <1>6, <1>7 DEF OffsetsKnown

\* The native view of w is scrolled to x, which is reported when it is a change.
LEMMA ScrolledOffsets ==
  ASSUME TreeInv, RestTyped, OffsetsKnown, NEW w \in used, NEW x \in Offsets,
         native' = [native EXCEPT !.offset[w] = x], reports' = reports \o Told(w, x),
         UNCHANGED <<used, exists, offset>>,
         \A v \in exists : Underway(commands, v, offset[v]) =>
           \/ Underway(commands', v, offset[v])
           \/ v = w /\ offset[v] = x
  PROVE  RestTyped' /\ OffsetsKnown'
  <1>1. /\ exists \subseteq used /\ used \subseteq Views
    BY DEF TreeInv
  <1>2. reports \in Reports /\ native \in Natives(used)
    BY DEF RestTyped, Reports
  <1>3. /\ native' \in Natives(used) /\ native'.offset[w] = x
        /\ \A v \in Views : v # w => native'.offset[v] = native.offset[v]
    BY <1>1, <1>2 DEF Natives
  <1>4. \/ native.offset[w] = x /\ reports' = reports
        \/ native.offset[w] # x /\ reports' = Append(reports, <<w, x>>)
    BY <1>2 DEF Told, Reports
  <1>5. reports' \in Reports
    BY <1>1, <1>2, <1>4, ReportAdded
  <1>6. RestTyped'
    BY <1>3, <1>5 DEF RestTyped, Reports
  <1>7. ASSUME NEW v \in exists, Knows(v) PROVE Knows(v)'
    <2>1. v \in Views
      BY <1>1
    <2>2. CASE reports' = reports /\ native.offset[w] = x
      <3>1. native'.offset[v] = native.offset[v]
        BY <1>3, <2>1, <2>2
      <3>2. Underway(commands, v, offset[v]) =>
              Underway(commands', v, offset[v]) \/ offset[v] = native.offset[v]
        BY <2>2
      <3>3. QED
        BY <1>7, <2>2, <3>1, <3>2 DEF Knows
    <2>3. CASE reports' = Append(reports, <<w, x>>) /\ v = w
      <3>1. LastSays(reports', v, x) /\ ~ NoneOf(reports', v)
        BY <1>1, <1>2, <2>1, <2>3, ReportAdded
      <3>2. QED
        BY <1>3, <2>3, <3>1 DEF Knows
    <2>4. CASE reports' = Append(reports, <<w, x>>) /\ v # w
      <3>1. /\ LastSays(reports', v, native.offset[v])
            /\ NoneOf(reports', v) => NoneOf(reports, v)
        BY <1>1, <1>2, <1>7, <2>1, <2>4, ReportAdded DEF Knows
      <3>2. Underway(commands, v, offset[v]) => Underway(commands', v, offset[v])
        BY <2>4
      <3>3. native'.offset[v] = native.offset[v]
        BY <1>3, <2>1, <2>4
      <3>4. QED
        BY <1>7, <3>1, <3>2, <3>3 DEF Knows
    <2>5. QED
      BY <1>4, <2>2, <2>3, <2>4
  <1>8. ASSUME NEW v \in Views \ used, Unused(v) PROVE Unused(v)'
    <2>1. v # w /\ native'.offset[v] = native.offset[v]
      BY <1>3
    <2>2. NoneOf(reports', v)
      BY <1>1, <1>2, <1>4, <1>8, <2>1, ReportAdded DEF Unused
    <2>3. QED
      BY <1>8, <2>1, <2>2 DEF Unused
  <1>9. QED
    BY <1>6, <1>7, <1>8 DEF OffsetsKnown

LEMMA ExecuteOffsets ==
  ASSUME TreeInv, RestTyped, OffsetsKnown, Execute
  PROVE  RestTyped' /\ OffsetsKnown'
  <1> DEFINE c == Head(commands)
  <1>1. /\ commands \in Seq(Commands) /\ exists \subseteq used /\ used \subseteq Views
        /\ Pending(commands, used)
    BY DEF TreeInv, Pending
  <1>2. /\ commands # <<>> /\ native' = Effect(native, c) /\ commands' = Tail(commands)
        /\ reports' = IF c.op = "scroll" /\ c.view \in native.table
                      THEN reports \o Told(c.view, c.to) ELSE reports
        /\ UNCHANGED <<used, exists, offset>>
    BY DEF Execute, tree
  <1>3. c \in Commands /\ Named(c) \subseteq used
    <2>1. 1 \in DOMAIN commands /\ c = commands[1]
      BY <1>1, <1>2
    <2>2. QED
      BY <1>1, <2>1 DEF Pending
  <1>4. Known(native, c)
    BY ExecuteKeeps
  <1> HIDE DEF c
  <1>5. native \in Natives(used) /\ reports \in Reports
    BY DEF RestTyped, Reports
  <1>6. native' \in Natives(used)
    BY <1>1, <1>2, <1>3, <1>5, EffectTyped
  <1>7. CASE c.op = "scroll"
    <2>1. c.to \in Offsets /\ c.view \in used /\ c.view \in native.table
      BY <1>3, <1>4, <1>7 DEF Commands, Named, Known
    <2>2. native' = [native EXCEPT !.offset[c.view] = c.to]
      BY <1>2, <1>4, <1>7 DEF Effect, Known
    <2>3. ASSUME NEW v \in exists, Underway(commands, v, offset[v])
          PROVE  Underway(commands', v, offset[v]) \/ (v = c.view /\ offset[v] = c.to)
      <3>1. \/ Underway(Tail(commands), v, offset[v])
            \/ Scrolls(Head(commands), v) /\ Head(commands).to = offset[v]
        BY <1>1, <1>2, <2>3, UnderwayNext
      <3>2. CASE Scrolls(Head(commands), v) /\ Head(commands).to = offset[v]
        BY <3>2 DEF c, Scrolls
      <3>3. QED
        BY <1>2, <3>1, <3>2
    <2>4. reports' = reports \o Told(c.view, c.to)
      BY <1>2, <1>7, <2>1
    <2>5. QED
      BY <1>2, <2>1, <2>2, <2>3, <2>4, ScrolledOffsets
  <1>8. CASE c.op # "scroll"
    <2>1. native'.offset = native.offset
      BY <1>2, <1>3, <1>5, <1>8 DEF Effect, Commands, Natives
    <2>2. ASSUME NEW v \in exists, Underway(commands, v, offset[v])
          PROVE  Underway(commands', v, offset[v])
      <3>1. ~ Scrolls(Head(commands), v)
        BY <1>8 DEF c, Scrolls
      <3>2. v \in Views
        BY <1>1
      <3>3. \/ Underway(Tail(commands), v, offset[v])
            \/ Scrolls(Head(commands), v)
        BY <1>1, <1>2, <2>2, <3>2, UnderwayNext
      <3>4. QED
        BY <1>2, <3>1, <3>3
    <2>3. ASSUME NEW v \in exists, Knows(v) PROVE Knows(v)'
      BY <1>2, <1>8, <2>1, <2>2, <2>3 DEF Knows
    <2>4. ASSUME NEW v \in Views \ used, Unused(v) PROVE Unused(v)'
      BY <1>2, <1>8, <2>1, <2>4 DEF Unused
    <2>5. RestTyped'
      BY <1>2, <1>5, <1>6, <1>8 DEF RestTyped, Reports
    <2>6. QED
      BY <1>2, <2>3, <2>4, <2>5 DEF OffsetsKnown
  <1>9. QED
    BY <1>7, <1>8

Inv == TreeInv /\ RestTyped /\ OffsetsKnown

LEMMA InvStart == Init => Inv
  <1> SUFFICES ASSUME Init PROVE Inv
    OBVIOUS
  <1>1. native \in Natives(used) /\ native \in Natives(Views) /\ native.table = {}
        /\ \A v \in Views : native.super[v] = NoView
    BY ViewAssumption DEF Init, Natives
  <1>2. Leads(native, commands, native)
    BY <1>1, LeadsNone DEF Init
  <1>3. Follows(native, exists, parent, shown, used)
    BY <1>1 DEF Init, Follows
  <1>4. Tree(exists, held, parent, subviews, pool, shown)
    BY ViewAssumption DEF Init, Tree
  <1>5. TreeInv
    BY <1>2, <1>3, <1>4 DEF Init, TreeInv, Pending
  <1>6. RestTyped
    BY <1>1, ViewAssumption DEF Init, RestTyped
  <1>7. OffsetsKnown
    BY DEF Init, OffsetsKnown, Unused, NoneOf
  <1>8. QED
    BY <1>5, <1>6, <1>7 DEF Inv

LEMMA InvStep == Inv /\ [Next]_vars => Inv'
  <1> SUFFICES ASSUME Inv, [Next]_vars PROVE Inv'
    OBVIOUS
  <1>0. TreeInv /\ RestTyped /\ OffsetsKnown
    BY DEF Inv
  <1>1. CASE UNCHANGED vars
    BY <1>0, <1>1 DEF Inv, TreeInv, RestTyped, OffsetsKnown, Knows, Unused, vars, tree
  <1>2. CASE Next
    <2>1. TreeInv'
      BY <1>0, <1>2, TreeStep
    <2>2. RestTyped' /\ OffsetsKnown'
      <3>1. CASE \E v \in Views : Call(v)
        <4>1. PICK v \in Views : Call(v)
          BY <3>1
        <4>2. CASE SetAttribute(v) \/ \E o \in Offsets : SetContentOffset(v, o)
          BY <1>0, <4>2, ViewAssumption, SetOffsets
        <4>3. CASE ~ (SetAttribute(v) \/ \E o \in Offsets : SetContentOffset(v, o))
          <5>1. SendsQuietly
            BY <1>0, <4>1, <4>3, CallKeeps
          <5>2. used \subseteq used' /\ UNCHANGED <<offset, native, reports>>
            BY <4>1, <4>3 DEF Call, Create, Hold, Drop, RemoveView, RemoveAllSubviews,
               RecycleView, RemoveRecycleViews, ShowToScreen, Close, AddSubview, ObtainView
          <5>3. QED
            BY <1>0, <2>1, <5>1, <5>2, QuietOffsets
        <4>4. QED
          BY <4>2, <4>3
      <3>2. CASE \E v \in Views, o \in Offsets : UserScrolls(v, o)
        <4>1. PICK v \in Views, o \in Offsets : UserScrolls(v, o)
          BY <3>2
        <4>2. v \in used
          BY <1>0, <4>1 DEF UserScrolls, RestTyped, Natives
        <4>3. /\ native' = [native EXCEPT !.offset[v] = o] /\ reports' = reports \o Told(v, o)
              /\ UNCHANGED <<used, exists, offset, commands>>
          BY <4>1 DEF UserScrolls, tree
        <4>4. QED
          BY <1>0, <4>2, <4>3, ScrolledOffsets
      <3>3. CASE Deliver
        BY <1>0, <3>3, DeliverOffsets
      <3>4. CASE Execute
        BY <1>0, <3>4, ExecuteOffsets
      <3>5. QED
        BY <1>2, <3>1, <3>2, <3>3, <3>4 DEF Next
    <2>3. QED
      BY <2>1, <2>2 DEF Inv
  <1>3. QED
    BY <1>1, <1>2

LEMMA InvAlways == Spec => []Inv
  BY InvStart, InvStep, PTL DEF Spec

-----------------------------------------------------------------------------
(***************************************************************************)
(* What the runs check.                                                    *)
(***************************************************************************)

\* What the commands in flight lead to is what States() computes.
LEMMA CaughtIs ==
  ASSUME Inv
  PROVE  /\ Follows(Caught, exists, parent, shown, used)
         /\ NothingIgnored
  <1>1. PICK n : Leads(native, commands, n) /\ Follows(n, exists, parent, shown, used)
    BY DEF Inv, TreeInv
  <1>2. PICK st : Trace(native, commands, st) /\ st[Len(commands)] = n
    BY <1>1 DEF Leads
  <1>3. commands \in Seq(Commands)
    BY DEF Inv, TreeInv, Pending
  <1>4. States(native, commands) = st
    BY <1>2, <1>3, TraceIs
  <1>5. Caught = n
    BY <1>2, <1>4 DEF Caught
  <1>6. DOMAIN commands = 1 .. Len(commands)
    BY <1>3
  <1>7. NothingIgnored
    BY <1>2, <1>4, <1>6 DEF NothingIgnored, Trace, Known
  <1>8. QED
    BY <1>1, <1>5, <1>7

\* Every state is well typed; the tree and the pools keep what they point to.
THEOREM TypeCorrect == Spec => []TypeOK
  <1>1. ASSUME Inv PROVE TypeOK
    <2>1. Tree(exists, held, parent, subviews, pool, shown)
      BY <1>1 DEF Inv, TreeInv
    <2>2. /\ parent \in [Views -> exists \cup {NoView}] /\ subviews \in [Views -> SUBSET exists]
          /\ pool \in [Views -> SUBSET exists] /\ shown \subseteq exists /\ held \subseteq exists
      BY <2>1 DEF Tree
    <2>3. /\ used \subseteq Views /\ exists \subseteq used
          /\ \A i \in DOMAIN commands : Named(commands[i]) \subseteq used
      BY <1>1 DEF Inv, TreeInv, Pending
    <2>4. /\ offset \in [Views -> Offsets] /\ reports \in Seq(Views \X Offsets)
          /\ native.table \subseteq used /\ native.super \in [Views -> used \cup {NoView, Screen}]
          /\ native.offset \in [Views -> Offsets]
      BY <1>1 DEF Inv, RestTyped, Natives
    <2>5. QED
      BY <2>2, <2>3, <2>4 DEF TypeOK
  <1>2. QED
    BY <1>1, InvAlways, PTL

\* A view is in the subviews of its parent and of no other, whatever becomes of the
\* parent (ui/view.cc: addSubview, removeView, removeAllSubviews, removeRecycleViews).
THEOREM ParentsKnown == Spec => []ParentsAgree
  <1>1. ASSUME Inv PROVE ParentsAgree
    <2>1. Tree(exists, held, parent, subviews, pool, shown)
      BY <1>1 DEF Inv, TreeInv
    <2>2. QED
      BY <2>1, ViewAssumption DEF Tree, ParentsAgree
  <1>2. QED
    BY <1>1, InvAlways, PTL

\* When the main thread has caught up it has the views of the UI queue, each under
\* the native view of its parent.
THEOREM NativesFollow == Spec => []Mirrored
  <1>1. ASSUME Inv PROVE Mirrored
    <2>1. Follows(Caught, exists, parent, shown, used)
      BY <1>1, CaughtIs
    <2>2. QED
      BY <2>1 DEF Follows, Mirrored, Ghosts
  <1>2. QED
    BY <1>1, InvAlways, PTL

\* No command finds that the native view it names is gone or not yet there
\* (native/Ker/Ker/KerUI.mm looks it up by its id and would do nothing).
THEOREM AllExecuted == Spec => []NothingIgnored
  BY CaughtIs, InvAlways, PTL

\* What is gone leaves the window when the main thread has caught up.
THEOREM GhostsLeave == Spec => []NoGhosts
  <1>1. ASSUME Inv, NEW v \in used \ (exists \cup Roots) PROVE ~ InWindow(Caught, v)
    <2> DEFINE T == Ghosts(exists, used) \cup {NoView}
    <2>1. Follows(Caught, exists, parent, shown, used) /\ used \subseteq Views
      BY <1>1, CaughtIs DEF Inv, TreeInv
    <2>2. T \in SUBSET (Views \cup {NoView, Screen}) /\ v \in T
      BY <1>1, <2>1 DEF Ghosts
    <2>3. \A w \in T \cap Views : Caught.super[w] \in T
      BY <2>1, ViewAssumption DEF Follows, Ghosts
    <2>4. T \cap (Roots \cup {Screen}) = {}
      BY <2>1, ViewAssumption DEF Ghosts
    <2> HIDE DEF T
    <2>5. QED
      BY <2>2, <2>3, <2>4 DEF InWindow
  <1>2. Inv => NoGhosts
    BY <1>1 DEF NoGhosts
  <1>3. QED
    BY <1>2, InvAlways, PTL

\* The script and the user scroll at the same time: when nothing is in flight the
\* view and its native view agree on where it is.
THEOREM OffsetsMeet == Spec => []OffsetsAgree
  <1>1. ASSUME Inv, commands = <<>>, reports = <<>>, NEW v \in exists
        PROVE  offset[v] = native.offset[v]
    <2>1. NoneOf(reports, v) /\ ~ Underway(commands, v, offset[v])
      BY <1>1 DEF NoneOf, Underway
    <2>2. QED
      BY <1>1, <2>1 DEF Inv, OffsetsKnown, Knows
  <1>2. Inv => OffsetsAgree
    BY <1>1 DEF OffsetsAgree
  <1>3. QED
    BY <1>2, InvAlways, PTL

=============================================================================
