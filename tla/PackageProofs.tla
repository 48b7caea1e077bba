---------------------------- MODULE PackageProofs ----------------------------
(***************************************************************************)
(* Proofs about PackageLoad: the request of a package lives as long as its  *)
(* task, what runs was unzipped whole, and what is installed stays.         *)
(*                                                                         *)
(* A package that is loading is in one place: one function of one queue, or *)
(* one task of the platform, has its next step.  All of these are its       *)
(* tokens, and it has one of them at most.                                 *)
(***************************************************************************)
EXTENDS PackageLoad, TLAPS

Parts == {"meta", "ker"}

Tokens(p) ==
  {Fn(op, p) : op \in {"open", "load", "error", "moved"}}
    \cup {Fn(op, <<p, part>>) : op \in {"done", "failed", "mkdir", "rename"}, part \in Parts}

(***************************************************************************)
(* What is in a queue.                                                     *)
(***************************************************************************)

In(s, x) == \E i \in DOMAIN s : s[i] = x

\* There is one element of T in s at most.
Once(s, T) == \A i, j \in DOMAIN s : s[i] \in T /\ s[j] \in T => i = j

Waits(s, T) == \E x \in T : In(s, x)

LEMMA AppendIn ==
  ASSUME NEW S, NEW s \in Seq(S), NEW x \in S
  PROVE  /\ Append(s, x) \in Seq(S)
         /\ \A y : In(Append(s, x), y) <=> In(s, y) \/ y = x
         /\ \A T : Once(s, T) /\ (x \notin T \/ ~ Waits(s, T)) => Once(Append(s, x), T)
  <1> DEFINE r == Append(s, x)
  <1>1. /\ r \in Seq(S) /\ Len(s) \in Nat
        /\ DOMAIN s = 1 .. Len(s) /\ DOMAIN r = 1 .. Len(s) + 1
        /\ \A i \in 1 .. Len(s) : r[i] = s[i]
        /\ r[Len(s) + 1] = x
    OBVIOUS
  <1> HIDE DEF r
  <1>2. /\ \A i \in 1 .. Len(s) + 1 : i \in 1 .. Len(s) \/ i = Len(s) + 1
        /\ \A i \in 1 .. Len(s) : i \in 1 .. Len(s) + 1
        /\ Len(s) + 1 \in 1 .. Len(s) + 1
    BY <1>1
  <1>3. \A y : In(r, y) <=> In(s, y) \/ y = x
    BY <1>1, <1>2 DEF In
  <1>4. ASSUME NEW T, Once(s, T), x \notin T \/ ~ Waits(s, T)
        PROVE  Once(r, T)
    <2>1. CASE x \notin T
      BY <1>1, <1>2, <1>4, <2>1 DEF Once
    <2>2. CASE ~ Waits(s, T)
      <3>1. \A i \in 1 .. Len(s) : s[i] \notin T
        BY <1>1, <2>2 DEF Waits, In
      <3>2. QED
        BY <1>1, <1>2, <3>1 DEF Once
    <2>3. QED
      BY <1>4, <2>1, <2>2
  <1>5. QED
    BY <1>1, <1>3, <1>4 DEF r

LEMMA TailIn ==
  ASSUME NEW S, NEW s \in Seq(S), s # <<>>
  PROVE  /\ Head(s) \in S /\ Tail(s) \in Seq(S)
         /\ \A y : In(s, y) <=> y = Head(s) \/ In(Tail(s), y)
         /\ \A T : Once(s, T) =>
                     /\ Once(Tail(s), T)
                     /\ Head(s) \in T => ~ Waits(Tail(s), T)
  <1> DEFINE r == Tail(s)
  <1>1. /\ r \in Seq(S) /\ Len(s) \in Nat /\ Len(s) > 0
        /\ DOMAIN s = 1 .. Len(s) /\ DOMAIN r = 1 .. Len(s) - 1
        /\ \A i \in 1 .. Len(s) - 1 : r[i] = s[i + 1]
        /\ Head(s) = s[1] /\ s[1] \in S
    OBVIOUS
  <1> HIDE DEF r
  <1>2. /\ 1 \in 1 .. Len(s)
        /\ \A i \in 1 .. Len(s) : i = 1 \/ (i - 1 \in 1 .. Len(s) - 1 /\ (i - 1) + 1 = i)
        /\ \A i \in 1 .. Len(s) - 1 : i + 1 \in 1 .. Len(s) /\ i + 1 # 1
        /\ \A i, j \in 1 .. Len(s) - 1 : i + 1 = j + 1 => i = j
    BY <1>1
  <1>3. ASSUME NEW y, In(s, y) PROVE y = Head(s) \/ In(r, y)
    <2>1. PICK i \in 1 .. Len(s) : s[i] = y
      BY <1>1, <1>3 DEF In
    <2>2. CASE i = 1
      BY <1>1, <2>1, <2>2
    <2>3. CASE i # 1
      <3>1. i - 1 \in 1 .. Len(s) - 1 /\ r[i - 1] = y
        BY <1>1, <1>2, <2>1, <2>3
      <3>2. QED
        BY <1>1, <3>1 DEF In
    <2>4. QED
      BY <2>2, <2>3
  <1>4. ASSUME NEW y, y = Head(s) \/ In(r, y) PROVE In(s, y)
    BY <1>1, <1>2, <1>4 DEF In
  <1>5. ASSUME NEW T, Once(s, T)
        PROVE  Once(r, T) /\ (Head(s) \in T => ~ Waits(r, T))
    <2>1. Once(r, T)
      BY <1>1, <1>2, <1>5 DEF Once
    <2>2. ASSUME Head(s) \in T, NEW x \in T, In(r, x) PROVE FALSE
      <3>1. PICK i \in 1 .. Len(s) - 1 : s[i + 1] = x
        BY <1>1, <2>2 DEF In
      <3>2. QED
        BY <1>1, <1>2, <1>5, <2>2, <3>1 DEF Once
    <2>3. QED
      BY <2>1, <2>2 DEF Waits
  <1>6. QED
    BY <1>1, <1>3, <1>4, <1>5 DEF r

LEMMA PushIn ==
  ASSUME NEW S, NEW s \in Seq(S), NEW x \in S
  PROVE  /\ <<x>> \o s \in Seq(S)
         /\ \A y : In(<<x>> \o s, y) <=> In(s, y) \/ y = x
         /\ \A T : Once(s, T) /\ (x \notin T \/ ~ Waits(s, T)) => Once(<<x>> \o s, T)
  <1> DEFINE r == <<x>> \o s
  <1>1. /\ r \in Seq(S) /\ Len(s) \in Nat /\ Len(r) = Len(s) + 1
        /\ DOMAIN s = 1 .. Len(s) /\ DOMAIN r = 1 .. Len(s) + 1
        /\ \A i \in 1 .. Len(s) : r[i + 1] = s[i]
        /\ r[1] = x
    OBVIOUS
  <1> HIDE DEF r
  <1>2. /\ 1 \in 1 .. Len(s) + 1
        /\ \A i \in 1 .. Len(s) + 1 :
             i = 1 \/ (i - 1 \in 1 .. Len(s) /\ (i - 1) + 1 = i /\ r[i] = s[i - 1])
        /\ \A i \in 1 .. Len(s) : i + 1 \in 1 .. Len(s) + 1
        /\ \A i, j \in 1 .. Len(s) + 1 : i - 1 = j - 1 => i = j
    <2>1. \A i \in 1 .. Len(s) + 1 : i = 1 \/ (i - 1 \in 1 .. Len(s) /\ (i - 1) + 1 = i)
      BY <1>1
    <2>2. \A i \in 1 .. Len(s) + 1 : i = 1 \/ r[i] = s[i - 1]
      BY <1>1, <2>1
    <2>3. QED
      BY <1>1, <2>1, <2>2
  <1>3. \A y : In(r, y) <=> In(s, y) \/ y = x
    <2>1. ASSUME NEW y, In(r, y) PROVE In(s, y) \/ y = x
      <3>1. PICK i \in 1 .. Len(s) + 1 : r[i] = y
        BY <1>1, <2>1 DEF In
      <3>2. CASE i = 1
        BY <1>1, <3>1, <3>2
      <3>3. CASE i - 1 \in 1 .. Len(s) /\ r[i] = s[i - 1]
        BY <1>1, <3>1, <3>3 DEF In
      <3>4. QED
        BY <1>2, <3>1, <3>2, <3>3
    <2>2. ASSUME NEW y, In(s, y) PROVE In(r, y)
      <3>1. PICK i \in 1 .. Len(s) : s[i] = y
        BY <1>1, <2>2 DEF In
      <3>2. i + 1 \in 1 .. Len(s) + 1 /\ r[i + 1] = y
        BY <1>1, <1>2, <3>1
      <3>3. QED
        BY <1>1, <3>2 DEF In
    <2>3. In(r, x)
      BY <1>1, <1>2 DEF In
    <2>4. QED
      BY <2>1, <2>2, <2>3
  <1>4. ASSUME NEW T, Once(s, T), x \notin T \/ ~ Waits(s, T)
        PROVE  Once(r, T)
    <2>1. CASE x \notin T
      <3>1. \A i \in 1 .. Len(s) + 1 : r[i] \in T => i - 1 \in 1 .. Len(s) /\ s[i - 1] \in T
        BY <1>1, <1>2, <2>1
      <3>2. \A i, j \in 1 .. Len(s) : s[i] \in T /\ s[j] \in T => i = j
        BY <1>1, <1>4 DEF Once
      <3>3. \A i, j \in 1 .. Len(s) + 1 : r[i] \in T /\ r[j] \in T => i = j
        <4>1. TAKE i, j \in 1 .. Len(s) + 1
        <4>2. HAVE r[i] \in T /\ r[j] \in T
        <4>3. i - 1 = j - 1
          BY <3>1, <3>2, <4>2
        <4>4. QED
          BY <1>2, <4>3
      <3>4. QED
        BY <1>1, <3>3 DEF Once
    <2>2. CASE ~ Waits(s, T)
      <3>1. \A i \in 1 .. Len(s) : s[i] \notin T
        BY <1>1, <2>2 DEF Waits, In
      <3>2. QED
        BY <1>1, <1>2, <3>1 DEF Once
    <2>3. QED
      BY <1>4, <2>1, <2>2
  <1>5. QED
    BY <1>1, <1>3, <1>4 DEF r

LEMMA NoneIn == /\ \A x : ~ In(<<>>, x)
                /\ \A T : Once(<<>>, T) /\ ~ Waits(<<>>, T)
  BY DEF In, Once, Waits

LEMMA TokensApart ==
  ASSUME NEW p, NEW q, p # q
  PROVE  Tokens(p) \cap Tokens(q) = {}
  BY DEF Tokens, Fn

LEMMA TokensAre ==
  ASSUME NEW p \in Packages
  PROVE  /\ \A op \in {"open", "load", "error", "moved"} : Fn(op, p) \in Tokens(p) \cap Functions
         /\ \A op \in {"done", "failed", "mkdir", "rename"} : \A part \in Parts :
              Fn(op, <<p, part>>) \in Tokens(p) \cap Functions
         /\ \A op \in {"release", "remove"} : \A r \in Requests, q \in Packages :
              Fn(op, r) \notin Tokens(q) /\ Fn(op, r) \in Functions
  BY DEF Tokens, Fn, Functions, Parts, Requests

LEMMA FnsDiffer ==
  ASSUME NEW a, NEW b, NEW x, NEW y, Fn(a, x) = Fn(b, y)
  PROVE  a = b /\ x = y
  BY DEF Fn

-----------------------------------------------------------------------------
(***************************************************************************)
(* The invariant.                                                          *)
(***************************************************************************)

\* Types, as far as the proof needs them.
Typed ==
  /\ uri \in URIs
  /\ dir \in [Paths -> {"absent", "empty", "torn", "whole"}]
  /\ temp \in [Requests -> SUBSET {"zip", "torn", "whole"}]
  /\ state \in [Packages -> {"none", "loading", "loaded", "error"}]
  /\ ran \in [Packages -> {"not", "absent", "empty", "torn", "whole"}]
  /\ stage \in [Requests -> {"idle", "sent", "received", "answered", "over"}]
  /\ native \in [Requests -> Int]
  /\ main \in Seq(Functions) /\ io \in Seq(Functions)

Fetching(r) == stage[r] \in {"sent", "received"}

\* A package has one token at most.
Alone(p) ==
  /\ Once(main, Tokens(p)) /\ Once(io, Tokens(p))
  /\ ~ (Waits(main, Tokens(p)) /\ Waits(io, Tokens(p)))
  /\ \A part \in Parts :
       Fetching(<<p, part>>) => ~ Waits(main, Tokens(p)) /\ ~ Waits(io, Tokens(p))
  /\ ~ (Fetching(<<p, "meta">>) /\ Fetching(<<p, "ker">>))

\* Each request is sent once.
SentOnce(p) ==
  /\ p \notin calls =>
       /\ ~ Waits(main, Tokens(p)) /\ ~ Waits(io, Tokens(p))
       /\ \A part \in Parts : stage[<<p, part>>] = "idle"
       /\ ran[p] = "not" /\ state[p] = "none"
  /\ In(main, Fn("open", p)) => \A part \in Parts : stage[<<p, part>>] = "idle"
  /\ Fetching(<<p, "meta">>) \/ In(main, Fn("done", <<p, "meta">>))
       => stage[<<p, "ker">>] = "idle"

\* Who has a token is still loading, except to be told of an error.
HoldersLoad(p) ==
  \/ Loading(p)
  \/ /\ \A part \in Parts : ~ Fetching(<<p, part>>)
     /\ \A x \in Tokens(p) \ {Fn("error", p)} : ~ In(main, x) /\ ~ In(io, x)

\* What is on its way to a directory is whole; what is about to run is there.
WholeComes(p) ==
  /\ In(main, Fn("done", <<p, "ker">>)) => temp[<<p, "ker">>] = {"whole"}
  /\ \A part \in Parts :
       In(io, Fn("mkdir", <<p, part>>)) \/ In(io, Fn("rename", <<p, part>>))
         => temp[<<p, part>>] = {"whole"}
  /\ \A part \in Parts :
       In(io, Fn("rename", <<p, part>>)) => dir[Path[p]] # "absent"
  /\ In(main, Fn("moved", p)) => dir[Path[p]] = "whole"
  /\ In(main, Fn("load", p)) => dir[Path[p]] = "whole" \/ Path[p] \in crowded \cup cut
  /\ ran[p] \in {"not", "whole"} \/ Path[p] \in crowded \cup cut

Sound(p) == Alone(p) /\ SentOnce(p) /\ HoldersLoad(p) /\ WholeComes(p)

\* A directory is empty only while its package is being moved to it, or after
\* the process died at that moment.
EmptyMoves ==
  \A d \in Paths :
    /\ dir[d] # "torn"
    /\ dir[d] = "empty" =>
         d \in cut \/ \E r \in Requests : Path[r[1]] = d /\ In(io, Fn("rename", r))

OneLoads ==
  \A p, q \in Packages :
    Loading(p) /\ Loading(q) /\ Path[p] = Path[q] /\ Path[p] \notin crowded => p = q

\* The task of a request keeps it until its release has run.
TaskKeeps ==
  \A r \in Requests :
    /\ stage[r] \in {"sent", "received", "answered"} => native[r] = 1
    /\ In(main, Fn("release", r)) => stage[r] = "over"

Inv ==
  /\ Typed
  /\ \A p \in Packages : Sound(p)
  /\ EmptyMoves /\ OneLoads /\ TaskKeeps

LEMMA PathsAre ==
  ASSUME Typed
  PROVE  /\ \A p \in Packages : Path[p] \in Paths
         /\ uri' = uri => Path' = Path
  BY PackageAssumption DEF Typed, Path, URI, PackageAssumption

LEMMA RequestsAre ==
  /\ \A p \in Packages : \A part \in Parts : <<p, part>> \in Requests
  /\ \A r \in Requests : r[1] \in Packages /\ r[2] \in Parts /\ r = <<r[1], r[2]>>
  BY DEF Requests, Parts

LEMMA InvStart == Init => Inv
  <1> SUFFICES ASSUME Init PROVE Inv
    OBVIOUS
  <1> USE DEF Init, Started
  <1>1. Typed
    <2>1. <<>> \in Seq(Functions)
      OBVIOUS
    <2>2. QED
      BY <2>1 DEF Typed
  <1>2. main = <<>> /\ io = <<>> /\ calls = {}
        /\ \A r \in Requests : stage[r] = "idle"
        /\ \A p \in Packages : ran[p] = "not" /\ state[p] = "none"
        /\ \A d \in Paths : dir[d] \in {"absent", "whole"}
    OBVIOUS
  <1> USE NoneIn
  <1>3. ASSUME NEW p \in Packages PROVE Sound(p)
    <2>1. \A part \in Parts : ~ Fetching(<<p, part>>)
      BY <1>2, RequestsAre DEF Fetching
    <2>2. Alone(p)
      BY <1>2, <2>1 DEF Alone, Parts
    <2>3. SentOnce(p)
      BY <1>2, <2>1, RequestsAre DEF SentOnce, Parts
    <2>4. HoldersLoad(p)
      BY <1>2, <2>1 DEF HoldersLoad
    <2>5. WholeComes(p)
      BY <1>2 DEF WholeComes
    <2>6. QED
      BY <2>2, <2>3, <2>4, <2>5 DEF Sound
  <1>4. EmptyMoves /\ OneLoads /\ TaskKeeps
    BY <1>2 DEF EmptyMoves, OneLoads, TaskKeeps, Loading
  <1>5. QED
    BY <1>1, <1>3, <1>4 DEF Inv

-----------------------------------------------------------------------------
(***************************************************************************)
(* What a step leaves alone.                                               *)
(***************************************************************************)

\* Functions that take the head of a queue, and may put another at its end.
LEMMA HeadGoes ==
  ASSUME NEW s \in Seq(Functions), NEW op, NEW of, Runs(s, op, of)
  PROVE  /\ Tail(s) \in Seq(Functions) /\ Fn(op, of) \in Functions /\ In(s, Fn(op, of))
         /\ \A y : In(Tail(s), y) => In(s, y)
         /\ \A y : In(s, y) /\ y # Fn(op, of) => In(Tail(s), y)
         /\ \A T : Once(s, T) =>
              /\ Once(Tail(s), T)
              /\ Fn(op, of) \in T => ~ Waits(Tail(s), T)
  BY TailIn DEF Runs

LEMMA HeadReplaced ==
  ASSUME NEW s \in Seq(Functions), NEW op, NEW of, Runs(s, op, of), NEW x \in Functions
  PROVE  LET r == Append(Tail(s), x) IN
         /\ r \in Seq(Functions) /\ In(s, Fn(op, of))
         /\ \A y : In(r, y) => In(s, y) \/ y = x
         /\ \A y : In(s, y) /\ y # Fn(op, of) => In(r, y)
         /\ \A T : Once(s, T) /\ (x \in T => Fn(op, of) \in T) => Once(r, T)
         /\ \A T : Once(s, T) /\ Fn(op, of) \in T => \A y \in T : In(r, y) => y = x
  <1> DEFINE r == Append(Tail(s), x)
  <1>1. /\ Tail(s) \in Seq(Functions) /\ In(s, Fn(op, of))
        /\ \A y : In(Tail(s), y) => In(s, y)
        /\ \A y : In(s, y) /\ y # Fn(op, of) => In(Tail(s), y)
        /\ \A T : Once(s, T) =>
             /\ Once(Tail(s), T)
             /\ Fn(op, of) \in T => ~ Waits(Tail(s), T)
    BY HeadGoes
  <1>2. /\ r \in Seq(Functions)
        /\ \A y : In(r, y) <=> In(Tail(s), y) \/ y = x
        /\ \A T : Once(Tail(s), T) /\ (x \notin T \/ ~ Waits(Tail(s), T)) => Once(r, T)
    BY <1>1, AppendIn
  <1> HIDE DEF r
  <1>3. QED
    BY <1>1, <1>2 DEF r, Waits

\* A step does not add to what p waits for, and only fills its directory.
Untouched(p) ==
  /\ \A x \in Tokens(p) : (In(main', x) => In(main, x)) /\ (In(io', x) => In(io, x))
  /\ Once(main', Tokens(p)) /\ Once(io', Tokens(p))
  /\ \A part \in Parts : /\ stage'[<<p, part>>] = stage[<<p, part>>]
                         /\ temp'[<<p, part>>] = temp[<<p, part>>]
  /\ state'[p] = state[p] /\ ran'[p] = ran[p] /\ (p \in calls' <=> p \in calls)
  /\ crowded \subseteq crowded' /\ cut \subseteq cut' /\ uri' = uri
  /\ \/ dir'[Path[p]] = dir[Path[p]]
     \/ dir[Path[p]] # "whole" /\ dir'[Path[p]] # "absent"

LEMMA StaysSound ==
  ASSUME Typed, NEW p \in Packages, Sound(p), Untouched(p)
  PROVE  Sound(p)'
  <1> USE DEF Sound, Untouched
  <1>0. Path' = Path
    BY PathsAre
  <1>1. /\ Waits(main', Tokens(p)) => Waits(main, Tokens(p))
        /\ Waits(io', Tokens(p)) => Waits(io, Tokens(p))
        /\ \A part \in Parts : Fetching(<<p, part>>)' => Fetching(<<p, part>>)
    BY DEF Waits, Fetching
  <1>2. Alone(p)'
    BY <1>1 DEF Alone, Parts
  <1>3. SentOnce(p)'
    BY <1>1, TokensAre DEF SentOnce, Parts
  <1>4. HoldersLoad(p)'
    BY <1>1 DEF HoldersLoad, Loading
  <1>5. WholeComes(p)'
    BY <1>0, TokensAre DEF WholeComes, Parts
  <1>6. QED
    BY <1>2, <1>3, <1>4, <1>5

LEMMA LoadersFew ==
  ASSUME Typed, OneLoads, uri' = uri, crowded \subseteq crowded',
         \A p \in Packages : Loading(p)' => Loading(p)
  PROVE  OneLoads'
  BY PathsAre DEF OneLoads

LEMMA EmptyStays ==
  ASSUME Typed, EmptyMoves, UNCHANGED <<uri, dir, cut>>,
         \A r \in Requests : In(io, Fn("rename", r)) => In(io', Fn("rename", r))
  PROVE  EmptyMoves'
  BY PathsAre DEF EmptyMoves

LEMMA TasksStay ==
  ASSUME TaskKeeps, UNCHANGED <<stage, native>>,
         \A r \in Requests : In(main', Fn("release", r)) => In(main, Fn("release", r))
  PROVE  TaskKeeps'
  BY DEF TaskKeeps

-----------------------------------------------------------------------------
(***************************************************************************)
(* Types.                                                                  *)
(***************************************************************************)

LEMMA Changed ==
  ASSUME NEW A, NEW B, NEW f \in [A -> B], NEW a, NEW b \in B
  PROVE  [f EXCEPT ![a] = b] \in [A -> B]
  OBVIOUS

LEMMA LoadKerTyped ==
  ASSUME Typed, NEW p \in Packages, NEW op, NEW of, Runs(main, op, of),
         LoadKer(p) \/ LoadLocal(p) \/ LoadMeta(p)
  PROVE  /\ main' \in Seq(Functions)
         /\ state' \in [Packages -> {"none", "loading", "loaded", "error"}]
         /\ stage' \in [Requests -> {"idle", "sent", "received", "answered", "over"}]
         /\ native' \in [Requests -> Int]
  <1>1. Tail(main) \in Seq(Functions)
    BY HeadGoes DEF Typed
  <1>2. \A g \in {"load", "error"} : Append(Tail(main), Fn(g, p)) \in Seq(Functions)
    BY <1>1, TokensAre, AppendIn
  <1>3. UNCHANGED <<stage, native>> \/ \E part \in Parts : Send(p, part)
    BY DEF LoadKer, LoadLocal, LoadMeta, Parts
  <1>4. /\ stage' \in [Requests -> {"idle", "sent", "received", "answered", "over"}]
        /\ native' \in [Requests -> Int]
    <2>1. CASE UNCHANGED <<stage, native>>
      BY <2>1 DEF Typed
    <2>2. ASSUME NEW part \in Parts, Send(p, part)
          PROVE  /\ stage' \in [Requests -> {"idle", "sent", "received", "answered", "over"}]
                 /\ native' \in [Requests -> Int]
      <3>1. stage' = [stage EXCEPT ![<<p, part>>] = "sent"]
            /\ native' = [native EXCEPT ![<<p, part>>] = 1]
        BY <2>2 DEF Send
      <3>2. 1 \in Int
        OBVIOUS
      <3>3. QED
        BY <3>1, <3>2, Changed DEF Typed
    <2>3. QED
      BY <1>3, <2>1, <2>2
  <1>5. main' \in Seq(Functions)
    BY <1>1, <1>2 DEF LoadKer, LoadLocal, LoadMeta
  <1>6. state' \in [Packages -> {"none", "loading", "loaded", "error"}]
    BY DEF LoadKer, LoadLocal, LoadMeta, Typed
  <1>7. QED
    BY <1>4, <1>5, <1>6

LEMMA MovesWhole ==
  ASSUME Inv, NEW r \in Requests, In(io, Fn("mkdir", r)) \/ In(io, Fn("rename", r))
  PROVE  temp[r] = {"whole"}
  <1>1. PICK p \in Packages, part \in Parts : r = <<p, part>>
    BY DEF Requests, Parts
  <1>2. QED
    BY <1>1 DEF Inv, Sound, WholeComes

LEMMA TypedStep ==
  ASSUME Inv, [Next]_vars
  PROVE  Typed'
  <1>0. Typed
    BY DEF Inv
  <1> USE <1>0 DEF Typed
  <1>1. CASE UNCHANGED vars
    BY <1>1 DEF vars
  <1>2. CASE Crash
    <2>1. <<>> \in Seq(Functions)
      OBVIOUS
    <2>2. QED
      BY <1>2, <2>1 DEF Crash, Started
  <1>3. ASSUME NEW p \in Packages, Open(p) PROVE Typed'
    BY <1>3, TokensAre, AppendIn DEF Open, pkgs
  <1>4. ASSUME NEW p \in Packages, Drop(p) PROVE Typed'
    BY <1>4 DEF Drop
  <1>5. ASSUME NEW p \in Packages, Construct(p) PROVE Typed'
    BY <1>5, LoadKerTyped DEF Construct, LoadLocal
  <1>6. ASSUME NEW p \in Packages, MetaDone(p) PROVE Typed'
    <2>1. Tail(main) \in Seq(Functions)
      BY <1>6, HeadGoes DEF MetaDone
    <2>2. QED
      BY <1>6, <2>1, LoadKerTyped DEF MetaDone, EmitError, pkgs
  <1>7. ASSUME NEW p \in Packages, AsyncLoad(p) \/ AsyncError(p) \/ Moved(p) PROVE Typed'
    <2>1. Tail(main) \in Seq(Functions)
      BY <1>7, HeadGoes DEF AsyncLoad, AsyncError, Moved
    <2>2. dir[Path[p]] \in {"absent", "empty", "torn", "whole"}
      BY PathsAre
    <2>3. state' \in [Packages -> {"none", "loading", "loaded", "error"}]
      BY <1>7 DEF AsyncLoad, AsyncError, Moved, EmitError, pkgs
    <2>4. ran' \in [Packages -> {"not", "absent", "empty", "torn", "whole"}]
      BY <1>7, <2>2 DEF AsyncLoad, AsyncError, Moved, EmitLoad, EmitError, pkgs
    <2>5. QED
      BY <1>7, <2>1, <2>3, <2>4 DEF AsyncLoad, AsyncError, Moved
  <1>8. ASSUME NEW p \in Packages, KerDone(p) PROVE Typed'
    <2>1. Tail(main) \in Seq(Functions)
      BY <1>8, HeadGoes DEF KerDone
    <2>2. io' \in Seq(Functions)
      <3>1. Fn("mkdir", <<p, "ker">>) \in Functions /\ Fn("remove", <<p, "ker">>) \in Functions
        BY TokensAre, RequestsAre DEF Parts
      <3> DEFINE f == Fn("mkdir", <<p, "ker">>)
                 g == Fn("remove", <<p, "ker">>)
      <3>2. io' = io \/ io' = io \o <<f>> \o <<g>> \/ io' = io \o <<>> \o <<g>>
        BY <1>8 DEF KerDone
      <3> HIDE DEF f, g
      <3>3. f \in Functions /\ g \in Functions
        BY <3>1 DEF f, g
      <3>4. \A s \in Seq(Functions), t \in Seq(Functions) : s \o t \in Seq(Functions)
        OBVIOUS
      <3>5. <<f>> \in Seq(Functions) /\ <<g>> \in Seq(Functions) /\ <<>> \in Seq(Functions)
        BY <3>3
      <3>6. io \o <<f>> \in Seq(Functions) /\ io \o <<>> \in Seq(Functions)
        BY <3>4, <3>5
      <3>7. io \o <<f>> \o <<g>> \in Seq(Functions) /\ io \o <<>> \o <<g>> \in Seq(Functions)
        BY <3>4, <3>5, <3>6
      <3>8. QED
        BY <3>2, <3>7
    <2>3. QED
      BY <1>8, <2>1, <2>2 DEF KerDone, pkgs
  <1>9. ASSUME NEW r \in Requests, Failed(r) \/ ReleaseRequest(r) PROVE Typed'
    <2>1. Tail(main) \in Seq(Functions)
      BY <1>9, HeadGoes DEF Failed, ReleaseRequest
    <2>2. state' \in [Packages -> {"none", "loading", "loaded", "error"}] /\ ran' = ran
      BY <1>9 DEF Failed, ReleaseRequest, EmitError, pkgs
    <2>3. native' \in [Requests -> Int]
      BY <1>9 DEF Failed, ReleaseRequest
    <2>4. QED
      BY <1>9, <2>1, <2>2, <2>3 DEF Failed, ReleaseRequest
  <1>10. ASSUME NEW r \in Requests, NativeStep(r) PROVE Typed'
    <2>1. \A op \in {"done", "failed", "release"} : Append(main, Fn(op, r)) \in Seq(Functions)
      BY RequestsAre, TokensAre, AppendIn
    <2>2. main' \in Seq(Functions)
      BY <1>10, <2>1 DEF NativeStep, Receive, Fail, Done, Complete, Unzip
    <2>3. temp' \in [Requests -> SUBSET {"zip", "torn", "whole"}]
      <3>1. \/ temp' = temp
            \/ \E files \in SUBSET {"zip", "torn", "whole"} : temp' = [temp EXCEPT ![r] = files]
        BY <1>10 DEF NativeStep, Receive, Fail, Done, Complete, Unzip
      <3>2. QED
        BY <3>1, Changed
    <2>4. stage' \in [Requests -> {"idle", "sent", "received", "answered", "over"}]
      BY <1>10 DEF NativeStep, Receive, Fail, Done, Complete
    <2>5. UNCHANGED <<pkgs, uri, dir, native, io>>
      BY <1>10 DEF NativeStep, Receive, Fail, Done, Complete
    <2>6. QED
      BY <2>2, <2>3, <2>4, <2>5 DEF pkgs
  <1>11. ASSUME NEW r \in Requests, MakeDir(r) \/ Rename(r) \/ Remove(r) PROVE Typed'
    <2>1. Tail(io) \in Seq(Functions)
      BY <1>11, HeadGoes DEF MakeDir, Rename, Remove
    <2>2. <<Fn("rename", r)>> \o Tail(io) \in Seq(Functions)
      BY <2>1, RequestsAre, TokensAre, PushIn
    <2>3. Append(main, Fn("moved", r[1])) \in Seq(Functions)
      BY RequestsAre, TokensAre, AppendIn
    <2>4. main' \in Seq(Functions) /\ io' \in Seq(Functions)
      BY <1>11, <2>1, <2>2, <2>3 DEF MakeDir, Rename, Remove
    <2>5. temp' \in [Requests -> SUBSET {"zip", "torn", "whole"}]
      BY <1>11 DEF MakeDir, Rename, Remove
    <2>6. dir' \in [Paths -> {"absent", "empty", "torn", "whole"}]
      <3>1. /\ Path[r[1]] \in Paths
            /\ temp[r] \subseteq {"zip", "torn", "whole"}
        BY PathsAre, RequestsAre
      <3> DEFINE to == Path[r[1]]
                 files == {"absent", "empty", "torn", "whole"}
      <3>2. \/ dir' = dir
            \/ dir' = [dir EXCEPT ![to] = IF dir[to] = "absent" THEN "empty" ELSE dir[to]]
            \/ Rename(r) /\ \E v \in temp[r] : dir' = [dir EXCEPT ![to] = v]
        BY <1>11 DEF MakeDir, Rename, Remove
      <3>3. dir[to] \in files
        BY <3>1
      <3>4. Rename(r) => temp[r] = {"whole"}
        BY HeadGoes, MovesWhole DEF Rename
      <3>5. CASE dir' = dir
        BY <3>5
      <3>6. CASE dir' = [dir EXCEPT ![to] = IF dir[to] = "absent" THEN "empty" ELSE dir[to]]
        <4>1. (IF dir[to] = "absent" THEN "empty" ELSE dir[to]) \in files
          BY <3>3
        <4> HIDE DEF to
        <4>2. QED
          BY <3>6, <4>1, Changed
      <3>7. CASE Rename(r) /\ \E v \in temp[r] : dir' = [dir EXCEPT ![to] = v]
        <4>1. dir' = [dir EXCEPT ![to] = "whole"]
          BY <3>4, <3>7
        <4> HIDE DEF to
        <4>2. QED
          BY <4>1, Changed
      <3>8. QED
        BY <3>2, <3>5, <3>6, <3>7
    <2>8. UNCHANGED <<pkgs, uri, stage, native>>
      BY <1>11 DEF MakeDir, Rename, Remove
    <2>9. QED
      BY <2>4, <2>5, <2>6, <2>8 DEF pkgs
  <1>12. QED
    BY <1>1, <1>2, <1>3, <1>4, <1>5, <1>6, <1>7, <1>8, <1>9, <1>10, <1>11
       DEF Next, MainStep, IoStep

-----------------------------------------------------------------------------
(***************************************************************************)
(* The main queue.                                                         *)
(***************************************************************************)

Rest == (\A p \in Packages : Sound(p)) /\ EmptyMoves /\ OneLoads /\ TaskKeeps

\* Where the token of a package is, it is alone.
LEMMA TokenAlone ==
  ASSUME Inv, NEW p \in Packages, NEW x \in Tokens(p), In(main, x)
  PROVE  /\ ~ Waits(io, Tokens(p)) /\ Once(main, Tokens(p)) /\ Once(io, Tokens(p))
         /\ \A part \in Parts : ~ Fetching(<<p, part>>)
         /\ p \in calls
         /\ x # Fn("error", p) => Loading(p)
  BY DEF Inv, Sound, Alone, SentOnce, HoldersLoad, Waits

\* The directory that a loading package finds is whole, but for a known reason.
LEMMA FoundWhole ==
  ASSUME Inv, NEW p \in Packages, Loading(p), ~ Waits(io, Tokens(p)), dir[Path[p]] # "absent"
  PROVE  dir[Path[p]] = "whole" \/ Path[p] \in crowded \cup cut
  <1> SUFFICES ASSUME dir[Path[p]] # "whole", Path[p] \notin crowded \cup cut
               PROVE  FALSE
    OBVIOUS
  <1>1. dir[Path[p]] = "empty"
    BY PathsAre DEF Inv, EmptyMoves, Typed
  <1>2. PICK q \in Packages, part \in Parts :
          Path[q] = Path[p] /\ In(io, Fn("rename", <<q, part>>))
    <2>1. PICK r \in Requests : Path[r[1]] = Path[p] /\ In(io, Fn("rename", r))
      BY <1>1, PathsAre DEF Inv, EmptyMoves
    <2>2. PICK q \in Packages, part \in Parts : r = <<q, part>>
      BY DEF Requests, Parts
    <2>3. QED
      BY <2>1, <2>2
  <1>3. Fn("rename", <<q, part>>) \in Tokens(q) \ {Fn("error", q)}
    BY TokensAre, FnsDiffer
  <1>4. q # p
    BY <1>2, <1>3 DEF Waits
  <1>5. Loading(q)
    BY <1>2, <1>3 DEF Inv, Sound, HoldersLoad
  <1>6. QED
    BY <1>2, <1>4, <1>5 DEF Inv, OneLoads

\* p has no token any more.
LEMMA EndsSound ==
  ASSUME Inv, NEW p \in Packages, p \in calls, UNCHANGED <<uri, calls>>,
         ~ Waits(main', Tokens(p)), ~ Waits(io', Tokens(p)),
         Once(main', Tokens(p)), Once(io', Tokens(p)),
         \A part \in Parts : ~ Fetching(<<p, part>>)',
         ran'[p] \in {"not", "whole"} \/ Path[p] \in crowded' \cup cut'
  PROVE  Sound(p)'
  <1>1. Path' = Path
    BY PathsAre DEF Inv
  <1>2. Alone(p)'
    BY DEF Alone, Parts
  <1>3. SentOnce(p)'
    BY TokensAre DEF SentOnce, Parts, Waits
  <1>4. HoldersLoad(p)'
    BY DEF HoldersLoad, Waits
  <1>5. WholeComes(p)'
    BY <1>1, TokensAre DEF WholeComes, Parts, Waits
  <1>6. QED
    BY <1>2, <1>3, <1>4, <1>5 DEF Sound

\* A function takes the token of p with it.
LEMMA TokenTaken ==
  ASSUME Inv, NEW p \in Packages, NEW op, NEW of, Runs(main, op, of), Fn(op, of) \in Tokens(p),
         main' = Tail(main),
         UNCHANGED <<uri, calls, crowded, dir, temp, stage, native, io, crashes, cut>>,
         \A q \in Packages \ {p} : state'[q] = state[q] /\ ran'[q] = ran[q],
         Loading(p)' => Loading(p),
         ran'[p] \in {"not", "whole"} \/ Path[p] \in crowded \cup cut
  PROVE  Rest'
  <1>0. Typed /\ EmptyMoves /\ OneLoads /\ TaskKeeps /\ \A q \in Packages : Sound(q)
    BY DEF Inv
  <1>1. /\ In(main, Fn(op, of))
        /\ \A x : In(main', x) => In(main, x)
        /\ \A q \in Packages : Once(main', Tokens(q)) /\ Once(io', Tokens(q))
        /\ ~ Waits(main', Tokens(p))
    BY <1>0, HeadGoes DEF Typed, Sound, Alone
  <1>2. Sound(p)'
    <2>1. ~ Waits(io, Tokens(p)) /\ p \in calls /\ \A part \in Parts : ~ Fetching(<<p, part>>)
      BY <1>1, TokenAlone
    <2>2. \A part \in Parts : ~ Fetching(<<p, part>>)'
      BY <2>1 DEF Fetching
    <2>3. QED
      BY <1>1, <2>1, <2>2, EndsSound
  <1>3. ASSUME NEW q \in Packages \ {p} PROVE Sound(q)'
    <2>1. Untouched(q)
      BY <1>1 DEF Untouched
    <2>2. QED
      BY <1>0, <2>1, StaysSound
  <1>4. EmptyMoves'
    BY <1>0, EmptyStays
  <1>5. OneLoads'
    <2>1. \A q \in Packages : Loading(q)' => Loading(q)
      BY DEF Loading
    <2>2. QED
      BY <1>0, <2>1, LoadersFew
  <1>6. TaskKeeps'
    BY <1>0, <1>1, TasksStay
  <1>7. QED
    BY <1>2, <1>3, <1>4, <1>5, <1>6 DEF Rest

LEMMA EndsStep ==
  ASSUME Inv, UNCHANGED death, NEW p \in Packages, AsyncLoad(p) \/ AsyncError(p) \/ Moved(p)
  PROVE  Rest'
  <1>0. Typed /\ Sound(p)
    BY DEF Inv
  <1>1. PICK op \in {"load", "error", "moved"} :
          /\ Runs(main, op, p)
          /\ op = "load" => AsyncLoad(p)
          /\ op = "error" => AsyncError(p)
          /\ op = "moved" => Moved(p)
    BY DEF AsyncLoad, AsyncError, Moved
  <1>2. Fn(op, p) \in Tokens(p) /\ In(main, Fn(op, p))
    BY <1>0, <1>1, TokensAre, HeadGoes DEF Typed
  <1>3. /\ main' = Tail(main)
        /\ UNCHANGED <<uri, calls, crowded, dir, temp, stage, native, io, crashes, cut>>
    BY DEF AsyncLoad, AsyncError, Moved, death
  <1>4. \A q \in Packages \ {p} : state'[q] = state[q] /\ ran'[q] = ran[q]
    BY <1>0 DEF AsyncLoad, AsyncError, Moved, EmitLoad, EmitError, pkgs, Typed
  <1>5. ran'[p] = ran[p] \/ (op \in {"load", "moved"} /\ ran'[p] = dir[Path[p]])
    BY <1>0, <1>1 DEF AsyncLoad, AsyncError, Moved, EmitLoad, EmitError, pkgs, Typed
  <1>6. ran'[p] \in {"not", "whole"} \/ Path[p] \in crowded \cup cut
    BY <1>0, <1>2, <1>5 DEF Sound, WholeComes
  <1>7. Loading(p)' => Loading(p)
    <2>1. CASE op = "error"
      <3>1. state'[p] = state[p] \/ state'[p] = "error"
        BY <1>0, <1>1, <2>1 DEF AsyncError, EmitError, pkgs, Typed
      <3>2. ran'[p] = ran[p]
        BY <1>5, <2>1
      <3>3. QED
        BY <1>3, <3>1, <3>2 DEF Loading
    <2>2. CASE op # "error"
      BY <1>2, <2>2, TokenAlone, FnsDiffer
    <2>3. QED
      BY <2>1, <2>2
  <1>8. QED
    BY <1>1, <1>2, <1>3, <1>4, <1>6, <1>7, TokenTaken

LEMMA FailedStep ==
  ASSUME Inv, UNCHANGED death, NEW r \in Requests, Failed(r)
  PROVE  Rest'
  <1>1. PICK p \in Packages, part \in Parts : r = <<p, part>>
    BY DEF Requests, Parts
  <1>2. Typed /\ Sound(p) /\ r[1] = p
    BY <1>1 DEF Inv
  <1>3. /\ Runs(main, "failed", r) /\ Fn("failed", r) \in Tokens(p)
        /\ main' = Tail(main)
        /\ UNCHANGED <<uri, calls, crowded, dir, temp, stage, native, io, crashes, cut>>
    BY <1>1, TokensAre DEF Failed, death
  <1>4. /\ ran' = ran
        /\ state' = state \/ state' = [state EXCEPT ![p] = "error"]
    BY <1>2 DEF Failed, EmitError, pkgs
  <1>5. /\ \A q \in Packages \ {p} : state'[q] = state[q]
        /\ state'[p] = state[p] \/ state'[p] = "error"
    BY <1>2, <1>4 DEF Typed
  <1>6. Loading(p)' => Loading(p)
    BY <1>3, <1>4, <1>5 DEF Loading
  <1>7. ran'[p] \in {"not", "whole"} \/ Path[p] \in crowded \cup cut
    BY <1>2, <1>4 DEF Sound, WholeComes
  <1>8. QED
    BY <1>3, <1>4, <1>5, <1>6, <1>7, TokenTaken

LEMMA ReleaseStep ==
  ASSUME Inv, UNCHANGED death, NEW r \in Requests, ReleaseRequest(r)
  PROVE  Rest'
  <1>0. Typed /\ EmptyMoves /\ OneLoads /\ TaskKeeps /\ \A q \in Packages : Sound(q)
    BY DEF Inv
  <1>1. /\ Runs(main, "release", r) /\ main' = Tail(main)
        /\ native' = [native EXCEPT ![r] = @ - 1]
        /\ UNCHANGED <<state, ran, uri, calls, crowded, dir, temp, stage, io, crashes, cut>>
    BY DEF ReleaseRequest, pkgs, death
  <1>2. /\ In(main, Fn("release", r))
        /\ \A x : In(main', x) => In(main, x)
        /\ \A q \in Packages : Once(main', Tokens(q)) /\ Once(io', Tokens(q))
    BY <1>0, <1>1, HeadGoes DEF Typed, Sound, Alone
  <1>3. ASSUME NEW q \in Packages PROVE Sound(q)'
    <2>1. Untouched(q)
      BY <1>1, <1>2 DEF Untouched
    <2>2. QED
      BY <1>0, <2>1, StaysSound
  <1>4. EmptyMoves'
    BY <1>0, <1>1, EmptyStays
  <1>5. OneLoads'
    BY <1>0, <1>1, LoadersFew DEF Loading
  <1>6. TaskKeeps'
    <2>1. stage[r] = "over"
      BY <1>0, <1>2 DEF TaskKeeps
    <2>2. \A s \in Requests \ {r} : native'[s] = native[s]
      BY <1>0, <1>1 DEF Typed
    <2>3. QED
      BY <1>0, <1>1, <1>2, <2>1, <2>2 DEF TaskKeeps
  <1>7. QED
    BY <1>3, <1>4, <1>5, <1>6 DEF Rest

\* A function takes the token of p and gives p the next one, or fetches a part.
LEMMA LoadsStep ==
  ASSUME Inv, UNCHANGED death, NEW p \in Packages, NEW op, NEW of,
         Runs(main, op, of), Fn(op, of) \in Tokens(p), op # "error",
         stage[<<p, "ker">>] = "idle",
         LoadKer(p) \/ LoadLocal(p) \/ (stage[<<p, "meta">>] = "idle" /\ LoadMeta(p)),
         UNCHANGED <<uri, calls, crowded, ran, dir, temp, io>>
  PROVE  Rest'
  <1>0. Typed /\ EmptyMoves /\ OneLoads /\ TaskKeeps /\ \A q \in Packages : Sound(q)
    BY DEF Inv
  <1>1. /\ In(main, Fn(op, of)) /\ p \in calls /\ Loading(p)
        /\ Once(main, Tokens(p)) /\ Once(io, Tokens(p))
        /\ ~ Waits(io, Tokens(p)) /\ \A part \in Parts : ~ Fetching(<<p, part>>)
    <2>1. In(main, Fn(op, of))
      BY <1>0, HeadGoes DEF Typed
    <2>2. Fn(op, of) # Fn("error", p)
      BY FnsDiffer
    <2>3. QED
      BY <2>1, <2>2, TokenAlone
  <1> DEFINE Goes(posted, part) ==
               /\ posted = "load" => /\ dir[Path[p]] # "absent" /\ part = "nothing"
                                     /\ main' = Append(Tail(main), Fn("load", p))
                                     /\ state' = [state EXCEPT ![p] = "loaded"]
               /\ posted = "error" => /\ part = "nothing"
                                      /\ main' = Append(Tail(main), Fn("error", p))
                                      /\ state' = [state EXCEPT ![p] = "error"]
               /\ posted = "nothing" => main' = Tail(main)
               /\ part \in Parts => /\ Send(p, part) /\ stage[<<p, part>>] = "idle"
                                    /\ posted = "nothing"
                                    /\ state' = state \/ state' = [state EXCEPT ![p] = "loading"]
               /\ part = "nothing" => UNCHANGED <<stage, native>> /\ posted # "nothing"
  <1>2. PICK posted \in {"load", "error", "nothing"}, part \in Parts \cup {"nothing"} :
          Goes(posted, part)
    <2>1. CASE LoadKer(p) /\ dir[Path[p]] = "absent"
      <3>1. Goes("nothing", "ker")
        BY <2>1 DEF LoadKer, Parts
      <3>2. QED
        BY ONLY <3>1 DEF Parts
    <2>2. CASE LoadMeta(p) /\ stage[<<p, "meta">>] = "idle"
      <3>1. Goes("nothing", "meta")
        BY <2>2 DEF LoadMeta, Parts
      <3>2. QED
        BY ONLY <3>1 DEF Parts
    <2>3. CASE (LoadKer(p) \/ LoadLocal(p)) /\ dir[Path[p]] # "absent"
      <3>1. Goes("load", "nothing")
        BY <2>3 DEF LoadKer, LoadLocal, Parts
      <3>2. QED
        BY ONLY <3>1 DEF Parts
    <2>4. CASE LoadLocal(p) /\ dir[Path[p]] = "absent"
      <3>1. Goes("error", "nothing")
        BY <2>4 DEF LoadLocal, Parts
      <3>2. QED
        BY ONLY <3>1 DEF Parts
    <2>5. QED
      BY <2>1, <2>2, <2>3, <2>4
  <1> DEFINE new == IF posted = "nothing" THEN {} ELSE {Fn(posted, p)}
  <1>3. /\ \A x : In(main', x) => In(main, x) \/ x \in new
        /\ \A x \in Tokens(p) : In(main', x) => x \in new
        /\ \A q \in Packages : Once(main', Tokens(q))
    <2>1. /\ \A q \in Packages : Once(main, Tokens(q)) /\ main \in Seq(Functions)
          /\ \A g \in {"load", "error"} : Fn(g, p) \in Functions /\ Fn(g, p) \in Tokens(p)
          /\ \A q \in Packages \ {p} : \A g \in {"load", "error"} : Fn(g, p) \notin Tokens(q)
      BY <1>0, TokensAre, TokensApart DEF Typed, Sound, Alone
    <2>2. CASE posted = "nothing"
      <3>1. main' = Tail(main)
        BY <1>2, <2>2
      <3>2. /\ \A x : In(Tail(main), x) => In(main, x)
            /\ \A q \in Packages : Once(Tail(main), Tokens(q))
            /\ ~ Waits(Tail(main), Tokens(p))
        BY <2>1, HeadGoes
      <3>3. QED
        BY <3>1, <3>2 DEF Waits
    <2>3. CASE posted # "nothing"
      <3>1. main' = Append(Tail(main), Fn(posted, p)) /\ posted \in {"load", "error"}
        BY <1>2, <2>3
      <3>2. QED
        BY <2>1, <2>3, <3>1, HeadReplaced
    <2>4. QED
      BY <2>2, <2>3
  <1>4. /\ \A r \in Requests : stage'[r] = stage[r] \/ (r = <<p, part>> /\ part \in Parts)
        /\ part \in Parts => stage'[<<p, part>>] = "sent" /\ native'[<<p, part>>] = 1
        /\ \A r \in Requests : native'[r] = native[r] \/ (r = <<p, part>> /\ part \in Parts)
    <2>1. CASE part \notin Parts
      BY <1>2, <2>1
    <2>2. CASE part \in Parts
      <3>1. /\ stage' = [stage EXCEPT ![<<p, part>>] = "sent"]
            /\ native' = [native EXCEPT ![<<p, part>>] = 1]
        BY <1>2, <2>2 DEF Send
      <3>2. <<p, part>> \in Requests
        BY <2>2, RequestsAre
      <3>3. QED
        BY <1>0, <2>2, <3>1, <3>2 DEF Typed
    <2>3. QED
      BY <2>1, <2>2
  <1>5. /\ \A q \in Packages \ {p} : state'[q] = state[q]
        /\ posted # "error" => state'[p] # "error"
    BY <1>0, <1>1, <1>2 DEF Typed, Loading
  <1> HIDE DEF new
  <1>6. Sound(p)'
    <2>0. Path' = Path /\ \A y : Fn("open", p) # Fn("load", y) /\ Fn("open", p) # Fn("error", y)
      BY <1>0, PathsAre, FnsDiffer
    <2>1. /\ posted # "nothing" => ~ Fetching(<<p, "meta">>)' /\ ~ Fetching(<<p, "ker">>)'
          /\ ~ (Fetching(<<p, "meta">>)' /\ Fetching(<<p, "ker">>)')
          /\ Fetching(<<p, "meta">>)' => stage'[<<p, "ker">>] = "idle"
      BY <1>1, <1>2, <1>4, RequestsAre DEF Fetching, Parts
    <2>2. posted = "nothing" => ~ Waits(main', Tokens(p))
      BY <1>3 DEF new, Waits
    <2>3. Alone(p)'
      BY <1>1, <1>3, <2>1, <2>2 DEF Alone, Parts
    <2>4. /\ ~ In(main', Fn("open", p))
          /\ \A x \in Parts : ~ In(main', Fn("done", <<p, x>>))
          /\ ~ In(main', Fn("moved", p))
          /\ In(main', Fn("load", p)) => posted = "load"
      BY <1>3, TokensAre, FnsDiffer DEF new
    <2>5. SentOnce(p)'
      BY <1>1, <2>1, <2>4 DEF SentOnce, Parts
    <2>6. HoldersLoad(p)'
      <3>1. CASE posted = "error"
        <4>1. \A x \in Tokens(p) \ {Fn("error", p)} : ~ In(main', x) /\ ~ In(io', x)
          BY <1>1, <1>3, <3>1 DEF new, Waits
        <4>2. QED
          BY <2>1, <3>1, <4>1 DEF HoldersLoad, Parts
      <3>2. CASE posted # "error"
        BY <1>1, <1>5, <3>2 DEF HoldersLoad, Loading
      <3>3. QED
        BY <3>1, <3>2
    <2>7. WholeComes(p)'
      <3>1. posted = "load" => dir[Path[p]] = "whole" \/ Path[p] \in crowded \cup cut
        BY <1>1, <1>2, FoundWhole
      <3>2. \A op2 \in {"mkdir", "rename"} : \A x \in Parts : ~ In(io', Fn(op2, <<p, x>>))
        BY <1>1, TokensAre DEF Waits
      <3>3. ran[p] = "not" /\ cut' = cut
        BY <1>1 DEF Loading, death
      <3>4. QED
        BY <2>0, <2>4, <3>1, <3>2, <3>3 DEF WholeComes, Parts
    <2>8. QED
      BY <2>3, <2>5, <2>6, <2>7 DEF Sound
  <1>7. ASSUME NEW q \in Packages \ {p} PROVE Sound(q)'
    <2>1. \A x \in Tokens(q) : x \notin new
      BY TokensAre, TokensApart DEF new
    <2>2. \A x \in Parts : stage'[<<q, x>>] = stage[<<q, x>>]
      BY <1>4, RequestsAre
    <2>3. Once(io, Tokens(q))
      BY <1>0 DEF Sound, Alone
    <2>4. Untouched(q)
      BY <1>3, <1>5, <2>1, <2>2, <2>3 DEF Untouched, death
    <2>5. QED
      BY <1>0, <2>4, StaysSound
  <1>8. EmptyMoves'
    BY <1>0, EmptyStays DEF death
  <1>9. OneLoads'
    <2>1. \A q \in Packages : Loading(q)' => Loading(q)
      BY <1>1, <1>5 DEF Loading
    <2>2. QED
      BY <1>0, <2>1, LoadersFew
  <1>10. TaskKeeps'
    <2>1. \A r \in Requests : In(main', Fn("release", r)) => In(main, Fn("release", r))
      BY <1>3, FnsDiffer DEF new
    <2>2. part \in Parts => ~ In(main, Fn("release", <<p, part>>))
      BY <1>0, <1>2, RequestsAre DEF TaskKeeps
    <2>3. QED
      BY <1>0, <1>4, <2>1, <2>2 DEF TaskKeeps
  <1>11. QED
    BY <1>6, <1>7, <1>8, <1>9, <1>10 DEF Rest

LEMMA ConstructStep ==
  ASSUME Inv, UNCHANGED death, NEW p \in Packages, Construct(p)
  PROVE  Rest'
  <1>1. Runs(main, "open", p) /\ Fn("open", p) \in Tokens(p) /\ In(main, Fn("open", p))
    BY TokensAre, HeadGoes DEF Construct, Inv, Typed
  <1>2. \A part \in Parts : stage[<<p, part>>] = "idle"
    BY <1>1 DEF Inv, Sound, SentOnce
  <1>3. LoadKer(p) \/ LoadLocal(p) \/ LoadMeta(p)
    BY DEF Construct
  <1>4. UNCHANGED <<uri, calls, crowded, ran, dir, temp, io>>
    BY DEF Construct
  <1>5. QED
    BY <1>1, <1>2, <1>3, <1>4, LoadsStep DEF Parts

LEMMA MetaDoneStep ==
  ASSUME Inv, UNCHANGED death, NEW p \in Packages, MetaDone(p)
  PROVE  Rest'
  <1> DEFINE r == <<p, "meta">>
  <1>0. Typed /\ Sound(p)
    BY DEF Inv
  <1>1. Runs(main, "done", r) /\ Fn("done", r) \in Tokens(p) /\ In(main, Fn("done", r))
    BY <1>0, TokensAre, HeadGoes DEF MetaDone, Typed, Parts
  <1>2. stage[<<p, "ker">>] = "idle"
    BY <1>0, <1>1 DEF Sound, SentOnce
  <1>3. CASE LoadKer(p) /\ UNCHANGED ran
    <2>1. UNCHANGED <<uri, calls, crowded, dir, temp, io>>
      BY DEF MetaDone
    <2>2. QED
      BY <1>1, <1>2, <1>3, <2>1, LoadsStep
  <1>4. CASE main' = Tail(main) /\ UNCHANGED <<stage, native>> /\ (EmitError(p) \/ UNCHANGED pkgs)
    <2>1. /\ ran' = ran
          /\ state' = state \/ state' = [state EXCEPT ![p] = "error"]
      BY <1>4 DEF EmitError, pkgs
    <2>2. /\ \A q \in Packages \ {p} : state'[q] = state[q]
          /\ state'[p] = state[p] \/ state'[p] = "error"
      BY <1>0, <2>1 DEF Typed
    <2>3. UNCHANGED <<uri, calls, crowded, dir, temp, stage, native, io, crashes, cut>>
      BY <1>4 DEF MetaDone, death
    <2>4. Loading(p)' => Loading(p)
      BY <2>1, <2>2, <2>3 DEF Loading
    <2>5. ran'[p] \in {"not", "whole"} \/ Path[p] \in crowded \cup cut
      BY <1>0, <2>1 DEF Sound, WholeComes
    <2>6. QED
      BY <1>1, <1>4, <2>1, <2>2, <2>3, <2>4, <2>5, TokenTaken
  <1>5. QED
    BY <1>3, <1>4 DEF MetaDone

LEMMA Joined ==
  ASSUME NEW S, NEW s \in Seq(S), NEW x \in S
  PROVE  s \o <<>> = s /\ s \o <<x>> = Append(s, x)
  OBVIOUS

LEMMA KerDoneStep ==
  ASSUME Inv, UNCHANGED death, NEW p \in Packages, KerDone(p)
  PROVE  Rest'
  <1> DEFINE r == <<p, "ker">>
             move == Fn("mkdir", r)
             remove == Fn("remove", r)
  <1>0. Typed /\ EmptyMoves /\ OneLoads /\ TaskKeeps /\ \A q \in Packages : Sound(q)
    BY DEF Inv
  <1>1. /\ Runs(main, "done", r) /\ main' = Tail(main)
        /\ UNCHANGED <<state, ran, uri, calls, crowded, dir, temp, stage, native, crashes, cut>>
    BY DEF KerDone, pkgs, death
  <1>2. /\ move \in Functions /\ remove \in Functions /\ Fn("done", r) \in Functions
        /\ move \in Tokens(p) /\ Fn("done", r) \in Tokens(p)
        /\ \A q \in Packages : remove \notin Tokens(q) /\ (q # p => move \notin Tokens(q))
    <2>1. r \in Requests /\ "ker" \in Parts
      BY RequestsAre DEF Parts
    <2>2. /\ move \in Functions /\ remove \in Functions /\ Fn("done", r) \in Functions
          /\ move \in Tokens(p) /\ Fn("done", r) \in Tokens(p)
          /\ \A q \in Packages : remove \notin Tokens(q)
      BY <2>1, TokensAre
    <2>3. QED
      BY <2>2, TokensApart
  <1>3. /\ In(main, Fn("done", r))
        /\ \A x : In(main', x) => In(main, x)
        /\ \A q \in Packages : Once(main', Tokens(q))
        /\ ~ Waits(main', Tokens(p))
    BY <1>0, <1>1, <1>2, HeadGoes DEF Typed, Sound, Alone
  <1>4. /\ ~ Waits(io, Tokens(p)) /\ p \in calls /\ Loading(p)
        /\ \A part \in Parts : ~ Fetching(<<p, part>>)
        /\ temp[r] = {"whole"}
    <2>1. Fn("done", r) # Fn("error", p)
      BY FnsDiffer
    <2>2. temp[r] = {"whole"}
      BY <1>0, <1>3 DEF Sound, WholeComes
    <2>3. QED
      BY <1>2, <1>3, <2>1, <2>2, TokenAlone
  <1> HIDE DEF move, remove
  <1>5. /\ \A x : In(io', x) => In(io, x) \/ x \in {move, remove}
        /\ \A x : In(io, x) => In(io', x)
        /\ \A q \in Packages : Once(io', Tokens(q))
    <2>1. io \in Seq(Functions) /\ \A q \in Packages : Once(io, Tokens(q))
      BY <1>0 DEF Typed, Sound, Alone
    <2>2. CASE io' = io
      BY <2>1, <2>2
    <2>3. CASE io' = io \o <<>> \o <<remove>>
      <3>1. io' = Append(io, remove)
        BY <1>2, <2>1, <2>3, Joined
      <3>2. QED
        BY <1>2, <2>1, <3>1, AppendIn
    <2>4. CASE io' = io \o <<move>> \o <<remove>>
      <3> DEFINE s == Append(io, move)
      <3>1. /\ s \in Seq(Functions)
            /\ \A x : In(s, x) <=> In(io, x) \/ x = move
            /\ \A q \in Packages : Once(s, Tokens(q))
        BY <1>2, <1>4, <2>1, AppendIn
      <3>2. io' = Append(s, remove)
        <4>1. io \o <<move>> = s
          BY <1>2, <2>1, Joined
        <4> HIDE DEF s
        <4>2. QED
          BY <1>2, <2>4, <3>1, <4>1, Joined
      <3> HIDE DEF s
      <3>3. QED
        BY <1>2, <3>1, <3>2, AppendIn
    <2>5. QED
      BY <2>2, <2>3, <2>4 DEF KerDone, move, remove
  <1>6. Sound(p)'
    <2>0. Path' = Path
      BY <1>0, <1>1, PathsAre
    <2>1. /\ \A x \in Tokens(p) : ~ In(main', x)
          /\ \A x \in Tokens(p) : In(io', x) => x = move
          /\ \A part \in Parts : ~ Fetching(<<p, part>>)'
      BY <1>1, <1>2, <1>3, <1>4, <1>5 DEF Waits, Fetching
    <2>2. Alone(p)'
      BY <1>3, <1>5, <2>1 DEF Alone, Waits, Parts
    <2>3. SentOnce(p)'
      BY <1>1, <1>4, <2>1, TokensAre DEF SentOnce, Parts
    <2>4. HoldersLoad(p)'
      BY <1>1, <1>4 DEF HoldersLoad, Loading
    <2>5. \A part \in Parts : /\ In(io', Fn("mkdir", <<p, part>>)) => part = "ker"
                              /\ ~ In(io', Fn("rename", <<p, part>>))
      BY <2>1, TokensAre, FnsDiffer DEF move
    <2>6. WholeComes(p)'
      BY <1>1, <1>0, <1>4, <2>0, <2>1, <2>5, TokensAre DEF WholeComes, Parts, Sound
    <2>7. QED
      BY <2>2, <2>3, <2>4, <2>6 DEF Sound
  <1>7. ASSUME NEW q \in Packages \ {p} PROVE Sound(q)'
    <2>1. Untouched(q)
      BY <1>1, <1>2, <1>3, <1>5 DEF Untouched
    <2>2. QED
      BY <1>0, <2>1, StaysSound
  <1>8. EmptyMoves'
    BY <1>0, <1>1, <1>5, EmptyStays
  <1>9. OneLoads'
    BY <1>0, <1>1, LoadersFew DEF Loading
  <1>10. TaskKeeps'
    BY <1>0, <1>1, <1>3, TasksStay
  <1>11. QED
    BY <1>6, <1>7, <1>8, <1>9, <1>10 DEF Rest

LEMMA OpenStep ==
  ASSUME Inv, UNCHANGED death, NEW p \in Packages, Open(p)
  PROVE  Rest'
  <1> DEFINE f == Fn("open", p)
  <1>0. Typed /\ EmptyMoves /\ OneLoads /\ TaskKeeps /\ \A q \in Packages : Sound(q)
    BY DEF Inv
  <1>1. /\ p \notin calls /\ calls' = calls \cup {p} /\ main' = Append(main, f)
        /\ crowded' = crowded \cup {Path[q] : q \in {q \in Packages :
                                                 Loading(q) /\ Path[q] = Path[p]}}
        /\ UNCHANGED <<state, ran, uri, dir, temp, stage, native, io, crashes, cut>>
    BY DEF Open, pkgs, death
  <1>2. /\ f \in Functions /\ f \in Tokens(p)
        /\ \A q \in Packages : q # p => f \notin Tokens(q)
    BY TokensAre, TokensApart
  <1>3. /\ ~ Waits(main, Tokens(p)) /\ ~ Waits(io, Tokens(p))
        /\ \A part \in Parts : stage[<<p, part>>] = "idle"
        /\ ran[p] = "not" /\ state[p] = "none"
    BY <1>0, <1>1 DEF Sound, SentOnce
  <1>4. /\ \A x : In(main', x) => In(main, x) \/ x = f
        /\ \A q \in Packages : Once(main', Tokens(q)) /\ Once(io', Tokens(q))
    <2>1. /\ main \in Seq(Functions)
          /\ \A q \in Packages : Once(main, Tokens(q)) /\ Once(io', Tokens(q))
      BY <1>0, <1>1 DEF Typed, Sound, Alone
    <2>2. \A q \in Packages : f \notin Tokens(q) \/ ~ Waits(main, Tokens(q))
      BY <1>2, <1>3
    <2> HIDE DEF f
    <2>3. QED
      BY <1>1, <1>2, <2>1, <2>2, AppendIn
  <1>5. Sound(p)'
    <2>0. Path' = Path
      BY <1>0, <1>1, PathsAre
    <2>1. /\ \A x \in Tokens(p) : In(main', x) => x = f
          /\ \A x \in Tokens(p) : ~ In(io', x)
          /\ \A part \in Parts : ~ Fetching(<<p, part>>)'
      BY <1>1, <1>3, <1>4 DEF Waits, Fetching
    <2>2. Alone(p)'
      BY <1>4, <2>1 DEF Alone, Waits, Parts
    <2>3. SentOnce(p)'
      <3>1. \A part \in Parts : Fn("done", <<p, part>>) # f
        BY FnsDiffer
      <3>2. QED
        BY <1>1, <1>3, <2>1, <3>1, TokensAre DEF SentOnce, Parts
    <2>4. HoldersLoad(p)'
      BY <1>1, <1>3 DEF HoldersLoad, Loading
    <2>5. WholeComes(p)'
      <3>1. /\ \A part \in Parts : Fn("done", <<p, part>>) # f
            /\ Fn("moved", p) # f /\ Fn("load", p) # f
        BY FnsDiffer
      <3>2. QED
        BY <1>1, <1>3, <2>0, <2>1, <3>1, TokensAre DEF WholeComes, Parts
    <2>6. QED
      BY <2>2, <2>3, <2>4, <2>5 DEF Sound
  <1>6. ASSUME NEW q \in Packages \ {p} PROVE Sound(q)'
    <2>1. Untouched(q)
      BY <1>1, <1>2, <1>4 DEF Untouched
    <2>2. QED
      BY <1>0, <2>1, StaysSound
  <1>7. EmptyMoves'
    BY <1>0, <1>1, EmptyStays
  <1>8. OneLoads'
    <2>1. \A q \in Packages : Path'[q] = Path[q] /\ (q # p => (Loading(q)' => Loading(q)))
      BY <1>0, <1>1, PathsAre DEF Loading
    <2>2. ASSUME NEW a \in Packages, NEW b \in Packages, Loading(a)', Loading(b)', a # b,
                 Path[a] = Path[b], Path[a] \notin crowded'
          PROVE  FALSE
      <3>1. CASE a # p /\ b # p
        BY <1>0, <1>1, <2>1, <2>2, <3>1 DEF OneLoads
      <3>2. CASE a = p
        BY <1>1, <2>1, <2>2, <3>2
      <3>3. CASE b = p
        BY <1>1, <2>1, <2>2, <3>3
      <3>4. QED
        BY <3>1, <3>2, <3>3
    <2>3. QED
      BY <2>1, <2>2 DEF OneLoads
  <1>9. TaskKeeps'
    <2>1. \A r \in Requests : Fn("release", r) # f
      BY FnsDiffer
    <2>2. QED
      BY <1>0, <1>1, <1>4, <2>1, TasksStay
  <1>10. QED
    BY <1>5, <1>6, <1>7, <1>8, <1>9 DEF Rest

LEMMA DropStep ==
  ASSUME Inv, UNCHANGED death, NEW p \in Packages, Drop(p)
  PROVE  Rest'
  <1>0. Typed /\ EmptyMoves /\ OneLoads /\ TaskKeeps /\ \A q \in Packages : Sound(q)
    BY DEF Inv
  <1>1. UNCHANGED <<state, ran, uri, calls, crowded, dir, temp, stage, native, main, io,
                    crashes, cut>>
    BY DEF Drop, death
  <1>2. ASSUME NEW q \in Packages PROVE Sound(q)'
    BY <1>0, <1>1, StaysSound DEF Untouched, Sound, Alone
  <1>3. QED
    BY <1>0, <1>1, <1>2, EmptyStays, LoadersFew, TasksStay DEF Rest, Loading

-----------------------------------------------------------------------------
(***************************************************************************)
(* The platform's tasks and the IO queue.                                  *)
(***************************************************************************)

\* What is common to the steps of a task: the stage of a request changes, its
\* file may, and a function is put into the main queue.
LEMMA TaskStep ==
  ASSUME Inv, NEW r \in Requests, NEW p \in Packages, NEW part \in Parts, r = <<p, part>>,
         NEW new \in Functions, uri' = uri, main' = main \/ main' = Append(main, new),
         UNCHANGED <<state, ran, calls, crowded, dir, native, io, crashes, cut>>,
         \A q \in Packages \ {p} : new \notin Tokens(q),
         \A s \in Requests \ {r} : stage'[s] = stage[s] /\ temp'[s] = temp[s],
         stage[r] \in {"sent", "received", "answered"},
         stage'[r] \in {"received", "answered", "over"},
         \A s \in Requests : new = Fn("release", s) => s = r /\ stage'[r] = "over",
         Sound(p)'
  PROVE  Rest'
  <1>0. Typed /\ EmptyMoves /\ OneLoads /\ TaskKeeps /\ \A q \in Packages : Sound(q)
    BY DEF Inv
  <1>1. /\ \A x : In(main', x) => In(main, x) \/ x = new
        /\ \A T : Once(main, T) /\ new \notin T => Once(main', T)
    <2>1. main \in Seq(Functions)
      BY <1>0 DEF Typed
    <2>2. CASE main' = main
      BY <2>2
    <2>3. CASE main' = Append(main, new)
      BY <2>1, <2>3, AppendIn
    <2>4. QED
      BY <2>2, <2>3
  <1>2. ASSUME NEW q \in Packages \ {p} PROVE Sound(q)'
    <2>1. Once(main, Tokens(q)) /\ Once(io, Tokens(q))
      BY <1>0 DEF Sound, Alone
    <2>2. Once(main', Tokens(q))
      BY <1>1, <2>1
    <2>3. \A x \in Parts : stage'[<<q, x>>] = stage[<<q, x>>] /\ temp'[<<q, x>>] = temp[<<q, x>>]
      BY RequestsAre
    <2>4. Untouched(q)
      BY <1>1, <2>1, <2>2, <2>3 DEF Untouched
    <2>5. QED
      BY <1>0, <2>4, StaysSound
  <1>3. EmptyMoves'
    BY <1>0, EmptyStays
  <1>4. OneLoads'
    BY <1>0, LoadersFew DEF Loading
  <1>5. TaskKeeps'
    <2>1. ~ In(main, Fn("release", r)) /\ native[r] = 1
      BY <1>0 DEF TaskKeeps
    <2>2. ASSUME NEW s \in Requests
          PROVE  /\ stage'[s] \in {"sent", "received", "answered"} => native'[s] = 1
                 /\ In(main', Fn("release", s)) => stage'[s] = "over"
      BY <1>0, <1>1, <2>1 DEF TaskKeeps
    <2>3. QED
      BY <2>2 DEF TaskKeeps
  <1>6. QED
    BY <1>2, <1>3, <1>4, <1>5 DEF Rest

\* While a part is fetched its package has no other token.
LEMMA FetchingAlone ==
  ASSUME Inv, NEW p \in Packages, NEW part \in Parts, Fetching(<<p, part>>)
  PROVE  /\ \A x \in Tokens(p) : ~ In(main, x) /\ ~ In(io, x)
         /\ Once(main, Tokens(p)) /\ Once(io, Tokens(p))
         /\ \A x \in Parts : x # part => ~ Fetching(<<p, x>>)
         /\ p \in calls /\ Loading(p)
         /\ part = "meta" => stage[<<p, "ker">>] = "idle"
  <1>1. stage[<<p, part>>] # "idle"
    BY DEF Fetching
  <1>2. QED
    BY <1>1 DEF Inv, Sound, Alone, SentOnce, HoldersLoad, Waits, Parts

LEMMA NativeStepKeeps ==
  ASSUME Inv, NEW r \in Requests, NativeStep(r)
  PROVE  Rest'
  <1>0. Typed /\ \A q \in Packages : Sound(q)
    BY DEF Inv
  <1>1. PICK p \in Packages, part \in Parts : r = <<p, part>>
    BY DEF Requests, Parts
  <1>2. Path' = Path /\ uri' = uri
    BY <1>0, PathsAre DEF NativeStep, Receive, Fail, Done, Complete
  <1>3. /\ UNCHANGED <<state, ran, calls, crowded, dir, native, io, crashes, cut>>
        /\ stage[r] \in {"sent", "received", "answered"}
        /\ \E s \in {"received", "answered", "over"} : stage' = [stage EXCEPT ![r] = s]
        /\ temp' = temp \/ \E files : temp' = [temp EXCEPT ![r] = files]
    BY DEF NativeStep, Receive, Fail, Done, Complete, Unzip, pkgs, death
  <1>4. /\ stage'[r] \in {"received", "answered", "over"}
        /\ \A s \in Requests \ {r} : stage'[s] = stage[s] /\ temp'[s] = temp[s]
    BY <1>0, <1>3 DEF Typed
  <1>5. \A x \in Parts : x # part => stage'[<<p, x>>] = stage[<<p, x>>]
    BY <1>1, <1>4, RequestsAre
  <1>6. CASE Receive(r)
    <2>1. main' = main /\ stage[r] = "sent" /\ stage'[r] = "received"
      BY <1>0, <1>6 DEF Receive, Typed
    <2>2. Fetching(r) /\ \A x \in Parts : Fetching(<<p, x>>)' <=> Fetching(<<p, x>>)
      BY <1>1, <1>5, <2>1 DEF Fetching
    <2>3. Sound(p)'
      <3>1. Alone(p)'
        BY <1>0, <1>3, <2>1, <2>2 DEF Alone, Sound, Parts
      <3>2. SentOnce(p)'
        BY <1>0, <1>1, <1>3, <1>5, <2>1, <2>2, FetchingAlone, TokensAre DEF SentOnce, Parts
      <3>3. HoldersLoad(p)'
        BY <1>1, <1>3, <2>2, FetchingAlone DEF HoldersLoad, Loading
      <3>4. WholeComes(p)'
        BY <1>0, <1>1, <1>2, <1>3, <2>1, <2>2, FetchingAlone, TokensAre
           DEF WholeComes, Parts, Sound
      <3>5. QED
        BY <3>1, <3>2, <3>3, <3>4 DEF Sound
    <2>4. Fn("remove", r) \in Functions /\ \A q \in Packages \ {p} : Fn("remove", r) \notin Tokens(q)
      BY TokensAre
    <2>5. \A s \in Requests : Fn("remove", r) # Fn("release", s)
      BY FnsDiffer
    <2>6. QED
      BY <1>1, <1>2, <1>3, <1>4, <2>1, <2>3, <2>4, <2>5, TaskStep
  <1>7. CASE Fail(r) \/ Done(r)
    <2>1. PICK op \in {"done", "failed"} :
            /\ main' = Append(main, Fn(op, r))
            /\ op = "done" /\ part = "ker" => temp'[r] = {"whole"}
      <3>1. CASE Fail(r)
        BY <3>1 DEF Fail
      <3>2. CASE Done(r)
        BY <1>0, <1>1, <3>2 DEF Done, Unzip, Typed
      <3>3. QED
        BY <1>7, <3>1, <3>2
    <2>2. Fetching(r) /\ stage'[r] = "answered"
      BY <1>0, <1>7 DEF Fail, Done, Fetching, Typed
    <2>3. Fn(op, r) \in Functions /\ Fn(op, r) \in Tokens(p)
      BY <1>1, TokensAre
    <2>4. /\ \A x \in Tokens(p) : In(main', x) => x = Fn(op, r)
          /\ \A x \in Tokens(p) : ~ In(io', x)
          /\ Once(main', Tokens(p)) /\ Once(io', Tokens(p))
          /\ p \in calls /\ Loading(p)
      <3>1. /\ \A x \in Tokens(p) : ~ In(main, x) /\ ~ In(io, x)
            /\ Once(main, Tokens(p)) /\ Once(io, Tokens(p))
            /\ p \in calls /\ Loading(p)
        BY <1>1, <2>2, FetchingAlone
      <3>2. main \in Seq(Functions)
        BY <1>0 DEF Typed
      <3>3. QED
        BY <1>3, <2>1, <2>3, <3>1, <3>2, AppendIn DEF Waits
    <2>5. \A x \in Parts : ~ Fetching(<<p, x>>)'
      <3>1. \A x \in Parts : x # part => ~ Fetching(<<p, x>>)
        BY <1>1, <2>2, FetchingAlone
      <3>2. QED
        BY <1>1, <1>5, <2>2, <3>1 DEF Fetching
    <2>6. Sound(p)'
      <3>1. Alone(p)'
        BY <2>4, <2>5 DEF Alone, Waits, Parts
      <3>2. SentOnce(p)'
        <4>1. Fn("open", p) # Fn(op, r)
          BY FnsDiffer
        <4>2. Fn("done", <<p, "meta">>) = Fn(op, r) => part = "meta"
          BY <1>1, FnsDiffer
        <4>3. part = "meta" => stage'[<<p, "ker">>] = "idle"
          BY <1>1, <1>5, <2>2, FetchingAlone DEF Parts
        <4>4. QED
          BY <1>3, <2>4, <2>5, <4>1, <4>2, <4>3, TokensAre DEF SentOnce, Parts
      <3>3. HoldersLoad(p)'
        BY <1>3, <2>4 DEF HoldersLoad, Loading
      <3>4. WholeComes(p)'
        <4>1. Fn("done", <<p, "ker">>) = Fn(op, r) => op = "done" /\ part = "ker"
          BY <1>1, FnsDiffer
        <4>2. Fn("moved", p) # Fn(op, r) /\ Fn("load", p) # Fn(op, r)
          BY FnsDiffer
        <4>3. ran'[p] = "not"
          BY <1>3, <2>4 DEF Loading
        <4>4. QED
          BY <1>1, <1>2, <2>1, <2>4, <4>1, <4>2, <4>3, TokensAre DEF WholeComes, Parts
      <3>5. QED
        BY <3>1, <3>2, <3>3, <3>4 DEF Sound
    <2>7. \A q \in Packages \ {p} : Fn(op, r) \notin Tokens(q)
      BY <2>3, TokensApart
    <2>8. \A s \in Requests : Fn(op, r) # Fn("release", s)
      BY FnsDiffer
    <2> DEFINE new == Fn(op, r)
    <2>9. /\ new \in Functions /\ main' = Append(main, new)
          /\ \A q \in Packages \ {p} : new \notin Tokens(q)
          /\ \A s \in Requests : new # Fn("release", s)
      BY <2>1, <2>3, <2>7, <2>8
    <2>10. /\ UNCHANGED <<state, ran, calls, crowded, dir, native, io, crashes, cut>>
           /\ stage[r] \in {"sent", "received", "answered"}
      BY <1>3
    <2> HIDE DEF new
    <2>11. QED
      BY <1>1, <1>2, <1>4, <2>6, <2>9, <2>10, TaskStep
  <1>8. CASE Complete(r)
    <2>1. /\ main' = Append(main, Fn("release", r)) /\ temp' = temp
          /\ stage[r] = "answered" /\ stage'[r] = "over"
      BY <1>0, <1>8 DEF Complete, Typed
    <2>2. /\ Fn("release", r) \in Functions
          /\ \A q \in Packages : Fn("release", r) \notin Tokens(q)
      BY TokensAre
    <2>3. /\ \A q \in Packages : \A x \in Tokens(q) : In(main', x) => In(main, x)
          /\ Once(main', Tokens(p)) /\ Once(io, Tokens(p))
      <3>1. /\ main \in Seq(Functions)
            /\ \A q \in Packages : Once(main, Tokens(q)) /\ Once(io, Tokens(q))
        BY <1>0 DEF Typed, Sound, Alone
      <3>2. QED
        BY <2>1, <2>2, <3>1, AppendIn
    <2>4. \A x \in Parts : /\ Fetching(<<p, x>>)' <=> Fetching(<<p, x>>)
                           /\ stage'[<<p, x>>] = "idle" <=> stage[<<p, x>>] = "idle"
      BY <1>1, <1>5, <2>1 DEF Fetching
    <2>5. Waits(main', Tokens(p)) => Waits(main, Tokens(p))
      BY <2>3 DEF Waits
    <2>6. Sound(p)'
      <3>1. Alone(p)'
        BY <1>0, <1>3, <2>3, <2>4, <2>5 DEF Alone, Sound, Parts
      <3>2. SentOnce(p)'
        BY <1>0, <1>3, <2>3, <2>4, <2>5, TokensAre DEF SentOnce, Sound, Parts
      <3>3. HoldersLoad(p)'
        BY <1>0, <1>3, <2>3, <2>4 DEF HoldersLoad, Sound, Loading
      <3>4. WholeComes(p)'
        BY <1>0, <1>2, <1>3, <2>1, <2>3, TokensAre DEF WholeComes, Sound, Parts
      <3>5. QED
        BY <3>1, <3>2, <3>3, <3>4 DEF Sound
    <2>7. \A s \in Requests : Fn("release", r) = Fn("release", s) => s = r
      BY FnsDiffer
    <2> DEFINE new == Fn("release", r)
    <2>8. /\ new \in Functions /\ main' = Append(main, new)
          /\ \A q \in Packages \ {p} : new \notin Tokens(q)
          /\ \A s \in Requests : new = Fn("release", s) => s = r /\ stage'[r] = "over"
      BY <2>1, <2>2, <2>7
    <2>9. /\ UNCHANGED <<state, ran, calls, crowded, dir, native, io, crashes, cut>>
          /\ stage[r] \in {"sent", "received", "answered"}
      BY <1>3
    <2> HIDE DEF new
    <2>10. QED
      BY <1>1, <1>2, <1>4, <2>6, <2>8, <2>9, TaskStep
  <1>9. QED
    BY <1>6, <1>7, <1>8 DEF NativeStep

LEMMA MakeDirStep ==
  ASSUME Inv, UNCHANGED death, NEW r \in Requests, MakeDir(r)
  PROVE  Rest'
  <1> DEFINE f == Fn("rename", r)
  <1>0. Typed /\ EmptyMoves /\ OneLoads /\ TaskKeeps /\ \A q \in Packages : Sound(q)
    BY DEF Inv
  <1>1. PICK p \in Packages, part \in Parts : r = <<p, part>> /\ r[1] = p
    BY DEF Requests, Parts
  <1>2. /\ Runs(io, "mkdir", r) /\ io' = <<f>> \o Tail(io)
        /\ dir' = [dir EXCEPT ![Path[p]] = IF @ = "absent" THEN "empty" ELSE @]
        /\ UNCHANGED <<state, ran, uri, calls, crowded, temp, stage, native, main, crashes, cut>>
    BY <1>1 DEF MakeDir, pkgs, death
  <1>3. Path[p] \in Paths /\ Path' = Path
    BY <1>0, <1>2, PathsAre
  <1>4. /\ dir'[Path[p]] # "absent"
        /\ dir'[Path[p]] = dir[Path[p]] \/ (dir[Path[p]] = "absent" /\ dir'[Path[p]] = "empty")
        /\ \A d \in Paths \ {Path[p]} : dir'[d] = dir[d]
    BY <1>0, <1>2, <1>3 DEF Typed
  <1>5. /\ f \in Functions /\ Fn("mkdir", r) \in Functions
        /\ f \in Tokens(p) /\ Fn("mkdir", r) \in Tokens(p)
        /\ \A q \in Packages \ {p} : f \notin Tokens(q)
    BY <1>1, TokensAre, TokensApart
  <1>6. /\ In(io, Fn("mkdir", r))
        /\ \A x : In(io', x) => In(io, x) \/ x = f
        /\ \A x : In(io, x) /\ x # Fn("mkdir", r) => In(io', x)
        /\ In(io', f)
        /\ \A x \in Tokens(p) : In(io', x) => x = f
        /\ \A q \in Packages : Once(io', Tokens(q)) /\ Once(main, Tokens(q))
    <2>1. /\ io \in Seq(Functions)
          /\ \A q \in Packages : Once(io, Tokens(q)) /\ Once(main, Tokens(q))
      BY <1>0 DEF Typed, Sound, Alone
    <2> DEFINE s == Tail(io)
    <2>2. /\ s \in Seq(Functions) /\ In(io, Fn("mkdir", r))
          /\ \A x : In(s, x) => In(io, x)
          /\ \A x : In(io, x) /\ x # Fn("mkdir", r) => In(s, x)
          /\ \A q \in Packages : Once(s, Tokens(q))
          /\ ~ Waits(s, Tokens(p))
      BY <1>2, <1>5, <2>1, HeadGoes
    <2>3. io' = <<f>> \o s
      BY <1>2
    <2> HIDE DEF s, f
    <2>4. /\ \A x : In(io', x) <=> In(s, x) \/ x = f
          /\ \A q \in Packages : Once(io', Tokens(q))
      BY <1>5, <2>2, <2>3, PushIn
    <2>5. QED
      BY <2>1, <2>2, <2>4 DEF Waits
  <1>7. /\ temp[r] = {"whole"} /\ p \in calls /\ Loading(p)
        /\ \A x \in Tokens(p) : ~ In(main, x)
        /\ \A x \in Parts : ~ Fetching(<<p, x>>)
    <2>1. Fn("mkdir", r) # Fn("error", p)
      BY FnsDiffer
    <2>2. temp[r] = {"whole"}
      BY <1>6, MovesWhole
    <2>3. QED
      BY <1>0, <1>5, <1>6, <2>1, <2>2 DEF Sound, Alone, SentOnce, HoldersLoad, Waits
  <1>8. Sound(p)'
    <2>1. Alone(p)'
      BY <1>2, <1>6, <1>7 DEF Alone, Waits, Fetching, Parts
    <2>2. SentOnce(p)'
      BY <1>2, <1>7, TokensAre DEF SentOnce, Fetching, Parts
    <2>3. HoldersLoad(p)'
      BY <1>2, <1>7 DEF HoldersLoad, Loading
    <2>4. WholeComes(p)'
      <3>1. \A x \in Parts : /\ ~ In(io', Fn("mkdir", <<p, x>>))
                             /\ In(io', Fn("rename", <<p, x>>)) => <<p, x>> = r
        BY <1>6, TokensAre, FnsDiffer
      <3>2. \A x \in Tokens(p) : ~ In(main', x)
        BY <1>2, <1>7
      <3>3. ran'[p] = "not"
        BY <1>2, <1>7 DEF Loading
      <3>4. QED
        BY <1>2, <1>3, <1>4, <1>7, <3>1, <3>2, <3>3, TokensAre DEF WholeComes, Parts
    <2>5. QED
      BY <2>1, <2>2, <2>3, <2>4 DEF Sound
  <1>9. ASSUME NEW q \in Packages \ {p} PROVE Sound(q)'
    <2>1. dir'[Path[q]] = dir[Path[q]] \/ (dir[Path[q]] # "whole" /\ dir'[Path[q]] # "absent")
      BY <1>0, <1>4, PathsAre
    <2>2. Untouched(q)
      BY <1>2, <1>5, <1>6, <2>1 DEF Untouched
    <2>3. QED
      BY <1>0, <2>2, StaysSound
  <1>10. EmptyMoves'
    <2>1. ASSUME NEW d \in Paths
          PROVE  /\ dir'[d] # "torn"
                 /\ dir'[d] = "empty" =>
                      d \in cut' \/ \E s \in Requests : Path'[s[1]] = d /\ In(io', Fn("rename", s))
      <3>1. CASE d = Path[p]
        BY <1>0, <1>1, <1>3, <1>4, <1>6, <3>1 DEF EmptyMoves
      <3>2. CASE d # Path[p]
        <4>1. \A s \in Requests : In(io, Fn("rename", s)) => In(io', Fn("rename", s))
          BY <1>6, FnsDiffer
        <4>2. QED
          BY <1>0, <1>2, <1>3, <1>4, <3>2, <4>1 DEF EmptyMoves
      <3>3. QED
        BY <3>1, <3>2
    <2>2. QED
      BY <2>1 DEF EmptyMoves
  <1>11. OneLoads'
    BY <1>0, <1>2, LoadersFew DEF Loading
  <1>12. TaskKeeps'
    BY <1>0, <1>2, TasksStay
  <1>13. QED
    BY <1>8, <1>9, <1>10, <1>11, <1>12 DEF Rest

LEMMA RenameStep ==
  ASSUME Inv, UNCHANGED death, NEW r \in Requests, Rename(r)
  PROVE  Rest'
  <1>0. Typed /\ EmptyMoves /\ OneLoads /\ TaskKeeps /\ \A q \in Packages : Sound(q)
    BY DEF Inv
  <1>1. PICK p \in Packages, part \in Parts : r = <<p, part>> /\ r[1] = p
    BY DEF Requests, Parts
  <1> DEFINE f == Fn("moved", p)
  <1>2. /\ Runs(io, "rename", r) /\ io' = Tail(io) /\ main' = Append(main, f)
        /\ UNCHANGED <<state, ran, uri, calls, crowded, stage, native, crashes, cut>>
    BY <1>1 DEF Rename, pkgs, death
  <1>3. Path[p] \in Paths /\ Path' = Path
    BY <1>0, <1>2, PathsAre
  <1>4. /\ f \in Functions /\ Fn("rename", r) \in Functions
        /\ f \in Tokens(p) /\ Fn("rename", r) \in Tokens(p)
        /\ \A q \in Packages \ {p} : f \notin Tokens(q)
    BY <1>1, TokensAre, TokensApart
  <1>5. /\ In(io, Fn("rename", r))
        /\ \A x : In(io', x) => In(io, x)
        /\ \A x : In(io, x) /\ x # Fn("rename", r) => In(io', x)
        /\ \A x \in Tokens(p) : ~ In(io', x)
        /\ \A q \in Packages : Once(io', Tokens(q)) /\ Once(main, Tokens(q))
    <2>1. /\ io \in Seq(Functions)
          /\ \A q \in Packages : Once(io, Tokens(q)) /\ Once(main, Tokens(q))
      BY <1>0 DEF Typed, Sound, Alone
    <2>2. QED
      BY <1>2, <1>4, <2>1, HeadGoes DEF Waits
  <1>6. /\ temp[r] = {"whole"} /\ dir[Path[p]] # "absent" /\ p \in calls /\ Loading(p)
        /\ \A x \in Tokens(p) : ~ In(main, x)
        /\ \A x \in Parts : ~ Fetching(<<p, x>>)
    <2>1. Fn("rename", r) # Fn("error", p)
      BY FnsDiffer
    <2>2. temp[r] = {"whole"} /\ dir[Path[p]] # "absent"
      BY <1>0, <1>1, <1>5 DEF Sound, WholeComes
    <2>3. QED
      BY <1>0, <1>4, <1>5, <2>1, <2>2 DEF Sound, Alone, SentOnce, HoldersLoad, Waits
  <1>7. /\ \A x \in Tokens(p) : In(main', x) => x = f
        /\ \A x : In(main', x) => In(main, x) \/ x = f
        /\ \A q \in Packages : Once(main', Tokens(q))
    <2>1. main \in Seq(Functions) /\ \A q \in Packages : f \notin Tokens(q) \/ ~ Waits(main, Tokens(q))
      BY <1>0, <1>4, <1>6 DEF Typed, Waits
    <2> HIDE DEF f
    <2>2. QED
      BY <1>2, <1>4, <1>5, <1>6, <2>1, AppendIn
  <1>8. /\ dir'[Path[p]] = "whole"
        /\ dir'[Path[p]] = dir[Path[p]] \/ dir[Path[p]] # "whole"
        /\ \A d \in Paths \ {Path[p]} : dir'[d] = dir[d]
        /\ \A s \in Requests \ {r} : temp'[s] = temp[s]
    <2>1. CASE Renames(r)
      <3>1. dir' = [dir EXCEPT ![Path[p]] = "whole"] /\ temp' = [temp EXCEPT ![r] = {}]
            /\ dir[Path[p]] = "empty"
        BY <1>1, <1>6, <2>1 DEF Rename, Renames
      <3>2. QED
        BY <1>0, <1>3, <3>1 DEF Typed
    <2>2. CASE ~ Renames(r)
      <3>1. UNCHANGED <<dir, temp>> /\ dir[Path[p]] # "empty"
        BY <1>1, <1>6, <2>2 DEF Rename, Renames
      <3>2. dir[Path[p]] = "whole"
        BY <1>0, <1>3, <1>6, <3>1 DEF EmptyMoves, Typed
      <3>3. QED
        BY <3>1, <3>2
    <2>3. QED
      BY <2>1, <2>2
  <1> HIDE DEF f
  <1>9. Sound(p)'
    <2>1. Alone(p)'
      BY <1>2, <1>5, <1>6, <1>7 DEF Alone, Waits, Fetching, Parts
    <2>2. SentOnce(p)'
      <3>1. Fn("open", p) # f /\ Fn("done", <<p, "meta">>) # f
        BY FnsDiffer DEF f
      <3>2. QED
        BY <1>2, <1>6, <1>7, <3>1, TokensAre DEF SentOnce, Fetching, Parts
    <2>3. HoldersLoad(p)'
      BY <1>2, <1>6 DEF HoldersLoad, Loading
    <2>4. WholeComes(p)'
      <3>1. Fn("done", <<p, "ker">>) # f
        BY FnsDiffer DEF f
      <3>2. ran'[p] = "not"
        BY <1>2, <1>6 DEF Loading
      <3>3. QED
        BY <1>3, <1>5, <1>7, <1>8, <3>1, <3>2, TokensAre DEF WholeComes, Parts
    <2>5. QED
      BY <2>1, <2>2, <2>3, <2>4 DEF Sound
  <1>10. ASSUME NEW q \in Packages \ {p} PROVE Sound(q)'
    <2>1. dir'[Path[q]] = dir[Path[q]] \/ (dir[Path[q]] # "whole" /\ dir'[Path[q]] # "absent")
      BY <1>0, <1>8, PathsAre
    <2>2. \A x \in Parts : temp'[<<q, x>>] = temp[<<q, x>>]
      BY <1>1, <1>8, RequestsAre
    <2>3. Untouched(q)
      BY <1>2, <1>4, <1>5, <1>7, <2>1, <2>2 DEF Untouched
    <2>4. QED
      BY <1>0, <2>3, StaysSound
  <1>11. EmptyMoves'
    <2>1. ASSUME NEW d \in Paths
          PROVE  /\ dir'[d] # "torn"
                 /\ dir'[d] = "empty" =>
                      d \in cut' \/ \E s \in Requests : Path'[s[1]] = d /\ In(io', Fn("rename", s))
      <3>1. CASE d = Path[p]
        BY <1>8, <3>1
      <3>2. CASE d # Path[p]
        <4>1. \A s \in Requests : In(io, Fn("rename", s)) /\ Path[s[1]] = d => In(io', Fn("rename", s))
          BY <1>1, <1>5, <3>2, FnsDiffer
        <4>2. QED
          BY <1>0, <1>2, <1>3, <1>8, <3>2, <4>1 DEF EmptyMoves
      <3>3. QED
        BY <3>1, <3>2
    <2>2. QED
      BY <2>1 DEF EmptyMoves
  <1>12. OneLoads'
    BY <1>0, <1>2, LoadersFew DEF Loading
  <1>13. TaskKeeps'
    <2>1. \A s \in Requests : Fn("release", s) # f
      BY FnsDiffer DEF f
    <2>2. QED
      BY <1>0, <1>2, <1>7, <2>1, TasksStay
  <1>14. QED
    BY <1>9, <1>10, <1>11, <1>12, <1>13 DEF Rest

LEMMA RemoveStep ==
  ASSUME Inv, UNCHANGED death, NEW r \in Requests, Remove(r)
  PROVE  Rest'
  <1>0. Typed /\ EmptyMoves /\ OneLoads /\ TaskKeeps /\ \A q \in Packages : Sound(q)
    BY DEF Inv
  <1>1. /\ Runs(io, "remove", r) /\ io' = Tail(io)
        /\ UNCHANGED <<state, ran, uri, calls, crowded, dir, temp, stage, native, main, crashes, cut>>
    BY DEF Remove, pkgs, death
  <1>2. /\ \A x : In(io', x) => In(io, x)
        /\ \A x : In(io, x) /\ x # Fn("remove", r) => In(io', x)
        /\ \A q \in Packages : Once(io', Tokens(q)) /\ Once(main', Tokens(q))
    <2>1. /\ io \in Seq(Functions)
          /\ \A q \in Packages : Once(io, Tokens(q)) /\ Once(main, Tokens(q))
      BY <1>0 DEF Typed, Sound, Alone
    <2>2. QED
      BY <1>1, <2>1, HeadGoes
  <1>3. ASSUME NEW q \in Packages PROVE Sound(q)'
    <2>1. Untouched(q)
      BY <1>1, <1>2 DEF Untouched
    <2>2. QED
      BY <1>0, <2>1, StaysSound
  <1>4. \A s \in Requests : In(io, Fn("rename", s)) => In(io', Fn("rename", s))
    BY <1>2, FnsDiffer
  <1>5. QED
    BY <1>0, <1>1, <1>3, <1>4, EmptyStays, LoadersFew, TasksStay DEF Rest, Loading

LEMMA CrashStep ==
  ASSUME Inv, Crash
  PROVE  Rest'
  <1>0. Typed /\ EmptyMoves
    BY DEF Inv
  <1>1. /\ main' = <<>> /\ io' = <<>> /\ calls' = {} /\ UNCHANGED <<uri, dir>>
        /\ cut' = cut \cup {d \in Paths : dir[d] = "empty"}
        /\ \A r \in Requests : stage'[r] = "idle"
        /\ \A p \in Packages : ran'[p] = "not" /\ state'[p] = "none"
    BY DEF Crash, Started
  <1>2. /\ \A x : ~ In(main', x) /\ ~ In(io', x)
        /\ \A T : Once(main', T) /\ Once(io', T) /\ ~ Waits(main', T) /\ ~ Waits(io', T)
    BY <1>1, NoneIn
  <1>3. ASSUME NEW p \in Packages PROVE Sound(p)'
    <2>1. \A part \in Parts : stage'[<<p, part>>] = "idle" /\ ~ Fetching(<<p, part>>)'
      BY <1>1, RequestsAre DEF Fetching
    <2>2. Alone(p)'
      BY <1>2, <2>1 DEF Alone, Parts
    <2>3. SentOnce(p)'
      BY <1>1, <1>2, <2>1 DEF SentOnce, Parts
    <2>4. HoldersLoad(p)'
      BY <1>2, <2>1 DEF HoldersLoad
    <2>5. WholeComes(p)'
      BY <1>1, <1>2 DEF WholeComes
    <2>6. QED
      BY <2>2, <2>3, <2>4, <2>5 DEF Sound
  <1>4. EmptyMoves'
    BY <1>0, <1>1 DEF EmptyMoves
  <1>5. OneLoads' /\ TaskKeeps'
    BY <1>1, <1>2 DEF OneLoads, TaskKeeps, Loading
  <1>6. QED
    BY <1>3, <1>4, <1>5 DEF Rest

LEMMA InvStep ==
  ASSUME Inv, [Next]_vars
  PROVE  Inv'
  <1>1. Typed'
    BY TypedStep
  <1>2. Rest'
    <2>1. CASE UNCHANGED vars
      <3>0. Typed /\ EmptyMoves /\ OneLoads /\ TaskKeeps /\ \A q \in Packages : Sound(q)
        BY DEF Inv
      <3>1. UNCHANGED <<state, ran, uri, calls, crowded, dir, temp, stage, native, main, io, cut>>
        BY <2>1 DEF vars
      <3>2. ASSUME NEW q \in Packages PROVE Sound(q)'
        BY <3>0, <3>1, StaysSound DEF Untouched, Sound, Alone
      <3>3. QED
        BY <3>0, <3>1, <3>2, EmptyStays, LoadersFew, TasksStay DEF Rest, Loading
    <2>2. CASE UNCHANGED death /\ \E p \in Packages : Open(p) \/ Drop(p)
      BY <2>2, OpenStep, DropStep
    <2>3. CASE MainStep
      BY <2>3, ConstructStep, EndsStep, MetaDoneStep, KerDoneStep, FailedStep, ReleaseStep
         DEF MainStep
    <2>4. CASE IoStep
      BY <2>4, MakeDirStep, RenameStep, RemoveStep DEF IoStep
    <2>5. CASE \E r \in Requests : NativeStep(r)
      BY <2>5, NativeStepKeeps
    <2>6. CASE Crash
      BY <2>6, CrashStep
    <2>7. QED
      BY <2>1, <2>2, <2>3, <2>4, <2>5, <2>6 DEF Next
  <1>3. QED
    BY <1>1, <1>2 DEF Rest, Inv

-----------------------------------------------------------------------------

\* The raw `this` of the completion block of KerHttp.mm is good: a request lives
\* until its task is over, whatever packages are dropped and in whatever order.
THEOREM RequestsLive == Spec => []RequestOutlivesTask
  <1>1. Inv => RequestOutlivesTask
    BY DEF Inv, TaskKeeps, RequestOutlivesTask, RequestAlive
  <1>2. QED
    BY InvStart, InvStep, <1>1, PTL DEF Spec

\* What an application runs from is whole, unless two packages of its path were
\* loading at the same time or the process died between the mkdir and the rename.
THEOREM WholeRuns == Spec => []RunsWhole
  <1>1. Inv => RunsWhole
    BY DEF Inv, Sound, WholeComes, RunsWhole
  <1>2. QED
    BY InvStart, InvStep, <1>1, PTL DEF Spec

\* No step empties or replaces a whole directory.
LEMMA WholeStays ==
  ASSUME Inv, [Next]_vars, NEW d \in Paths, dir[d] = "whole"
  PROVE  dir'[d] = "whole"
  <1>1. Typed
    BY DEF Inv
  <1>2. ASSUME NEW r \in Requests, MakeDir(r) PROVE dir'[d] = "whole"
    BY <1>1, <1>2 DEF MakeDir, Typed
  <1>3. ASSUME NEW r \in Requests, Rename(r) PROVE dir'[d] = "whole"
    BY <1>1, <1>3 DEF Rename, Renames, Typed
  <1>4. CASE dir' = dir
    BY <1>4
  <1>5. dir' = dir \/ \E r \in Requests : MakeDir(r) \/ Rename(r)
    BY DEF Next, vars, MainStep, IoStep, NativeStep, Open, Drop, Construct, AsyncLoad, AsyncError,
           MetaDone, KerDone, Moved, Failed, ReleaseRequest, Receive, Fail, Done, Complete,
           Remove, Crash
  <1>6. QED
    BY <1>2, <1>3, <1>4, <1>5

\* What was installed stays, through second downloads and crashes.
THEOREM InstalledStay == Spec => InstalledStays
  <1>1. Inv /\ [Next]_vars => [\A d \in Paths : dir[d] = "whole" => dir'[d] = "whole"]_vars
    BY WholeStays
  <1>2. QED
    BY InvStart, InvStep, <1>1, PTL DEF Spec, InstalledStays

-----------------------------------------------------------------------------
(***************************************************************************)
(* What is left in the temporary directory.                                *)
(***************************************************************************)

\* The .ker of p is on its way: it is fetched, or what came is being moved.
Moving(p) ==
  LET r == <<p, "ker">> IN
  \/ Fetching(r) \/ In(main, Fn("done", r))
  \/ In(io, Fn("mkdir", r)) \/ In(io, Fn("rename", r))

\* Meanwhile nothing else gets to its directory, and UI::open() keeps the package
\* and its request; what is in the temporary directory is on its way, too.
Tidy(p) ==
  LET r == <<p, "ker">> IN
  /\ Moving(p) /\ Path[p] \notin crowded =>
       dir[Path[p]] = IF In(io, Fn("rename", r)) THEN "empty" ELSE "absent"
  /\ Moving(p) /\ p \notin Scripted => p \in alive /\ http[p] = {r}
  /\ p \notin Scripted /\ Path[p] \notin crowded /\ ~ temp[r] \subseteq {"torn"} =>
       Moving(p) /\ stage[r] # "sent"

TidyInv ==
  /\ Inv
  /\ http \in [Packages -> SUBSET Requests]
  /\ \A p \in Packages : Tidy(p)

LEMMA SettingsStay ==
  ASSUME Typed, uri' = uri
  PROVE  Path' = Path /\ Scripted' = Scripted
  BY PathsAre DEF Scripted

\* A step leaves the request of the .ker of p alone.
KerSame(p) ==
  LET r == <<p, "ker">> IN
  /\ stage'[r] = stage[r] /\ temp'[r] = temp[r]
  /\ In(main', Fn("done", r)) <=> In(main, Fn("done", r))
  /\ \A op \in {"mkdir", "rename"} : In(io', Fn(op, r)) <=> In(io, Fn(op, r))

LEMMA TidyStays ==
  ASSUME Typed, NEW p \in Packages, Tidy(p), KerSame(p), uri' = uri, crowded \subseteq crowded',
         Moving(p) /\ Path[p] \notin crowded => dir'[Path[p]] = dir[Path[p]],
         Moving(p) /\ p \notin Scripted => p \in alive' /\ http'[p] = http[p]
  PROVE  Tidy(p)'
  <1> DEFINE r == <<p, "ker">>
  <1>1. Path' = Path /\ Scripted' = Scripted
    BY SettingsStay
  <1>2. /\ Moving(p)' <=> Moving(p)
        /\ In(io', Fn("rename", r)) <=> In(io, Fn("rename", r))
    BY DEF KerSame, Moving, Fetching
  <1>3. stage'[r] = stage[r] /\ temp'[r] = temp[r]
    BY DEF KerSame
  <1> HIDE DEF r
  <1>4. /\ Moving(p) /\ Path[p] \notin crowded =>
             dir[Path[p]] = IF In(io, Fn("rename", r)) THEN "empty" ELSE "absent"
        /\ Moving(p) /\ p \notin Scripted => p \in alive /\ http[p] = {r}
        /\ p \notin Scripted /\ Path[p] \notin crowded /\ ~ temp[r] \subseteq {"torn"} =>
             Moving(p) /\ stage[r] # "sent"
    BY DEF Tidy, r
  <1>5. /\ Moving(p)' /\ Path'[p] \notin crowded' =>
             dir'[Path'[p]] = IF In(io', Fn("rename", r)) THEN "empty" ELSE "absent"
        /\ Moving(p)' /\ p \notin Scripted' => p \in alive' /\ http'[p] = {r}
        /\ p \notin Scripted' /\ Path'[p] \notin crowded' /\ ~ temp'[r] \subseteq {"torn"} =>
             Moving(p)' /\ stage'[r] # "sent"
    BY <1>1, <1>2, <1>3, <1>4
  <1>6. QED
    BY <1>5 DEF Tidy, r

\* The tokens of a .ker on its way.
LEMMA KerTokens ==
  ASSUME NEW p \in Packages
  PROVE  LET r == <<p, "ker">> IN
         /\ \A op \in {"done", "mkdir", "rename"} :
              Fn(op, r) \in Tokens(p) /\ Fn(op, r) # Fn("error", p)
         /\ \A x : x \notin Tokens(p) => x # Fn("done", r) /\ x # Fn("mkdir", r) /\ x # Fn("rename", r)
  <1>1. \A op \in {"done", "mkdir", "rename"} : Fn(op, <<p, "ker">>) \in Tokens(p)
    BY TokensAre DEF Parts
  <1>2. \A op \in {"done", "mkdir", "rename"} : Fn(op, <<p, "ker">>) # Fn("error", p)
    BY FnsDiffer
  <1>3. QED
    BY <1>1, <1>2

\* While its .ker is on its way a package loads, and has no other token.
LEMMA MovingLoads ==
  ASSUME Inv, NEW p \in Packages, Moving(p)
  PROVE  Loading(p) /\ p \in calls
  <1> DEFINE r == <<p, "ker">>
  <1>1. \A op \in {"done", "mkdir", "rename"} : Fn(op, r) \in Tokens(p) /\ Fn(op, r) # Fn("error", p)
    BY KerTokens
  <1>2. /\ HoldersLoad(p) /\ SentOnce(p) /\ "ker" \in Parts
    BY DEF Inv, Sound, Parts
  <1>3. Fetching(r) => stage[r] # "idle"
    BY DEF Fetching
  <1>4. Loading(p)
    BY <1>1, <1>2 DEF HoldersLoad, Moving
  <1>5. p \in calls
    BY <1>4 DEF Loading
  <1>6. QED
    BY <1>4, <1>5

LEMMA OtherToken ==
  ASSUME Inv, NEW p \in Packages, NEW x \in Tokens(p), In(main, x), x # Fn("done", <<p, "ker">>)
  PROVE  ~ Moving(p)
  <1> DEFINE r == <<p, "ker">>
  <1>1. ~ Waits(io, Tokens(p)) /\ Once(main, Tokens(p)) /\ ~ Fetching(r)
    BY TokenAlone DEF Parts
  <1>2. ~ In(io, Fn("mkdir", r)) /\ ~ In(io, Fn("rename", r))
    BY <1>1, KerTokens DEF Waits
  <1>3. ~ In(main, Fn("done", r))
    BY <1>1, KerTokens DEF Once, In
  <1>4. QED
    BY <1>1, <1>2, <1>3 DEF Moving

\* Two packages of one path that are on their way make it crowded.
LEMMA OnlyMover ==
  ASSUME Inv, NEW p \in Packages, NEW q \in Packages, p # q,
         Moving(p), Loading(q), Path[p] \notin crowded
  PROVE  Path[p] # Path[q]
  BY MovingLoads DEF Inv, OneLoads

\* A function that takes a token of p, which is not that of a .ker on its way.
LEMMA TidyTaken ==
  ASSUME TidyInv, NEW p \in Packages, NEW op, NEW of, Runs(main, op, of),
         Fn(op, of) \in Tokens(p), Fn(op, of) # Fn("done", <<p, "ker">>),
         main' = Tail(main), UNCHANGED <<uri, crowded, dir, temp, stage, io>>,
         \A q \in Packages \ {p} : (q \in alive => q \in alive') /\ http'[q] = http[q]
  PROVE  \A q \in Packages : Tidy(q)'
  <1>0. Inv /\ Typed /\ \A q \in Packages : Tidy(q)
    BY DEF TidyInv, Inv
  <1>1. /\ In(main, Fn(op, of))
        /\ \A y : In(main', y) => In(main, y)
        /\ \A y : In(main, y) /\ y # Fn(op, of) => In(main', y)
    BY <1>0, HeadGoes DEF Typed
  <1>2. \A q \in Packages : Fn(op, of) # Fn("done", <<q, "ker">>)
    <2>1. TAKE q \in Packages
    <2>2. CASE q = p
      BY <2>2
    <2>3. CASE q # p
      BY <2>3, KerTokens, TokensApart
    <2>4. QED
      BY <2>2, <2>3
  <1>3. ~ Moving(p)
    BY <1>0, <1>1, OtherToken
  <1>4. ASSUME NEW q \in Packages PROVE Tidy(q)'
    <2>1. KerSame(q)
      BY <1>1, <1>2 DEF KerSame
    <2>2. Moving(q) => q # p
      BY <1>3
    <2>3. QED
      BY <1>0, <2>1, <2>2, TidyStays DEF Tidy
  <1>5. QED
    BY <1>4

LEMMA TidyEnds ==
  ASSUME TidyInv, NEW p \in Packages, AsyncLoad(p) \/ AsyncError(p) \/ Moved(p)
  PROVE  \A q \in Packages : Tidy(q)'
  <1>1. PICK op \in {"load", "error", "moved"} : Runs(main, op, p)
    BY DEF AsyncLoad, AsyncError, Moved
  <1>2. /\ main' = Tail(main) /\ UNCHANGED <<uri, crowded, dir, temp, stage, io>>
    BY DEF AsyncLoad, AsyncError, Moved, pkgs
  <1>3. /\ alive' = alive \/ alive' = alive \ {p}
        /\ http' = http \/ http' = [http EXCEPT ![p] = Kept(p)]
    BY DEF AsyncLoad, AsyncError, Moved, pkgs, EmitLoad, EmitError, Answer
  <1>4. \A q \in Packages \ {p} : (q \in alive => q \in alive') /\ http'[q] = http[q]
    BY <1>3 DEF TidyInv
  <1>5. Fn(op, p) \in Tokens(p) /\ Fn(op, p) # Fn("done", <<p, "ker">>)
    BY TokensAre, FnsDiffer
  <1>6. QED
    BY <1>1, <1>2, <1>4, <1>5, TidyTaken

LEMMA TidyFailed ==
  ASSUME TidyInv, NEW r \in Requests, Failed(r)
  PROVE  \A q \in Packages : Tidy(q)'
  <1>1. PICK p \in Packages, part \in Parts : r = <<p, part>> /\ r[1] = p
    BY DEF Requests, Parts
  <1>2. /\ Runs(main, "failed", r)
        /\ main' = Tail(main) /\ UNCHANGED <<uri, crowded, dir, temp, stage, io>>
    BY DEF Failed, pkgs
  <1>3. /\ alive' = alive \/ alive' = alive \ {p}
        /\ http' = http \/ http' = [http EXCEPT ![p] = Kept(p)]
    BY <1>1 DEF Failed, pkgs, EmitError, Answer
  <1>4. \A q \in Packages \ {p} : (q \in alive => q \in alive') /\ http'[q] = http[q]
    BY <1>3 DEF TidyInv
  <1>5. Fn("failed", r) \in Tokens(p) /\ Fn("failed", r) # Fn("done", <<p, "ker">>)
    BY <1>1, TokensAre, FnsDiffer
  <1>6. QED
    BY <1>2, <1>4, <1>5, TidyTaken

LEMMA TidyOpen ==
  ASSUME TidyInv, NEW p \in Packages, Open(p)
  PROVE  \A q \in Packages : Tidy(q)'
  <1>0. Typed /\ \A q \in Packages : Tidy(q)
    BY DEF TidyInv, Inv
  <1>1. /\ main' = Append(main, Fn("open", p)) /\ crowded \subseteq crowded'
        /\ UNCHANGED <<uri, dir, temp, stage, io, alive, http>>
    BY DEF Open, pkgs
  <1>2. \A y : In(main', y) <=> In(main, y) \/ y = Fn("open", p)
    BY <1>0, <1>1, TokensAre, AppendIn DEF Typed
  <1>3. \A q \in Packages : Fn("done", <<q, "ker">>) # Fn("open", p)
    BY FnsDiffer
  <1>4. QED
    BY <1>0, <1>1, <1>2, <1>3, TidyStays DEF KerSame, Tidy

LEMMA TidyDrop ==
  ASSUME TidyInv, NEW p \in Packages, Drop(p)
  PROVE  \A q \in Packages : Tidy(q)'
  <1>0. Typed /\ \A q \in Packages : Tidy(q)
    BY DEF TidyInv, Inv
  <1>1. /\ UNCHANGED <<uri, dir, crowded, temp, stage, io, main>>
        /\ p \in Scripted
        /\ \A q \in Packages \ {p} : (q \in alive => q \in alive') /\ http'[q] = http[q]
    BY DEF Drop, TidyInv
  <1>2. QED
    BY <1>0, <1>1, TidyStays DEF KerSame, Tidy

LEMMA TidyRelease ==
  ASSUME TidyInv, NEW r \in Requests, ReleaseRequest(r)
  PROVE  \A q \in Packages : Tidy(q)'
  <1>0. Typed /\ \A q \in Packages : Tidy(q)
    BY DEF TidyInv, Inv
  <1>1. /\ Runs(main, "release", r) /\ main' = Tail(main)
        /\ UNCHANGED <<uri, dir, crowded, temp, stage, io, alive, http>>
    BY DEF ReleaseRequest, pkgs
  <1>2. /\ \A y : In(main', y) => In(main, y)
        /\ \A y : In(main, y) /\ y # Fn("release", r) => In(main', y)
    BY <1>0, <1>1, HeadGoes DEF Typed
  <1>3. \A q \in Packages : Fn("done", <<q, "ker">>) # Fn("release", r)
    BY FnsDiffer
  <1>4. QED
    BY <1>0, <1>1, <1>2, <1>3, TidyStays DEF KerSame, Tidy

LEMMA TidyRemove ==
  ASSUME TidyInv, NEW r \in Requests, Remove(r)
  PROVE  \A q \in Packages : Tidy(q)'
  <1>0. Typed /\ \A q \in Packages : Tidy(q)
    BY DEF TidyInv, Inv
  <1>1. /\ Runs(io, "remove", r) /\ io' = Tail(io)
        /\ UNCHANGED <<uri, dir, crowded, temp, stage, main, alive, http>>
    BY DEF Remove, pkgs
  <1>2. /\ \A y : In(io', y) => In(io, y)
        /\ \A y : In(io, y) /\ y # Fn("remove", r) => In(io', y)
    BY <1>0, <1>1, HeadGoes DEF Typed
  <1>3. \A q \in Packages : \A op \in {"mkdir", "rename"} : Fn(op, <<q, "ker">>) # Fn("remove", r)
    BY FnsDiffer
  <1>4. QED
    BY <1>0, <1>1, <1>2, <1>3, TidyStays DEF KerSame, Tidy

\* Where neither request of p was sent and p has a token, it is not yet on its way.
LEMMA TidyLoads ==
  ASSUME TidyInv, NEW p \in Packages, NEW op, NEW of, Runs(main, op, of),
         Fn(op, of) \in Tokens(p), Fn(op, of) # Fn("done", <<p, "ker">>),
         LoadKer(p) \/ LoadLocal(p) \/ LoadMeta(p),
         p \in alive', alive \subseteq alive', UNCHANGED <<uri, crowded, dir, temp, io>>
  PROVE  \A q \in Packages : Tidy(q)'
  <1>0. Inv /\ Typed /\ \A q \in Packages : Tidy(q)
    BY DEF TidyInv, Inv
  <1> DEFINE r == <<p, "ker">>
             s == <<p, "meta">>
  <1>1. /\ In(main, Fn(op, of))
        /\ \A y : In(Tail(main), y) => In(main, y)
        /\ \A y : In(main, y) /\ y # Fn(op, of) => In(Tail(main), y)
        /\ Tail(main) \in Seq(Functions)
    BY <1>0, HeadGoes DEF Typed
  <1>2. \A q \in Packages : Fn(op, of) # Fn("done", <<q, "ker">>)
    <2>1. TAKE q \in Packages
    <2>2. CASE q = p
      BY <2>2
    <2>3. CASE q # p
      BY <2>3, KerTokens, TokensApart
    <2>4. QED
      BY <2>2, <2>3
  <1>3. ~ Moving(p)
    BY <1>0, <1>1, OtherToken
  <1>4. \A q \in Packages : In(main', Fn("done", <<q, "ker">>)) <=> In(main, Fn("done", <<q, "ker">>))
    <2>1. \/ main' = Tail(main)
          \/ \E g \in {"load", "error"} : main' = Append(Tail(main), Fn(g, p))
      BY DEF LoadKer, LoadLocal, LoadMeta
    <2>2. CASE main' = Tail(main)
      BY <1>1, <1>2, <2>2
    <2>3. ASSUME NEW g \in {"load", "error"}, main' = Append(Tail(main), Fn(g, p)),
                 NEW q \in Packages
          PROVE  In(main', Fn("done", <<q, "ker">>)) <=> In(main, Fn("done", <<q, "ker">>))
      <3>1. \A y : In(main', y) <=> In(Tail(main), y) \/ y = Fn(g, p)
        <4> DEFINE t == Tail(main)
        <4>1. Fn(g, p) \in Functions /\ t \in Seq(Functions) /\ main' = Append(t, Fn(g, p))
          BY <1>1, <2>3, TokensAre
        <4> HIDE DEF t
        <4>2. \A y : In(main', y) <=> In(t, y) \/ y = Fn(g, p)
          BY <4>1, AppendIn
        <4>3. QED
          BY <4>2 DEF t
      <3>2. Fn("done", <<q, "ker">>) # Fn(g, p)
        BY FnsDiffer
      <3>3. QED
        BY <1>1, <1>2, <3>1, <3>2
    <2>4. QED
      BY <2>1, <2>2, <2>3
  <1>5. /\ r \in Requests /\ s \in Requests /\ r # s
        /\ \A q \in Packages \ {p} : <<q, "ker">> \in Requests /\ <<q, "ker">> # r /\ <<q, "ker">> # s
    BY RequestsAre DEF Parts
  <1>6. ASSUME NEW q \in Packages \ {p} PROVE Tidy(q)'
    <2>1. stage'[<<q, "ker">>] = stage[<<q, "ker">>] /\ http'[q] = http[q]
      <3>1. \/ UNCHANGED <<stage, http>>
            \/ \E x \in {r, s} : /\ stage' = [stage EXCEPT ![x] = "sent"]
                                 /\ http' = [http EXCEPT ![p] = {x}]
        BY DEF LoadKer, LoadLocal, LoadMeta, Send
      <3>2. QED
        BY <1>0, <1>5, <3>1 DEF Typed, TidyInv
    <2>2. KerSame(q)
      BY <1>4, <2>1 DEF KerSame
    <2>3. QED
      BY <1>0, <2>1, <2>2, TidyStays DEF Tidy
  <1>7. Tidy(p)'
    <2>1. CASE UNCHANGED <<stage, http>>
      <3>1. KerSame(p)
        BY <1>4, <2>1 DEF KerSame
      <3>2. QED
        BY <1>0, <1>3, <3>1, TidyStays
    <2>2. CASE LoadMeta(p)
      <3>1. stage'[r] = stage[r]
        BY <1>0, <1>5, <2>2 DEF LoadMeta, Send, Typed
      <3>2. KerSame(p)
        BY <1>4, <3>1 DEF KerSame
      <3>3. QED
        BY <1>0, <1>3, <3>2, TidyStays
    <2>3. CASE dir[Path[p]] = "absent" /\ Send(p, "ker")
      <3>1. stage'[r] = "sent" /\ http'[p] = {r}
        BY <1>0, <1>5, <2>3 DEF Send, Typed, TidyInv
      <3>2. ~ In(io', Fn("rename", r))
        BY <1>3 DEF Moving
      <3>3. Path' = Path /\ Scripted' = Scripted
        BY <1>0, SettingsStay
      <3>4. p \in Scripted \/ Path[p] \in crowded \/ temp[r] \subseteq {"torn"}
        BY <1>0, <1>3 DEF Tidy
      <3>5. QED
        BY <2>3, <3>1, <3>2, <3>3, <3>4 DEF Tidy
    <2>4. QED
      BY <2>1, <2>2, <2>3 DEF LoadKer, LoadLocal
  <1>8. QED
    BY <1>6, <1>7

LEMMA TidyConstruct ==
  ASSUME TidyInv, NEW p \in Packages, Construct(p)
  PROVE  \A q \in Packages : Tidy(q)'
  <1>1. /\ Runs(main, "open", p) /\ alive' = alive \cup {p}
        /\ LoadKer(p) \/ LoadLocal(p) \/ LoadMeta(p)
        /\ UNCHANGED <<uri, crowded, dir, temp, io>>
    BY DEF Construct
  <1>2. Fn("open", p) \in Tokens(p) /\ Fn("open", p) # Fn("done", <<p, "ker">>)
    BY TokensAre, FnsDiffer
  <1>3. QED
    BY <1>1, <1>2, TidyLoads

LEMMA TidyMeta ==
  ASSUME TidyInv, NEW p \in Packages, MetaDone(p)
  PROVE  \A q \in Packages : Tidy(q)'
  <1> DEFINE s == <<p, "meta">>
  <1>1. Runs(main, "done", s) /\ UNCHANGED <<uri, crowded, dir, temp, io>>
    BY DEF MetaDone
  <1>2. Fn("done", s) \in Tokens(p) /\ Fn("done", s) # Fn("done", <<p, "ker">>)
    <2>1. s # <<p, "ker">>
      OBVIOUS
    <2>2. QED
      BY <2>1, TokensAre, FnsDiffer DEF Parts
  <1>3. CASE p \in alive /\ LoadKer(p) /\ alive' = alive
    BY <1>1, <1>2, <1>3, TidyLoads
  <1>4. CASE /\ main' = Tail(main) /\ UNCHANGED stage
             /\ EmitError(p) \/ UNCHANGED pkgs
    <2>1. /\ alive' = alive \/ alive' = alive \ {p}
          /\ http' = http \/ http' = [http EXCEPT ![p] = Kept(p)]
      BY <1>4 DEF pkgs, EmitError, Answer
    <2>2. \A q \in Packages \ {p} : (q \in alive => q \in alive') /\ http'[q] = http[q]
      BY <2>1 DEF TidyInv
    <2>3. QED
      BY <1>1, <1>2, <1>4, <2>2, TidyTaken
  <1>5. QED
    BY <1>3, <1>4 DEF MetaDone

\* What came for a package that UI::open() keeps goes to the IO queue.
LEMMA TidyKer ==
  ASSUME TidyInv, NEW p \in Packages, KerDone(p)
  PROVE  \A q \in Packages : Tidy(q)'
  <1>0. Inv /\ Typed /\ \A q \in Packages : Tidy(q)
    BY DEF TidyInv, Inv
  <1> DEFINE r == <<p, "ker">>
             moves == p \in alive /\ RequestAlive(r)
  <1>1. /\ Runs(main, "done", r) /\ main' = Tail(main)
        /\ UNCHANGED <<alive, http, uri, crowded, dir, temp, stage>>
    BY DEF KerDone, pkgs
  <1>2. /\ In(main, Fn("done", r))
        /\ \A y : In(main', y) => In(main, y)
        /\ \A y : In(main, y) /\ y # Fn("done", r) => In(main', y)
        /\ ~ Waits(main', Tokens(p))
    <2>1. Fn("done", r) \in Tokens(p) /\ Once(main, Tokens(p))
      BY <1>0, KerTokens DEF Inv, Sound, Alone
    <2>2. QED
      BY <1>0, <1>1, <2>1, HeadGoes DEF Typed
  <1>3. /\ \A y : In(io', y) => In(io, y) \/ (moves /\ y = Fn("mkdir", r)) \/ y = Fn("remove", r)
        /\ \A y : In(io, y) => In(io', y)
        /\ moves => In(io', Fn("mkdir", r))
    <2> DEFINE f == Fn("mkdir", r)
               g == Fn("remove", r)
    <2>1. f \in Functions /\ g \in Functions
      BY TokensAre, RequestsAre DEF Parts
    <2>2. /\ moves => io' = io \o <<f>> \o <<g>>
          /\ io' = io \/ moves \/ io' = io \o <<>> \o <<g>>
      BY DEF KerDone
    <2> HIDE DEF f, g, moves
    <2>3. io \in Seq(Functions)
      BY <1>0 DEF Typed
    <2>4. /\ Append(io, f) \in Seq(Functions)
          /\ \A y : In(Append(io, f), y) <=> In(io, y) \/ y = f
          /\ \A y : In(Append(io, g), y) <=> In(io, y) \/ y = g
      BY <2>1, <2>3, AppendIn
    <2>5. \A y : In(Append(Append(io, f), g), y) <=> In(Append(io, f), y) \/ y = g
      BY <2>1, <2>4, AppendIn
    <2>6. io \o <<f>> = Append(io, f) /\ io \o <<>> = io /\ io \o <<g>> = Append(io, g)
      BY <2>1, <2>3, Joined
    <2>7. Append(io, f) \o <<g>> = Append(Append(io, f), g)
      BY <2>1, <2>4, Joined
    <2>8. /\ moves => io' = Append(Append(io, f), g)
          /\ io' = io \/ moves \/ io' = Append(io, g)
      BY <2>2, <2>6, <2>7
    <2>9. QED
      BY <2>4, <2>5, <2>8 DEF f, g
  <1> HIDE DEF moves
  <1>4. \A q \in Packages : Fn("rename", <<q, "ker">>) # Fn("mkdir", r)
                            /\ Fn("rename", <<q, "ker">>) # Fn("remove", r)
                            /\ Fn("mkdir", <<q, "ker">>) # Fn("remove", r)
    BY FnsDiffer
  <1>5. ASSUME NEW q \in Packages \ {p} PROVE Tidy(q)'
    <2>1. <<q, "ker">> # r
      OBVIOUS
    <2>2. Fn("mkdir", <<q, "ker">>) # Fn("mkdir", r) /\ Fn("done", <<q, "ker">>) # Fn("done", r)
      BY <2>1, FnsDiffer
    <2>3. KerSame(q)
      BY <1>1, <1>2, <1>3, <1>4, <2>2 DEF KerSame
    <2>4. QED
      BY <1>0, <1>1, <2>3, TidyStays DEF Tidy
  <1>6. Tidy(p)'
    <2>1. Moving(p) /\ ~ In(io', Fn("rename", r)) /\ stage[r] # "sent"
      <3>1. ~ Waits(io, Tokens(p)) /\ ~ Fetching(r)
        BY <1>0, <1>2, KerTokens, TokenAlone DEF Parts
      <3>2. QED
        BY <1>2, <1>3, <1>4, <3>1, KerTokens DEF Moving, Waits, Fetching
    <2>2. ~ In(io, Fn("rename", r))
      BY <1>3, <2>1
    <2>3. Path' = Path /\ Scripted' = Scripted
      BY <1>0, <1>1, SettingsStay
    <2>4. p \notin Scripted => p \in alive /\ http[p] = {r} /\ moves
      BY <1>0, <2>1 DEF Tidy, RequestAlive, moves
    <2>5. Path[p] \notin crowded => dir[Path[p]] = "absent"
      BY <1>0, <2>1, <2>2 DEF Tidy
    <2>6. p \notin Scripted => Moving(p)'
      BY <1>3, <2>4 DEF Moving
    <2>7. QED
      BY <1>1, <2>1, <2>3, <2>4, <2>5, <2>6 DEF Tidy
  <1>7. QED
    BY <1>5, <1>6

LEMMA TidyNative ==
  ASSUME TidyInv, NEW r \in Requests, NativeStep(r)
  PROVE  \A q \in Packages : Tidy(q)'
  <1>0. Inv /\ Typed /\ \A q \in Packages : Tidy(q)
    BY DEF TidyInv, Inv
  <1>1. PICK p \in Packages, part \in Parts : r = <<p, part>>
    BY DEF Requests, Parts
  <1>2. /\ UNCHANGED <<alive, http, uri, crowded, dir, io>>
        /\ \A s \in Requests \ {r} : stage'[s] = stage[s] /\ temp'[s] = temp[s]
        /\ main' = main \/ \E op \in {"done", "failed", "release"} : main' = Append(main, Fn(op, r))
    BY <1>0 DEF NativeStep, Receive, Fail, Done, Complete, Unzip, Typed, pkgs
  <1>3. \A y : In(main, y) => In(main', y)
    <2>1. \A op \in {"done", "failed", "release"} : Fn(op, r) \in Functions
      BY <1>1, TokensAre
    <2>2. \A x \in Functions : \A y : In(main, y) => In(Append(main, x), y)
      BY <1>0, AppendIn DEF Typed
    <2>3. QED
      BY <1>2, <2>1, <2>2
  <1>4. ASSUME NEW x \in Functions, main' = Append(main, x), NEW y, In(main', y)
        PROVE  In(main, y) \/ y = x
    BY <1>0, <1>4, AppendIn DEF Typed
  <1>5. \A op \in {"done", "failed", "release"} : Fn(op, r) \in Functions
    BY <1>1, TokensAre
  <1>6. ASSUME NEW q \in Packages, <<q, "ker">> # r PROVE Tidy(q)'
    <2>1. <<q, "ker">> \in Requests \ {r}
      BY <1>6, RequestsAre DEF Parts
    <2>2. \A op \in {"done", "failed", "release"} : Fn("done", <<q, "ker">>) # Fn(op, r)
      BY <1>6, FnsDiffer
    <2>3. In(main', Fn("done", <<q, "ker">>)) => In(main, Fn("done", <<q, "ker">>))
      BY <1>2, <1>4, <1>5, <2>2
    <2>4. KerSame(q)
      BY <1>2, <1>3, <2>1, <2>3 DEF KerSame
    <2>5. QED
      BY <1>0, <1>2, <2>4, TidyStays DEF Tidy
  <1>7. ASSUME r = <<p, "ker">> PROVE Tidy(p)'
    <2>1. Path' = Path /\ Scripted' = Scripted /\ r[2] = "ker"
      BY <1>0, <1>2, <1>7, SettingsStay
    <2>2. /\ Moving(p) /\ Path[p] \notin crowded =>
               dir[Path[p]] = IF In(io, Fn("rename", r)) THEN "empty" ELSE "absent"
          /\ Moving(p) /\ p \notin Scripted => p \in alive /\ http[p] = {r}
          /\ p \notin Scripted /\ Path[p] \notin crowded /\ ~ temp[r] \subseteq {"torn"} =>
               Moving(p) /\ stage[r] # "sent"
      BY <1>0, <1>7 DEF Tidy
    <2>3. SUFFICES /\ Moving(p)' => Moving(p)
                   /\ p \notin Scripted /\ Path[p] \notin crowded /\ ~ temp'[r] \subseteq {"torn"} =>
                        Moving(p)' /\ stage'[r] # "sent"
      BY <1>2, <1>7, <2>1, <2>2 DEF Tidy
    <2>4. stage'[r] # "sent"
      BY <1>0 DEF NativeStep, Receive, Fail, Done, Complete, Typed
    <2>5. CASE Fetching(r)
      <3>1. Moving(p)
        BY <1>7, <2>5 DEF Moving
      <3>2. CASE Receive(r)
        <4>1. stage'[r] = "received"
          BY <1>0, <3>2 DEF Receive, Typed
        <4>2. QED
          BY <1>7, <2>4, <3>1, <4>1 DEF Moving, Fetching
      <3>3. CASE Fail(r)
        <4>1. temp'[r] = temp[r] /\ stage[r] = "sent"
          BY <3>3 DEF Fail
        <4>2. QED
          BY <2>2, <3>1, <4>1
      <3>4. CASE Done(r)
        <4>1. \/ main' = Append(main, Fn("done", r))
              \/ temp'[r] \subseteq {"torn"}
          BY <1>0, <2>1, <3>4 DEF Done, Unzip, Typed
        <4>2. Fn("done", r) \in Functions
          BY <1>5
        <4>3. main' = Append(main, Fn("done", r)) => In(main', Fn("done", r))
          BY <1>0, <4>2, AppendIn DEF Typed
        <4>4. QED
          BY <1>7, <2>4, <3>1, <4>1, <4>3 DEF Moving
      <3>5. QED
        BY <2>5, <3>2, <3>3, <3>4 DEF NativeStep, Complete, Fetching
    <2>6. CASE ~ Fetching(r)
      <3>1. Complete(r)
        BY <2>6 DEF NativeStep, Receive, Fail, Done, Fetching
      <3>2. /\ main' = Append(main, Fn("release", r)) /\ temp' = temp
            /\ stage'[r] = "over"
        BY <1>0, <3>1 DEF Complete, Typed
      <3>3. Fn("done", r) # Fn("release", r)
        BY FnsDiffer
      <3>4. In(main', Fn("done", r)) <=> In(main, Fn("done", r))
        BY <1>3, <1>4, <1>5, <3>2, <3>3
      <3>5. Moving(p)' <=> Moving(p)
        BY <1>2, <1>7, <2>6, <3>2, <3>4 DEF Moving, Fetching
      <3>6. QED
        BY <2>2, <2>4, <3>2, <3>5
    <2>7. QED
      BY <2>5, <2>6
  <1>8. QED
    BY <1>1, <1>6, <1>7

\* Whoever has his turn on the IO queue, for a .ker or not.
LEMMA MoverIs ==
  ASSUME TidyInv, NEW r \in Requests, In(io, Fn("mkdir", r)) \/ In(io, Fn("rename", r))
  PROVE  \E p \in Packages :
           /\ r[1] = p /\ Loading(p)
           /\ \A q \in Packages \ {p} : Moving(q) /\ Path[q] \notin crowded => Path[q] # Path[p]
           /\ \A q \in Packages \ {p} : <<q, "ker">> # r
           /\ r # <<p, "ker">> => ~ Moving(p)
  <1>0. Inv
    BY DEF TidyInv
  <1>1. PICK p \in Packages, part \in Parts : r = <<p, part>>
    BY DEF Requests, Parts
  <1>2. PICK op \in {"mkdir", "rename"} : In(io, Fn(op, r))
    OBVIOUS
  <1>3. Fn(op, r) \in Tokens(p) /\ Fn(op, r) # Fn("error", p)
    BY <1>1, TokensAre, FnsDiffer
  <1>4. Loading(p)
    BY <1>0, <1>2, <1>3 DEF Inv, Sound, HoldersLoad
  <1>5. ASSUME r # <<p, "ker">>, Moving(p) PROVE FALSE
    <2> DEFINE s == <<p, "ker">>
    <2>1. /\ Once(io, Tokens(p)) /\ ~ Waits(main, Tokens(p)) /\ ~ Fetching(s)
      BY <1>0, <1>2, <1>3 DEF Inv, Sound, Alone, Waits, Parts
    <2>2. \E x \in {"mkdir", "rename"} : In(io, Fn(x, s))
      BY <1>5, <2>1, KerTokens DEF Moving, Waits
    <2>3. QED
      BY <1>2, <1>3, <1>5, <2>1, <2>2, KerTokens, FnsDiffer DEF Once, In
  <1>6. QED
    BY <1>0, <1>1, <1>4, <1>5, OnlyMover

LEMMA TidyMakeDir ==
  ASSUME TidyInv, NEW r \in Requests, MakeDir(r)
  PROVE  \A q \in Packages : Tidy(q)'
  <1>0. Inv /\ Typed /\ \A q \in Packages : Tidy(q)
    BY DEF TidyInv, Inv
  <1> DEFINE f == Fn("rename", r)
  <1>1. /\ Runs(io, "mkdir", r) /\ io' = <<f>> \o Tail(io)
        /\ dir' = [dir EXCEPT ![Path[r[1]]] = IF @ = "absent" THEN "empty" ELSE @]
        /\ UNCHANGED <<alive, http, uri, crowded, temp, stage, main>>
    BY DEF MakeDir, pkgs
  <1>2. /\ In(io, Fn("mkdir", r))
        /\ \A y : In(io', y) => In(io, y) \/ y = f
        /\ \A y : In(io, y) /\ y # Fn("mkdir", r) => In(io', y)
        /\ In(io', f)
    <2> DEFINE s == Tail(io)
    <2>1. /\ s \in Seq(Functions) /\ In(io, Fn("mkdir", r))
          /\ \A y : In(s, y) => In(io, y)
          /\ \A y : In(io, y) /\ y # Fn("mkdir", r) => In(s, y)
      BY <1>0, <1>1, HeadGoes DEF Typed
    <2>2. f \in Functions /\ io' = <<f>> \o s
      BY <1>1, RequestsAre, TokensAre
    <2> HIDE DEF s, f
    <2>3. \A y : In(io', y) <=> In(s, y) \/ y = f
      BY <2>1, <2>2, PushIn
    <2>4. QED
      BY <2>1, <2>3
  <1>3. PICK p \in Packages :
           /\ r[1] = p /\ Loading(p)
           /\ \A q \in Packages \ {p} : Moving(q) /\ Path[q] \notin crowded => Path[q] # Path[p]
           /\ \A q \in Packages \ {p} : <<q, "ker">> # r
           /\ r # <<p, "ker">> => ~ Moving(p)
    BY <1>2, MoverIs
  <1>4. /\ Path[p] \in Paths
        /\ \A d \in Paths \ {Path[p]} : dir'[d] = dir[d]
        /\ dir[Path[p]] = "absent" => dir'[Path[p]] = "empty"
    BY <1>0, <1>1, <1>3, PathsAre DEF Typed
  <1> HIDE DEF f
  <1>5. ASSUME NEW q \in Packages, <<q, "ker">> # r PROVE Tidy(q)'
    <2>1. /\ Fn("mkdir", <<q, "ker">>) # Fn("mkdir", r) /\ Fn("rename", <<q, "ker">>) # Fn("mkdir", r)
          /\ Fn("mkdir", <<q, "ker">>) # f /\ Fn("rename", <<q, "ker">>) # f
      BY <1>5, FnsDiffer DEF f
    <2>2. KerSame(q)
      BY <1>1, <1>2, <2>1 DEF KerSame
    <2>3. Moving(q) /\ Path[q] \notin crowded => dir'[Path[q]] = dir[Path[q]]
      BY <1>0, <1>3, <1>4, <1>5, PathsAre
    <2>4. QED
      BY <1>0, <1>1, <2>2, <2>3, TidyStays DEF Tidy
  <1>6. ASSUME r = <<p, "ker">> PROVE Tidy(p)'
    <2>1. Path' = Path /\ Scripted' = Scripted
      BY <1>0, <1>1, SettingsStay
    <2>2. Moving(p) /\ Moving(p)' /\ In(io', Fn("rename", r))
      BY <1>2, <1>6 DEF Moving, f
    <2>3. ~ In(io, Fn("rename", r))
      <3>1. Once(io, Tokens(p)) /\ Fn("mkdir", r) # Fn("rename", r)
        BY <1>0, FnsDiffer DEF Inv, Sound, Alone
      <3>2. QED
        BY <1>2, <1>6, <3>1, KerTokens DEF Once, In
    <2>4. /\ Path[p] \notin crowded => dir[Path[p]] = "absent"
          /\ p \notin Scripted => p \in alive /\ http[p] = {r}
          /\ p \notin Scripted /\ Path[p] \notin crowded /\ ~ temp[r] \subseteq {"torn"} => stage[r] # "sent"
      BY <1>0, <1>6, <2>2, <2>3 DEF Tidy
    <2>5. Path[p] \notin crowded => dir'[Path[p]] = "empty"
      BY <1>4, <2>4
    <2>6. QED
      BY <1>1, <1>6, <2>1, <2>2, <2>4, <2>5 DEF Tidy
  <1>7. QED
    BY <1>3, <1>5, <1>6

LEMMA TidyRename ==
  ASSUME TidyInv, NEW r \in Requests, Rename(r)
  PROVE  \A q \in Packages : Tidy(q)'
  <1>0. Inv /\ Typed /\ \A q \in Packages : Tidy(q)
    BY DEF TidyInv, Inv
  <1>1. /\ Runs(io, "rename", r) /\ io' = Tail(io) /\ main' = Append(main, Fn("moved", r[1]))
        /\ UNCHANGED <<alive, http, uri, crowded, stage>>
    BY DEF Rename, pkgs
  <1>2. /\ In(io, Fn("rename", r))
        /\ \A y : In(io', y) => In(io, y)
        /\ \A y : In(io, y) /\ y # Fn("rename", r) => In(io', y)
    BY <1>0, <1>1, HeadGoes DEF Typed
  <1>3. PICK p \in Packages :
           /\ r[1] = p /\ Loading(p)
           /\ \A q \in Packages \ {p} : Moving(q) /\ Path[q] \notin crowded => Path[q] # Path[p]
           /\ \A q \in Packages \ {p} : <<q, "ker">> # r
           /\ r # <<p, "ker">> => ~ Moving(p)
    BY <1>2, MoverIs
  <1>4. \A q \in Packages : In(main', Fn("done", <<q, "ker">>)) <=> In(main, Fn("done", <<q, "ker">>))
    <2>1. \A y : In(main', y) <=> In(main, y) \/ y = Fn("moved", p)
      BY <1>0, <1>1, <1>3, TokensAre, AppendIn DEF Typed
    <2>2. QED
      BY <2>1, FnsDiffer
  <1>5. /\ Path[p] \in Paths
        /\ \A d \in Paths \ {Path[p]} : dir'[d] = dir[d]
        /\ \A s \in Requests \ {r} : temp'[s] = temp[s]
        /\ dir[Path[p]] = "empty" => temp'[r] = {}
    <2>1. Path[p] \in Paths /\ temp[r] = {"whole"}
      BY <1>0, <1>2, PathsAre, MovesWhole
    <2>2. CASE Renames(r)
      BY <1>0, <1>3, <2>1, <2>2 DEF Rename, Typed
    <2>3. CASE ~ Renames(r)
      <3>1. UNCHANGED <<dir, temp>> /\ dir[Path[p]] # "empty"
        BY <1>3, <2>1, <2>3 DEF Rename, Renames
      <3>2. QED
        BY <2>1, <3>1
    <2>4. QED
      BY <2>2, <2>3
  <1>6. ASSUME NEW q \in Packages, <<q, "ker">> # r PROVE Tidy(q)'
    <2>1. Fn("mkdir", <<q, "ker">>) # Fn("rename", r) /\ Fn("rename", <<q, "ker">>) # Fn("rename", r)
      BY <1>6, FnsDiffer
    <2>2. <<q, "ker">> \in Requests \ {r}
      BY <1>6, RequestsAre DEF Parts
    <2>3. KerSame(q)
      BY <1>1, <1>2, <1>4, <1>5, <2>1, <2>2 DEF KerSame
    <2>4. Moving(q) /\ Path[q] \notin crowded => dir'[Path[q]] = dir[Path[q]]
      BY <1>0, <1>3, <1>5, <1>6, PathsAre
    <2>5. QED
      BY <1>0, <1>1, <2>3, <2>4, TidyStays DEF Tidy
  <1>7. ASSUME r = <<p, "ker">> PROVE Tidy(p)'
    <2>1. Path' = Path /\ Scripted' = Scripted
      BY <1>0, <1>1, SettingsStay
    <2>2. Moving(p) /\ ~ Moving(p)'
      <3>1. /\ Once(io, Tokens(p)) /\ ~ Waits(main, Tokens(p)) /\ ~ Fetching(r)
            /\ Fn("mkdir", r) # Fn("rename", r) /\ ~ Waits(io', Tokens(p))
        <4>1. /\ Once(io, Tokens(p)) /\ ~ Waits(main, Tokens(p)) /\ ~ Fetching(r)
          BY <1>0, <1>2, <1>7, KerTokens DEF Inv, Sound, Alone, Waits, Parts
        <4>2. Fn("rename", r) \in Tokens(p)
          BY <1>7, KerTokens
        <4>3. ~ Waits(io', Tokens(p))
          BY <1>0, <1>1, <4>1, <4>2, HeadGoes DEF Typed
        <4>4. QED
          BY <4>1, <4>3, FnsDiffer
      <3>2. ~ In(main', Fn("done", r)) /\ ~ In(io', Fn("mkdir", r)) /\ ~ In(io', Fn("rename", r))
        BY <1>4, <1>7, <3>1, KerTokens DEF Waits
      <3>3. ~ Fetching(r)'
        BY <1>1, <3>1 DEF Fetching
      <3>4. QED
        BY <1>2, <1>7, <3>2, <3>3 DEF Moving
    <2>3. Path[p] \notin crowded => dir[Path[p]] = "empty"
      BY <1>0, <1>2, <1>7, <2>2 DEF Tidy
    <2>4. QED
      BY <1>1, <1>5, <1>7, <2>1, <2>2, <2>3 DEF Tidy
  <1>8. QED
    BY <1>3, <1>6, <1>7

LEMMA TidyCrash ==
  ASSUME TidyInv, Crash
  PROVE  \A q \in Packages : Tidy(q)'
  <1>1. /\ main' = <<>> /\ io' = <<>>
        /\ \A r \in Requests : stage'[r] = "idle" /\ temp'[r] = {}
    BY DEF Crash, Started
  <1>2. ASSUME NEW q \in Packages PROVE Tidy(q)'
    <2>1. ~ Moving(q)' /\ temp'[<<q, "ker">>] = {}
      BY <1>1, NoneIn, RequestsAre DEF Moving, Fetching, Parts
    <2>2. QED
      BY <2>1 DEF Tidy
  <1>3. QED
    BY <1>2

LEMMA HttpStep ==
  ASSUME http \in [Packages -> SUBSET Requests], [Next]_vars
  PROVE  http' \in [Packages -> SUBSET Requests]
  <1>1. ASSUME NEW p \in Packages, NEW rs \in SUBSET Requests, http' = [http EXCEPT ![p] = rs]
        PROVE  http' \in [Packages -> SUBSET Requests]
    BY <1>1
  <1>2. ASSUME NEW p \in Packages
        PROVE  Kept(p) \in SUBSET Requests /\ \A part \in Parts : {<<p, part>>} \in SUBSET Requests
    BY RequestsAre DEF Kept
  <1>3. \/ http' = http
        \/ http' = [p \in Packages |-> {}]
        \/ \E p \in Packages : \/ http' = [http EXCEPT ![p] = {}]
                               \/ http' = [http EXCEPT ![p] = Kept(p)]
                               \/ \E part \in Parts : http' = [http EXCEPT ![p] = {<<p, part>>}]
    <2>1. CASE UNCHANGED vars
      BY <2>1 DEF vars
    <2>2. CASE Crash
      BY <2>2 DEF Crash, Started
    <2>3. CASE MainStep
      <3>1. ASSUME NEW p \in Packages, Construct(p) \/ MetaDone(p)
            PROVE  \/ UNCHANGED http
                   \/ http' = [http EXCEPT ![p] = Kept(p)]
                   \/ \E part \in Parts : http' = [http EXCEPT ![p] = {<<p, part>>}]
        BY <3>1 DEF Construct, MetaDone, LoadKer, LoadLocal, LoadMeta, Send, EmitError, pkgs, Parts
      <3>2. ASSUME NEW p \in Packages, AsyncLoad(p) \/ AsyncError(p) \/ KerDone(p) \/ Moved(p)
            PROVE  UNCHANGED http \/ http' = [http EXCEPT ![p] = Kept(p)]
        BY <3>2 DEF AsyncLoad, AsyncError, KerDone, Moved, EmitLoad, EmitError, pkgs
      <3>3. ASSUME NEW r \in Requests, Failed(r) \/ ReleaseRequest(r)
            PROVE  UNCHANGED http \/ \E p \in Packages : http' = [http EXCEPT ![p] = Kept(p)]
        BY <3>3, RequestsAre DEF Failed, ReleaseRequest, EmitError, pkgs
      <3>4. QED
        BY <2>3, <3>1, <3>2, <3>3 DEF MainStep
    <2>4. CASE \E p \in Packages : Open(p) \/ Drop(p)
      BY <2>4 DEF Open, Drop, pkgs
    <2>5. CASE IoStep \/ \E r \in Requests : NativeStep(r)
      BY <2>5 DEF IoStep, MakeDir, Rename, Remove, NativeStep, Receive, Fail, Done, Complete, pkgs
    <2>6. QED
      BY <2>1, <2>2, <2>3, <2>4, <2>5 DEF Next
  <1>4. QED
    BY <1>1, <1>2, <1>3

LEMMA TidyStep ==
  ASSUME TidyInv, [Next]_vars
  PROVE  TidyInv'
  <1>1. Inv'
    BY InvStep DEF TidyInv
  <1>2. http' \in [Packages -> SUBSET Requests]
    BY HttpStep DEF TidyInv
  <1>3. \A q \in Packages : Tidy(q)'
    <2>1. CASE UNCHANGED vars
      <3>1. ASSUME NEW q \in Packages PROVE Tidy(q)'
        BY <2>1, TidyStays DEF vars, KerSame, TidyInv, Inv, Tidy
      <3>2. QED
        BY <3>1
    <2>2. CASE \E p \in Packages : Open(p) \/ Drop(p)
      BY <2>2, TidyOpen, TidyDrop
    <2>3. CASE MainStep
      BY <2>3, TidyConstruct, TidyEnds, TidyMeta, TidyKer, TidyFailed, TidyRelease DEF MainStep
    <2>4. CASE IoStep
      BY <2>4, TidyMakeDir, TidyRename, TidyRemove DEF IoStep
    <2>5. CASE \E r \in Requests : NativeStep(r)
      BY <2>5, TidyNative
    <2>6. CASE Crash
      BY <2>6, TidyCrash
    <2>7. QED
      BY <2>1, <2>2, <2>3, <2>4, <2>5, <2>6 DEF Next
  <1>4. QED
    BY <1>1, <1>2, <1>3 DEF TidyInv

LEMMA TidyStart == Init => TidyInv
  <1> SUFFICES ASSUME Init PROVE TidyInv
    OBVIOUS
  <1>1. Inv
    BY InvStart
  <1>2. /\ main = <<>> /\ io = <<>> /\ http = [p \in Packages |-> {}]
        /\ \A r \in Requests : stage[r] = "idle" /\ temp[r] = {}
    BY DEF Init, Started
  <1>3. ASSUME NEW q \in Packages PROVE Tidy(q)
    <2>1. ~ Moving(q) /\ temp[<<q, "ker">>] = {}
      BY <1>2, NoneIn, RequestsAre DEF Moving, Fetching, Parts
    <2>2. QED
      BY <2>1 DEF Tidy
  <1>4. QED
    BY <1>1, <1>2, <1>3 DEF TidyInv

\* When the queues are empty and no task goes on, nothing is left of a package
\* that UI::open() made but an archive that failed half-way, unless two packages
\* of its path were loading at the same time.
THEOREM NothingLeft == Spec => []NoTempLeft
  <1>1. TidyInv => NoTempLeft
    <2> SUFFICES ASSUME TidyInv, Quiet, NEW p \in Packages \ Scripted, Path[p] \notin crowded
                 PROVE  temp[<<p, "ker">>] \subseteq {"torn"}
      BY DEF NoTempLeft
    <2>1. ~ Moving(p)
      BY NoneIn, RequestsAre DEF Quiet, Moving, Fetching, Parts
    <2>2. QED
      BY <2>1 DEF TidyInv, Tidy
  <1>2. QED
    BY TidyStart, TidyStep, <1>1, PTL DEF Spec

=============================================================================
