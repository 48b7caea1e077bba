---------------------------- MODULE PackageLoad ----------------------------
(***************************************************************************)
(* How an application package gets to its directory and to its caller:      *)
(* ui/package.cc over core/http.cc, File::move() of core/file.cc and         *)
(* UI::open() of ui/ui.cc.  Three threads: the main queue, the IO queue and  *)
(* the thread on which the platform completes a request.  A package is kept  *)
(* by UI::open() until it has answered, or by a script that may drop it at   *)
(* any time.  Functions in the queues hold packages and requests weakly.     *)
(* A response and progress events change nothing here and are left out.      *)
(***************************************************************************)
EXTENDS Integers, Sequences

CONSTANTS
  Packages, Paths,
  URIs,      \* what the URIs of the packages may be: see URI
  Archives,  \* what the server may send for a .ker
  MaxCrashes \* a bound: how often the process dies and is started again

\* The directory of a package, how its URI is resolved, and whether a script made
\* the package or UI::open().
URI == [path : Paths, kind : {"meta", "ker", "local"}, scripted : BOOLEAN]

Requests == Packages \X {"meta", "ker"}

ASSUME PackageAssumption ==
  /\ URIs \subseteq [Packages -> URI]
  /\ Archives \subseteq {"whole", "torn", "bad"}
  /\ MaxCrashes \in Nat

VARIABLES
  uri,     \* the URI of each package
  dir,     \* what is at each path
  temp,    \* what is in the temporary directory for each request
  state,   \* _state
  alive,   \* the packages that exist
  http,    \* _http, as a set
  calls,   \* the packages that have been asked for
  crowded, \* the paths of which two packages were loading at the same time
  answers, \* how often the caller of UI::open() was answered
  ran,     \* what was in the directory of each package when it was run
  stage,   \* the platform's task of each request
  native,  \* how often the task retains its request
  main,    \* the functions in the main queue
  io,      \* the functions in the IO queue
  crashes, \* how often the process has died
  cut      \* the paths at which it died between the mkdir and the rename

vars == <<uri, dir, temp, state, alive, http, calls, crowded, answers, ran, stage,
          native, main, io, crashes, cut>>
pkgs == <<state, alive, http, answers, ran>>
death == <<crashes, cut>>

Path     == [p \in Packages |-> uri[p].path]
Kind     == [p \in Packages |-> uri[p].kind]
Scripted == {p \in Packages : uri[p].scripted}

\* What a process starts with.  mkstemp() gives its requests names of their own,
\* so that the files of an earlier process are not followed any more.
Started(st, al, ca, ht, an, ra, te, sg, na, ma, oi) ==
  /\ st = [p \in Packages |-> "none"]
  /\ al = {} /\ ca = {}
  /\ ht = [p \in Packages |-> {}]
  /\ an = [p \in Packages |-> 0]
  /\ ra = [p \in Packages |-> "not"]
  /\ te = [r \in Requests |-> {}]
  /\ sg = [r \in Requests |-> "idle"]
  /\ na = [r \in Requests |-> 0]
  /\ ma = <<>> /\ oi = <<>>

Init ==
  /\ uri \in URIs
  /\ dir \in [Paths -> {"absent", "whole"}]
  /\ crowded = {} /\ crashes = 0 /\ cut = {}
  /\ Started(state, alive, calls, http, answers, ran, temp, stage, native, main, io)

Fn(op, of) == [op |-> op, of |-> of]

\* The function at the head of a queue does op for `of`.
Runs(queue, op, of) == queue # <<>> /\ Head(queue) = Fn(op, of)

RequestAlive(r) == native[r] > 0 \/ http[r[1]] = {r}

-----------------------------------------------------------------------------
(* On the main queue. *)

\* Mutant: send() does not retain the request for its completion block.
SendUnretained(p, part) ==
  /\ http' = [http EXCEPT ![p] = {<<p, part>>}]
  /\ stage' = [stage EXCEPT ![<<p, part>>] = "sent"]
  /\ UNCHANGED native

\* open("GET"), on() and send() of a new request of p, which becomes its _http.
Send(p, part) ==
  /\ http' = [http EXCEPT ![p] = {<<p, part>>}]
  /\ stage' = [stage EXCEPT ![<<p, part>>] = "sent"]
  /\ native' = [native EXCEPT ![<<p, part>>] = 1]

\* loadKer() of a .ker on a server: nothing is fetched when stat() finds the path.
LoadKer(p) ==
  \/ /\ dir[Path[p]] # "absent"
     /\ state' = [state EXCEPT ![p] = "loaded"]
     /\ main' = Append(Tail(main), Fn("load", p))
     /\ UNCHANGED <<http, stage, native>>
  \/ /\ dir[Path[p]] = "absent"
     /\ state' = [state EXCEPT ![p] = "loading"]
     /\ main' = Tail(main)
     /\ Send(p, "ker")

\* Mutant: the error of a package that is not there is set and never emitted.
LoadLocalSilent(p) ==
  /\ \/ /\ dir[Path[p]] # "absent"
        /\ state' = [state EXCEPT ![p] = "loaded"]
        /\ main' = Append(Tail(main), Fn("load", p))
     \/ /\ dir[Path[p]] = "absent"
        /\ state' = [state EXCEPT ![p] = "error"]
        /\ main' = Tail(main)
  /\ UNCHANGED <<http, stage, native>>

\* loadKer() of a package on the device: an error when stat() does not find it.
LoadLocal(p) ==
  /\ \/ /\ dir[Path[p]] # "absent"
        /\ state' = [state EXCEPT ![p] = "loaded"]
        /\ main' = Append(Tail(main), Fn("load", p))
     \/ /\ dir[Path[p]] = "absent"
        /\ state' = [state EXCEPT ![p] = "error"]
        /\ main' = Append(Tail(main), Fn("error", p))
  /\ UNCHANGED <<http, stage, native>>

LoadMeta(p) == Send(p, "meta") /\ main' = Tail(main) /\ UNCHANGED state

\* A package that was asked for and has neither run nor failed.
Loading(p) == p \in calls /\ ran[p] = "not" /\ state[p] # "error"

\* UI::open(): the package will be made in a function of the main queue.
Open(p) ==
  /\ p \notin calls
  /\ calls' = calls \cup {p}
  /\ crowded' = crowded \cup {Path[q] : q \in {q \in Packages :
                                          Loading(q) /\ Path[q] = Path[p]}}
  /\ main' = Append(main, Fn("open", p))
  /\ UNCHANGED <<uri, pkgs, dir, temp, stage, native, io>>

\* new Package(URI), retained, and its two handlers.
Construct(p) ==
  /\ Runs(main, "open", p)
  /\ alive' = alive \cup {p}
  /\ \/ Kind[p] = "ker" /\ LoadKer(p)
     \/ Kind[p] = "local" /\ LoadLocal(p)
     \/ Kind[p] = "meta" /\ LoadMeta(p)
  /\ UNCHANGED <<uri, calls, crowded, answers, ran, dir, temp, io>>

\* The handlers of UI::open() answer, off() and release(); a script's package
\* stays.  ~Package() also cancels the request: its task may still complete.
Answer(p) ==
  /\ answers' = [answers EXCEPT ![p] = IF p \in Scripted THEN @ ELSE @ + 1]
  /\ alive' = IF p \in Scripted THEN alive ELSE alive \ {p}

\* What is left of _http of p once the function that answers has returned.
Kept(p) == IF p \in Scripted THEN http[p] ELSE {}

\* emit("load"): the handler runs the package.
EmitLoad(p) ==
  /\ ran' = [ran EXCEPT ![p] = dir[Path[p]]]
  /\ Answer(p)
  /\ http' = [http EXCEPT ![p] = Kept(p)]

\* setState(PackageStateError) and emit("error").
EmitError(p) ==
  /\ state' = [state EXCEPT ![p] = "error"]
  /\ Answer(p)
  /\ http' = [http EXCEPT ![p] = Kept(p)]
  /\ UNCHANGED ran

\* The two functions that loadKer() posts when there is nothing to fetch.
AsyncLoad(p) ==
  /\ Runs(main, "load", p)
  /\ main' = Tail(main)
  /\ IF p \in alive THEN EmitLoad(p) ELSE UNCHANGED <<ran, answers, alive, http>>
  /\ UNCHANGED <<state, uri, calls, crowded, dir, temp, stage, native, io>>

AsyncError(p) ==
  /\ Runs(main, "error", p)
  /\ main' = Tail(main)
  /\ IF p \in alive THEN EmitError(p) ELSE UNCHANGED pkgs
  /\ UNCHANGED <<uri, calls, crowded, dir, temp, stage, native, io>>

\* "error" of a request.
Failed(r) ==
  /\ Runs(main, "failed", r)
  /\ main' = Tail(main)
  /\ IF r[1] \in alive /\ RequestAlive(r) THEN EmitError(r[1]) ELSE UNCHANGED pkgs
  /\ UNCHANGED <<uri, calls, crowded, dir, temp, stage, native, io>>

\* "done" of the request for the meta data, which may name no version.
MetaDone(p) ==
  LET r == <<p, "meta">> IN
  /\ Runs(main, "done", r)
  /\ \/ /\ p \in alive /\ RequestAlive(r)
        /\ LoadKer(p)
        /\ UNCHANGED <<alive, answers, ran>>
     \/ /\ p \in alive /\ RequestAlive(r)
        /\ EmitError(p)
        /\ main' = Tail(main)
        /\ UNCHANGED <<stage, native>>
     \/ /\ ~ (p \in alive /\ RequestAlive(r))
        /\ main' = Tail(main)
        /\ UNCHANGED <<pkgs, stage, native>>
  /\ UNCHANGED <<uri, calls, crowded, dir, temp, io>>

\* "done" of the request for the .ker: file->move() and then, from the request
\* itself, the removal of its file, both on the IO queue.
KerDone(p) ==
  LET r == <<p, "ker">> IN
  /\ Runs(main, "done", r)
  /\ main' = Tail(main)
  /\ io' = IF ~ RequestAlive(r) THEN io
           ELSE io \o (IF p \in alive THEN <<Fn("mkdir", r)>> ELSE <<>>)
                   \o <<Fn("remove", r)>>
  /\ UNCHANGED <<pkgs, uri, calls, crowded, dir, temp, stage, native>>

\* The callback of move().
Moved(p) ==
  /\ Runs(main, "moved", p)
  /\ main' = Tail(main)
  /\ IF p \in alive
     THEN state' = [state EXCEPT ![p] = "loaded"] /\ EmitLoad(p)
     ELSE UNCHANGED pkgs
  /\ UNCHANGED <<uri, calls, crowded, dir, temp, stage, native, io>>

\* this->release() of the completion block.
ReleaseRequest(r) ==
  /\ Runs(main, "release", r)
  /\ main' = Tail(main)
  /\ native' = [native EXCEPT ![r] = @ - 1]
  /\ UNCHANGED <<pkgs, uri, calls, crowded, dir, temp, stage, io>>

\* A script lets go of its package: ~Package().
Drop(p) ==
  /\ p \in Scripted \cap alive
  /\ alive' = alive \ {p}
  /\ http' = [http EXCEPT ![p] = {}]
  /\ UNCHANGED <<uri, state, calls, crowded, answers, ran, dir, temp, stage, native, main, io>>

-----------------------------------------------------------------------------
(* On the thread that completes a request. *)

\* onResponse() and onData(): the .ker is in a temporary file.
Receive(r) ==
  /\ stage[r] = "sent"
  /\ stage' = [stage EXCEPT ![r] = "received"]
  /\ temp' = IF r[2] = "ker" THEN [temp EXCEPT ![r] = {"zip"}] ELSE temp
  /\ UNCHANGED <<pkgs, uri, calls, crowded, dir, native, main, io>>

\* onError(): no answer, or the task was cancelled.
Fail(r) ==
  /\ stage[r] = "sent"
  /\ stage' = [stage EXCEPT ![r] = "answered"]
  /\ main' = Append(main, Fn("failed", r))
  /\ UNCHANGED <<pkgs, uri, calls, crowded, dir, temp, native, io>>

\* Mutant: what is not an archive is left in the temporary directory.
UnzipKeeping(r, archive) ==
  \/ /\ archive # "bad"
     /\ temp' = [temp EXCEPT ![r] = {archive}]
     /\ main' = Append(main, Fn(IF archive = "whole" THEN "done" ELSE "failed", r))
  \/ /\ archive = "bad"
     /\ UNCHANGED temp
     /\ main' = Append(main, Fn("failed", r))

\* Mutant: an entry that cannot be written does not make the archive fail.
UnzipUnchecked(r, archive) ==
  \/ /\ archive # "bad"
     /\ temp' = [temp EXCEPT ![r] = {archive}]
     /\ main' = Append(main, Fn("done", r))
  \/ /\ archive = "bad"
     /\ temp' = [temp EXCEPT ![r] = {}]
     /\ main' = Append(main, Fn("failed", r))

\* onDone() of a .ker, from what came: the files that unlink() and remove()
\* leave (a directory is not removed by either) and what is posted.
Unzip(r, archive) ==
  \/ /\ archive = "whole"
     /\ temp' = [temp EXCEPT ![r] = {"whole"}]
     /\ main' = Append(main, Fn("done", r))
  \/ /\ archive = "torn"
     /\ temp' = [temp EXCEPT ![r] = {"torn"}]
     /\ main' = Append(main, Fn("failed", r))
  \/ /\ archive = "bad"
     /\ temp' = [temp EXCEPT ![r] = {}]
     /\ main' = Append(main, Fn("failed", r))

Done(r) ==
  /\ stage[r] = "received"
  /\ stage' = [stage EXCEPT ![r] = "answered"]
  /\ \/ r[2] = "ker" /\ \E archive \in Archives : Unzip(r, archive)
     \/ r[2] = "meta" /\ main' = Append(main, Fn("done", r)) /\ UNCHANGED temp
  /\ UNCHANGED <<pkgs, uri, calls, crowded, dir, native, io>>

\* The block posts the release of its request.
Complete(r) ==
  /\ stage[r] = "answered"
  /\ stage' = [stage EXCEPT ![r] = "over"]
  /\ main' = Append(main, Fn("release", r))
  /\ UNCHANGED <<pkgs, uri, calls, crowded, dir, temp, native, io>>

-----------------------------------------------------------------------------
(* On the IO queue.  File::move() is two steps: others see the empty directory. *)

\* Mutant: what is at the path is removed first, whatever it is.
MakeDirAnew(r) ==
  /\ Runs(io, "mkdir", r)
  /\ dir' = [dir EXCEPT ![Path[r[1]]] = "empty"]
  /\ io' = <<Fn("rename", r)>> \o Tail(io)
  /\ UNCHANGED <<pkgs, uri, calls, crowded, temp, stage, native, main>>

\* unlink(to) fails on a directory; File::mkdir() makes `to` itself, because
\* the path ends with a slash.
MakeDir(r) ==
  LET to == Path[r[1]] IN
  /\ Runs(io, "mkdir", r)
  /\ dir' = [dir EXCEPT ![to] = IF @ = "absent" THEN "empty" ELSE @]
  /\ io' = <<Fn("rename", r)>> \o Tail(io)
  /\ UNCHANGED <<pkgs, uri, calls, crowded, temp, stage, native, main>>

\* rename(), which fails when the directory at the path is not empty.
Renames(r) == temp[r] # {} /\ dir[Path[r[1]]] = "empty"

\* rename() and the callback of move(), whatever became of the file.
Rename(r) ==
  /\ Runs(io, "rename", r)
  /\ \/ /\ Renames(r)
        /\ \E files \in temp[r] : dir' = [dir EXCEPT ![Path[r[1]]] = files]
        /\ temp' = [temp EXCEPT ![r] = {}]
     \/ /\ ~ Renames(r)
        /\ UNCHANGED <<dir, temp>>
  /\ io' = Tail(io)
  /\ main' = Append(main, Fn("moved", r[1]))
  /\ UNCHANGED <<pkgs, uri, calls, crowded, stage, native>>

\* remove() of the request's file, a directory that is gone or is not empty.
Remove(r) ==
  /\ Runs(io, "remove", r)
  /\ io' = Tail(io)
  /\ UNCHANGED <<pkgs, uri, calls, crowded, dir, temp, stage, native, main>>

-----------------------------------------------------------------------------

MainStep ==
  /\ UNCHANGED death
  /\ \/ \E p \in Packages :
          Construct(p) \/ AsyncLoad(p) \/ AsyncError(p) \/ MetaDone(p) \/ KerDone(p)
          \/ Moved(p)
     \/ \E r \in Requests : Failed(r) \/ ReleaseRequest(r)

IoStep == UNCHANGED death /\ \E r \in Requests : MakeDir(r) \/ Rename(r) \/ Remove(r)

NativeStep(r) == UNCHANGED death /\ (Receive(r) \/ Fail(r) \/ Done(r) \/ Complete(r))

\* The process dies and is started again: the directories stay as they are.
Crash ==
  /\ crashes < MaxCrashes
  /\ crashes' = crashes + 1
  /\ cut' = cut \cup {d \in Paths : dir[d] = "empty"}
  /\ Started(state', alive', calls', http', answers', ran', temp', stage', native',
             main', io')
  /\ UNCHANGED <<uri, dir, crowded>>

Next ==
  \/ UNCHANGED death /\ \E p \in Packages : Open(p) \/ Drop(p)
  \/ MainStep \/ IoStep
  \/ \E r \in Requests : NativeStep(r)
  \/ Crash

Spec == Init /\ [][Next]_vars

\* The two queues run what they hold and the platform goes on while a request is
\* not completed: there are finitely many, so each one is, in any order.
FairSpec ==
  /\ Spec
  /\ WF_vars(MainStep) /\ WF_vars(IoStep)
  /\ WF_vars(\E r \in Requests : NativeStep(r))

-----------------------------------------------------------------------------

Functions ==
  [op : {"open", "load", "error", "moved"}, of : Packages]
    \cup [op : {"done", "failed", "release", "mkdir", "rename", "remove"}, of : Requests]

\* Types; a request is retained once at most for its task and UI::open() calls
\* back once at most.
TypeOK ==
  /\ uri \in URIs
  /\ dir \in [Paths -> {"absent", "empty", "torn", "whole"}]
  /\ temp \in [Requests -> SUBSET {"zip", "torn", "whole"}]
  /\ state \in [Packages -> {"none", "loading", "loaded", "error"}]
  /\ alive \subseteq Packages /\ calls \subseteq Packages
  /\ crowded \subseteq Paths
  /\ http \in [Packages -> SUBSET Requests]
  /\ answers \in [Packages -> 0..1]
  /\ ran \in [Packages -> {"not", "absent", "empty", "torn", "whole"}]
  /\ stage \in [Requests -> {"idle", "sent", "received", "answered", "over"}]
  /\ native \in [Requests -> 0..1]
  /\ main \in Seq(Functions) /\ io \in Seq(Functions)
  /\ crashes \in 0..MaxCrashes /\ cut \subseteq Paths

\* The completion block of KerHttp.mm uses its request through a raw `this`:
\* the request outlives the task, also when the package is dropped before it.
RequestOutlivesTask ==
  \A r \in Requests : stage[r] \in {"sent", "received", "answered"} => RequestAlive(r)

\* An application never runs from a directory that is missing, empty or partly
\* unzipped, also after the process has died and come back, unless two packages
\* of its path were loading at the same time or the process died at the one
\* moment when the directory was made and nothing was in it.
RunsWhole ==
  \A p \in Packages : Path[p] \notin crowded \cup cut => ran[p] \in {"not", "whole"}

Quiet ==
  /\ main = <<>> /\ io = <<>>
  /\ \A r \in Requests : stage[r] \in {"idle", "over"}

\* Unless two packages of its path were loading at the same time or a script
\* dropped the package, neither the file of a request nor a directory it was
\* unzipped to is left behind, except that of an archive that failed half-way.
NoTempLeft ==
  Quiet => \A p \in Packages \ Scripted : Path[p] \notin crowded =>
             temp[<<p, "ker">>] \subseteq {"torn"}

\* What has been installed at a path is never replaced or emptied, not even by
\* a second download of the same package or one after a crash.
InstalledStays ==
  [][\A d \in Paths : dir[d] = "whole" => dir'[d] = "whole"]_vars

\* Every UI::open() is answered, with an application or with an error, unless
\* the process dies first.
EveryOpenAnswered ==
  \A p \in Packages : p \in calls \ Scripted ~> answers[p] = 1 \/ p \notin calls

=============================================================================
