---------------------------- MODULE ScriptStorage ----------------------------
(***************************************************************************)
(* SqliteStorage (core/storage.cc) with the callbacks that scripts give it: *)
(* the JSObject that stands for a script's function (core/jit.cc), kept by  *)
(* closures of two queues, and found and forgotten through the tables of    *)
(* the app's JITContext.  One key stands for the keys.                      *)
(***************************************************************************)
EXTENDS ScriptQueues

CONSTANTS
  Context,    \* the duk_context of the app, which is never destroyed here
  Callbacks,  \* heap pointers: the functions of scripts
  JSObjects,  \* the addresses of JSObjects
  StashKey    \* the key of a function in the stash: the low 32 bits of its address

\* The keys of different functions differ: the code takes it for granted.
ASSUME KeysDiffer == \A f, g \in Callbacks : StashKey[f] = StashKey[g] => f = g

Missing == 0

VARIABLES
  tables,  \* the JITContext of the app's queue
  stash,   \* the global stash of the heap, which keeps functions by key
  object,  \* the life of each JSObject: free, live or dying
  made,    \* the function that each JSObject was made for
  stored,  \* the value of the key in the database
  last,    \* the value that the script last set
  got,     \* what get() read
  owed,    \* the numbers of the loads whose callback was not called yet
  lost     \* those made with a function whose former JSObject was dying

storage == <<stash, object, made, stored, last, got, owed, lost>>

StorageInit ==
  /\ tables = NoEntries
  /\ stash = <<>>
  /\ object = [j \in JSObjects |-> "free"]
  /\ made = [j \in JSObjects |-> NoHeapptr]
  /\ stored = Missing /\ last = Missing /\ got = Missing
  /\ owed = {} /\ lost = {}

Heapptr(j) == GetHeapptr(tables, j, Context)

-----------------------------------------------------------------------------
(* The script's side. *)

\* Mutant: the function is not put in the stash, where the heap finds it.
ObtainUnkept(f, j) ==
  IF GetObject(tables, f) # NoObject
  THEN j = GetObject(tables, f) /\ UNCHANGED <<tables, stash, object, made>>
  ELSE /\ object[j] = "free"
       /\ object' = [object EXCEPT ![j] = "live"]
       /\ made' = [made EXCEPT ![j] = f]
       /\ tables' = Weak(tables, Context, f, j)
       /\ UNCHANGED stash

\* GetAny: the JSObject of a function, or a new one.
Obtain(f, j) ==
  IF GetObject(tables, f) # NoObject
  THEN j = GetObject(tables, f) /\ UNCHANGED <<tables, stash, object, made>>
  ELSE /\ object[j] = "free"
       /\ object' = [object EXCEPT ![j] = "live"]
       /\ made' = [made EXCEPT ![j] = f]
       /\ stash' = With(stash, StashKey[f], f)
       /\ tables' = Weak(tables, Context, f, j)

Crossing(f) == \E i \in JSObjects : object[i] = "dying" /\ made[i] = f

Asked(f, j) ==
  /\ Calling
  /\ Obtain(f, j)
  /\ owed' = owed \cup {calls'}
  /\ lost' = IF object[j] = "free" /\ Crossing(f) THEN lost \cup {calls'} ELSE lost
  /\ UNCHANGED <<stored, last, got>>

Question(j) == [Closure("load") EXCEPT !.fn = j, !.req = calls']

Load(f, j) == Asked(f, j) /\ Async(IO, Question(j), code)

LoadKeys(f, j) == Asked(f, j) /\ Sync(Main, IO, Question(j), Now(Main, "asking"))

\* Mutant: the value is written at once when it is missing.
PutEager(v) ==
  /\ Calling
  /\ last' = v
  /\ IF v = Missing
     THEN stored' = v /\ UNCHANGED <<queues, code>>
     ELSE Async(IO, [Closure("put") EXCEPT !.val = v], code) /\ UNCHANGED stored
  /\ UNCHANGED <<tables, stash, object, made, got, owed, lost>>

\* set(); clear() and set() of nothing remove the value.
Put(v) ==
  /\ Calling
  /\ last' = v
  /\ Async(IO, [Closure("put") EXCEPT !.val = v], code)
  /\ UNCHANGED <<tables, stash, object, made, stored, got, owed, lost>>

GetValue ==
  /\ Calling
  /\ Sync(Main, IO, Closure("get"), Now(Main, "getting"))
  /\ UNCHANGED <<tables, storage>>

\* The script goes on with what get() returned.
Got ==
  /\ Runs(Main, "getting") /\ GoesOn(Main, "script")
  /\ UNCHANGED <<calls, events, tables, storage>>

\* loadKeys() returns.
AskedKeys ==
  /\ Runs(Main, "asking") /\ GoesOn(Main, "script")
  /\ UNCHANGED <<calls, events, tables, storage>>

-----------------------------------------------------------------------------
(* The functions on the IO queue. *)

\* Mutant: the answer does not keep the callback.
AnswerUnkept ==
  /\ Runs(IO, "load")
  /\ Async(Main, [code[Top(IO)] EXCEPT !.kind = "reply", !.fn = NoObject, !.val = stored],
           Now(IO, "over"))
  /\ UNCHANGED <<calls, events, tables, storage>>

\* Mutant: the IO queue waits for the callback.
AnswerWaiting ==
  /\ Runs(IO, "load")
  /\ Sync(IO, Main, [code[Top(IO)] EXCEPT !.kind = "reply", !.val = stored], Now(IO, "over"))
  /\ UNCHANGED <<calls, events, tables, storage>>

Answer ==
  /\ Runs(IO, "load")
  /\ Async(Main, [code[Top(IO)] EXCEPT !.kind = "reply", !.val = stored], Now(IO, "over"))
  /\ UNCHANGED <<calls, events, tables, storage>>

Write ==
  /\ Runs(IO, "put") /\ GoesOn(IO, "over")
  /\ stored' = code[Top(IO)].val
  /\ UNCHANGED <<calls, events, tables, stash, object, made, last, got, owed, lost>>

Read ==
  /\ Runs(IO, "get") /\ GoesOn(IO, "over")
  /\ got' = stored
  /\ UNCHANGED <<calls, events, tables, stash, object, made, stored, last, owed, lost>>

-----------------------------------------------------------------------------
(* The callback, and the end of its JSObject. *)

\* invoke(): nothing is called when the JSObject has no value any more.
Invoke ==
  /\ Runs(Main, "reply")
  /\ LET c == code[Top(Main)] IN
     IF c.fn # NoObject /\ Heapptr(c.fn) # NoHeapptr
     THEN owed' = owed \ {c.req} /\ GoesOn(Main, "script")
     ELSE UNCHANGED owed /\ GoesOn(Main, "over")
  /\ UNCHANGED <<calls, events, tables, stash, object, made, stored, last, got, lost>>

Holders(j) == {t \in Tasks : code[t].fn = j /\ code[t].kind # "delete"}

\* The closure of the function that q has run is freed.
Leaving(q) ==
  /\ Running(q)
  /\ code[Top(q)].kind \in {"script", "over"} /\ code[Top(q)].fn # NoObject

Freed(q) == [code EXCEPT ![Top(q)].fn = NoObject, ![Top(q)].kind = "over"]

\* Another closure still keeps the JSObject.
Release(q) ==
  /\ Leaving(q)
  /\ Holders(code[Top(q)].fn) # {Top(q)}
  /\ code' = Freed(q)
  /\ UNCHANGED <<queues, calls, events, tables, storage>>

\* The destructor takes the function it finds in the tables out of the stash.
Unstashed(h) == IF h = NoHeapptr THEN stash ELSE Without(stash, {StashKey[h]})

\* Mutant: the destructor leaves the tables as they are.
ForgetStash(j) ==
  /\ stash' = Unstashed(Heapptr(j))
  /\ tables' = Cleared(tables, j)
  /\ object' = [object EXCEPT ![j] = "free"]

\* The function of ~JSObject; it is in the destructor that weak entries are clear.
Forget(j) ==
  /\ stash' = Unstashed(Heapptr(j))
  /\ tables' = RemoveObject(Cleared(tables, j), j)
  /\ object' = [object EXCEPT ![j] = "free"]

\* The last closure is freed on the app's queue: the destructor's sync() runs at once.
ReleaseLast ==
  /\ Leaving(Main)
  /\ \E j \in JSObjects :
       /\ j = code[Top(Main)].fn /\ Holders(j) = {Top(Main)}
       /\ Forget(j)
  /\ code' = Freed(Main)
  /\ UNCHANGED <<queues, calls, events, made, stored, last, got, owed, lost>>

\* It is freed on the IO queue, which waits for the app's.
ReleaseLastAway ==
  /\ Leaving(IO)
  /\ \E j \in JSObjects :
       /\ j = code[Top(IO)].fn /\ Holders(j) = {Top(IO)}
       /\ Sync(IO, Main, [Closure("delete") EXCEPT !.fn = j], Freed(IO))
       /\ object' = [object EXCEPT ![j] = "dying"]
       /\ tables' = Cleared(tables, j)
  /\ UNCHANGED <<calls, events, stash, made, stored, last, got, owed, lost>>

Delete ==
  /\ Runs(Main, "delete")
  /\ \E j \in JSObjects : j = code[Top(Main)].fn /\ Forget(j)
  /\ code' = Freed(Main)
  /\ UNCHANGED <<queues, calls, events, made, stored, last, got, owed, lost>>

-----------------------------------------------------------------------------
StorageCalls ==
  \/ \E f \in Callbacks, j \in JSObjects : Load(f, j) \/ LoadKeys(f, j)
  \/ \E v \in {Missing, calls + 1} : Put(v)
  \/ GetValue

OnMain == Got \/ AskedKeys \/ Invoke \/ Release(Main) \/ ReleaseLast \/ Delete

OnIO == Answer \/ Write \/ Read \/ Release(IO) \/ ReleaseLastAway

=============================================================================
