# Verification of ker

ker is a C++ runtime for applications written in JavaScript: a page is a tree of
elements, laid out by C++ code that runs on one dispatch queue, mirrored by
native views on the main thread, with timers, events, packages loaded over HTTP
and workers around it.  This directory holds TLA+ models of its concurrent and
stateful core, the TLC runs that check them on small instances, and proofs, checked by
TLAPS, about nine of its modules.

The repository has no tests and its README is a title, so the models are
translated from the code alone; where a comment or an assertion states what the
code is meant to do, it is quoted next to the property.

## 1. The system

| Part (`src/`) | State | Operations | Used by |
|---|---|---|---|
| Reference counting (`core/kk.cc`, `core/kk.h`) | `Object::_retainCount`; `Ref::_object` of every `Strong`, `Weak`; `Atomic::_objects`, `_weakObjects`, one recursive mutex | `retain`, `release`, `weak`, `unweak`, `lock`/`unlock` (which deletes), `set`, destructors | everything |
| Dispatch queues (`core/dispatch-event.cc`, `dispatch-GCD.cc`) | `_funcs`, thread, event base, the thread-specific key | `async`, `sync`, loop, destructor, `setDispatchQueueSpecific` | UI, IO and network queues, workers, views |
| Timers (`core/timer.cc`, `container.h`) | a `Timer` per call, its `DispatchSource`, `_objects` of a page | `setTimeout`, `setInterval`, `clear…`, the event, page unload | scripts |
| Element tree (`document/element.cc`) | five links per element | `append`, `before`, `after`, `remove` | document, pages, view elements |
| Event emitter (`core/event.cc`, `ui/page.cc`) | `_events`, `_prefixs` | `on`, `off`, `emit` (over a copy) | app, pages, elements, scripts |
| Views (`ui/view.cc`, `ui/ui.cc`, `native/…/KerUI.mm`) | `_parent`, `_subviews`, `_obtainViews`, `_contentOffset`; the native table | `createView`, `addSubview`, `removeView`, `setContentOffset`, `~View`, `execCommand`, `dispatchCommand` | view elements, scripts |
| View elements (`ui/ViewElement.cc`) | `_view`, `_levelId`, `_autoLevelId` | `obtainView`, `recycleView`, `recycleChildrenView` | layout, scrolling |
| Packages (`ui/package.cc`, `ui/app.cc`, `core/http.cc`, `core/file.cc`) | `_state`, `_http`, the files under a path | open, download, unzip, `move`, run | `UI::open`, scripts |
| Documents and their log (`document/document.cc`, `core/archiver.cc`) | elements by id, the commands of a transaction | `begin`, `commit`, `setTransaction` | debugging, replication |
| Network (`core/net.cc`, `ssl.cc`, `WebSocket.cc`) | buffers, status, callbacks | `read`, `write`, `close`, handshake | scripts |
| Storage (`core/sqlite.cc`, `storage.cc`) | an SQLite handle, the IO queue | `get`, `loadKeys` (sync), `set`, `clear`, `load` (async) | scripts |
| JavaScript bridge (`core/jit.cc`) | per queue a `JITContext`: heap pointers to objects and back; the stash of each heap | `GetAny`, `SetObject`, finalizers, `JSObject::invoke`, `~JSObject` | everything scripts see |
| App, page, worker (`ui/app.cc`, `page.cc`, `ui.cc`, `PageElement.cc`) | pages by id, contexts, message handlers | open, recycle, `postMessage`, load and unload of page elements | scripts |

Layout and style, canvases, text and image elements, audio, the debugger, the
TypeScript framework, the mini-program compiler and the native hosts complete
the list; `PROJECT.json` names each with the reason why it is, or is not,
modelled.

**Interactions.** Parts interact by calls on the UI queue, by functions sent to
another queue (`async`, `sync`), by commands sent to the main thread and
reports that come back, by callbacks of the platform (HTTP, timers, touches),
and by shared ownership: an object is freed by whichever thread runs the last
unlock.

**What is hard.** Reference counts shared by threads; objects that are freed
while a callback, an emission or an event of theirs is in progress; raw pointers
captured by functions that run later; `sync` between queues; destructors that
join threads; two sides of a mirror that change at the same time; ids that are
addresses; a package directory that two loads, or a failure half-way, may leave
in between.  `PROJECT.json` lists these hazards at their lines, with
the property that covers each, or why none does yet.

## 2. Modules

| Module | Models | Checked by | Proved in |
|---|---|---|---|
| `RefCount` | reference counting by several threads | `MCRefCount` | `RefCountProofs` |
| `SerialQueue` | what users of a dispatch queue rely on (abstract) | | |
| `DispatchQueue` | `LibeventDispatchQueue`; implements `SerialQueue` | `MCDispatchQueue` | `DispatchProofs` |
| `Timers` | timers of pages and contexts on one queue | `MCTimers` | `DispatchProofs` |
| `Forest` | an ordered forest, of which elements disappear whose children may stay (abstract) | | |
| `ElementTree` | the five links; implements `Forest` | `MCElementTree` | `ElementProofs` |
| `EventEmitter` | emission over a copy; pages subscribed to their app | `MCEventEmitter` | `EmitterProofs` |
| `ViewMirror` | views, the command queue and the native side together | `MCViewMirror` | `ViewProofs` |
| `ViewRecycling` | which element has which View | `MCViewRecycling` | `RecyclingProofs` |
| `PackageLoad` | package, HTTP request, files, three threads together, a crash | `MCPackageLoad` | `PackageProofs` |
| `JITContext` | the tables of a `JITContext`, as operators | `MCScriptBridge` | `ScriptBridgeProofs` |
| `ScriptQueues` | the app's, the IO and a worker's queue: `SerialQueue` with bodies | `MCScriptBridge` | |
| `ScriptStorage` | `SqliteStorage` and the JSObjects of its callbacks | `MCScriptBridge` | |
| `ScriptWorkers` | a `Worker`, its context and its messages | `MCScriptBridge` | |
| `ScriptBridge` | the three together | `MCScriptBridge` | `ScriptBridgeProofs` |

The `TypeOK` of a module states what its variables hold.  It documents the state, and
no run lists it; those of `RefCount`, `Timers`, `DispatchQueue`, `ElementTree`, `EventEmitter` and
`ViewMirror` are proved.

An operator whose comment begins with "Mutant" is a deliberately wrong form of the
definition after it; the `mutants` of `PROJECT.json` say which property notices.

### RefCount
`life` is the record of `zombies.cc`, `count` is `_retainCount`, `ref` what each
smart pointer holds, `weaks` and `queue` are `_weakObjects` and `_objects` of
`Atomic`.  `todo[t]` is the call stack of a thread, flattened: the mutex sections it has still
to execute.  `Client(t)` begins an operation that a program can write with the pointers
it may use (`set`, copy, a function sent with a captured pointer);
`Step(t)` executes one section: increment, decrement, the test in
`addObject`, the drain that `unlock()` does, a destructor that releases the
members one after the other.  `Owner` gives the regime: the stack or the object
each pointer lives in.  The count read from an object that was freed is any
number.  `Weak::set` is one step.  A `layout` is a program: where each pointer lives and
which are captured; an instance gives the set of them (`Layouts`).

### SerialQueue and DispatchQueue
`SerialQueue` has functions that are pending, running or finished, FIFO per
queue, one at a time, and callers that wait for the end of theirs.
`DispatchQueue` has the `_funcs` list, the thread from its start through
`event_base_dispatch` to its end, the libevent break flag (which entering the loop
clears), the condition variable of `sync` without a predicate, the thread-specific
key and the destructor: break, join, free.  A runner is a thread or a queue's
thread and may be inside nested functions (`sync` on one's own queue runs inline).
`SyncPairs` says who calls `sync` on whom, in a circle too, `DropPairs` who releases whom.
`Doomed(r)` is what a circle leaves: a set of runners each of which waits for another of it.
The refinement maps `funcs` to `pending`, `wait` to `blocked` and freed queues to closed.

### Timers
A call of `setTimeout` or `setInterval` allocates a `Timer` at a free
address, which is also the id that the script gets.  `at` is what lives at an address, `objects` the
`_objects` of each container, `events` and `pending` the libevent event
and whether it is in the loop.  `Fire` takes a pending event; the function that runs may call
every operation (`Script`), `Return` ends it: a timeout
removes its Timer, an interval adds its event again if it still has one.  A
`Context` refuses every timer, as `Context::set` does in the code.

### Forest and ElementTree
`links` holds the five pointers; `AppendChild`, `Before`, `After`, `Remove` change
them in the order of the code, `Hold` and `Release` are what scripts and the
document's users keep.  After each, `Surviving` frees what no `Strong` keeps; so it does in the
middle of a move, when `remove()` has detached the element (`AfterRemove`).  The
refinement maps each parent's sibling chain to a sequence of children.  One assumption
stands for the callers: an element is not put next to itself or into its own subtree (`Movable`).

Nothing keeps a parent alive for its children: its pointer in them is weak.  Who keeps a child (the rows of a list in
`view.ts`, a script's variable) and not the parent leaves that child and the siblings after it adrift: linked to one another, without a parent.  Two
things can then go wrong, and `fault` records them.  `remove()` of one that has a previous sibling calls
the null parent (`Crash`; every move begins with `remove()`).  `remove()` of one without a previous sibling does not look at
its next one, whose `_prevSibling` goes on naming it; `before()` that one then makes the new element the next
sibling of an element that may be anywhere (`Stale`), and a ring of Strong pointers may close.  The specification
stops at a fault; the properties say what holds until then, and what it takes to get there.

### EventEmitter
`lists` holds the functions by name and by prefix, `stack` the emissions in
progress, each with the copy it goes through (`rest`), what it called (`done`)
and what it owes (`due`: subscribed from its start on).  Handlers may
subscribe, unsubscribe, emit and drop pages.  With `DropsInside` a handler of the
app's events may drop a page, as `PageElement::unloadPage` can.  `off()` and `off('*')` of a
script on the app take the pages' own functions too: `cut` holds the pages this deafened.

### ViewMirror
`parent`, `subviews`, `pool`, `shown`, `offset` are the C++ side; `commands`
is the queue to the main thread; `native` is the table of `KerUIViews` with
superview and offset; `reports` go back to the UI queue.  An action of a view is
the whole handler with the commands it sends, and `~View` of all that dies with it.  Views that die
together do so in any order, and what takes several subviews away goes through them in any order (`Orders`).

### ViewRecycling
Everything is on the UI queue, so a walk over the tree (layout, scroll, touch,
recycle) is one step: `Run` does one after the other the `obtain`, `sweep` and `recycleView` of
the elements, which `Visited` lists in the order of the code.  Which elements are in sight is
chosen freely.  Reference counts are not kept: a View is alive if the context or an element has it, or a living View
keeps it (`Live`).

### PackageLoad
`Open`, `Drop` are calls of scripts and of `UI::open`; `MainStep` and
`IoStep` execute the functions of the two queues; `NativeStep` is the platform's
task: data, completion, release.  A directory is absent, empty (between `mkdir`
and `rename`), torn or whole.  `crowded` remembers the paths of
which two packages were loading at the same time.  `Crash` ends the process at any
moment and starts it again: packages, requests and queues are gone, what is on the disk
stays.  `cut` holds the paths at which it fell between the `mkdir` and the `rename`.

### JITContext, ScriptQueues, ScriptStorage, ScriptWorkers and ScriptBridge
`JITContext` has the tables and one operator per method; they return the new tables.
`ScriptQueues` takes the queues as `SerialQueue` (`INSTANCE`, its variables shared), which
`DispatchQueue` implements, and gives each function a body: `code[t]` is the closure, with what is left to
do (`kind`), the `Strong<JSObject>` (`fn`) and `Strong<Worker>` it captured.  A function of a
queue takes a step at a time; between two of them the other queues move.

`ScriptStorage` has one key of `SqliteStorage`.  `Put` sends a closure, `GetValue` waits for one,
`Load` and `LoadKeys` make or find the JSObject of a function (`Obtain`, which is `GetAny` and
the constructor) and send closures that keep it; `Answer` sends the result back, `Invoke` calls the
function if the tables still have it.  The closure that goes last
destroys the JSObject: on the app's queue at once (`ReleaseLast`), on the IO queue by a
`sync` to the app's queue (`ReleaseLastAway`, `Delete`), while its weak entry
already reads as null (`Cleared`).  Two things follow, and the properties name them: `Circle`
(the app's queue may be waiting for the IO queue at that moment) and `lost` (a
function given away while its former JSObject is dying gets a JSObject that `weak()` does not
enter, because the key is there; its callback is never called).

`ScriptWorkers` has one Worker.  The app's heap alone keeps it, through the strong table:
`Context::set`, which should, only replaces an entry that exists.  Messages go down with the raw context, up
with a `Weak<Worker>` that becomes a Strong for as long as a post or a handler runs.
`terminate()` and `~Worker` release the context on the worker's queue and wait.  If the Strong
of a post is the last one, `~Worker` runs on the worker's own queue.  In a function of `postMessage()`, because the heap
collected the value meanwhile, that function has a Strong to the context: the heap lasts until it ends (`PostedLast`, `Leave`), and
the queue is then released by its own thread.  The model drops what the queue held; that `pthread_join` of
one's own thread fails at once, and that the thread goes on in the freed queue, is not followed.  In the script that the constructor
runs nobody has a Strong (`PostedFalling`): the heap goes under its feet.  `fallen` is that function; what the program does after that is
undefined, and the run follows only its queues.

## 3. Runs

| Run | Instance | Shows |
|---|---|---|
| `refcount_safe` | two layouts: 2 threads, 3 objects, all pointers on the stack of one thread; 1 thread with members and a captured Strong | nothing is touched after it was freed, a Strong keeps its object, counts are those of the pointers, the weak registry stays current, everything released is deleted.  Without members that is so although the lock is left between decrement and test, and although either thread may delete the other's objects |
| `refcount_composite` | 2 threads, an object with a member | **violation** of `DeallocOnce` (finding 1) |
| `dispatch` | 2 queues that may wait for each other, the main thread, 3 functions | refinement of `SerialQueue`, no lost wakeup, functions know their queue, none is forgotten, `sync` returns and destructors end unless they are in a circle |
| `dispatch_startup` | queues that start together | **violation** of `CurrentKnown` (finding 2) |
| `elements` | 5 elements, symmetric, parents that go before their children | until a fault: refinement of `Forest`; links agree; no cycle of Strong pointers; only the loss of a parent among siblings leads to a fault |
| `timers` | 2 addresses, 2 calls, 2 pages, 1 context | held timers are live, nothing fires into a dead page, cleared timers stay so, timeouts fire and intervals repeat |
| `emitter_queue` | 2 pages, 1 script function, nesting 2 | emission runs on living emitters, nobody is skipped, no function of a dead page stays subscribed, a page hears the app until a script takes everything off |
| `emitter_inside` | handlers of the app drop pages | **violation** of `DestroyedOnce` (finding 3) |
| `views` | a page's view and 2 others, 2 commands and 1 report in flight | the native tree follows, no command is ignored, no ghost view, offsets converge |
| `package` | 2 packages: of one path, opened and made by a script or both opened, or one of them local; all archive kinds | with a crash and a restart at any moment: whole packages run, installed ones stay, every open is answered, nothing is left behind |
| `recycling` | 2 rows with icons, one in a block, 6 Views | one owner per View, the Views form the element tree, whoever is in sight has one |
| `bridge` | 1 function, 2 addresses for JSObjects, 1 worker, 3 calls out of two events and callbacks | functions stay in the heap while they are known, `get` sees the `set` before it, a worker's heap outlives its scripts, callbacks are called and calls return, but for the circle, the lost function and the constructor's script that drops its own worker |

**Findings.** (1) `release()` decrements in one section and tests in another,
and any thread deletes; a member can be released by the deleting thread and by its owner
thread at once, both see zero, and it is deleted twice.  (2) The
thread-specific key is made without a lock: of two queues that start together one
loses its current queue.  (3) A page that is dropped by a handler of an
app event is still in the copy that `emit` walks; its function emits on the dead page.

**Bounds, and why they are enough.**
Three objects are a chain of two members or two objects and one handed over; a
third pointer to one object adds no new pair of sections.  Two queues below the main thread are the
longest chain of `sync` calls in the code (main, UI, IO); with three
functions one can run, one wait and one be queued.  Five elements give
a parent with three children, where a middle child moves, and a second parent to move
to; the links of an operation reach no further than two neighbours.  They also close the ring of a crossed link: the lost
parent, two children, the element one of them is moved to and the one put before the other.  Two timers at two
addresses suffice for a stale id and for reuse of its address.
Two emissions nest (`MaxDepth`), and one subscription per list (`MaxList`) with two lists
is an emission that loses and gains a function.  Two commands in flight and one more call put a create, an
add and a remove in the queue together.  Two packages of one path are one overlap; the instance ranges over what their URIs are (`URIs`).
Six Views are one for each element and one spare: with five, walks run out.
`MaxLevel` lets one row be removed and added again.
One crash may fall on any state of a load, and one restart opens the path again.  Three calls are a `load`, a
`get` in the next event and a second `load` of the same function, which reach the circle and the
lost function; or a worker that is made, posted to and collected.  That a second message waits in the worker's queue when its
last Strong goes takes a fourth call: the proof of `HeapSafe` covers it, the run does not.  `MaxClosures` is larger
than what three calls and their answers use.  One function suffices for `FunctionsKept` where functions do not share
a key; the proof has any number.

**Fairness.** `RefCount!FairSpec`: a thread goes on with the sections it began.
`DispatchQueue!FairSpec`: weak fairness of the loop's turn, of the end of a running function,
of the return from a `sync` that was woken and of a destructor that can go
on; no call is ever forced.  `Timers!FairSpec`: a function returns (weak),
and the event of each call fires when it is pending again and again (strong:
an interval may be pending, run and be pending for ever while others run; libevent keeps
its timers in a heap by time).  `PackageLoad!FairSpec`: the two queues run what they hold, and the platform
goes on while any request is not completed; that it answers is an assumption, since the request has no timeout.
`ScriptBridge!FairSpec`: each of the three queues goes on with what it holds; events and the calls of
scripts are never forced.  There a `sync` has no spurious wakeup (`Spurious` is empty).

**Deadlock** is not checked where the instance ends: functions, calls, objects and
packages are each used once, where a circle of `sync` stops the queues, and in the tree of elements, which stops at a fault.  Emitters and recycling cannot stop and are checked for it.

**Reduction.** Elements, pages, functions and views that nothing distinguishes are
symmetric in the runs that check no liveness.

## 4. Proofs

`RefCountProofs` is about any number of threads, objects and pointers.  `TypeCorrect` needs no hypothesis:
each section pushes what it leads to on `todo`, and a lemma per operation shows that these are
operations again.  The rest is proved of safe programs; `Safe`
says that all pointers are on the stacks and in the objects of one thread (`OneThread`), or that no object
has members and no function captures a pointer (`Separate`): each thread counts objects of its own, though the drain of one
may delete those of another.  That is an assumption about programs, and not all of this repository's keep it: a closure of the storage
(`storage.cc:170-184`) lets two queues count one JSObject.  With a member that a second thread knows too the properties are false:
`refcount_composite` shows it.

* `CountsKept`: `Inv`, of which the others are consequences.  Its parts: what a thread has still to do is
  one `set` under the frames of destructors and one `release` (`Shape`); each count is the number of
  pointers that hold the object, of threads that retained it and have not stored it, and of threads that
  unlinked it and have not released it (`Counted`); an
  object whose count is zero is on its way out, or somebody is about to retain or test it (`NobodyLost`), and somebody
  is about to drain what is queued (`QueueDrained`); an object is queued once and deleted by one thread
  (`EndsOnce`), until then it is allocated (`DoomedLive`) and nobody knows it (`GoneForgotten`); the registry
  has exactly the Weak pointers there are (`Registered`); one thread at most
  has pointers to an object (`OneHome`); and with a single thread a drain finds what its own
  release queued (`Undisturbed`).
* `UseIsSafe`, `DeletedOnce`, `StrongIsSafe`, `WeakIsSafe`, `CountIsExact`: the invariants of
  `refcount_safe`, and that nothing is deleted twice.

They assume `SlotsAssumption`, `ObjectsAssumption` and, for counts to be numbers, `FiniteAssumption`.

`EmitterProofs` is about any functions, names and prefixes and any depth of emissions.

* `TypeCorrect`: `TypeOK`.
* `NoneStale` and `AllHear`: a dead page has no function in the lists of the app and a living one has its
  own, also while handlers of the app drop pages.  `Agree` says in which lists the functions of pages are.
* `NoneSkipped` and `EndsOnce`: if no handler of the app's events drops a page (`~DropsInside`), an emission runs on a living
  emitter and calls who was subscribed all the time, and `~Page` runs once.  `Kept` says
  that whoever is owed a call was called or is still in the copy that the emission goes through, and that a page
  that is still to be called is held by somebody or emits further down the stack; `OneEnd` that a page ends
  once.  `emitter_inside` shows that the hypothesis is needed.

They assume `EmitterAssumption`.

`ViewProofs` is about any number of views, and of commands and reports in flight.

* `ParentsKnown`: `ParentsAgree` (the other invariants rest on it, so no run lists it), by `Tree`: who has a parent is among
  its subviews and the reverse.
* `NativesFollow`, `AllExecuted`, `GhostsLeave`: the main thread lags behind, so the invariants speak of what it
  will have once it has executed what is in flight.  `Leads` relates the native table, a sequence of commands
  and the table they lead to, through the tables between them (`Trace`); two sequences that lead on from each
  other can be put together and cut anywhere, which is the induction that the proof needs.
  `Follows` says that the native views at the end are those of the UI queue, each under its parent; only what is gone,
  and what lost its parent, may still be below a view that is gone (`Ghosts`).  A lemma per handler says where the
  commands it sends lead, `~View` of all that dies with it in every order included.
* `OffsetsMeet`: `OffsetsAgree`.  `Knows`: the last report about a view says where its native view is
  (`LastSays`); when there is none, the view knows that, or the last command that scrolls it is still in flight
  (`Underway`), as when the user's scroll and the script's cross.

They assume `ViewAssumption`.

The last part of `DispatchProofs` is about `Timers` (whose definitions are called `TimersInit`, `TimersNext`… for the
queues and the timers on them to be read together).  It proves for every set of addresses, calls, pages and contexts:

* `TimersTypeCorrect`: `TimersTypeOK`;
* `HeldTimersStayLive`: what a page holds is a Timer that will still fire;
* `PagesOutliveTimers`: no event of a destroyed page is in the loop;
* `ClearedTimersStayCleared`: what was cleared does not begin again (an action property).

The three do not hold by induction on their own.  `TimersInv` adds: `CallsSettled` (a call
has one address and one container or was not made), `TimersPlaced`
(the Timer at an address is that of a call that returned it), `HoldersOpen` (only open pages hold
timers), `EventsHeld` (an event of a page's call exists only while
the page holds its Timer, at the address the call returned: this is what makes it
impossible for a stale event to survive the reuse of an address) and
`ClearedCancelled` (what a page's script cleared has no event).  `PageOutlivesTimers`
follows from `EventsHeld`, `HoldersOpen` and `pending` being part of `events`; the action property
from `ClearedCancelled`, since only a pending event can fire.  The proof has a step per action
and under it one per conjunct that the action can disturb.  The only assumptions
are `TimersAssumption` (pages are not contexts, `NoCall` is no call).

`ScriptBridgeProofs` proves `FunctionsSafe`: `FunctionsKept` for any number of functions,
objects, calls and closures.  A lemma per operation of `JITContext` says what it changes
(`WeakEnters`, `RemoveObjectForgets`, `RemoveHeapptrForgets`, `StrongEnters`, `ClearedKeeps`), in terms of
`GetHeapptr`.
`KeptInv` strengthens the property by what the destructor relies on: no two JSObjects have
one value (`Distinct`), every key of the weak table belongs to a JSObject that is living or dying (`AllFound`: without it a
key could outlive its function and be left alone by `weak()` for ever), and each function in the
stash is under its own key and known (`AllOwned`).  Nothing about the queues is needed: the facts hold
whichever closure goes last.  The assumptions are `ValuesDiffer` (addresses of different
things differ) and `KeysDiffer`: the key in the stash is the address printed as
`0x%x`, so the code takes it for granted that no two functions agree in the low 32 bits.

`HeapSafe` and `GetsSafe` rest on the order of the queues; they are proved
for any number of closures, calls, events, posts, callbacks and JSObjects.  Both build
on `Base`: the queues are typed (`QueuesTyped`), so are the closures (`CodeTyped`), and each
function is fresh, finished, or in one place of one queue (`Placed`).  A lemma per operation
of `SerialQueue` shows that `Base` is kept, `StepsAreQueueSteps` that the program takes no other
step, and a lemma per group of actions says which function it changes or gives to
which queue (`GoesAlone`, `Gives`).

* `HeapSafe`: `HeapOutlivesScripts`.  `HeapInv` adds `ReleaseWaited` (the release of the
  worker's context is the function that the app waits for), so nothing can be given to the worker's
  queue behind it (`ReleaseLastOfAll`), and once it has run `NothingToRun` is left there, but for the script that dropped its own Worker.  Nor
  is a message waiting when that happens (`Early => NoPosts`): until the constructor has returned no script has the
  Worker to post to (`Unkept`, by the tables of `KeptInv`).  A message that drops the last Strong leaves the heap alive until it ends, and
  nothing in the queue (`LeaveDrops`).
* `GetsSafe`: `GetSeesPuts`.  `OrderInv` says the same of a read on the IO queue
  (`GetWaited`, `GetLastOfAll`), that without a write under way the database has the value last set
  (`Written`), and that otherwise the last write in the queue has it (`LastWrite`).  When a read runs it is
  alone in its queue; `AnswerInv` carries what it read to the script.

They assume `QueuesAssumption`: the three queues differ, and the bounds are numbers.

The first part of `DispatchProofs` is about any number of queues, runners and functions, and any `SyncPairs` and
`DropPairs`.

* `CallersServed`: `WaiterServed`, spurious returns of the wait and queues that start
  together included.  `Inv` adds: a function not yet sent is nowhere (`Unsent`), functions
  run and wait inside of the loop only (`InsideLoop`), who was woken was woken by a function that
  finished (`Awake`), a queue is joined or freed only after it was dropped (`JoinedDropped`),
  nobody but its own thread waits for a function of a dropped queue (`DroppedUnused`: this is
  what makes it safe that the destructor throws the rest of `_funcs` away), and `Served`, which
  says where the function is that a caller waits for.
* `CurrentAlwaysKnown`: `CurrentKnown`, if no two queues start at once (`~Together`).  `OneKey` says
  that only one queue is between the test of the key and its use, and that a started queue has the one
  key there is.  `dispatch_startup` shows that the hypothesis is needed.
* `QueuesAreSerial`: under the same hypothesis `DispatchQueue` implements `SerialQueue`.  A step per
  action names the abstract one: `async` and `sync` send, the loop begins, `Finish` ends, the thread's
  start, the key, the condition variable and the join are stutters.

This part assumes `DispatchAssumption` only.

`PackageProofs` is about any number of packages, paths and crashes.  It follows where the next
step of a package is: in one function of one queue, or with one task of the platform, its token.

* `WholeRuns`: `RunsWhole`.  `Inv` adds, of each package: it has one token at most (`Alone`), each of its
  requests is sent once (`SentOnce`), who has a token is still loading (`HoldersLoad`), and what is being
  moved to a directory is whole, what is about to run is there (`WholeComes`); and of the paths: a
  directory is empty only while a rename to it is in the IO queue, or after a crash
  (`EmptyMoves`), and of the packages of a path that is not in `crowded` one at most loads (`OneLoads`).
  So who finds a directory that another is still filling was opened while that one was loading.
* `RequestsLive`: `RequestOutlivesTask`.  `TaskKeeps` says that the release of a request is in the main
  queue only when its task is over; `SentOnce` that no second task begins.
* `InstalledStay`: `InstalledStays`, by `MovesWhole` and the two steps that change a directory.
* `NothingLeft`: `NoTempLeft`.  `Tidy` adds that what is in the temporary directory, but for the remains of
  an archive that failed half-way, is that of a package whose `.ker` is on its way (`Moving`), and that meanwhile its
  directory is absent, or empty between `mkdir` and `rename`: so the rename that takes the files away succeeds.

They assume `PackageAssumption`.

`ElementProofs` is about any number of elements.

`NeighboursAgree` and `PointersValid` are `LinksAgree` and `TypeOK`.  A lemma per operation (`DetachedGood`, `AppendedGood`, `BeforeGood`, `AfterGood`) says what it does to
each pointer of each element.  `Good` adds that a parent has a first child if and only if it has a last
one (`AgreesAt`: otherwise `append()` would put a second first child), that freed elements
point nowhere (`Closed`), and that everything allocated is kept by something that is
(`Supports`).  `Surviving` is the largest set that supports itself, which replaces an induction along the siblings: with a parent,
all its children survive and no other element has one of them as a neighbour, so the pointers of who stays agree as
before (`SiblingsSurvive`, `CountedGood`), and a child that stays without its parent keeps its next siblings.  A move
that takes an element from one Strong and gives it to another frees nothing (`CommitAll`).
After a fault only `Sound` is left: pointers of allocated elements lead to allocated elements, for the step that
crosses the links too (`BeforeSound`).

`NothingLeaks` is `NoLeak`.  `Grounded` says that every set of elements has one that no other of it leads to, as its parent
or with its next sibling: the elements can be listed with each after those, which are the only ones that keep it
(`KeepersLead`).  So a set that nobody outside keeps is empty.  `append()`,
`before()` and `after()` put one element after some that do not come after it (`PlacedGrounded`): here the
guard of `Movable` is needed, and that `remove()` and what it frees only take parents away (`AboveLess`).

`PointersAreForest` is `ImplementsForest`.  `Chain(L, S, p, s)` says that `s` is the children of `p` in order,
`Chained` that every element has such a sequence, which is then what `Children` computes
(`ChildrenAre`).  A lemma per operation says what becomes of the
sequences (`DetachedChain`, `InsertedChain`), one what reference counting does to them (`CountedKids`: of the children of who goes
those after one that stays do, `SuffixSurvives`), and a last one that this is the operation of
`Forest` (`RemoveForest`, `MoveForest`, `ReleaseForest`).

`DriftByLossOnly` is `AdriftByLoss`.  `Moored` says that who has no parent has no siblings: every operation keeps it unless
it frees the parent of an element that stays (`DriftStep`), and while it holds `remove()` finds a parent and no
`_prevSibling` is stale.

All assume `NilAssumption`: `Nil` is no element, and there are finitely many (`Children` counts them).

`RecyclingProofs` is about any tree of elements, any reuse keys, and Views without a bound
(`~ IsFiniteSet(Views)`: `createView()` always gives one).

* `TypeCorrect`: `TypeOK`, by `Leveled`: what is recycled is closed under `Below` (`SubtreeIs`), so no element that
  stays loses its place among its siblings.
* `OneOwner`: `Exclusive`.  `Good` holds after each step of a walk, whatever the steps are.  It adds that Views
  keep each other in no circle (`Ranked`), that only finitely many are in use (`Finite`, so `Fresh` finds one), and
  that who is in the View of somebody or has something in its pool is alive (`Clean`: else `createView()` could
  give an address that something still names).  There is a lemma per step (`ObtainGood`, `SweepGood`, `RecycleGood`,
  `RemoveGood`, `ReclaimedGood` for `~View`).
* `AlwaysAttached`: `Attached`.  It fails in the middle of a walk, since a View is recycled before those below
  it.  `Hung(s, due)` says it of all elements but those in `due`, whose turn is about to come.  That their turn does
  come depends on the order of the steps, so the proof first shows what the walks of any tree are like: their
  steps are `Lawful`.  `VisitedIn` is the induction over the tree, `RecyclingVisit` and `WalkVisit` its steps, where the
  sequences for the children are put together (`LawsJoin`).
* `NoStrangersLeft`: `NoStrangers`, if no element in a block has the attribute `reuse` (`NoBlockKeys`).  `Kept(s, swept)`
  says that what is below a View is in some hand, or in its pool while the element that has it is in
  `swept`, to be swept later in the walk.  `Holds(s, q, n)` puts this together after the first `n` steps of `q`, `HoldsNext`
  is its step, `RunWhole` the induction over the walk.  The hypothesis is needed: such an element keeps its View when its
  block is recycled and put away; recycled later, it puts the View in the pool of a parent that no walk sweeps.

* `SeenAndReturned`: `InSight`.  `Sighted` says it of given Views and visible elements, so that it is about `view'` and
  `visible'` after a walk.  `WalkedFrom(e, vis, can, G, L)` is what a walk is by its code: `G` is `e` with the visible
  children of what is in `G`, and obtains; `L`, the others with a key and what is below them outside of blocks, gives
  back (`WalkStep` is the induction over the tree).  `Calls` says that a parent obtains before its
  children (`WalkCalls`), so each of `G` finds a View to be put in (`RunViews`), and nothing is both obtained
  and given back (`WalkApart`): the views after the walk are known from `G` and `L` alone (`WalkLeaves`).  What has a
  View, a key and no place in `G` or `L` is below the first invisible element above it, and `CutOff` shows that this one has
  no key or that a block is between the two (`Cut`): else its View went with it, or it had none and, by `Hung`, neither
  had anything below it.  The exemption of `Cut` is needed: `recycleChildrenView()` does not look into a block,
  so an element with a key of its own in it keeps its View when the row around the block gives its own back.

They assume `RecyclingAssumption`: the elements are a tree, and `reuse` is a name.

Where a proof needs an induction over data, as for `Children` and for `Trace`, the least number for which the claim
fails is taken (`Least`), since numbers are well-founded.

Only model-checked: the liveness properties (`Reclaimed`, `SyncReturns`, `EveryFunctionRuns`,
`DestroyCompletes`, `TimersFire`, `EveryOpenAnswered`, `EveryLoadAnswered`, `EveryCallReturns`), which need fairness and
ENABLED and are out of the prover's reach.  Every other property of a passing run is a theorem.

## 5. Not modelled

The parts `PROJECT.json` lists as such.  Inside the modelled ones: the
unsynchronised creation of `Atomic::current()`; what follows when a queue is released on its own
thread; the lazily made IO and network queues; time; attributes, frames and
layout; JavaScript garbage collection (a script may drop a pointer at any moment instead);
I/O errors the code does not detect; a crash of anything but package loading.  Of the scripts' side:
`MemStorage`, `keys()` and SQL; the conversion of values; weak objects and prototypes; a context that is destroyed
while the app has JSObjects of it; the reloads of `PageElement`.  `GetAny` is one step: that
a weak pointer is read and retained in two is a matter of `RefCount`.

## 6. Plan

1. `NetStream` (Buffer, read and write loops, close inside a callback), then `WebSocket` frames over it.
2. `DocumentLog`: recorded commands, `setTransaction`, the archiver's position, and a
   document that must equal the one it replays.
3. `PageLife`: app, page and `PageElement` with nested reloads.
4. Contexts that end before the JSObjects that other queues hold; the lazily made queues.

New modules join the runs by merging those that ask about one component.
