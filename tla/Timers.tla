------------------------------- MODULE Timers -------------------------------
(***************************************************************************)
(* setTimeout, setInterval, clearTimeout and clearInterval of core/timer.cc *)
(* over the sources of core/dispatch-event.cc, for the pages and the        *)
(* contexts (App and Worker contexts) that run on one queue.  The id that a *)
(* script gets is the address of the Timer, kept alive by the container's   *)
(* _objects; an address may be given to another Timer once it is freed.     *)
(* Time is abstracted: a pending event may fire whenever the loop is free.  *)
(***************************************************************************)
EXTENDS FiniteSets

CONSTANTS
  Addresses, \* where a Timer object may be
  Calls,     \* the calls of setTimeout() and setInterval(), each made once
  Pages,     \* the containers that are a Page
  Contexts,  \* the containers that are a Context
  NoCall

Containers == Pages \cup Contexts

ASSUME TimersAssumption ==
  /\ Pages \cap Contexts = {}
  /\ NoCall \notin Calls

VARIABLES
  at,       \* the call whose Timer is at an address, or NoCall
  id,       \* the address each call returned, {} before the call
  home,     \* the container of each call, {} before the call
  repeats,  \* the calls of setInterval()
  events,   \* the calls whose source still has its event (_fd)
  pending,  \* the calls whose event is in the loop
  objects,  \* _objects of each container
  open,     \* the containers that are not destroyed
  running,  \* the call whose function is running, or NoCall
  ran,      \* the calls whose function has begun
  cleared   \* the calls cleared with the id they returned, or with an equal one

timersVars == <<at, id, home, repeats, events, pending, objects, open, running, ran,
          cleared>>

TimersInit ==
  /\ at = [a \in Addresses |-> NoCall]
  /\ id = [c \in Calls |-> {}]
  /\ home = [c \in Calls |-> {}]
  /\ repeats = {} /\ events = {} /\ pending = {}
  /\ objects = [k \in Containers |-> {}]
  /\ open = Containers
  /\ running = NoCall
  /\ ran = {} /\ cleared = {}

-----------------------------------------------------------------------------
(* Container::set(): what _objects of k is once a is set. *)

PageSet(k, a) == objects[k] \cup {a}

\* if(i != _objects.end()) _objects[object] = object: the test is the wrong way.
ContextSet(k, a) == IF a \in objects[k] THEN objects[k] \cup {a} ELSE objects[k]

Set(k, a) == IF k \in Pages THEN PageSet(k, a) ELSE ContextSet(k, a)

Timer(c) == CHOOSE a \in Addresses : id[c] = {a}

\* new Timer, container->set(v) and v->resume() of call c in k, at address a.
New(c, k, a) ==
  /\ k \in open
  /\ id[c] = {} /\ at[a] = NoCall
  /\ id' = [id EXCEPT ![c] = {a}]
  /\ home' = [home EXCEPT ![c] = {k}]
  /\ objects' = [objects EXCEPT ![k] = Set(k, a)]
  /\ UNCHANGED <<open, running, ran, cleared>>

\* The Strong that setTimeout() holds is dropped when it returns: the Timer of
\* a container that did not take it is freed at once.
SetTimeout(c, k, a) ==
  /\ New(c, k, a)
  /\ IF a \in Set(k, a)
     THEN /\ at' = [at EXCEPT ![a] = c]
          /\ events' = events \cup {c}
          /\ pending' = pending \cup {c}
     ELSE UNCHANGED <<at, events, pending>>
  /\ UNCHANGED repeats

\* setInterval() holds no Strong: nothing frees a Timer the container refused.
SetInterval(c, k, a) ==
  /\ New(c, k, a)
  /\ at' = [at EXCEPT ![a] = c]
  /\ repeats' = repeats \cup {c}
  /\ events' = events \cup {c}
  /\ pending' = pending \cup {c}

-----------------------------------------------------------------------------
(* What ends a Timer. *)

\* Mutant: the event of a source stays in the loop when it is cancelled.
CancelPending(cs) == events' = events \ cs /\ UNCHANGED pending

\* LibeventDispatchSource::cancel() of the sources of the calls cs.
Cancel(cs) == events' = events \ cs /\ pending' = pending \ cs

Freed(as) == at' = [a \in Addresses |-> IF a \in as THEN NoCall ELSE at[a]]

\* The call c when it is of k, and the one whose Timer k has at the address of
\* c now: they differ when the Timer of c was freed.
ClearedBy(c, k) ==
  {d \in Calls : home[d] = {k} /\ (d = c \/ at[Timer(c)] = d)}

\* Mutant: the Timer is cancelled but stays in the container.
ClearKeeping(c, k) ==
  LET a == Timer(c) IN
  /\ id[c] # {} /\ k \in open
  /\ cleared' = cleared \cup ClearedBy(c, k)
  /\ IF a \in objects[k]
     THEN Cancel({at[a]})
     ELSE UNCHANGED <<events, pending>>
  /\ UNCHANGED <<at, objects, id, home, repeats, open, running, ran>>

\* clearTimeout(id) and clearInterval(id) of the script of k, with the id that
\* call c returned: the Timer that is at this address now, if k holds it.
Clear(c, k) ==
  LET a == Timer(c) IN
  /\ id[c] # {} /\ k \in open
  /\ cleared' = cleared \cup ClearedBy(c, k)
  /\ IF a \in objects[k]
     THEN /\ Cancel({at[a]})
          /\ Freed({a})
          /\ objects' = [objects EXCEPT ![k] = @ \ {a}]
     ELSE UNCHANGED <<events, pending, at, objects>>
  /\ UNCHANGED <<id, home, repeats, open, running, ran>>

\* Mutant: a Page does not clear _objects.
CloseKeeping(k) ==
  /\ k \in open
  /\ open' = open \ {k}
  /\ UNCHANGED <<at, id, home, repeats, events, pending, objects, running, ran,
                 cleared>>

\* ~Page and ~Context: _objects.clear() frees the timers, which cancels them.
Close(k) ==
  /\ k \in open
  /\ open' = open \ {k}
  /\ Cancel({at[a] : a \in objects[k]})
  /\ Freed(objects[k])
  /\ objects' = [objects EXCEPT ![k] = {}]
  /\ UNCHANGED <<id, home, repeats, running, ran, cleared>>

-----------------------------------------------------------------------------
(* The loop: onEvent() of the source of call c. *)

Begin(c) ==
  /\ running = NoCall
  /\ c \in pending
  /\ running' = c
  /\ ran' = ran \cup {c}

\* The function of a timeout: the Timer is cancelled and freed before the
\* script runs, provided that its container still holds it.
FireTimeout(c) ==
  LET a == Timer(c)
      k == CHOOSE k \in Containers : home[c] = {k}
  IN /\ c \notin repeats
     /\ Begin(c)
     /\ a \in objects[k]
     /\ Cancel({c})
     /\ Freed({a})
     /\ objects' = [objects EXCEPT ![k] = @ \ {a}]
     /\ UNCHANGED <<id, home, repeats, open, cleared>>

\* The function of an interval: its event has left the loop until onEvent()
\* adds it again.
FireInterval(c) ==
  /\ c \in repeats
  /\ Begin(c)
  /\ pending' = pending \ {c}
  /\ UNCHANGED <<at, id, home, repeats, events, objects, open, cleared>>

\* Mutant: the event is added again whether or not it was cancelled.
ReturnAdding ==
  /\ running # NoCall
  /\ running' = NoCall
  /\ pending' = pending \cup ({running} \cap repeats)
  /\ UNCHANGED <<at, id, home, repeats, events, objects, open, ran, cleared>>

\* Mutant: the event is not added again.
ReturnOnce ==
  /\ running # NoCall
  /\ running' = NoCall
  /\ UNCHANGED <<at, id, home, repeats, events, pending, objects, open, ran,
                 cleared>>

\* The function returns; if(_fd != nullptr && _isResume) event_add().
Return ==
  /\ running # NoCall
  /\ running' = NoCall
  /\ pending' = pending \cup ({running} \cap events)
  /\ UNCHANGED <<at, id, home, repeats, events, objects, open, ran, cleared>>

-----------------------------------------------------------------------------
Script ==
  \/ \E c \in Calls, k \in Containers, a \in Addresses :
       SetTimeout(c, k, a) \/ SetInterval(c, k, a)
  \/ \E c \in Calls, k \in Containers : Clear(c, k)
  \/ \E k \in Containers : Close(k)

FireTimer(c) == FireTimeout(c) \/ FireInterval(c)

TimersNext == Script \/ Return \/ \E c \in Calls : FireTimer(c)

TimersSpec == TimersInit /\ [][TimersNext]_timersVars

\* The loop takes the expired events in the order of their time, so none is
\* passed over for ever; a script that is called returns.
TimersFairSpec ==
  TimersSpec /\ WF_timersVars(Return) /\ \A c \in Calls : SF_timersVars(FireTimer(c))

-----------------------------------------------------------------------------
(***************************************************************************)
(* Properties.                                                             *)
(***************************************************************************)

\* The type invariant; only an event that was not freed is in the loop.
TimersTypeOK ==
  /\ at \in [Addresses -> Calls \cup {NoCall}]
  /\ id \in [Calls -> SUBSET Addresses]
  /\ home \in [Calls -> SUBSET Containers]
  /\ repeats \subseteq Calls
  /\ events \subseteq Calls
  /\ pending \subseteq events
  /\ objects \in [Containers -> SUBSET Addresses]
  /\ open \subseteq Containers
  /\ running \in Calls \cup {NoCall}
  /\ ran \subseteq Calls
  /\ cleared \subseteq Calls

\* container.h and timer.cc keep a Timer by the container's _objects alone: what
\* a page holds is a Timer of a call of this page, and it will still fire: it
\* waits in the loop, or is the interval whose function is running.
HeldTimersLive ==
  \A k \in Pages : \A a \in objects[k] :
    /\ at[a] # NoCall
    /\ home[at[a]] = {k}
    /\ at[a] \in pending \/ (at[a] = running /\ at[a] \in events)

\* The lambda of setTimeout() uses its container through a raw pointer, and
\* that of setInterval() calls into the heap of its page: the loop holds no
\* event of a page that was destroyed.
PageOutlivesTimers ==
  \A c \in pending : \A k \in home[c] \cap Pages : k \in open

\* A function that a page's script has cleared, knowingly or with a stale id
\* that is now another Timer's address, does not begin again, not even an
\* interval that cleared itself while it was running.
ClearedStaysCleared ==
  [][\A c \in cleared : home[c] \subseteq Pages
       => ~(running # c /\ running' = c)]_timersVars

\* The function of c is to begin: that of a timeout once, that of an interval
\* again and again.
Due(c) ==
  /\ id[c] # {} /\ home[c] \subseteq Pages /\ running # c
  /\ c \in repeats \/ c \notin ran

\* A timeout of a page fires and an interval repeats, until it is cleared
\* (perhaps with a stale id) or its page destroyed.
TimersFire ==
  \A c \in Calls :
    Due(c) ~> running = c \/ c \in cleared \/ ~(home[c] \subseteq open)

=============================================================================
