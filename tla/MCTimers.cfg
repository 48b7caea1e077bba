\* Two pages and a worker's context on one queue, two timers at two addresses:
\* an id becomes stale and its address is given to the other timer.
SPECIFICATION TimersFairSpec
CONSTANTS
  Addresses = {a1, a2}
  Calls = {c1, c2}
  Pages = {page, dialog}
  Contexts = {worker}
  NoCall = NoCall
INVARIANTS HeldTimersLive PageOutlivesTimers
PROPERTIES ClearedStaysCleared TimersFire
CHECK_DEADLOCK FALSE
