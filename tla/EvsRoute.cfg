\* Two threads route for one client; the second callback evicts the first.
CONSTANTS
  Threads = {t1, t2}
  Paths = {p1}
  Slots = 1
  MaxReqs = 2
  MaxCbs = 2
  NULL = NULL
SPECIFICATION FairSpec
INVARIANTS OwedOnce CallbacksKnown
PROPERTY AllAnswered
CHECK_DEADLOCK FALSE
