CONSTANTS
  Clients = {c1, c2}
  Paths = {p1}
  Subs = {s1, s2}
  Calls = {k1, k2}
  NULL = NULL
  FairTotal = 2
  MaxQueue = 1
SYMMETRY Symmetry
SPECIFICATION Spec
INVARIANTS ListedIffAccepted ClosedHasNothing RefsExact
  PendingIsAwaited AnsweredOnce LastWordCounts
PROPERTY BroadcastReaches
