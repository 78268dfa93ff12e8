\* Liveness, without symmetry: one client, whose subscribe, unsubscribe,
\* close and reopen race with the application and with broadcasts.
CONSTANTS
  Clients = {c1}
  Paths = {p1}
  Subs = {s1, s2}
  Calls = {k1, k2}
  NULL = NULL
  FairTotal = 1
  MaxQueue = 1
SPECIFICATION FairSpec
PROPERTIES TombstonesGo BroadcastsGoOut ClosingEnds
