CONSTANTS
  Threads = {t1, t2, t3}
  Subs = {s1, s2, s3, s4}
  Paths = {p1}
  NULL = NULL
  MISSING = MISSING
  MaxHeld = 2
SPECIFICATION FairSpec
INVARIANTS NoUseAfterFree LiveIsFound RefsExact
PROPERTIES ImplementsRegistry Drains
