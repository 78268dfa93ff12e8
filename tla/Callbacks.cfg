\* Two slots, so that the third callback evicts; ids 1 and 2, so that the
\* counter goes round while old ids are still known to the client.
CONSTANTS
  Threads = {t1, t2}
  Slots = 2
  IdMod = 3
  MaxCalls = 4
  NULL = NULL
SPECIFICATION FairSpec
INVARIANTS OwnedOnce IdsDistinct
PROPERTY ExpiredGo
