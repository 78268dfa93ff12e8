CONSTANTS
  Sockets = {a1}
  Surrs = {s1}
  Sids = {i1}
  Workers = {w1}
  Msgs = {m1}
  NULL = NULL
SPECIFICATION FairSpec
PROPERTY RequestsEnd
CHECK_DEADLOCK FALSE
