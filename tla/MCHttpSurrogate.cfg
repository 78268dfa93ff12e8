CONSTANTS
  Sockets = {a1, a2}
  Surrs = {s1}
  Sids = {i1}
  Workers = {w1}
  Msgs = {m1}
  NULL = NULL
SYMMETRY Symmetry
SPECIFICATION Spec
INVARIANTS RefsExact ClosedHasNoPoller MessagesKept
CHECK_DEADLOCK FALSE
