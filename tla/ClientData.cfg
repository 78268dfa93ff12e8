\* One thread reads while another replaces or deletes the value.
CONSTANTS
  Threads = {t1, t2}
  Values = {v1, v2}
  NULL = NULL
SPECIFICATION Spec
INVARIANT GetFindsValue
