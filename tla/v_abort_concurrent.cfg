SPECIFICATION Spec
CONSTANTS
  u1 = u1
  u2 = u2
  Users = {u1, u2}
  Workers = {w1}
  None = None
  Applications <- AbortInline
CHECK_DEADLOCK FALSE
INVARIANT SessionEndsOnce
