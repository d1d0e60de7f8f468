SPECIFICATION Spec
CONSTANTS
  Putters = {p1, p2}
  Getters = {g1}
  Flushers = {}
  Data = {d1}
  Session = {s1}
  Others = {}
  Urgent = {}
  Uses <- Expediting
  Null = Null
  MaxFlushes = 0
CHECK_DEADLOCK FALSE
INVARIANT NothingIsLost
