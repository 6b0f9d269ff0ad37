CONSTANTS
  FuseThreads = {f1}
  Workers = {}
  Addr = {a1, a2}
  NULL = NULL
  Vals = {v0, v1}
  NewVal = v0
  Absent = Absent
  MaxIno = 2
  Faults = FALSE
SPECIFICATION Spec
INVARIANT DestroyFlushesCache
CHECK_DEADLOCK FALSE
