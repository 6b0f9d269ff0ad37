CONSTANTS
  FuseThreads = {f1, f2}
  Workers = {w1}
  Addr = {a1, a2, a3}
  NULL = NULL
  Vals = {v0, v1}
  NewVal = v0
  Absent = Absent
  MaxIno = 2
  Faults = TRUE
SPECIFICATION Spec
SYMMETRY Symmetry
INVARIANTS TypeOK MemorySafe
PROPERTIES NoNewRefToDeleted DeletedStaysOffDisk
CHECK_DEADLOCK FALSE
