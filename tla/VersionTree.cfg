CONSTANTS
  Threads = {t1, t2}
  Names <- MCNames
  Prefix <- MCPrefix
  Number <- MCNumber
  Faults = TRUE
  NULL = NULL
  Long1 = Long1
  Long2 = Long2
  One = One
  MaxIno = 3
  MaxVino = 2
  MaxVersions = 1
  MaxSnapshots = 2
  MaxChanges = 3
  MaxRestarts = 1
SPECIFICATION Spec
SYMMETRY Symmetry
INVARIANT TreeInv
PROPERTY NumbersStay
CHECK_DEADLOCK FALSE
