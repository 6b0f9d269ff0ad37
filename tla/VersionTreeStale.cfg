CONSTANTS
  Threads = {t1}
  Names <- MCNames
  Prefix <- MCShort
  Number <- MCNumber
  Faults = FALSE
  NULL = NULL
  Long1 = Long1
  Long2 = Long2
  One = One
  MaxIno = 3
  MaxVino = 2
  MaxVersions = 1
  MaxSnapshots = 1
  MaxChanges = 3
  MaxRestarts = 0
SPECIFICATION Spec
INVARIANT NamesTheFile
CHECK_DEADLOCK FALSE
