CONSTANTS
  Threads = {t1}
  MaxIno = 6
  MaxCrashes = 3
  Faults = {}
SPECIFICATION Spec
INVARIANTS TypeOK WasteBound
PROPERTIES ImplementsAllocator
CHECK_DEADLOCK FALSE
