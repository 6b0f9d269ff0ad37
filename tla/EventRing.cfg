CONSTANTS
  Readers = {r1}
  Size = 5
  Lens = {2, 3}
  Reads = {1, 4}
  MaxEvents = 5
  NoReader = NoReader
SPECIFICATION RingSpec
INVARIANTS RingInv ReadsInOrder NoMissedWakeup
CHECK_DEADLOCK FALSE
