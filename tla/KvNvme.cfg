CONSTANTS
  Threads = {t1, t2}
  Keys = {k1, k2}
  Values = {v1, huge}
  PrefixSets = {{k1, k2}}
  NoValue = NoValue
  TooLong = {huge}
  MaxConns = 2
  MaxCmds = 2
  MaxInterrupts = 1
SPECIFICATION Spec
INVARIANT StreamInv
PROPERTIES ImplementsStore CallsReturn
CHECK_DEADLOCK FALSE
