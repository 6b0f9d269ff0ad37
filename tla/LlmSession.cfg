CONSTANTS
  Sessions = {s1, s2}
  Handles = {h1, h2}
  Pollers = {p1}
  MaxWaiters = 1
  Threshold = 2
  MaxMessages = 2
  MaxLines = 8
  PutFails = TRUE
  NULL = NULL
SPECIFICATION SessionSpec
INVARIANTS  AnsweredOnce
PROPERTIES  PollersWoken
CHECK_DEADLOCK FALSE
