CONSTANTS
  Clients = {c1, c2}
  Sessions = {s1}
  Absent = Absent
  Faults = TRUE
  MaxSends = 2
  MaxDeletes = 1
  MaxRuns = 2
SPECIFICATION Spec
INVARIANTS SentinelInv OneAnswerPerTurn SendAnswered
PROPERTIES Answered StopsWhenDrained
CHECK_DEADLOCK FALSE
