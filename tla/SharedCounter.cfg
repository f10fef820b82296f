\* question-5.c on a file that is there already, and on the ones that follow.
SPECIFICATION Spec
CONSTANTS
  p1 = p1
  p2 = p2
  p3 = p3
  Proc = {p1, p2, p3}
  NLoop = 1
  Char = 65
  MaxFiles = 4
  PageBytes = 4096
  Exists = TRUE
  Base = 3
  MayDie = TRUE
INVARIANTS MutualExclusion FirstCounts FirstTickets
\* The processes end.
CHECK_DEADLOCK FALSE
