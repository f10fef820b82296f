\* exercise3/problems.txt:43-45 against two first starters of question-4.c.
SPECIFICATION Spec
CONSTANTS
  p1 = p1
  p2 = p2
  Proc = {p1, p2}
  NLoop = 0
  Char = 65
  MaxFiles = 3
  PageBytes = 4096
  Exists = FALSE
  Base = 0
  MayDie = FALSE
INVARIANTS AllTickets
\* The processes end.
CHECK_DEADLOCK FALSE
