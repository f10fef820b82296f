\* A pipe that fills up and a child that may be killed or refused a system call.
SPECIFICATION FairPipeSpec
CONSTANTS
  MAXLINE = 3
  Capacity = 3
  MaxLines = 4
  MaxLen = 2
  MayDie = TRUE
INVARIANTS DoubledInOrder NormalIsComplete
PROPERTIES ParentEnds
\* Both processes end.
CHECK_DEADLOCK FALSE
