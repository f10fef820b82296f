\* Three processes, two files in turn, room for two messages.
SPECIFICATION Spec
CONSTANTS
  p1 = p1
  p2 = p2
  p3 = p3
  Proc = {p1, p2, p3}
  f1 = f1
  f2 = f2
  File = {f1, f2}
  None = None
  Flags = {"none", "creat", "excl"}
  Prio = {0, 1}
  MaxMsg = 2
  MAX_TRIES = 2
  MaxSent = 4
  MaxSentCold = 1
SYMMETRY Alike
INVARIANTS OpenedIsReady NoLostWakeup
PROPERTIES IsPriorityQueue
CHECK_DEADLOCK FALSE
