\* Two producers and two consumers: one inside the gate, one that spins.
SPECIFICATION FairSpec
CONSTANTS
  Producers = {p1, p2}
  Consumers = {c1, c2}
  NoThread = NoThread
  nitems = 3
INVARIANTS Accounting NoLostWakeup ItemForEachInside PrintedTotals
PROPERTIES IsHandOff MainExits
\* The program ends.
CHECK_DEADLOCK FALSE
