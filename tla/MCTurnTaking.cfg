\* Up to three processes, on a file an earlier run left or on none at all;
\* the mapping of the table takes two pages.
SPECIFICATION FairSpec
CONSTANTS
  a = a
  b = b
  c = c
  None = None
  Proc = {a, b, c}
  CharOf <- MCCharOf
  NumLoop <- MCNumLoop
  Nul = "nul"
  SIZE = 4
  Page = 2
INVARIANTS MutualExclusion CounterBound InTurns
PROPERTIES IsAlternation BothFinish
\* The processes end.
CHECK_DEADLOCK FALSE
