\* Two instances meet in the names; processes may be killed.
SPECIFICATION FairSpec
CONSTANTS
  Inst = {p, q}
  None = None
  MaxLines = 2
INVARIANTS TypeOK OwnFifos NothingLeft
PROPERTIES WinnerUndisturbed Completes
\* The instances end.
CHECK_DEADLOCK FALSE
