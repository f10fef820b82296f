\* Datagrams may be lost and reordered, and one may be doubled.
SPECIFICATION FairSpec
CONSTANTS
  MAXLINE = 3
  MaxLines = 3
  MaxLen = 3
  MaxDups = 1
INVARIANTS Outstanding
PROPERTIES IsLineEcho EndsUnlessLost
\* The client may wait for ever.
CHECK_DEADLOCK FALSE
