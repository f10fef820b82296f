\* Both programs, those of the echo with segments in any pieces, lines up to the size of the buffers.
SPECIFICATION FairSpec
CONSTANTS
  Copies = {1, 2}
  MAXLINE = 4
  MaxLines = 3
  MaxLen = 4
  Whole = {2}
INVARIANTS TypeOK EntireReply NothingLost
PROPERTIES IsLineEcho EchoEnds
\* The client exits.
CHECK_DEADLOCK FALSE
