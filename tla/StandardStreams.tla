-------------------------- MODULE StandardStreams --------------------------
(***************************************************************************)
(* What the line doublers and echo clients share: a standard input that is *)
(* read in chunks of at most MAXLINE bytes, exercise2/question-6.c:27,     *)
(* exercise3/client.c:53, and a standard output that chunks are written    *)
(* to.  A byte of the input is <<line, position>>.                         *)
(***************************************************************************)
EXTENDS Naturals

CONSTANTS
  MAXLINE,            \* size of the programs' buffers
  MaxLines, MaxLen    \* bounds of the input

ASSUME InputAssumption ==
  /\ MAXLINE \in Nat \ {0}
  /\ MaxLines \in Nat /\ MaxLen \in 1 .. MAXLINE

VARIABLES
  input,      \* the lengths of the chunks that read(STDIN_FILENO) returns
  line,       \* the number of chunks that have been read
  stdout      \* the chunks that were printed

Byte == (1 .. MaxLines) \X (1 .. MaxLen)

Line(l) == [k \in 1 .. input[l] |-> <<l, k>>]

InitStreams ==
  /\ input \in [1 .. MaxLines -> 1 .. MaxLen]
  /\ line = 0
  /\ stdout = <<>>

(* read(STDIN_FILENO) returns the next chunk.                              *)
ReadStdin ==
  /\ line < MaxLines
  /\ line' = line + 1
=============================================================================
