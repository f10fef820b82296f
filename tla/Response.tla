------------------------------ MODULE Response ------------------------------
(***************************************************************************)
(* response of break-exercise/client.c: what a server child answers to the *)
(* commands of UNIX_TL.  ptr and byte are set before the loop over the     *)
(* commands (byte not even there) and never set back.                      *)
(*                                                                         *)
(* A command is its first letter and the lengths of the pieces its reads   *)
(* return; the last byte of the last piece is the only newline, a piece    *)
(* belongs to one command, and only an E command comes in several.  Byte k *)
(* of command c is <<c, k>>.                                               *)
(*                                                                         *)
(* What becomes of an F command is up to its text, to the bytes that were  *)
(* in the buffer before (a short one is read on into them), to the file    *)
(* and to the peer: it ends the child "before" its answer (no path or no   *)
(* port, no such file), "after" it (the transfer fails), or does "no"t.    *)
(***************************************************************************)
EXTENDS Naturals, SequencesExt

Uninitialised == 0      \* byte before its first assignment: any count of bytes
Undefined == <<>>       \* what is answered from undefined values: any bytes
Junk == <<0, 0>>        \* an uninitialised byte of the buffer
NUL == <<0, 2>>
FilePath == <<[byte |-> <<0, 1>>, upper |-> FALSE]>>

Length(command) == FoldLeft(+, 0, command.pieces)

Bytes(c, from, to) == [k \in 1 .. (to - from) |-> <<c, from + k>>]

(* The buffer with bytes at offset at, as read leaves it.                  *)
Place(buf, at, bytes) ==
  [k \in DOMAIN buf |-> IF k - 1 \in at .. (at + Len(bytes) - 1)
                        THEN bytes[k - at] ELSE buf[k]]

Start(MAXLINE) ==
  [ptr |-> 0, byte |-> Uninitialised, buf |-> [k \in 1 .. MAXLINE |-> Junk],
   open |-> TRUE, answers |-> <<>>]

(* buf is written back in upper case but for its last byte.                *)
Reply(r) ==
  IF r.byte = Uninitialised THEN Undefined
  ELSE [k \in 1 .. r.byte |-> [byte |-> r.buf[k], upper |-> k < r.byte]]

(* Slip: the bytes of the later pieces are not counted.                    *)
ReadRest_Uncounted(r, c, n) ==
  [r EXCEPT !.buf = Place(@, r.ptr, Bytes(c, r.byte, r.byte + n)), !.ptr = @ + n]

ReadRest(r, c, n) ==
  [r EXCEPT !.buf = Place(@, r.ptr, Bytes(c, r.byte, r.byte + n)),
            !.byte = @ + n,
            !.ptr = @ + n]

(* An E command that does not end with a newline is read to its end.       *)
EchoCommand(r, c, pieces) ==
  IF Len(pieces) = 1 THEN r
  ELSE FoldLeft(LAMBDA s, n : ReadRest(s, c, n),
                [r EXCEPT !.ptr = @ + pieces[1], !.byte = pieces[1]],
                Tail(pieces))

(* The session ends with Q, and with an F command that ends the child.     *)
IsLast(command) ==
  command.letter = "Q" \/ (command.letter = "F" /\ command.ends # "no")

IsAnswered(command) ==
  command.letter \in {"E", "C"} \/ (command.letter = "F" /\ command.ends # "before")

(* The spaces behind the words, and a newline behind the port, are cut off.*)
strtok(buf, nuls) == [k \in DOMAIN buf |-> IF k \in nuls THEN NUL ELSE buf[k]]

(* The size that F answers comes from a variable of get_file_size that is  *)
(* gone.                                                                   *)
FileCommand(r, command) ==
  LET cut == [r EXCEPT !.buf = strtok(@, command.nuls), !.open = ~IsLast(command)]
  IN  IF IsAnswered(command) THEN [cut EXCEPT !.answers = Append(@, Undefined)] ELSE cut

(* One round of the loop over the commands: the c-th one is read.          *)
Answer(r, c, command) ==
  LET read == [r EXCEPT !.buf = Place(@, 0, Bytes(c, 0, command.pieces[1]))]
      echo == EchoCommand(read, c, command.pieces)
  IN  CASE ~r.open -> r
        [] r.open /\ command.letter = "E" -> [echo EXCEPT !.answers = Append(@, Reply(echo))]
        [] r.open /\ command.letter = "C" -> [read EXCEPT !.answers = Append(@, FilePath)]
        [] r.open /\ command.letter = "F" -> FileCommand(read, command)
        [] r.open /\ command.letter = "Q" -> [read EXCEPT !.open = FALSE]
        [] OTHER -> read

response(commands, MAXLINE) ==
  FoldLeftDomain(LAMBDA r, c : Answer(r, c, commands[c]), Start(MAXLINE), commands)
-----------------------------------------------------------------------------
(* The commands that are read: none after the one that ends the session.   *)
Heard(commands) ==
  {c \in DOMAIN commands : \A d \in 1 .. (c - 1) : ~IsLast(commands[d])}

InPieces(commands) ==
  {c \in Heard(commands) : commands[c].letter = "E" /\ Len(commands[c].pieces) > 1}

(* The commands up to the c-th that get an answer.                         *)
Answered(commands, c) ==
  {d \in Heard(commands) : d <= c /\ IsAnswered(commands[d])}

(* Command c comes whole and is as long as the last one that came in       *)
(* pieces, or it is the first that comes in pieces: ptr and byte are then  *)
(* what they should be.                                                    *)
FindsItsPlace(commands, c) ==
  LET before == {d \in InPieces(commands) : d < c} IN
  IF c \in InPieces(commands) THEN before = {}
  ELSE before # {} /\ Length(commands[Max(before)]) = Length(commands[c])

Own(c, command) ==
  [k \in 1 .. Length(command) |-> [byte |-> <<c, k>>, upper |-> k < Length(command)]]
=============================================================================
