----------------------------- MODULE StreamEcho -----------------------------
(***************************************************************************)
(* A client that sends the lines of its standard input over TCP and prints *)
(* the replies, and the server process that writes each chunk it reads     *)
(* back: twice in exercise3/server.c (copies = 2), once in                 *)
(* exercise4/echoserver.c and exercise5/q3-server.c (copies = 1).  The     *)
(* client makes exactly copies reads per line, exercise3/client.c and      *)
(* exercise4/client-url.c, and writes as many bytes to the standard output *)
(* as the line had, however many the read returned.                        *)
(*                                                                         *)
(* A byte is <<line, position>>.  The model ends when the client exits:    *)
(* what the server makes of the closed connection is in ForkServer.        *)
(***************************************************************************)
EXTENDS StandardStreams, TcpStream, Functions, SequencesExt

CONSTANTS
  Copies,     \* the programs that are looked at: 1 echo, 2 doubler
  Whole       \* bound: for these programs what one write sends arrives in one piece

ASSUME EchoAssumption ==
  /\ Copies \subseteq Nat \ {0}
  /\ Whole \subseteq Copies

VARIABLES
  copies,     \* writes per chunk of the server, reads per line of the client
  cpc,        \* the client is at "stdin" or "reply", or has "exited"
  reply,      \* i of the client's loop over the replies
  recvline,   \* the client's receive buffer
  received,   \* history: the bytes that the client's reads returned
  spc,        \* the server child is at "read" or "write"
  buf,        \* what its last read returned
  writes,     \* the writes it has made of it
  toServer, toClient,   \* the two directions of the connection
  split       \* history: a write has arrived in more than one piece

client == <<copies, input, line, cpc, reply, recvline, stdout, received>>
server == <<spc, buf, writes>>
vars == <<client, server, toServer, toClient, split>>

Junk == <<0, 0>>    \* whatever the uninitialised buffer holds

Init ==
  /\ copies \in Copies
  /\ InitStreams
  /\ cpc = "stdin" /\ reply = 0
  /\ recvline = [k \in 1 .. MAXLINE |-> Junk]
  /\ received = <<>>
  /\ spc = "read" /\ buf = <<>> /\ writes = 0
  /\ toServer = NewStream /\ toClient = NewStream /\ split = FALSE
-----------------------------------------------------------------------------
(* read(STDIN_FILENO) and the write of all of it to the socket             *)
SendLine ==
  /\ cpc = "stdin"
  /\ ReadStdin
  /\ cpc' = "reply"
  /\ reply' = 0
  /\ toServer' = Write(toServer, Line(line + 1))
  /\ UNCHANGED <<copies, input, recvline, stdout, received, server, toClient, split>>

(* The buffer after a read: what the read returned, then the old contents. *)
Overlay(bytes, old) ==
  [k \in 1 .. MAXLINE |-> IF k <= Len(bytes) THEN bytes[k] ELSE old[k]]

(* Slip: one byte of the buffer is kept for a terminating zero.            *)
ReplyMax_KeepsOne == MAXLINE - 1
ReplyMax == MAXLINE

(* Slips: the loop ends one reply early or late.                           *)
LastReply_Early == reply + 2 >= copies
LastReply_Late == reply >= copies
LastReply == reply + 1 >= copies

ReadReply ==
  /\ cpc = "reply"
  /\ toClient.arrived # <<>>
  /\ recvline' = Overlay(Readable(toClient, ReplyMax), recvline)
  /\ stdout' = Append(stdout, SubSeq(recvline', 1, input[line]))
  /\ received' = received \o Readable(toClient, ReplyMax)
  /\ toClient' = Read(toClient, ReplyMax)
  /\ reply' = reply + 1
  /\ cpc' = IF LastReply THEN "stdin" ELSE "reply"
  /\ UNCHANGED <<copies, input, line, server, toServer, split>>

(* end of the standard input: close and exit                               *)
Finish ==
  /\ cpc = "stdin"
  /\ line = MaxLines
  /\ cpc' = "exited"
  /\ UNCHANGED <<copies, input, line, reply, recvline, stdout, received>>
  /\ UNCHANGED <<server, toServer, toClient, split>>
-----------------------------------------------------------------------------
(* Slip: the server waits until its buffer is full.                        *)
CanRead_Full == Len(toServer.arrived) >= MAXLINE
CanRead == toServer.arrived # <<>>

ServerRead ==
  /\ cpc # "exited"
  /\ spc = "read"
  /\ CanRead
  /\ buf' = Readable(toServer, MAXLINE)
  /\ toServer' = Read(toServer, MAXLINE)
  /\ writes' = 0
  /\ spc' = "write"
  /\ UNCHANGED <<client, toClient, split>>

(* Slip: only the bytes before the line's last one are written.            *)
Answered_Shorter == Front(buf)
Answered == buf

ServerWrite ==
  /\ cpc # "exited"
  /\ spc = "write"
  /\ toClient' = Write(toClient, Answered)
  /\ writes' = writes + 1
  /\ spc' = IF writes + 1 < copies THEN "write" ELSE "read"
  /\ UNCHANGED <<client, buf, toServer, split>>
-----------------------------------------------------------------------------
Pieces(stream) ==
  IF copies \in Whole THEN {Len(Head(stream.wire))} ELSE 1 .. Len(Head(stream.wire))

ArriveAtServer ==
  /\ toServer.wire # <<>>
  /\ \E k \in Pieces(toServer) :
       /\ toServer' = Arrive(toServer, k)
       /\ split' = (split \/ k < Len(Head(toServer.wire)))
  /\ UNCHANGED <<client, server, toClient>>

ArriveAtClient ==
  /\ toClient.wire # <<>>
  /\ \E k \in Pieces(toClient) :
       /\ toClient' = Arrive(toClient, k)
       /\ split' = (split \/ k < Len(Head(toClient.wire)))
  /\ UNCHANGED <<client, server, toServer>>

Next ==
  \/ SendLine \/ ReadReply \/ Finish
  \/ ServerRead \/ ServerWrite
  \/ ArriveAtServer \/ ArriveAtClient

Spec == Init /\ [][Next]_vars

(* Both processes go on when they can, and what was sent arrives.          *)
Fairness ==
  /\ WF_vars(SendLine \/ ReadReply \/ Finish)
  /\ WF_vars(ServerRead \/ ServerWrite)
  /\ WF_vars(ArriveAtServer) /\ WF_vars(ArriveAtClient)

FairSpec == Spec /\ Fairness
-----------------------------------------------------------------------------
TypeOK ==
  /\ copies \in Copies /\ split \in BOOLEAN
  /\ input \in [1 .. MaxLines -> 1 .. MaxLen]
  /\ line \in 0 .. MaxLines
  /\ cpc \in {"stdin", "reply", "exited"}
  /\ reply \in 0 .. copies
  /\ recvline \in [1 .. MAXLINE -> Byte \cup {Junk}]
  /\ stdout \in Seq(Seq(Byte \cup {Junk}))
  /\ received \in Seq(Byte)
  /\ spc \in {"read", "write"}
  /\ buf \in Seq(Byte) /\ Len(buf) <= MAXLINE
  /\ writes \in 0 .. copies
  /\ IsStream(toServer, Byte) /\ IsStream(toClient, Byte)

(* The number of the line a printed chunk is, 0 if it is no line.          *)
LineOf(chunk) ==
  IF \E l \in 1 .. MaxLines : chunk = Line(l)
  THEN CHOOSE l \in 1 .. MaxLines : chunk = Line(l)
  ELSE 0

Echo == INSTANCE LineEcho WITH
  Lines <- MaxLines,
  asked <- line,
  printed <- [k \in 1 .. Len(stdout) |-> LineOf(stdout[k])]

(* As long as no write has arrived in pieces, and all the copies of a line *)
(* fit into the client's buffer, nothing but whole lines is printed, each  *)
(* as often as it should before the next one is read (client.c:53-63,      *)
(* client-url.c:66-74), also when one read takes two replies.              *)
Fits == \A l \in 1 .. MaxLines : copies * input[l] <= MAXLINE

IsLineEcho == Echo!Init /\ [][~split /\ Fits => Echo!Next]_(Echo!vars)

(* The client reaches the end of its input: no read waits for bytes that   *)
(* an earlier one has taken (client.c:60).                                 *)
AllPrinted == <>(cpc = "exited")

(* The client of the echo server does, however its reads are cut           *)
(* (client-url.c:72).                                                      *)
EchoEnds == copies = 1 => AllPrinted

(* The next line is read from the standard input once the previous line    *)
(* has been entirely received (exercise4/problems.txt:48-50), if it comes  *)
(* in one piece: when the client is back at client-url.c:66 nothing of the *)
(* echo is under way.                                                      *)
EntireReply ==
  copies = 1 /\ ~split /\ cpc = "stdin" =>
    toServer = NewStream /\ toClient = NewStream /\ spc = "read"

(* However the network splits and merges them, the bytes of the echo come  *)
(* back in order, and each byte is at one place of the round trip.         *)
NothingLost ==
  copies = 1 =>
    received \o Unread(toClient) \o (IF spc = "write" THEN buf ELSE <<>>)
             \o Unread(toServer) = FlattenSeq([l \in 1 .. line |-> Line(l)])
=============================================================================
