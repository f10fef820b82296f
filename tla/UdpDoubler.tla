----------------------------- MODULE UdpDoubler -----------------------------
(***************************************************************************)
(* exercise4/udp-client.c and udp-server.c: the doubler over UDP.  The     *)
(* client sends each chunk of its standard input as one datagram and then  *)
(* receives two; the server sends each datagram it receives back twice.    *)
(* The client writes as many bytes as the line had, whatever the datagram  *)
(* had, and there is neither a time-out nor a number in the datagrams.     *)
(*                                                                         *)
(* The network may reorder, lose and double datagrams.  A datagram is      *)
(* named by the line it holds.                                             *)
(***************************************************************************)
EXTENDS Naturals, Sequences

CONSTANTS
  MAXLINE,
  MaxLines, MaxLen,   \* bounds of the input
  MaxDups             \* bound of the model: how many are doubled

ASSUME UdpAssumption ==
  /\ MAXLINE \in Nat \ {0}
  /\ MaxLines \in Nat /\ MaxLen \in 1 .. MAXLINE
  /\ MaxDups \in Nat

LineNo == 1 .. MaxLines

VARIABLES
  input,      \* the lengths of the chunks of the standard input
  line,       \* the number of the current line
  cpc,        \* the client is at "stdin" or "reply", or has "exited"
  reply,      \* i
  recvline,   \* the client's receive buffer of MAXLINE + 1 bytes
  stdout,     \* the chunks the client has printed
  spc,        \* the server is at "recv" or "send"
  buf,        \* the line its last recvfrom returned, 0 at the start
  sent,       \* the sendto calls it has made for it
  toServer, toClient,   \* how many datagrams of each line are under way
  dups        \* how many have been doubled

client == <<input, line, cpc, reply, recvline, stdout>>
server == <<spc, buf, sent>>
net == <<toServer, toClient, dups>>
vars == <<client, server, net>>

Junk == <<0, 0>>    \* what the uninitialised buffer holds, and the zero byte
Line(l) == [k \in 1 .. input[l] |-> <<l, k>>]

Add(box, l) == [box EXCEPT ![l] = @ + 1]
Remove(box, l) == [box EXCEPT ![l] = @ - 1]

Init ==
  /\ input \in [LineNo -> 1 .. MaxLen]
  /\ line = 0 /\ cpc = "stdin" /\ reply = 0
  /\ recvline = [k \in 1 .. MAXLINE + 1 |-> Junk]
  /\ stdout = <<>>
  /\ spc = "recv" /\ buf = 0 /\ sent = 0
  /\ toServer = [l \in LineNo |-> 0]
  /\ toClient = [l \in LineNo |-> 0]
  /\ dups = 0
-----------------------------------------------------------------------------
SendLine ==
  /\ cpc = "stdin"
  /\ line < MaxLines
  /\ line' = line + 1
  /\ cpc' = "reply"
  /\ reply' = 0
  /\ toServer' = Add(toServer, line + 1)
  /\ UNCHANGED <<input, recvline, stdout, server, toClient, dups>>

(* recvfrom of l, and recvline[n] = 0 where n is the current line's length *)
Overlay(l) ==
  [k \in 1 .. MAXLINE + 1 |->
     IF k = input[line] + 1 THEN Junk
     ELSE IF k <= input[l] THEN Line(l)[k] ELSE recvline[k]]

(* Slips: the loop ends one reply early or late.                           *)
LastReply_Early == TRUE
LastReply_Late == reply = 2
LastReply == reply = 1

ReceiveReply ==
  /\ cpc = "reply"
  /\ \E l \in LineNo :
       /\ toClient[l] > 0
       /\ toClient' = Remove(toClient, l)
       /\ recvline' = Overlay(l)
  /\ stdout' = Append(stdout, SubSeq(recvline', 1, input[line]))
  /\ reply' = reply + 1
  /\ cpc' = IF LastReply THEN "stdin" ELSE "reply"
  /\ UNCHANGED <<input, line, server, toServer, dups>>

Finish ==
  /\ cpc = "stdin"
  /\ line = MaxLines
  /\ cpc' = "exited"
  /\ UNCHANGED <<input, line, reply, recvline, stdout, server, net>>

ServerReceive ==
  /\ spc = "recv"
  /\ \E l \in LineNo :
       /\ toServer[l] > 0
       /\ toServer' = Remove(toServer, l)
       /\ buf' = l
  /\ sent' = 0
  /\ spc' = "send"
  /\ UNCHANGED <<client, toClient, dups>>

Copies == 2

ServerSend ==
  /\ spc = "send"
  /\ toClient' = Add(toClient, buf)
  /\ sent' = sent + 1
  /\ spc' = IF sent + 1 < Copies THEN "send" ELSE "recv"
  /\ UNCHANGED <<client, buf, toServer, dups>>
-----------------------------------------------------------------------------
Lose ==
  /\ \E l \in LineNo :
       \/ toServer[l] > 0 /\ toServer' = Remove(toServer, l) /\ UNCHANGED toClient
       \/ toClient[l] > 0 /\ toClient' = Remove(toClient, l) /\ UNCHANGED toServer
  /\ UNCHANGED <<client, server, dups>>

Duplicate ==
  /\ dups < MaxDups
  /\ dups' = dups + 1
  /\ \E l \in LineNo :
       \/ toServer[l] > 0 /\ toServer' = Add(toServer, l) /\ UNCHANGED toClient
       \/ toClient[l] > 0 /\ toClient' = Add(toClient, l) /\ UNCHANGED toServer
  /\ UNCHANGED <<client, server>>

Next ==
  \/ SendLine \/ ReceiveReply \/ Finish
  \/ ServerReceive \/ ServerSend
  \/ Lose \/ Duplicate

Spec == Init /\ [][Next]_vars

(* Both processes go on when they can; nothing is said of the network.     *)
FairSpec ==
  /\ Spec
  /\ WF_vars(SendLine \/ ReceiveReply \/ Finish)
  /\ WF_vars(ServerReceive \/ ServerSend)
-----------------------------------------------------------------------------
(* The number of the line a printed chunk is, 0 if it is no line.          *)
LineOf(chunk) ==
  IF \E l \in LineNo : chunk = Line(l)
  THEN CHOOSE l \in LineNo : chunk = Line(l)
  ELSE 0

Echo == INSTANCE LineEcho WITH
  copies <- 2,
  Lines <- MaxLines,
  asked <- line,
  printed <- [k \in 1 .. Len(stdout) |-> LineOf(stdout[k])]

(* As long as no datagram is doubled, each line is printed exactly twice   *)
(* and whole before the next one is read (udp-client.c:51-60): two replies *)
(* are waited for, and all that can come are those of the current line.    *)
IsLineEcho == Echo!Init /\ [][dups = 0 => Echo!Next]_(Echo!vars)

(* The replies that are still to come: two for each datagram on its way to *)
(* the server, those the server has yet to send, those on their way back.  *)
Expected ==
  toServer[line] * 2 + toClient[line] + (IF spc = "send" THEN 2 - sent ELSE 0)

(* As long as no datagram is doubled, all that is under way belongs to the *)
(* current line (udp-server.c:53-56), and never more replies are to come   *)
(* than the client still waits for: after the second nothing is left over. *)
Outstanding ==
  dups = 0 /\ line > 0 =>
    /\ \A l \in LineNo : l # line => toServer[l] = 0 /\ toClient[l] = 0
    /\ spc = "send" => buf = line
    /\ Expected <= 2 - reply

(* The client comes to the end of its input, unless the network has lost   *)
(* an answer it waits for (udp-client.c:55) or doubled a datagram.         *)
EndsUnlessLost ==
  <>(\/ cpc = "exited"
     \/ cpc = "reply" /\ Expected < 2 - reply
     \/ dups > 0)
=============================================================================
