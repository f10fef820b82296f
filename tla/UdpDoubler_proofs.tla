------------------------- MODULE UdpDoubler_proofs -------------------------
(***************************************************************************)
(* The doubler over UDP prints every line twice and whole as long as no    *)
(* datagram is doubled, for any input, any buffer and whatever is lost or  *)
(* reordered.                                                              *)
(***************************************************************************)
EXTENDS UdpDoubler, TLAPS

Byte == Nat \X Nat

ClientInv ==
  /\ input \in [LineNo -> 1 .. MaxLen]
  /\ line \in 0 .. MaxLines
  /\ cpc \in {"stdin", "reply", "exited"}
  /\ reply \in 0 .. 2
  /\ cpc = "reply" => line > 0 /\ reply < 2
  /\ cpc # "reply" /\ line > 0 => reply = 2
  /\ recvline \in [1 .. MAXLINE + 1 -> Byte]
  /\ stdout \in Seq(Seq(Byte))

ServerInv ==
  /\ spc \in {"recv", "send"}
  /\ spc = "send" => buf \in LineNo /\ sent \in 0 .. 1

NetInv ==
  /\ toServer \in [LineNo -> Nat]
  /\ toClient \in [LineNo -> Nat]
  /\ dups \in Nat

(* Nothing is under way before the first line.                             *)
QuietInv ==
  line = 0 => /\ spc = "recv"
              /\ \A l \in LineNo : toServer[l] = 0 /\ toClient[l] = 0

(* A chunk has been printed for every reply.                               *)
PrintedInv == Len(stdout) = IF line = 0 THEN 0 ELSE 2 * (line - 1) + reply

IInv == ClientInv /\ ServerInv /\ NetInv /\ QuietInv /\ PrintedInv /\ Outstanding
-----------------------------------------------------------------------------
LEMMA InitIInv == Init => IInv
<1> SUFFICES ASSUME Init PROVE IInv
  OBVIOUS
<1>1. ClientInv /\ ServerInv /\ NetInv
  BY UdpAssumption DEF Init, ClientInv, ServerInv, NetInv, Byte, Junk
<1>2. QuietInv /\ PrintedInv /\ Outstanding
  BY DEF Init, QuietInv, PrintedInv, Outstanding
<1> QED
  BY <1>1, <1>2 DEF IInv

(* recvfrom leaves a buffer of bytes, and if the reply is one to the       *)
(* current line, that line at its start.                                   *)
LEMMA Received ==
  ASSUME ClientInv, line > 0, NEW l \in LineNo
  PROVE  /\ Overlay(l) \in [1 .. MAXLINE + 1 -> Byte]
         /\ SubSeq(Overlay(l), 1, input[line]) \in Seq(Byte)
         /\ SubSeq(Overlay(line), 1, input[line]) = Line(line)
<1> USE UdpAssumption DEF ClientInv, LineNo
<1>1. /\ line \in LineNo /\ input[line] \in 1 .. MAXLINE
      /\ input[l] \in 1 .. MAXLINE
  OBVIOUS
<1>2. \A m \in LineNo : \A k \in 1 .. input[m] : Line(m)[k] = <<m, k>> /\ Line(m)[k] \in Byte
  BY DEF Line, Byte
<1>3. Overlay(l) \in [1 .. MAXLINE + 1 -> Byte]
  <2>1. Junk \in Byte
    BY DEF Junk, Byte
  <2> QED
    BY <1>1, <1>2, <2>1 DEF Overlay
<1>4. SubSeq(Overlay(l), 1, input[line]) = [k \in 1 .. input[line] |-> Overlay(l)[k]]
  BY <1>1, <1>3
<1>5. SubSeq(Overlay(line), 1, input[line]) = [k \in 1 .. input[line] |-> Overlay(line)[k]]
  BY <1>1
<1>6. ASSUME NEW k \in 1 .. input[line] PROVE Overlay(line)[k] = <<line, k>>
  <2>1. k \in 1 .. MAXLINE + 1 /\ k # input[line] + 1 /\ k <= input[line]
    BY <1>1
  <2>2. Overlay(line)[k] = Line(line)[k]
    BY <2>1 DEF Overlay
  <2> QED
    BY <1>1, <1>2, <2>2
<1>7. SubSeq(Overlay(line), 1, input[line]) = Line(line)
  BY <1>5, <1>6 DEF Line
<1>8. SubSeq(Overlay(l), 1, input[line]) \in Seq(Byte)
  <2>1. [k \in 1 .. input[line] |-> Overlay(l)[k]] \in [1 .. input[line] -> Byte]
    BY <1>1, <1>3
  <2>2. input[line] \in Nat
    BY <1>1
  <2>3. ASSUME NEW n \in Nat, NEW g \in [1 .. n -> Byte] PROVE g \in Seq(Byte)
    OBVIOUS
  <2> QED
    BY <1>4, <2>1, <2>2, <2>3
<1> QED
  BY <1>3, <1>7, <1>8
-----------------------------------------------------------------------------
(* The boxes of the network keep their types when a datagram is added or   *)
(* removed, and only the line's own number changes.                        *)
LEMMA Boxes ==
  ASSUME NEW box \in [LineNo -> Nat], NEW l \in LineNo
  PROVE  /\ Add(box, l) \in [LineNo -> Nat]
         /\ Add(box, l)[l] = box[l] + 1
         /\ \A m \in LineNo : m # l => Add(box, l)[m] = box[m]
         /\ box[l] > 0 => /\ Remove(box, l) \in [LineNo -> Nat]
                          /\ Remove(box, l)[l] = box[l] - 1
         /\ \A m \in LineNo : m # l => Remove(box, l)[m] = box[m]
BY DEF Add, Remove

(* What the replies to come are counted from.                              *)
Owed == IF spc = "send" THEN 2 - sent ELSE 0
Count(there, back, owed) == there * 2 + back + owed

LEMMA NetNumbers ==
  ASSUME IInv, line > 0
  PROVE  /\ line \in LineNo
         /\ toServer[line] \in Nat /\ toClient[line] \in Nat
         /\ Owed \in 0 .. 2
         /\ Expected \in Nat
         /\ Expected = Count(toServer[line], toClient[line], Owed)
<1>1. line \in LineNo
  BY UdpAssumption DEF IInv, ClientInv, LineNo
<1>2. toServer[line] \in Nat /\ toClient[line] \in Nat
  BY <1>1 DEF IInv, NetInv
<1>3. Owed \in 0 .. 2
  BY DEF IInv, ServerInv, Owed
<1>4. Expected = Count(toServer[line], toClient[line], Owed)
  BY DEF Expected, Count, Owed
<1>5. \A a, b \in Nat : \A c \in 0 .. 2 : Count(a, b, c) \in Nat
  BY DEF Count
<1> QED
  BY <1>1, <1>2, <1>3, <1>4, <1>5

(* When the client reads the next line, nothing is under way.              *)
LEMMA NothingUnderWay ==
  ASSUME IInv, cpc = "stdin", dups = 0
  PROVE  spc = "recv" /\ \A l \in LineNo : toServer[l] = 0 /\ toClient[l] = 0
<1>1. CASE line = 0
  BY <1>1 DEF IInv, QuietInv
<1>2. CASE line > 0
  <2>1. reply = 2 /\ line \in LineNo
    BY <1>2, UdpAssumption DEF IInv, ClientInv, LineNo
  <2>2. /\ \A l \in LineNo : l # line => toServer[l] = 0 /\ toClient[l] = 0
        /\ Expected <= 0
    BY <1>2, <2>1 DEF IInv, Outstanding
  <2>3. /\ toServer[line] \in Nat /\ toClient[line] \in Nat
        /\ spc = "send" => 2 - sent > 0
        /\ spc \in {"recv", "send"}
    BY <2>1 DEF IInv, NetInv, ServerInv
  <2>4. /\ toServer[line] = 0 /\ toClient[line] = 0
        /\ spc = "recv"
    <3> DEFINE a == toServer[line]
               b == toClient[line]
    <3>1. CASE spc = "send"
      <4>1. a * 2 + b + (2 - sent) <= 0 /\ sent \in 0 .. 1
        BY <2>2, <3>1 DEF Expected, IInv, ServerInv
      <4> QED
        BY <2>3, <4>1
    <3>2. CASE spc = "recv"
      <4>1. a * 2 + b + 0 <= 0
        BY <2>2, <3>2 DEF Expected
      <4> QED
        BY <2>3, <3>2, <4>1
    <3> QED
      BY <2>3, <3>1, <3>2
  <2> QED
    BY <2>2, <2>4
<1> QED
  BY <1>1, <1>2, UdpAssumption DEF IInv, ClientInv

LEMMA SendLineKeeps == IInv /\ SendLine => IInv'
<1> SUFFICES ASSUME IInv, SendLine PROVE IInv'
  OBVIOUS
<1> USE UdpAssumption DEF SendLine, server
<1>1. line \in Nat /\ line + 1 \in LineNo
  BY DEF IInv, ClientInv, LineNo
<1>2. ClientInv'
  BY <1>1 DEF IInv, ClientInv, LineNo
<1>3. ServerInv' /\ NetInv'
  BY <1>1, Boxes DEF IInv, ServerInv, NetInv
<1>4. QuietInv' /\ PrintedInv'
  BY <1>1 DEF IInv, QuietInv, PrintedInv, ClientInv
<1>5. Outstanding'
  <2> SUFFICES ASSUME dups' = 0 PROVE Outstanding'
    BY DEF Outstanding
  <2>1. /\ spc' = "recv"
        /\ \A l \in LineNo : toServer[l] = 0 /\ toClient[l] = 0
    BY NothingUnderWay
  <2>2. /\ toServer'[line'] = 1 /\ toClient'[line'] = 0
        /\ \A l \in LineNo : l # line' => toServer'[l] = 0 /\ toClient'[l] = 0
    BY <1>1, <2>1, Boxes DEF IInv, NetInv
  <2>3. Expected' = 2 /\ reply' = 0
    BY <2>1, <2>2 DEF Expected
  <2> QED
    BY <2>1, <2>2, <2>3 DEF Outstanding
<1> QED
  BY <1>2, <1>3, <1>4, <1>5 DEF IInv

LEMMA ReceiveReplyKeeps == IInv /\ ReceiveReply => IInv'
<1> SUFFICES ASSUME IInv, ReceiveReply PROVE IInv'
  OBVIOUS
<1> USE UdpAssumption DEF ReceiveReply, server
<1>1. PICK l \in LineNo : /\ toClient[l] > 0
                          /\ toClient' = Remove(toClient, l)
                          /\ recvline' = Overlay(l)
  OBVIOUS
<1>2. /\ line \in LineNo /\ line > 0 /\ reply \in 0 .. 1 /\ ClientInv
      /\ input' = input /\ line' = line /\ reply' = reply + 1
  BY DEF IInv, ClientInv, LineNo
<1>3. /\ recvline' \in [1 .. MAXLINE + 1 -> Byte]
      /\ SubSeq(recvline', 1, input[line]) \in Seq(Byte)
  BY <1>1, <1>2, Received
<1>4. stdout' \in Seq(Seq(Byte)) /\ Len(stdout') = Len(stdout) + 1
  BY <1>2, <1>3 DEF ClientInv
<1>5. ClientInv'
  BY <1>2, <1>3, <1>4 DEF ClientInv, LastReply
<1>6. ServerInv' /\ NetInv'
  BY <1>1, Boxes DEF IInv, ServerInv, NetInv
<1>7. QuietInv' /\ PrintedInv'
  BY <1>2, <1>4 DEF IInv, QuietInv, PrintedInv, LineNo
<1>8. Outstanding'
  <2> SUFFICES ASSUME dups = 0 PROVE Outstanding'
    BY DEF Outstanding
  <2>1. /\ \A m \in LineNo : m # line => toServer[m] = 0 /\ toClient[m] = 0
        /\ spc = "send" => buf = line
        /\ Expected <= 2 - reply
    BY <1>2 DEF IInv, Outstanding
  <2>2. l = line
    BY <1>1, <2>1
  <2>3. /\ toClient'[line] = toClient[line] - 1
        /\ \A m \in LineNo : m # line => toClient'[m] = 0
    <3>1. toClient \in [LineNo -> Nat]
      BY DEF IInv, NetInv
    <3>2. toClient'[line] = toClient[line] - 1
      BY <1>1, <2>2, <3>1, Boxes
    <3>3. ASSUME NEW m \in LineNo, m # line PROVE toClient'[m] = 0
      <4>1. toClient'[m] = toClient[m]
        BY <1>1, <2>2, <3>1, <3>3, Boxes
      <4> QED
        BY <2>1, <3>3, <4>1
    <3> QED
      BY <3>2, <3>3
  <2>4. Expected' = Expected - 1 /\ Expected \in Nat
    <3>1. line' = line /\ UNCHANGED <<toServer, spc, sent>>
      OBVIOUS
    <3>2. Expected' = Count(toServer'[line'], toClient'[line'], Owed')
      BY DEF Expected, Count, Owed
    <3>3. Owed' = Owed
      BY <3>1 DEF Owed
    <3>4. Expected' = Count(toServer[line], toClient[line] - 1, Owed)
      <4> HIDE DEF ReceiveReply
      <4> QED
        BY <2>3, <3>1, <3>2, <3>3
    <3>5. \A a, b \in Nat : \A c \in 0 .. 2 :
            Count(a, b - 1, c) = Count(a, b, c) - 1
      BY DEF Count
    <3> HIDE DEF ReceiveReply
    <3> QED
      BY <1>2, <3>4, <3>5, NetNumbers
  <2>5. Expected' <= 2 - reply'
    BY <1>2, <2>1, <2>4
  <2> QED
    BY <1>2, <2>1, <2>3, <2>5 DEF Outstanding
<1> QED
  BY <1>5, <1>6, <1>7, <1>8 DEF IInv

LEMMA FinishKeeps == IInv /\ Finish => IInv'
<1> SUFFICES ASSUME IInv, Finish PROVE IInv'
  OBVIOUS
<1> USE DEF Finish, server, net
<1>1. ClientInv'
  BY UdpAssumption DEF IInv, ClientInv
<1>2. ServerInv' /\ NetInv' /\ QuietInv' /\ PrintedInv'
  BY DEF IInv, ServerInv, NetInv, QuietInv, PrintedInv
<1>3. Outstanding'
  BY DEF IInv, Outstanding, Expected
<1> QED
  BY <1>1, <1>2, <1>3 DEF IInv

LEMMA ServerReceiveKeeps == IInv /\ ServerReceive => IInv'
<1> SUFFICES ASSUME IInv, ServerReceive PROVE IInv'
  OBVIOUS
<1>1. PICK l \in LineNo : /\ toServer[l] > 0
                          /\ toServer' = Remove(toServer, l)
                          /\ buf' = l
  BY DEF ServerReceive
<1>2. /\ spc = "recv" /\ spc' = "send" /\ sent' = 0
      /\ UNCHANGED <<client, toClient, dups>>
  BY DEF ServerReceive
<1>3. ClientInv' /\ PrintedInv'
  BY <1>2 DEF IInv, ClientInv, PrintedInv, client
<1>4. toServer \in [LineNo -> Nat]
  BY DEF IInv, NetInv
<1>5. toServer' \in [LineNo -> Nat] /\ toServer'[l] = toServer[l] - 1
  BY <1>1, <1>4, Boxes
<1>6. ServerInv' /\ NetInv'
  BY <1>1, <1>2, <1>5 DEF IInv, ServerInv, NetInv
<1>7. line > 0 /\ line' = line /\ reply' = reply
  BY <1>1, <1>2, UdpAssumption DEF IInv, QuietInv, ClientInv, client
<1>8. QuietInv'
  BY <1>7 DEF QuietInv
<1>9. Outstanding'
  <2> SUFFICES ASSUME dups = 0 PROVE Outstanding'
    BY <1>2 DEF Outstanding
  <2>1. /\ \A m \in LineNo : m # line => toServer[m] = 0 /\ toClient[m] = 0
        /\ Expected <= 2 - reply
    BY <1>7 DEF IInv, Outstanding
  <2>2. l = line
    BY <1>1, <2>1
  <2>3. ASSUME NEW m \in LineNo, m # line
        PROVE toServer'[m] = 0 /\ toClient'[m] = 0
    <3>1. toServer'[m] = toServer[m]
      BY <1>1, <1>4, <2>2, <2>3, Boxes
    <3> QED
      BY <1>2, <2>1, <2>3, <3>1
  <2>4. Expected' = Expected
    <3>1. Expected' = Count(toServer[line] - 1, toClient[line], 2)
      BY <1>2, <1>5, <1>7, <2>2 DEF Expected, Count
    <3>2. Owed = 0
      BY <1>2 DEF Owed
    <3> QED
      BY <1>7, <3>1, <3>2, NetNumbers DEF Count
  <2> QED
    BY <1>1, <1>7, <2>1, <2>2, <2>3, <2>4 DEF Outstanding
<1> QED
  BY <1>3, <1>6, <1>8, <1>9 DEF IInv

LEMMA ServerSendKeeps == IInv /\ ServerSend => IInv'
<1> SUFFICES ASSUME IInv, ServerSend PROVE IInv'
  OBVIOUS
<1>1. /\ spc = "send" /\ toClient' = Add(toClient, buf)
      /\ sent' = sent + 1 /\ buf' = buf
      /\ spc' = (IF sent + 1 < 2 THEN "send" ELSE "recv")
      /\ UNCHANGED <<client, toServer, dups>>
  BY DEF ServerSend, Copies
<1>2. buf \in LineNo /\ sent \in 0 .. 1 /\ toClient \in [LineNo -> Nat]
  BY <1>1 DEF IInv, ServerInv, NetInv
<1>3. ClientInv' /\ PrintedInv'
  BY <1>1 DEF IInv, ClientInv, PrintedInv, client
<1>4. toClient' \in [LineNo -> Nat]
  BY <1>1, <1>2, Boxes
<1>5. ServerInv' /\ NetInv'
  BY <1>1, <1>2, <1>4 DEF IInv, ServerInv, NetInv
<1>6. line > 0 /\ line' = line /\ reply' = reply
  BY <1>1, UdpAssumption DEF IInv, QuietInv, ClientInv, client
<1>7. QuietInv'
  BY <1>6 DEF QuietInv
<1>8. Outstanding'
  <2> SUFFICES ASSUME dups = 0 PROVE Outstanding'
    BY <1>1 DEF Outstanding
  <2>1. /\ \A m \in LineNo : m # line => toServer[m] = 0 /\ toClient[m] = 0
        /\ buf = line
        /\ Expected <= 2 - reply
    BY <1>1, <1>6 DEF IInv, Outstanding
  <2>2. toClient'[line] = toClient[line] + 1
    BY <1>1, <1>2, <2>1, Boxes
  <2>3. ASSUME NEW m \in LineNo, m # line
        PROVE toServer'[m] = 0 /\ toClient'[m] = 0
    <3>1. toClient'[m] = toClient[m]
      BY <1>1, <1>2, <2>1, <2>3, Boxes
    <3> QED
      BY <1>1, <2>1, <2>3, <3>1
  <2>4. Expected' = Expected
    <3>1. Owed' = Owed - 1
      BY <1>1, <1>2 DEF Owed
    <3>2. Expected' = Count(toServer[line], toClient[line] + 1, Owed')
      BY <1>1, <1>6, <2>2 DEF Expected, Count, Owed
    <3> QED
      BY <1>6, <3>1, <3>2, NetNumbers DEF Count
  <2> QED
    BY <1>1, <1>6, <2>1, <2>3, <2>4 DEF Outstanding
<1> QED
  BY <1>3, <1>5, <1>7, <1>8 DEF IInv

LEMMA LoseKeeps == IInv /\ Lose => IInv'
<1> SUFFICES ASSUME IInv, Lose PROVE IInv'
  OBVIOUS
<1>1. UNCHANGED <<client, server, dups>>
  BY DEF Lose
<1>2. toServer \in [LineNo -> Nat] /\ toClient \in [LineNo -> Nat]
  BY DEF IInv, NetInv
<1>3. /\ toServer' \in [LineNo -> Nat] /\ toClient' \in [LineNo -> Nat]
      /\ \A m \in LineNo : toServer'[m] <= toServer[m] /\ toClient'[m] <= toClient[m]
  <2>1. PICK l \in LineNo :
          \/ toServer[l] > 0 /\ toServer' = Remove(toServer, l) /\ UNCHANGED toClient
          \/ toClient[l] > 0 /\ toClient' = Remove(toClient, l) /\ UNCHANGED toServer
    BY DEF Lose
  <2>2. CASE toServer[l] > 0 /\ toServer' = Remove(toServer, l) /\ UNCHANGED toClient
    <3>1. /\ toServer' \in [LineNo -> Nat] /\ toServer'[l] = toServer[l] - 1
          /\ \A m \in LineNo : m # l => toServer'[m] = toServer[m]
      BY <1>2, <2>2, Boxes
    <3> QED
      BY <1>2, <2>2, <3>1
  <2>3. CASE toClient[l] > 0 /\ toClient' = Remove(toClient, l) /\ UNCHANGED toServer
    <3>1. /\ toClient' \in [LineNo -> Nat] /\ toClient'[l] = toClient[l] - 1
          /\ \A m \in LineNo : m # l => toClient'[m] = toClient[m]
      BY <1>2, <2>3, Boxes
    <3> QED
      BY <1>2, <2>3, <3>1
  <2> QED
    BY <2>1, <2>2, <2>3
<1>4. ClientInv' /\ PrintedInv' /\ ServerInv' /\ NetInv'
  BY <1>1, <1>3 DEF IInv, ClientInv, PrintedInv, ServerInv, NetInv, client, server
<1>5. ASSUME NEW m \in LineNo
      PROVE /\ toServer[m] = 0 => toServer'[m] = 0
            /\ toClient[m] = 0 => toClient'[m] = 0
  BY <1>2, <1>3
<1>6. QuietInv'
  BY <1>1, <1>5 DEF IInv, QuietInv, client, server
<1>7. Outstanding'
  <2> SUFFICES ASSUME dups = 0, line > 0 PROVE Outstanding'
    BY <1>1 DEF Outstanding, client
  <2>1. /\ \A m \in LineNo : m # line => toServer[m] = 0 /\ toClient[m] = 0
        /\ spc = "send" => buf = line
        /\ Expected <= 2 - reply
    BY DEF IInv, Outstanding
  <2>2. line' = line /\ reply' = reply /\ spc' = spc /\ buf' = buf /\ sent' = sent
    BY <1>1 DEF client, server
  <2>3. Expected' <= Expected /\ Expected' \in Nat
    <3>1. Expected' = Count(toServer'[line], toClient'[line], Owed)
      BY <2>2 DEF Expected, Count, Owed
    <3>2. /\ toServer'[line] \in Nat /\ toClient'[line] \in Nat
          /\ toServer'[line] <= toServer[line] /\ toClient'[line] <= toClient[line]
      BY <1>3, NetNumbers
    <3> QED
      BY <3>1, <3>2, NetNumbers DEF Count
  <2>4. Expected' <= 2 - reply'
    BY <2>1, <2>2, <2>3, NetNumbers DEF IInv, ClientInv
  <2> QED
    BY <1>5, <2>1, <2>2, <2>4 DEF Outstanding
<1> QED
  BY <1>4, <1>6, <1>7 DEF IInv

LEMMA DuplicateKeeps == IInv /\ Duplicate => IInv'
<1> SUFFICES ASSUME IInv, Duplicate PROVE IInv'
  OBVIOUS
<1>1. dups' = dups + 1 /\ UNCHANGED <<client, server>> /\ dups \in Nat
  BY DEF Duplicate, IInv, NetInv
<1>2. toServer \in [LineNo -> Nat] /\ toClient \in [LineNo -> Nat]
  BY DEF IInv, NetInv
<1>3. PICK l \in LineNo :
        \/ toServer[l] > 0 /\ toServer' = Add(toServer, l) /\ UNCHANGED toClient
        \/ toClient[l] > 0 /\ toClient' = Add(toClient, l) /\ UNCHANGED toServer
  BY DEF Duplicate
<1>4. toServer' \in [LineNo -> Nat] /\ toClient' \in [LineNo -> Nat]
  BY <1>2, <1>3, Boxes
<1>5. ClientInv' /\ PrintedInv' /\ ServerInv' /\ NetInv'
  BY <1>1, <1>4 DEF IInv, ClientInv, PrintedInv, ServerInv, NetInv, client, server
<1>6. QuietInv'
  <2>1. line # 0
    BY <1>2, <1>3 DEF IInv, QuietInv
  <2> QED
    BY <1>1, <2>1 DEF QuietInv, client
<1>7. Outstanding'
  BY <1>1 DEF Outstanding
<1> QED
  BY <1>5, <1>6, <1>7 DEF IInv
-----------------------------------------------------------------------------
LEMMA NextKeeps == IInv /\ [Next]_vars => IInv'
<1> SUFFICES ASSUME IInv, [Next]_vars PROVE IInv'
  OBVIOUS
<1>1. CASE UNCHANGED vars
  BY <1>1 DEF vars, client, server, net, IInv, ClientInv, ServerInv, NetInv,
     QuietInv, PrintedInv, Outstanding, Expected
<1> QED
  BY <1>1, SendLineKeeps, ReceiveReplyKeeps, FinishKeeps, ServerReceiveKeeps,
     ServerSendKeeps, LoseKeeps, DuplicateKeeps DEF Next

LEMMA Invariance == Spec => []IInv
BY InitIInv, NextKeeps, PTL DEF Spec

(* As long as no datagram is doubled, only replies to the current line are *)
(* under way and never more than the client waits for, though nothing in a *)
(* datagram says which line it answers (udp-client.c:51-60).               *)
THEOREM OnlyWhatIsWaitedFor == Spec => []Outstanding
<1>1. IInv => Outstanding
  BY DEF IInv
<1> QED
  BY Invariance, <1>1, PTL
-----------------------------------------------------------------------------
(* A whole line is recognised when it is printed.                          *)
LEMMA LineRecognised ==
  ASSUME input \in [LineNo -> 1 .. MaxLen], NEW l \in LineNo
  PROVE  LineOf(Line(l)) = l
<1>1. ASSUME NEW m \in LineNo, Line(l) = Line(m) PROVE m = l
  <2>1. 1 \in 1 .. input[l] /\ 1 \in 1 .. input[m]
    BY UdpAssumption
  <2>2. Line(l)[1] = <<l, 1>> /\ Line(m)[1] = <<m, 1>>
    BY <2>1 DEF Line
  <2> QED
    BY <1>1, <2>2
<1> QED
  BY <1>1 DEF LineOf

Printed == [k \in 1 .. Len(stdout) |-> LineOf(stdout[k])]

LEMMA StepIsLineEcho == IInv /\ [Next]_vars => [dups = 0 => Echo!Next]_(Echo!vars)
<1> SUFFICES ASSUME IInv, [Next]_vars, dups = 0, ~ UNCHANGED (Echo!vars)
             PROVE  Echo!Next
  OBVIOUS
<1>1. ASSUME UNCHANGED <<input, stdout>> PROVE Printed' = Printed
  BY <1>1 DEF Printed, LineOf, Line
<1>2. stdout \in Seq(Seq(Byte)) /\ Len(Printed) = Len(stdout)
  BY DEF IInv, ClientInv, Printed
<1>3. CASE SendLine
  <2>1. line < MaxLines /\ line' = line + 1 /\ Printed' = Printed
    BY <1>1, <1>3 DEF SendLine
  <2>2. Len(Printed) = line * 2
    BY <1>2, <1>3, UdpAssumption DEF SendLine, IInv, ClientInv, PrintedInv
  <2> QED
    BY <2>1, <2>2 DEF Echo!Next, Echo!Ask, Printed
<1>4. CASE ReceiveReply
  <2>1. /\ input' = input /\ line' = line /\ line > 0 /\ line \in LineNo
        /\ ClientInv /\ reply < 2
    BY <1>4, UdpAssumption DEF ReceiveReply, IInv, ClientInv, LineNo
  <2>2. PICK l \in LineNo : toClient[l] > 0 /\ recvline' = Overlay(l)
    BY <1>4 DEF ReceiveReply
  <2>3. l = line
    BY <2>1, <2>2 DEF IInv, Outstanding
  <2>4. stdout' = Append(stdout, Line(line))
    <3>1. stdout' = Append(stdout, SubSeq(recvline', 1, input[line]))
      BY <1>4 DEF ReceiveReply
    <3> QED
      BY <2>1, <2>2, <2>3, <3>1, Received
  <2>5. Len(stdout') = Len(stdout) + 1 /\ stdout'[Len(stdout) + 1] = Line(line)
        /\ \A k \in 1 .. Len(stdout) : stdout'[k] = stdout[k]
    BY <1>2, <2>4
  <2>6. Printed' = [k \in 1 .. Len(stdout') |-> LineOf(stdout'[k])]
    BY <2>1 DEF Printed, LineOf, Line
  <2>7. LineOf(Line(line)) = line
    BY <2>1, LineRecognised DEF ClientInv
  <2>8. Printed' = [k \in 1 .. Len(stdout) + 1 |->
                      IF k = Len(stdout) + 1 THEN line ELSE LineOf(stdout[k])]
    <3>1. Len(stdout) \in Nat
      BY <1>2
    <3> QED
      BY <2>5, <2>6, <2>7, <3>1
  <2>9. Printed' = Append(Printed, line)
    BY <1>2, <2>8 DEF Printed
  <2>10. Len(Printed) < line * 2
    BY <1>2, <2>1, UdpAssumption DEF IInv, ClientInv, PrintedInv
  <2> QED
    BY <2>1, <2>9, <2>10 DEF Echo!Next, Echo!Answer, Printed
<1>5. CASE ~ SendLine /\ ~ ReceiveReply
  <2>1. UNCHANGED <<input, line, stdout>>
    BY <1>5 DEF Next, Finish, ServerReceive, ServerSend, Lose, Duplicate,
       client, vars
  <2> QED
    BY <1>1, <2>1 DEF Echo!vars, Printed
<1> QED
  BY <1>3, <1>4, <1>5

(* As long as no datagram is doubled the doubler over UDP implements       *)
(* LineEcho with two copies (udp-client.c:51-60): every line is printed    *)
(* twice and whole, and only then the next one is read.                    *)
THEOREM ImplementsLineEcho == Spec => IsLineEcho
<1>1. Init => Echo!Init
  BY DEF Init, Echo!Init
<1> QED
  BY <1>1, Invariance, StepIsLineEcho, PTL DEF Spec, IsLineEcho
=============================================================================
