------------------------- MODULE StreamEcho_proofs -------------------------
(***************************************************************************)
(* The echo and the doubler over TCP, for any input, any buffers and any   *)
(* number of copies: types, what is printed as long as writes arrive       *)
(* whole, and where every byte is, whatever the network cuts. With the     *)
(* same facts about concatenation, the doublers over a pipe, for any room  *)
(* in the pipe, any reads and any input.                                   *)
(***************************************************************************)
EXTENDS StreamEcho, PipeDoubler, SequenceTheorems, WellFoundedInduction, TLAPS

Streams == [wire : Seq(Seq(Byte)), arrived : Seq(Byte)]
Bytes == Byte \cup {Junk}

LEMMA WriteType ==
  ASSUME NEW st \in Streams, NEW bytes \in Seq(Byte)
  PROVE  /\ Write(st, bytes) \in Streams
         /\ Write(st, bytes).wire = Append(st.wire, bytes)
         /\ Write(st, bytes).arrived = st.arrived
<1>1. st.wire \in Seq(Seq(Byte)) /\ Append(st.wire, bytes) \in Seq(Seq(Byte))
  BY DEF Streams
<1>2. ASSUME NEW W, NEW A, NEW r \in [wire : W, arrived : A], NEW w \in W
      PROVE  /\ [r EXCEPT !.wire = w] \in [wire : W, arrived : A]
             /\ [r EXCEPT !.wire = w].wire = w
             /\ [r EXCEPT !.wire = w].arrived = r.arrived
  OBVIOUS
<1> QED
  BY <1>1, <1>2 DEF Write, Streams

LEMMA ReadType ==
  ASSUME NEW st \in Streams, NEW max \in Nat
  PROVE  /\ Readable(st, max) \in Seq(Byte) /\ Len(Readable(st, max)) \in 0 .. max
         /\ Read(st, max) \in Streams
         /\ Read(st, max).wire = st.wire
<1>1. st.arrived \in Seq(Byte) /\ st.wire \in Seq(Seq(Byte)) /\ Len(st.arrived) \in Nat
  BY DEF Streams
<1>2. Readable(st, max) \in Seq(Byte) /\ Len(Readable(st, max)) \in 0 .. max
  <2>1. CASE Len(st.arrived) <= max
    BY <1>1, <2>1 DEF Readable
  <2>2. CASE Len(st.arrived) > max
    <3>1. SubSeq(st.arrived, 1, max) \in Seq(Byte) /\ Len(SubSeq(st.arrived, 1, max)) = max
      BY <1>1, <2>2, SubSeqProperties
    <3> QED
      BY <1>1, <2>2, <3>1 DEF Readable
  <2> QED
    BY <1>1, <2>1, <2>2
<1>3. SubSeq(st.arrived, max + 1, Len(st.arrived)) \in Seq(Byte)
  BY <1>1, SubSeqProperties
<1> QED
  BY <1>1, <1>2, <1>3 DEF Read, Streams

LEMMA ArriveType ==
  ASSUME NEW st \in Streams, st.wire # <<>>, NEW k \in 0 .. Len(Head(st.wire))
  PROVE  Arrive(st, k) \in Streams
<1> DEFINE segment == Head(st.wire)
<1>1. segment \in Seq(Byte) /\ Tail(st.wire) \in Seq(Seq(Byte)) /\ st.arrived \in Seq(Byte)
  BY DEF Streams
<1>2. Len(segment) \in Nat /\ k \in Nat /\ k <= Len(segment)
  BY <1>1
<1>3. /\ SubSeq(segment, 1, k) \in Seq(Byte)
      /\ SubSeq(segment, k + 1, Len(segment)) \in Seq(Byte)
  BY <1>1, <1>2, SubSeqProperties
<1> DEFINE rest == IF k = Len(segment) THEN <<>>
                   ELSE <<SubSeq(segment, k + 1, Len(segment))>>
<1>4. rest \in Seq(Seq(Byte))
  BY <1>3
<1> HIDE DEF rest
<1>5. rest \o Tail(st.wire) \in Seq(Seq(Byte))
  BY <1>1, <1>4
<1>6. st.arrived \o SubSeq(segment, 1, k) \in Seq(Byte)
  BY <1>1, <1>3
<1>7. Arrive(st, k) = [wire |-> rest \o Tail(st.wire),
                       arrived |-> st.arrived \o SubSeq(segment, 1, k)]
  BY DEF Arrive, rest
<1> QED
  BY <1>5, <1>6, <1>7 DEF Streams

LEMMA PieceType ==
  ASSUME NEW st \in Streams, st.wire # <<>>, NEW k \in Pieces(st)
  PROVE  Arrive(st, k) \in Streams
<1>1. Head(st.wire) \in Seq(Byte)
  BY DEF Streams
<1>2. k \in 0 .. Len(Head(st.wire))
  BY <1>1 DEF Pieces
<1> QED
  BY <1>2, ArriveType
-----------------------------------------------------------------------------
(* A reply is awaited only for a line that was sent, and a chunk is written*)
(* only while copies of it are missing.                                    *)
TypeInv ==
  /\ TypeOK
  /\ cpc = "reply" => line > 0 /\ reply < copies
  /\ cpc # "reply" /\ line > 0 => reply = copies
  /\ spc = "write" => writes < copies

LEMMA LineIs ==
  ASSUME input \in [1 .. MaxLines -> 1 .. MaxLen], NEW l \in 1 .. MaxLines
  PROVE  /\ Line(l) \in Seq(Byte) /\ Len(Line(l)) = input[l]
         /\ input[l] \in 1 .. MAXLINE /\ Line(l) # <<>>
<1>1. input[l] \in 1 .. MaxLen /\ input[l] \in 1 .. MAXLINE
  BY InputAssumption
<1>2. Line(l) \in [1 .. input[l] -> Byte]
  <2>1. ASSUME NEW k \in 1 .. input[l] PROVE <<l, k>> \in Byte
    BY <1>1, <2>1, InputAssumption DEF Byte
  <2> QED
    BY <2>1 DEF Line
<1>3. ASSUME NEW n \in Nat \ {0}, NEW f \in [1 .. n -> Byte]
      PROVE  f \in Seq(Byte) /\ Len(f) = n /\ f # <<>>
  OBVIOUS
<1> QED
  BY <1>1, <1>2, <1>3

LEMMA LineType ==
  ASSUME TypeInv, NEW l \in 1 .. MaxLines
  PROVE  /\ Line(l) \in Seq(Byte) /\ Len(Line(l)) = input[l]
         /\ input[l] \in 1 .. MAXLINE /\ Line(l) # <<>>
  BY LineIs DEF TypeInv, TypeOK

LEMMA InitType == Init => TypeInv
<1> SUFFICES ASSUME Init PROVE TypeInv
  OBVIOUS
<1> USE EchoAssumption, InputAssumption DEF Init, InitStreams
<1>1. IsStream(toServer, Byte) /\ IsStream(toClient, Byte)
  BY DEF NewStream, IsStream
<1>2. /\ stdout \in Seq(Seq(Byte \cup {Junk})) /\ received \in Seq(Byte)
      /\ buf \in Seq(Byte) /\ Len(buf) <= MAXLINE
  OBVIOUS
<1>3. recvline \in [1 .. MAXLINE -> Byte \cup {Junk}]
  OBVIOUS
<1>4. copies \in Nat \ {0} /\ reply \in 0 .. copies /\ writes \in 0 .. copies
  OBVIOUS
<1> QED
  <2>0. split \in BOOLEAN
    BY Zenon
  <2>1. /\ copies \in Copies
        /\ input \in [1 .. MaxLines -> 1 .. MaxLen] /\ line \in 0 .. MaxLines
        /\ cpc \in {"stdin", "reply", "exited"} /\ spc \in {"read", "write"}
    OBVIOUS
  <2>2. cpc = "stdin" /\ line = 0 /\ spc = "read"
    OBVIOUS
  <2> HIDE DEF Init
  <2>3. TypeOK
    BY <1>1, <1>2, <1>3, <1>4, <2>0, <2>1 DEF TypeOK
  <2> QED
    BY <2>2, <2>3 DEF TypeInv

(* What a read of the client leaves in its buffer, and what it prints.     *)
LEMMA OverlayType ==
  ASSUME TypeInv, line > 0, NEW bytes \in Seq(Byte), Len(bytes) <= MAXLINE
  PROVE  /\ Overlay(bytes, recvline) \in [1 .. MAXLINE -> Bytes]
         /\ SubSeq(Overlay(bytes, recvline), 1, input[line]) \in Seq(Bytes)
<1>1. /\ recvline \in [1 .. MAXLINE -> Bytes] /\ line \in 1 .. MaxLines
  BY DEF TypeInv, TypeOK, Bytes
<1>2. /\ input[line] \in 1 .. MAXLINE
  BY <1>1, LineType
<1>3. Overlay(bytes, recvline) \in [1 .. MAXLINE -> Bytes]
  <2>1. ASSUME NEW k \in 1 .. MAXLINE, k <= Len(bytes) PROVE bytes[k] \in Bytes
    BY <2>1 DEF Bytes
  <2> QED
    BY <1>1, <2>1 DEF Overlay
<1>4. \A k \in 1 .. input[line] : Overlay(bytes, recvline)[k] \in Bytes
  BY <1>2, <1>3, EchoAssumption, InputAssumption
<1>5. SubSeq(Overlay(bytes, recvline), 1, input[line]) \in Seq(Bytes)
  BY <1>2, <1>4, SubSeqProperties
<1> QED
  BY <1>3, <1>5

LEMMA TypeStep == TypeInv /\ [Next]_vars => TypeInv'
<1> SUFFICES ASSUME TypeInv, [Next]_vars PROVE TypeInv'
  OBVIOUS
<1>0. /\ toServer \in Streams /\ toClient \in Streams /\ MAXLINE \in Nat
      /\ copies \in Nat \ {0}
  BY EchoAssumption, InputAssumption DEF TypeInv, TypeOK, IsStream, Streams
<1>1. CASE SendLine
  <2>1. line + 1 \in 1 .. MaxLines
    BY <1>1, EchoAssumption, InputAssumption DEF SendLine, ReadStdin, TypeInv, TypeOK
  <2>2. toServer' \in Streams
    BY <1>0, <1>1, <2>1, LineType, WriteType DEF SendLine, ReadStdin
  <2> QED
    BY <1>0, <1>1, <2>1, <2>2, EchoAssumption, InputAssumption
       DEF SendLine, ReadStdin, TypeInv, TypeOK, server, IsStream, Streams
<1>2. CASE ReadReply
  <2> DEFINE bytes == Readable(toClient, MAXLINE)
  <2>1. bytes \in Seq(Byte) /\ Len(bytes) <= MAXLINE /\ Read(toClient, MAXLINE) \in Streams
    BY <1>0, ReadType
  <2> HIDE DEF bytes
  <2>2. /\ recvline' = Overlay(bytes, recvline) /\ received' = received \o bytes
        /\ stdout' = Append(stdout, SubSeq(recvline', 1, input[line]))
        /\ toClient' = Read(toClient, MAXLINE)
        /\ cpc = "reply" /\ reply' = reply + 1
        /\ cpc' = (IF reply + 1 >= copies THEN "stdin" ELSE "reply")
        /\ UNCHANGED <<copies, input, line, server, toServer, split>>
    BY <1>2 DEF ReadReply, ReplyMax, LastReply, bytes
  <2>3. line > 0 /\ reply < copies /\ reply \in Nat
    BY <1>0, <2>2 DEF TypeInv, TypeOK
  <2>4. /\ recvline' \in [1 .. MAXLINE -> Bytes]
        /\ SubSeq(recvline', 1, input[line]) \in Seq(Bytes)
    BY <2>1, <2>2, <2>3, OverlayType
  <2>5. stdout' \in Seq(Seq(Bytes)) /\ received' \in Seq(Byte)
    BY <2>1, <2>2, <2>4 DEF TypeInv, TypeOK, Bytes
  <2>6. reply' \in 0 .. copies /\ (cpc' = "reply" => reply' < copies)
        /\ (cpc' # "reply" => reply' = copies)
    BY <1>0, <2>2, <2>3
  <2> QED
    BY <1>0, <2>1, <2>2, <2>3, <2>4, <2>5, <2>6
       DEF TypeInv, TypeOK, server, IsStream, Streams, Bytes
<1>3. CASE Finish
  BY <1>3 DEF Finish, TypeInv, TypeOK, server
<1>4. CASE ServerRead
  <2>1. /\ Readable(toServer, MAXLINE) \in Seq(Byte)
        /\ Len(Readable(toServer, MAXLINE)) <= MAXLINE
        /\ Read(toServer, MAXLINE) \in Streams
    BY <1>0, ReadType
  <2> QED
    BY <1>0, <1>4, <2>1 DEF ServerRead, TypeInv, TypeOK, client, IsStream, Streams
<1>5. CASE ServerWrite
  <2>1. toClient' \in Streams
    BY <1>0, <1>5, WriteType DEF ServerWrite, Answered, TypeInv, TypeOK
  <2> QED
    BY <1>0, <1>5, <2>1 DEF ServerWrite, TypeInv, TypeOK, client, IsStream, Streams
<1>6. CASE ArriveAtServer
  <2>1. toServer' \in Streams /\ split' \in BOOLEAN
    BY <1>0, <1>6, PieceType DEF ArriveAtServer, TypeInv, TypeOK
  <2> QED
    BY <1>6, <2>1 DEF ArriveAtServer, TypeInv, TypeOK, client, server, IsStream, Streams
<1>7. CASE ArriveAtClient
  <2>1. toClient' \in Streams /\ split' \in BOOLEAN
    BY <1>0, <1>7, PieceType DEF ArriveAtClient, TypeInv, TypeOK
  <2> QED
    BY <1>7, <2>1 DEF ArriveAtClient, TypeInv, TypeOK, client, server, IsStream, Streams
<1>8. CASE UNCHANGED vars
  BY <1>8 DEF vars, client, server, TypeInv, TypeOK
<1> QED
  BY <1>1, <1>2, <1>3, <1>4, <1>5, <1>6, <1>7, <1>8 DEF Next

(* The types of the echo and doubler programs over TCP, for any cuts of    *)
(* the network: the client never counts more than copies replies           *)
(* (client.c:58-63), and no read leaves its buffer.                        *)
THEOREM TypeCorrect == Spec => []TypeOK
<1>1. TypeInv => TypeOK
  BY DEF TypeInv
<1> QED
  BY <1>1, InitType, TypeStep, PTL DEF Spec
-----------------------------------------------------------------------------
(* While writes arrive whole, all that is under way are copies of the      *)
(* current line: the line itself on its way to the server counts for all   *)
(* its copies, and there are never more than the client waits for.         *)
Quiet(st) == st.wire = <<>> /\ st.arrived = <<>>

Owed == IF Quiet(toServer) THEN 0 ELSE copies
InHand == IF spc = "write" THEN copies - writes ELSE 0

OneRequest ==
  \/ Quiet(toServer)
  \/ toServer.wire = <<Line(line)>> /\ toServer.arrived = <<>>
  \/ toServer.wire = <<>> /\ toServer.arrived = Line(line)

OnlyLines == \A k \in 1 .. Len(toClient.wire) : toClient.wire[k] = Line(line)

(* What has arrived at the client are j copies, one after the other.       *)
Waiting(j) ==
  /\ Len(toClient.arrived) = j * input[line]
  /\ j > 0 => \A k \in 1 .. input[line] : toClient.arrived[k] = <<line, k>>
  /\ Owed + InHand + Len(toClient.wire) + j <= copies - reply

InRound ==
  /\ OneRequest /\ OnlyLines
  /\ spc = "write" => buf = Line(line)
  /\ \E j \in Nat : Waiting(j)

BeforeRound == Quiet(toServer) /\ Quiet(toClient) /\ spc = "read"

WholeInv ==
  ~split /\ Fits => /\ line = 0 => BeforeRound
                    /\ line > 0 => InRound

LEMMA Products ==
  ASSUME NEW a \in Nat, NEW b \in Nat, NEW n \in Nat
  PROVE  /\ a * n \in Nat
         /\ a <= b => a * n <= b * n
         /\ a > 0 => n <= a * n
         /\ a > 0 /\ n > 0 => a * n > 0
         /\ (a + 1) * n = a * n + n
<1>1. a * n \in Nat /\ (a + 1) * n = a * n + n
  OBVIOUS
<1>2. ASSUME a <= b PROVE a * n <= b * n
  <2>1. PICK d \in Nat : b = a + d
    BY <1>2
  <2>2. b * n = a * n + d * n /\ d * n \in Nat
    BY <2>1
  <2> QED
    BY <1>1, <2>2
<1>3. ASSUME a > 0 PROVE n <= a * n
  <2>1. PICK d \in Nat : a = 1 + d
    BY <1>3
  <2>2. a * n = n + d * n /\ d * n \in Nat
    BY <2>1
  <2> QED
    BY <2>2
<1> QED
  BY <1>1, <1>2, <1>3

(* What the counts of a round are numbers of.                              *)
LEMMA RoundNumbers ==
  ASSUME TypeInv, line > 0
  PROVE  /\ line \in 1 .. MaxLines /\ input[line] \in 1 .. MAXLINE
         /\ Line(line) \in Seq(Byte) /\ Len(Line(line)) = input[line]
         /\ Line(line) # <<>>
         /\ \A k \in 1 .. input[line] : Line(line)[k] = <<line, k>>
         /\ copies \in Nat \ {0} /\ reply \in 0 .. copies
         /\ Owed \in {0, copies} /\ (Owed = 0 <=> Quiet(toServer))
         /\ InHand \in Nat /\ (InHand = 0 <=> spc = "read")
         /\ toClient \in Streams /\ toServer \in Streams
         /\ Len(toClient.wire) \in Nat /\ Len(toClient.arrived) \in Nat
<1>1. line \in 1 .. MaxLines /\ copies \in Nat \ {0} /\ reply \in 0 .. copies
  BY EchoAssumption, InputAssumption DEF TypeInv, TypeOK
<1>2. toClient \in Streams /\ toServer \in Streams
  BY DEF TypeInv, TypeOK, IsStream, Streams
<1>3. InHand \in Nat /\ (InHand = 0 <=> spc = "read")
  BY <1>1 DEF InHand, TypeInv, TypeOK
<1>4. Owed \in {0, copies} /\ (Owed = 0 <=> Quiet(toServer))
  BY <1>1 DEF Owed
<1>5. Len(toClient.wire) \in Nat /\ Len(toClient.arrived) \in Nat
  BY <1>2 DEF Streams
<1>6. \A k \in 1 .. input[line] : Line(line)[k] = <<line, k>>
  BY DEF Line
<1> QED
  BY <1>1, <1>2, <1>3, <1>4, <1>5, <1>6, LineType

(* Once the client has had its replies, nothing is under way.              *)
LEMMA RoundOver ==
  ASSUME TypeInv, WholeInv, ~split, Fits, cpc # "reply"
  PROVE  BeforeRound
<1>1. CASE line = 0
  BY <1>1 DEF WholeInv
<1>2. CASE line > 0
  <2>1. PICK j \in Nat : Waiting(j)
    BY <1>2 DEF WholeInv, InRound
  <2>2. reply = copies
    BY <1>2 DEF TypeInv
  <2>3. Owed = 0 /\ InHand = 0 /\ Len(toClient.wire) = 0 /\ j = 0
    BY <1>2, <2>1, <2>2, RoundNumbers DEF Waiting
  <2>4. Len(toClient.arrived) = 0
    BY <1>2, <2>1, <2>3, RoundNumbers DEF Waiting
  <2>5. toClient.wire = <<>> /\ toClient.arrived = <<>>
    BY <1>2, <2>3, <2>4, RoundNumbers DEF Streams
  <2> QED
    BY <1>2, <2>3, <2>5, RoundNumbers DEF BeforeRound, Quiet
<1> QED
  BY <1>1, <1>2 DEF TypeInv, TypeOK

(* A read of the client takes all that has arrived.                        *)
LEMMA ReadTakesAll ==
  ASSUME TypeInv, WholeInv, ~split, Fits, line > 0, toClient.arrived # <<>>
  PROVE  /\ Readable(toClient, MAXLINE) = toClient.arrived
         /\ Read(toClient, MAXLINE).arrived = <<>>
         /\ Read(toClient, MAXLINE).wire = toClient.wire
         /\ \A k \in 1 .. input[line] : toClient.arrived[k] = <<line, k>>
         /\ input[line] <= Len(toClient.arrived)
         /\ Owed + InHand + Len(toClient.wire) + 1 <= copies - reply
<1>1. PICK j \in Nat : Waiting(j)
  BY DEF WholeInv, InRound
<1>2. j <= copies
  BY <1>1, RoundNumbers DEF Waiting
<1>3. j * input[line] <= copies * input[line] /\ copies * input[line] <= MAXLINE
  BY <1>2, RoundNumbers, Products DEF Fits
<1>4. Len(toClient.arrived) <= MAXLINE
  BY <1>1, <1>3, RoundNumbers, Products, EchoAssumption, InputAssumption DEF Waiting
<1>5. Readable(toClient, MAXLINE) = toClient.arrived
  BY <1>4 DEF Readable
<1>6. Read(toClient, MAXLINE).arrived = <<>> /\ Read(toClient, MAXLINE).wire = toClient.wire
  <2>1. SubSeq(toClient.arrived, MAXLINE + 1, Len(toClient.arrived)) = <<>>
    BY <1>4, RoundNumbers, EchoAssumption, InputAssumption, SubSeqEmpty
  <2> QED
    BY <2>1, RoundNumbers DEF Read, Streams
<1>7. j > 0
  <2>1. Len(toClient.arrived) # 0
    BY RoundNumbers DEF Streams
  <2> QED
    BY <1>1, <2>1, RoundNumbers DEF Waiting
<1>8. input[line] <= Len(toClient.arrived)
  BY <1>1, <1>7, RoundNumbers, Products DEF Waiting
<1>9. Owed + InHand + Len(toClient.wire) + 1 <= copies - reply
  <2>1. Owed + InHand + Len(toClient.wire) + j <= copies - reply
    BY <1>1 DEF Waiting
  <2>2. /\ Owed \in Nat /\ InHand \in Nat /\ Len(toClient.wire) \in Nat
        /\ copies \in Nat /\ reply \in Nat
    BY RoundNumbers
  <2>3. \A a, b, w, m, c, r \in Nat :
          a + b + w + m <= c - r /\ m > 0 => a + b + w + 1 <= c - r
    OBVIOUS
  <2> QED
    BY <1>7, <2>1, <2>2, <2>3
<1>10. \A k \in 1 .. input[line] : toClient.arrived[k] = <<line, k>>
  BY <1>1, <1>7 DEF Waiting
<1> QED
  BY <1>5, <1>6, <1>8, <1>9, <1>10

LEMMA RoundSend ==
  ASSUME TypeInv, WholeInv, SendLine
  PROVE  WholeInv'
<1> SUFFICES ASSUME ~split', Fits' PROVE line' > 0 /\ InRound'
  BY DEF WholeInv, SendLine, ReadStdin, TypeInv, TypeOK
<1>1. /\ ~split /\ Fits /\ BeforeRound
  BY RoundOver DEF SendLine, ReadStdin, server, Fits, Line
<1>2. /\ line' = line + 1 /\ reply' = 0 /\ cpc' = "reply"
      /\ UNCHANGED <<copies, input, server, toClient>>
      /\ toServer' = Write(toServer, Line(line + 1))
      /\ line + 1 \in 1 .. MaxLines
  BY EchoAssumption, InputAssumption DEF SendLine, ReadStdin, TypeInv, TypeOK
<1>3. Line(line)' = Line(line + 1) /\ Line(line + 1) \in Seq(Byte)
  BY <1>2, LineType DEF Line
<1>4. toServer'.wire = <<Line(line)'>> /\ toServer'.arrived = <<>>
  BY <1>1, <1>2, <1>3, WriteType DEF BeforeRound, Quiet, TypeInv, TypeOK, IsStream, Streams
<1>5. toClient'.wire = <<>> /\ toClient'.arrived = <<>> /\ spc' = "read"
  BY <1>1, <1>2 DEF BeforeRound, Quiet, server
<1>6. Waiting(0)'
  <2>0. ~ Quiet(toServer)'
    BY <1>4 DEF Quiet
  <2>1. Owed' = copies /\ InHand' = 0
    BY <1>2, <1>5, <2>0 DEF Owed, InHand
  <2>2. Len(toClient'.arrived) = 0 /\ Len(toClient'.wire) = 0 /\ input'[line'] \in Nat
    BY <1>2, <1>5 DEF TypeInv, TypeOK
  <2> QED
    BY <1>2, <2>1, <2>2, EchoAssumption, InputAssumption DEF Waiting, TypeInv, TypeOK
<1>7. OneRequest' /\ OnlyLines' /\ (spc = "write" => buf = Line(line))'
  BY <1>4, <1>5 DEF OneRequest, OnlyLines
<1> QED
  BY <1>2, <1>6, <1>7 DEF InRound, TypeInv, TypeOK

LEMMA RoundReply ==
  ASSUME TypeInv, WholeInv, ReadReply
  PROVE  WholeInv'
<1> SUFFICES ASSUME ~split', Fits' PROVE line' > 0 /\ InRound'
  BY DEF WholeInv, ReadReply, TypeInv, TypeOK
<1>1. /\ ~split /\ Fits /\ line > 0 /\ reply < copies /\ line' = line
      /\ reply' = reply + 1 /\ toClient' = Read(toClient, MAXLINE)
      /\ toClient.arrived # <<>>
      /\ UNCHANGED <<copies, input, server, toServer>>
  BY DEF ReadReply, TypeInv, Fits, ReplyMax
<1>2. Line(line)' = Line(line)
  BY <1>1 DEF Line
<1>3. OneRequest' /\ OnlyLines' /\ (spc = "write" => buf = Line(line))'
  BY <1>1, <1>2, ReadTakesAll
     DEF WholeInv, InRound, OneRequest, OnlyLines, Quiet, server
<1>4. Waiting(0)'
  <2>1. Owed' = Owed /\ InHand' = InHand
    BY <1>1 DEF Owed, InHand, Quiet, server
  <2>2. Len(toClient'.arrived) = 0 /\ toClient'.wire = toClient.wire
    BY <1>1, ReadTakesAll
  <2>3. Owed + InHand + Len(toClient.wire) + 1 <= copies - reply
    BY <1>1, ReadTakesAll
  <2>4. /\ Owed \in Nat /\ InHand \in Nat /\ Len(toClient.wire) \in Nat
        /\ copies \in Nat /\ reply \in Nat /\ input[line] \in Nat
    BY <1>1, RoundNumbers
  <2>5. Owed' + InHand' + Len(toClient'.wire) + 0 <= copies' - reply'
    <3>1. \A a, b, w, c, r \in Nat : a + b + w + 1 <= c - r => a + b + w + 0 <= c - (r + 1)
      OBVIOUS
    <3> QED
      BY <1>1, <2>1, <2>2, <2>3, <2>4, <3>1
  <2>6. Len(toClient'.arrived) = 0 * input'[line']
    BY <1>1, <2>2, <2>4
  <2> QED
    BY <2>5, <2>6 DEF Waiting
<1> QED
  BY <1>1, <1>3, <1>4 DEF InRound

LEMMA RoundServerRead ==
  ASSUME TypeInv, WholeInv, ServerRead
  PROVE  WholeInv'
<1> SUFFICES ASSUME ~split', Fits' PROVE line' > 0 /\ InRound'
  BY DEF WholeInv, ServerRead, client, TypeInv, TypeOK
<1>1. /\ ~split /\ Fits /\ spc = "read" /\ spc' = "write" /\ writes' = 0
      /\ toServer.arrived # <<>>
      /\ buf' = Readable(toServer, MAXLINE) /\ toServer' = Read(toServer, MAXLINE)
      /\ UNCHANGED <<copies, input, line, reply, toClient>>
  BY DEF ServerRead, client, Fits, CanRead
<1>2. line > 0
  BY <1>1 DEF WholeInv, BeforeRound, Quiet, TypeInv, TypeOK
<1>3. /\ toServer.wire = <<>> /\ toServer.arrived = Line(line)
  BY <1>1, <1>2 DEF WholeInv, InRound, OneRequest, Quiet
<1>4. /\ buf' = Line(line) /\ Quiet(toServer)'
  <2>1. Len(toServer.arrived) <= MAXLINE /\ Len(toServer.arrived) \in Nat
    BY <1>2, <1>3, RoundNumbers, EchoAssumption, InputAssumption
  <2>2. SubSeq(toServer.arrived, MAXLINE + 1, Len(toServer.arrived)) = <<>>
    BY <2>1, SubSeqEmpty, EchoAssumption, InputAssumption
  <2> QED
    BY <1>1, <1>2, <1>3, <2>1, <2>2, RoundNumbers DEF Readable, Read, Quiet, Streams
<1>5. Line(line)' = Line(line)
  BY <1>1 DEF Line
<1>6. OneRequest' /\ OnlyLines' /\ (spc = "write" => buf = Line(line))'
  BY <1>1, <1>2, <1>4, <1>5 DEF WholeInv, InRound, OneRequest, OnlyLines
<1>7. PICK j \in Nat : Waiting(j)
  BY <1>1, <1>2 DEF WholeInv, InRound
<1>8. Waiting(j)'
  <2>1. Owed = copies /\ InHand = 0
    BY <1>1, <1>2, <1>3, RoundNumbers DEF Quiet, InHand
  <2>2. Owed' = 0 /\ InHand' = copies
    BY <1>1, <1>2, <1>4, RoundNumbers DEF Owed, InHand
  <2>3. Owed' + InHand' = Owed + InHand
    BY <1>2, <2>1, <2>2, RoundNumbers
  <2> QED
    BY <1>1, <1>7, <2>3 DEF Waiting
<1> QED
  BY <1>1, <1>2, <1>6, <1>8 DEF InRound

LEMMA RoundServerWrite ==
  ASSUME TypeInv, WholeInv, ServerWrite
  PROVE  WholeInv'
<1> SUFFICES ASSUME ~split', Fits' PROVE line' > 0 /\ InRound'
  BY DEF WholeInv, ServerWrite, client, TypeInv, TypeOK
<1>1. /\ ~split /\ Fits /\ spc = "write" /\ writes' = writes + 1
      /\ toClient' = Write(toClient, buf) /\ buf' = buf
      /\ spc' = (IF writes + 1 < copies THEN "write" ELSE "read")
      /\ UNCHANGED <<copies, input, line, reply, toServer>>
  BY DEF ServerWrite, client, Fits, Answered
<1>2. line > 0
  BY <1>1 DEF WholeInv, BeforeRound, TypeInv, TypeOK
<1>3. Line(line)' = Line(line) /\ buf = Line(line)
  BY <1>1, <1>2 DEF Line, WholeInv, InRound
<1>4. /\ toClient'.wire = Append(toClient.wire, Line(line))
      /\ toClient'.arrived = toClient.arrived
  BY <1>1, <1>2, <1>3, RoundNumbers, WriteType
<1>5. toClient.wire \in Seq(Seq(Byte)) /\ Line(line) \in Seq(Byte)
  BY <1>2, RoundNumbers DEF Streams
<1>6. /\ Len(toClient'.wire) = Len(toClient.wire) + 1
      /\ \A k \in 1 .. Len(toClient.wire) : toClient'.wire[k] = toClient.wire[k]
      /\ toClient'.wire[Len(toClient.wire) + 1] = Line(line)
  BY <1>4, <1>5, AppendProperties
<1>7. OnlyLines /\ OneRequest
  BY <1>1, <1>2 DEF WholeInv, InRound
<1>8. OnlyLines'
  <2>1. ASSUME NEW k \in 1 .. Len(toClient.wire) + 1 PROVE toClient'.wire[k] = Line(line)
    <3>1. Len(toClient.wire) \in Nat
      BY <1>2, RoundNumbers
    <3>2. k \in 1 .. Len(toClient.wire) \/ k = Len(toClient.wire) + 1
      BY <3>1
    <3> QED
      BY <1>6, <1>7, <3>2 DEF OnlyLines
  <2> QED
    BY <1>3, <1>6, <2>1 DEF OnlyLines
<1>9. OneRequest' /\ (spc = "write" => buf = Line(line))'
  BY <1>1, <1>3, <1>7 DEF OneRequest, Quiet
<1>10. PICK j \in Nat : Waiting(j)
  BY <1>1, <1>2 DEF WholeInv, InRound
<1>11. Waiting(j)'
  <2>1. Owed' = Owed
    BY <1>1 DEF Owed, Quiet
  <2>2. InHand' = InHand - 1
    BY <1>1, EchoAssumption, InputAssumption DEF InHand, TypeInv, TypeOK
  <2>3. Owed' + InHand' + Len(toClient'.wire) = Owed + InHand + Len(toClient.wire)
    <3> DEFINE w == Len(toClient.wire)
               w2 == Len(toClient'.wire)
    <3>1. w2 = w + 1
      BY <1>6
    <3>2. Owed \in Int /\ InHand \in Int /\ w \in Int
      BY <1>2, RoundNumbers
    <3> HIDE DEF w, w2
    <3>3. Owed + (InHand - 1) + w2 = Owed + InHand + w
      BY <3>1, <3>2
    <3> QED
      BY <2>1, <2>2, <3>3 DEF w, w2
  <2> QED
    BY <1>1, <1>4, <1>10, <2>3 DEF Waiting
<1> QED
  BY <1>1, <1>2, <1>8, <1>9, <1>11 DEF InRound

(* Only a segment that arrives whole leaves the history as it is.          *)
LEMMA WholeSegment ==
  ASSUME NEW st \in Streams, st.wire # <<>>, NEW k \in Pieces(st),
         ~ (k < Len(Head(st.wire)))
  PROVE  /\ Arrive(st, k).wire = Tail(st.wire)
         /\ Arrive(st, k).arrived = st.arrived \o Head(st.wire)
<1>1. /\ Head(st.wire) \in Seq(Byte) /\ Tail(st.wire) \in Seq(Seq(Byte))
      /\ st.arrived \in Seq(Byte)
  BY DEF Streams
<1>2. Len(Head(st.wire)) \in Nat
  BY <1>1
<1>3. k = Len(Head(st.wire))
  BY <1>2 DEF Pieces
<1>4. <<>> \o Tail(st.wire) = Tail(st.wire)
  BY <1>1, ConcatEmptySeq
<1>5. SubSeq(Head(st.wire), 1, k) = Head(st.wire)
  BY <1>1, <1>3, SubSeqFull
<1> QED
  BY <1>3, <1>4, <1>5 DEF Arrive

LEMMA RoundArriveAtServer ==
  ASSUME TypeInv, WholeInv, ArriveAtServer
  PROVE  WholeInv'
<1> SUFFICES ASSUME ~split', Fits' PROVE line' > 0 /\ InRound'
  BY DEF WholeInv, ArriveAtServer, client, TypeInv, TypeOK
<1>1. PICK k \in Pieces(toServer) : /\ toServer' = Arrive(toServer, k)
                                    /\ split' = (split \/ k < Len(Head(toServer.wire)))
  BY DEF ArriveAtServer
<1>2. /\ ~split /\ Fits /\ ~ (k < Len(Head(toServer.wire))) /\ toServer.wire # <<>>
      /\ UNCHANGED <<client, server, toClient>>
  BY <1>1 DEF ArriveAtServer, client, Fits
<1>3. line > 0
  BY <1>2 DEF WholeInv, BeforeRound, Quiet, TypeInv, TypeOK
<1>4. toServer.wire = <<Line(line)>> /\ toServer.arrived = <<>> /\ OnlyLines
  BY <1>2, <1>3 DEF WholeInv, InRound, OneRequest, Quiet
<1>5. Head(toServer.wire) = Line(line) /\ Tail(toServer.wire) = <<>>
  BY <1>4
<1>6. toServer'.wire = <<>> /\ toServer'.arrived = Line(line)
  <2>1. <<>> \o Line(line) = Line(line)
    BY <1>3, RoundNumbers, ConcatEmptySeq
  <2> QED
    BY <1>1, <1>2, <1>3, <1>4, <1>5, <2>1, RoundNumbers, WholeSegment
<1>7. Line(line)' = Line(line)
  BY <1>2 DEF Line, client
<1>8. OneRequest' /\ OnlyLines' /\ (spc = "write" => buf = Line(line))'
  BY <1>2, <1>3, <1>4, <1>6, <1>7
     DEF WholeInv, InRound, OneRequest, OnlyLines, server
<1>9. PICK j \in Nat : Waiting(j)
  BY <1>2, <1>3 DEF WholeInv, InRound
<1>10. Waiting(j)'
  <2>1. Owed' = Owed
    BY <1>2, <1>3, <1>4, <1>6, RoundNumbers DEF Owed, Quiet, client
  <2> QED
    BY <1>2, <1>9, <2>1 DEF Waiting, InHand, client, server
<1> QED
  BY <1>2, <1>3, <1>8, <1>10 DEF InRound, client

LEMMA RoundArriveAtClient ==
  ASSUME TypeInv, WholeInv, ArriveAtClient
  PROVE  WholeInv'
<1> SUFFICES ASSUME ~split', Fits' PROVE line' > 0 /\ InRound'
  BY DEF WholeInv, ArriveAtClient, client, TypeInv, TypeOK
<1>1. PICK k \in Pieces(toClient) : /\ toClient' = Arrive(toClient, k)
                                    /\ split' = (split \/ k < Len(Head(toClient.wire)))
  BY DEF ArriveAtClient
<1>2. /\ ~split /\ Fits /\ ~ (k < Len(Head(toClient.wire))) /\ toClient.wire # <<>>
      /\ UNCHANGED <<client, server, toServer>>
  BY <1>1 DEF ArriveAtClient, client, Fits
<1>3. line > 0
  BY <1>2 DEF WholeInv, BeforeRound, Quiet, TypeInv, TypeOK
<1>4. InRound
  BY <1>2, <1>3 DEF WholeInv
<1>5. /\ toClient.wire \in Seq(Seq(Byte)) /\ toClient.arrived \in Seq(Byte)
      /\ Len(toClient.wire) \in Nat \ {0}
  BY <1>2, <1>3, RoundNumbers DEF Streams
<1>6. Head(toClient.wire) = Line(line)
  <2>1. Head(toClient.wire) = toClient.wire[1] /\ 1 \in 1 .. Len(toClient.wire)
    BY <1>2, <1>5
  <2> QED
    BY <1>4, <2>1 DEF InRound, OnlyLines
<1>7. toClient'.wire = Tail(toClient.wire) /\ toClient'.arrived = toClient.arrived \o Line(line)
  BY <1>1, <1>2, <1>3, <1>6, RoundNumbers, WholeSegment
<1>8. Line(line)' = Line(line)
  BY <1>2 DEF Line, client
<1>9. /\ Len(toClient'.wire) = Len(toClient.wire) - 1
      /\ \A m \in 1 .. Len(toClient'.wire) : toClient'.wire[m] = toClient.wire[m + 1]
  BY <1>2, <1>5, <1>7, HeadTailProperties
<1>10. OnlyLines'
  <2>1. ASSUME NEW m \in 1 .. Len(toClient'.wire) PROVE toClient'.wire[m] = Line(line)
    <3>1. m + 1 \in 1 .. Len(toClient.wire)
      BY <1>5, <1>9
    <3> QED
      BY <1>4, <1>9, <3>1 DEF InRound, OnlyLines
  <2> QED
    BY <1>8, <2>1 DEF OnlyLines
<1>11. OneRequest' /\ (spc = "write" => buf = Line(line))'
  BY <1>2, <1>4, <1>8 DEF InRound, OneRequest, Quiet, server
<1>12. PICK j \in Nat : Waiting(j)
  BY <1>4 DEF InRound
<1>13. Waiting(j + 1)'
  <2>1. Owed' = Owed /\ InHand' = InHand
    BY <1>2 DEF Owed, InHand, Quiet, client, server
  <2>2. Owed' + InHand' + Len(toClient'.wire) + (j + 1) <= copies' - reply'
    <3> DEFINE w == Len(toClient.wire)
               w2 == Len(toClient'.wire)
    <3>1. w2 = w - 1
      BY <1>9
    <3>2. Owed \in Int /\ InHand \in Int /\ w \in Int /\ j \in Int
      BY <1>3, RoundNumbers
    <3>3. Owed + InHand + Len(toClient.wire) + j <= copies - reply
      BY <1>12 DEF Waiting
    <3>4. Owed' + InHand' + Len(toClient'.wire) + (j + 1)
            = Owed + InHand + Len(toClient.wire) + j
      <4> HIDE DEF w, w2
      <4>1. Owed + InHand + w2 + (j + 1) = Owed + InHand + w + j
        BY <3>1, <3>2
      <4> QED
        BY <2>1, <4>1 DEF w, w2
    <3> QED
      BY <1>2, <3>3, <3>4 DEF client
  <2>3. /\ Line(line) \in Seq(Byte) /\ Len(Line(line)) = input[line]
        /\ input[line] \in Nat /\ Len(toClient.arrived) \in Nat
    BY <1>3, RoundNumbers
  <2>4. /\ Len(toClient'.arrived) = Len(toClient.arrived) + input[line]
        /\ \A m \in 1 .. Len(toClient.arrived) + input[line] :
             toClient'.arrived[m] = IF m <= Len(toClient.arrived)
                                    THEN toClient.arrived[m]
                                    ELSE Line(line)[m - Len(toClient.arrived)]
    <3> DEFINE old == toClient.arrived
               new == Line(line)
    <3>1. old \in Seq(Byte) /\ new \in Seq(Byte)
      BY <1>5, <2>3
    <3> HIDE DEF new, old
    <3>2. /\ Len(old \o new) = Len(old) + Len(new)
          /\ \A m \in 1 .. Len(old) + Len(new) :
               (old \o new)[m] = IF m <= Len(old) THEN old[m] ELSE new[m - Len(old)]
      BY <3>1, ConcatProperties
    <3> QED
      BY <1>7, <2>3, <3>2 DEF old, new
  <2>5. Len(toClient.arrived) = j * input[line]
    BY <1>12 DEF Waiting
  <2>6. Len(toClient'.arrived) = (j + 1) * input[line]
    BY <2>3, <2>4, <2>5, Products
  <2>7. ASSUME NEW m \in 1 .. input[line] PROVE toClient'.arrived[m] = <<line, m>>
    <3>1. CASE j = 0
      <4>1. Len(toClient.arrived) = 0
        BY <2>3, <2>5, <3>1
      <4> QED
        BY <1>3, <2>3, <2>4, <4>1, RoundNumbers
    <3>2. CASE j > 0
      <4>1. input[line] <= Len(toClient.arrived)
        BY <2>3, <2>5, <3>2, Products
      <4>2. toClient'.arrived[m] = toClient.arrived[m]
        BY <2>3, <2>4, <4>1
      <4> QED
        BY <1>12, <3>2, <4>2 DEF Waiting
    <3> QED
      BY <3>1, <3>2
  <2> QED
    BY <1>2, <2>2, <2>6, <2>7 DEF Waiting, client
<1> QED
  BY <1>2, <1>3, <1>10, <1>11, <1>13 DEF InRound, client
-----------------------------------------------------------------------------
IInv == TypeInv /\ WholeInv

LEMMA Invariance == Spec => []IInv
<1>1. Init => IInv
  BY InitType DEF Init, InitStreams, IInv, WholeInv, BeforeRound, Quiet, NewStream
<1>2. IInv /\ [Next]_vars => IInv'
  <2> SUFFICES ASSUME IInv, [Next]_vars PROVE WholeInv'
    BY TypeStep DEF IInv
  <2>1. CASE Finish \/ UNCHANGED vars
    <3>1. /\ UNCHANGED <<copies, input, line, reply, server, toServer, toClient, split>>
      BY <2>1 DEF Finish, vars, client
    <3> QED
      BY <3>1 DEF IInv, WholeInv, Fits, BeforeRound, InRound, OneRequest, OnlyLines,
         Waiting, Owed, InHand, Quiet, Line, server
  <2> QED
    BY <2>1, RoundSend, RoundReply, RoundServerRead, RoundServerWrite,
       RoundArriveAtServer, RoundArriveAtClient DEF Next, IInv
<1> QED
  BY <1>1, <1>2, PTL DEF Spec

(* The next line is read once the previous one has been entirely received, *)
(* as long as the network cuts no write (exercise4/problems.txt:48-50).    *)
THEOREM ReceivedEntirely == Spec => []EntireReply
<1>1. ASSUME IInv, copies = 1, ~split, cpc = "stdin"
      PROVE  toServer = NewStream /\ toClient = NewStream /\ spc = "read"
  <2>1. Fits
    BY <1>1, EchoAssumption, InputAssumption DEF Fits, IInv, TypeInv, TypeOK
  <2>2. BeforeRound
    BY <1>1, <2>1, RoundOver DEF IInv
  <2>3. toServer \in Streams /\ toClient \in Streams
    BY <1>1 DEF IInv, TypeInv, TypeOK, IsStream, Streams
  <2>4. ASSUME NEW st \in Streams, Quiet(st) PROVE st = NewStream
    BY <2>4 DEF Streams, Quiet, NewStream
  <2> QED
    BY <2>2, <2>3, <2>4 DEF BeforeRound
<1> QED
  BY <1>1, Invariance, PTL DEF EntireReply
-----------------------------------------------------------------------------
(* A chunk is printed for every reply, whatever it holds.                  *)
PrintedInv ==
  Len(stdout) = IF line = 0 THEN 0 ELSE (line - 1) * copies + reply

Printed == [k \in 1 .. Len(stdout) |-> LineOf(stdout[k])]

(* How many chunks there are when the next line is read, and until then.   *)
LEMMA PrintedNumber ==
  ASSUME TypeInv, PrintedInv
  PROVE  /\ cpc # "reply" => Len(stdout) = line * copies
         /\ cpc = "reply" => Len(stdout) < line * copies
<1>1. line \in Nat /\ copies \in Nat \ {0} /\ reply \in 0 .. copies
  BY EchoAssumption, InputAssumption DEF TypeInv, TypeOK
<1>2. CASE line = 0
  BY <1>1, <1>2 DEF PrintedInv, TypeInv
<1>3. CASE line > 0
  <2>1. PICK m \in Nat : line = m + 1
    BY <1>1, <1>3
  <2>2. line * copies = m * copies + copies /\ m * copies \in Nat
    BY <1>1, <2>1, Products
  <2>3. Len(stdout) = m * copies + reply
    BY <1>1, <1>3, <2>1 DEF PrintedInv
  <2>4. /\ cpc # "reply" => reply = copies
        /\ cpc = "reply" => reply < copies
    BY <1>3 DEF TypeInv
  <2> QED
    BY <1>1, <2>2, <2>3, <2>4
<1> QED
  BY <1>1, <1>2, <1>3

LEMMA PrintedStep == TypeInv /\ PrintedInv /\ [Next]_vars => PrintedInv'
<1> SUFFICES ASSUME TypeInv, PrintedInv, [Next]_vars PROVE PrintedInv'
  OBVIOUS
<1>1. CASE SendLine
  <2>1. line' = line + 1 /\ reply' = 0 /\ line \in Nat /\ copies \in Nat
        /\ UNCHANGED <<copies, stdout>> /\ cpc = "stdin"
    BY <1>1, EchoAssumption, InputAssumption DEF SendLine, ReadStdin, TypeInv, TypeOK
  <2>2. Len(stdout) = line * copies /\ line * copies \in Nat
    BY <2>1, PrintedNumber, Products
  <2>3. line' # 0 /\ line' - 1 = line
    BY <2>1
  <2> QED
    BY <2>1, <2>2, <2>3 DEF PrintedInv
<1>2. CASE ReadReply
  <2>1. /\ line' = line /\ reply' = reply + 1 /\ copies' = copies /\ line > 0
        /\ \E piece : stdout' = Append(stdout, piece)
    BY <1>2 DEF ReadReply, TypeInv
  <2>2. Len(stdout') = Len(stdout) + 1
    BY <2>1 DEF TypeInv, TypeOK
  <2>3. /\ line \in Nat /\ line - 1 \in Nat /\ copies \in Nat /\ reply \in Nat
    BY <2>1, EchoAssumption, InputAssumption DEF TypeInv, TypeOK
  <2>4. (line - 1) * copies \in Nat
    BY <2>3, Products
  <2>5. Len(stdout) = (line - 1) * copies + reply
    BY <2>1, <2>3 DEF PrintedInv
  <2> QED
    BY <2>1, <2>2, <2>3, <2>4, <2>5 DEF PrintedInv
<1>3. CASE ~ SendLine /\ ~ ReadReply
  BY <1>3 DEF Next, Finish, ServerRead, ServerWrite, ArriveAtServer, ArriveAtClient,
     vars, client, PrintedInv
<1> QED
  BY <1>1, <1>2, <1>3

LEMMA LineRecognised ==
  ASSUME TypeInv, NEW l \in 1 .. MaxLines
  PROVE  LineOf(Line(l)) = l
<1>1. ASSUME NEW m \in 1 .. MaxLines, Line(l) = Line(m) PROVE m = l
  <2>1. 1 \in 1 .. input[l] /\ 1 \in 1 .. input[m]
    BY LineType
  <2>2. Line(l)[1] = <<l, 1>> /\ Line(m)[1] = <<m, 1>>
    BY <2>1 DEF Line
  <2> QED
    BY <1>1, <2>2
<1> QED
  BY <1>1 DEF LineOf

LEMMA StepIsLineEcho ==
  IInv /\ PrintedInv /\ [Next]_vars => [~split /\ Fits => Echo!Next]_(Echo!vars)
<1> SUFFICES ASSUME IInv, PrintedInv, [Next]_vars, ~split, Fits, ~ UNCHANGED (Echo!vars)
             PROVE  Echo!Next
  OBVIOUS
<1>1. ASSUME UNCHANGED <<input, stdout>> PROVE Printed' = Printed
  BY <1>1 DEF Printed, LineOf, Line
<1>2. stdout \in Seq(Seq(Bytes)) /\ Len(Printed) = Len(stdout) /\ TypeInv /\ WholeInv
  BY DEF IInv, TypeInv, TypeOK, Printed, Bytes
<1>3. CASE SendLine
  <2>1. line < MaxLines /\ line' = line + 1 /\ Printed' = Printed /\ copies' = copies
    BY <1>1, <1>3 DEF SendLine, ReadStdin
  <2>2. Len(Printed) = line * copies
    BY <1>2, <1>3, PrintedNumber DEF SendLine, ReadStdin
  <2> QED
    BY <2>1, <2>2 DEF Echo!Next, Echo!Ask, Printed
<1>4. CASE ReadReply
  <2>1. /\ UNCHANGED <<input, line, copies>> /\ line > 0 /\ line \in 1 .. MaxLines
        /\ input[line] \in 1 .. MAXLINE
        /\ toClient.arrived # <<>>
    BY <1>2, <1>4, RoundNumbers DEF ReadReply, TypeInv
  <2>2. /\ stdout' = Append(stdout, SubSeq(recvline', 1, input[line]))
        /\ recvline' = Overlay(toClient.arrived, recvline)
    BY <1>2, <1>4, <2>1, ReadTakesAll DEF ReadReply, ReplyMax
  <2>3. SubSeq(recvline', 1, input[line]) = Line(line)
    <3>1. ASSUME NEW k \in 1 .. input[line] PROVE recvline'[k] = <<line, k>>
      <4>1. /\ input[line] <= Len(toClient.arrived)
            /\ toClient.arrived[k] = <<line, k>>
        BY <1>2, <2>1, ReadTakesAll
      <4>2. Len(toClient.arrived) \in Nat
        BY <1>2, <2>1, RoundNumbers
      <4>3. k \in 1 .. MAXLINE /\ k <= Len(toClient.arrived)
        BY <2>1, <4>1, <4>2, EchoAssumption, InputAssumption
      <4> QED
        BY <2>2, <4>1, <4>3 DEF Overlay
    <3>2. SubSeq(recvline', 1, input[line]) = [k \in 1 .. input[line] |-> recvline'[k]]
      BY <2>1
    <3> QED
      BY <3>1, <3>2 DEF Line
  <2>4. /\ Len(stdout') = Len(stdout) + 1 /\ stdout'[Len(stdout) + 1] = Line(line)
        /\ \A k \in 1 .. Len(stdout) : stdout'[k] = stdout[k]
    BY <1>2, <2>2, <2>3
  <2>5. Printed' = [k \in 1 .. Len(stdout') |-> LineOf(stdout'[k])]
    BY <2>1 DEF Printed, LineOf, Line
  <2>6. LineOf(Line(line)) = line
    BY <1>2, <2>1, LineRecognised
  <2>7. Printed' = [k \in 1 .. Len(stdout) + 1 |->
                      IF k = Len(stdout) + 1 THEN line ELSE LineOf(stdout[k])]
    <3>1. Len(stdout) \in Nat
      BY <1>2
    <3> QED
      BY <2>4, <2>5, <2>6, <3>1
  <2>8. Printed' = Append(Printed, line)
    BY <1>2, <2>7 DEF Printed
  <2>9. Len(Printed) < line * copies
    BY <1>2, <1>4, PrintedNumber DEF ReadReply
  <2> QED
    BY <2>1, <2>8, <2>9 DEF Echo!Next, Echo!Answer, Printed
<1>5. CASE ~ SendLine /\ ~ ReadReply
  <2>1. UNCHANGED <<input, line, stdout, copies>>
    BY <1>5 DEF Next, Finish, ServerRead, ServerWrite, ArriveAtServer,
       ArriveAtClient, client, vars
  <2> QED
    BY <1>1, <2>1 DEF Echo!vars, Printed
<1> QED
  BY <1>3, <1>4, <1>5

(* As long as no write has been cut and the copies of a line fit into the  *)
(* client's buffer, the echo (client-url.c:66-74) and the doubler          *)
(* (client.c:53-63) implement LineEcho, for any number of copies: whole    *)
(* lines only, and each as often as it should before the next one is read. *)
THEOREM ImplementsLineEcho == Spec => IsLineEcho
<1>1. Init => Echo!Init /\ PrintedInv
  BY EchoAssumption, InputAssumption DEF Init, InitStreams, Echo!Init, PrintedInv
<1>2. IInv /\ PrintedInv /\ [Next]_vars => PrintedInv'
  BY PrintedStep DEF IInv
<1> QED
  BY <1>1, <1>2, Invariance, StepIsLineEcho, PTL DEF Spec, IsLineEcho
-----------------------------------------------------------------------------
(* Induction over the natural numbers: if some are bad, one is the least.  *)
LEMMA LeastNumber ==
  ASSUME NEW Bad \in SUBSET Nat, Bad # {}
  PROVE  \E n \in Bad : \A m \in Bad : n <= m
<1> DEFINE Below == {p \in Nat \X Nat : p[1] < p[2]}
<1>1. IsWellFoundedOn(Below, Nat)
  BY NatLessThanWellFounded DEF OpToRel
<1>2. PICK n \in Bad : \A m \in Bad : ~ (<<m, n>> \in Below)
  <2> HIDE DEF Below
  <2> QED
    BY <1>1, WFMin
<1>3. ASSUME NEW m \in Bad, m < n PROVE FALSE
  <2>1. <<m, n>> \in Below
    BY <1>3
  <2> QED
    BY <1>2, <2>1
<1> QED
  BY <1>3

(* What FlattenSeq computes with: the concatenation of the first i         *)
(* sequences of s, for all i.                                              *)
Flattens(g, s) ==
  g = [i \in 1 .. Len(s) |-> IF i = 1 THEN s[i] ELSE g[i - 1] \o s[i]]

LEMMA FlattensUnique ==
  ASSUME NEW T, NEW s \in Seq(T), NEW t \in Seq(T), NEW n \in 1 .. Len(s),
         n <= Len(t), \A i \in 1 .. n : s[i] = t[i],
         NEW g, NEW h, Flattens(g, s), Flattens(h, t)
  PROVE  g[n] = h[n]
<1> DEFINE Bad == {i \in 1 .. n : g[i] # h[i]}
<1> SUFFICES ASSUME Bad # {} PROVE FALSE
  OBVIOUS
<1>0. Len(s) \in Nat /\ Len(t) \in Nat
  OBVIOUS
<1>1. PICK i \in Bad : \A j \in Bad : i <= j
  <2>1. Bad \in SUBSET Nat
    OBVIOUS
  <2> HIDE DEF Bad
  <2> QED
    BY <2>1, LeastNumber
<1>2. i \in 1 .. Len(s) /\ i \in 1 .. Len(t) /\ s[i] = t[i]
  BY <1>0
<1>3. CASE i = 1
  BY <1>2, <1>3 DEF Flattens
<1>4. CASE i # 1
  <2>1. i - 1 \in 1 .. n /\ i - 1 < i
    BY <1>0, <1>4
  <2>2. g[i - 1] = h[i - 1]
    BY <1>0, <1>1, <2>1
  <2>3. g[i] = g[i - 1] \o s[i] /\ h[i] = h[i - 1] \o t[i]
    BY <1>2, <1>4 DEF Flattens
  <2> QED
    BY <1>2, <2>2, <2>3
<1> QED
  BY <1>3, <1>4

(* One more sequence.                                                      *)
LEMMA FlattensAppend ==
  ASSUME NEW T, NEW s \in Seq(T), NEW x \in T, NEW g, Flattens(g, s) 
  PROVE  \E h : /\ Flattens(h, Append(s, x))
                /\ h[Len(s) + 1] = IF s = <<>> THEN x ELSE g[Len(s)] \o x
<1> DEFINE n == Len(s)
<1> DEFINE last == IF s = <<>> THEN x ELSE g[n] \o x
<1> DEFINE h == [i \in 1 .. (n + 1) |-> IF i = n + 1 THEN last ELSE g[i]]
<1>0. n \in Nat /\ (n = 0 <=> s = <<>>) /\ Len(Append(s, x)) = n + 1
  BY AppendProperties
<1>1. /\ \A i \in 1 .. n : Append(s, x)[i] = s[i]
      /\ Append(s, x)[n + 1] = x
  BY AppendProperties
<1>2. ASSUME NEW i \in 1 .. (n + 1)
      PROVE  h[i] = IF i = 1 THEN Append(s, x)[i] ELSE h[i - 1] \o Append(s, x)[i]
  <2>1. CASE i = n + 1 /\ i = 1
    BY <1>0, <1>1, <2>1
  <2>2. CASE i = n + 1 /\ i # 1
    <3>1. i - 1 \in 1 .. n /\ i - 1 = n
      BY <1>0, <2>2
    <3>2. n \in 1 .. (n + 1) /\ n # n + 1 /\ s # <<>>
      <4>1. n # 0
        BY <3>1
      <4> HIDE DEF n
      <4> QED
        BY <1>0, <4>1
    <3>3. h[n] = g[n] /\ h[i] = g[n] \o x
      BY <2>2, <3>2
    <3> QED
      BY <1>1, <2>2, <3>1, <3>3
  <2>3. CASE i # n + 1
    <3>1. i \in 1 .. n
      BY <1>0, <2>3
    <3>2. g[i] = IF i = 1 THEN s[i] ELSE g[i - 1] \o s[i]
      BY <3>1 DEF Flattens
    <3>3. h[i] = g[i] /\ (i # 1 => h[i - 1] = g[i - 1])
      BY <1>0, <3>1
    <3> QED
      BY <1>1, <3>1, <3>2, <3>3
  <2> QED
    BY <2>1, <2>2, <2>3
<1>3. Flattens(h, Append(s, x))
  <2>1. h = [i \in 1 .. (n + 1) |-> h[i]]
    OBVIOUS
  <2> HIDE DEF h
  <2> QED
    BY <1>0, <1>2, <2>1 DEF Flattens
<1>4. h[n + 1] = last
  BY <1>0
<1> QED
  BY <1>3, <1>4

LEMMA FlattensExists ==
  ASSUME NEW T, NEW s \in Seq(T)
  PROVE  \E g : Flattens(g, s)
<1> DEFINE Bad == {n \in Nat : \E t \in Seq(T) : Len(t) = n /\ ~ \E g : Flattens(g, t)}
<1> SUFFICES ASSUME Bad # {} PROVE FALSE
  OBVIOUS
<1>1. PICK n \in Bad : \A m \in Bad : n <= m
  <2>1. Bad \in SUBSET Nat
    OBVIOUS
  <2> HIDE DEF Bad
  <2> QED
    BY <2>1, LeastNumber
<1>2. PICK t \in Seq(T) : Len(t) = n /\ ~ \E g : Flattens(g, t)
  OBVIOUS
<1>3. t # <<>>
  <2>1. Flattens([i \in 1 .. 0 |-> i], <<>>)
    BY DEF Flattens
  <2> QED
    BY <1>2, <2>1
<1>4. PICK f \in Seq(T), x \in T : t = Append(f, x)
  BY <1>3, SequenceEmptyOrAppend
<1>5. Len(f) \in Nat /\ Len(f) < n
  BY <1>2, <1>4, AppendProperties
<1>6. \E g : Flattens(g, f)
  BY <1>1, <1>5
<1> QED
  BY <1>2, <1>4, <1>6, FlattensAppend

LEMMA FlattenIs ==
  ASSUME NEW T, NEW s \in Seq(T), s # <<>>
  PROVE  \E g : Flattens(g, s) /\ FlattenSeq(s) = g[Len(s)]
<1> DEFINE g == CHOOSE h : Flattens(h, s)
<1>1. Flattens(g, s)
  BY FlattensExists
<1>2. Len(s) # 0
  OBVIOUS
<1>3. FlattenSeq(s) = g[Len(s)]
  BY <1>2 DEF FlattenSeq, Flattens
<1> QED
  BY <1>1, <1>3

(* FlattenSeq by the last sequence.                                        *)
LEMMA FlattenLast ==
  ASSUME NEW U, NEW s \in Seq(U), NEW x \in U
  PROVE  FlattenSeq(Append(s, x)) = IF s = <<>> THEN x ELSE FlattenSeq(s) \o x
<1>1. PICK g : Flattens(g, s) /\ (s # <<>> => FlattenSeq(s) = g[Len(s)])
  <2>1. CASE s = <<>>
    BY <2>1, FlattensExists
  <2>2. CASE s # <<>>
    BY <2>2, FlattenIs
  <2> QED
    BY <2>1, <2>2
<1> DEFINE t == Append(s, x)
<1>2. PICK h : /\ Flattens(h, t)
               /\ h[Len(s) + 1] = IF s = <<>> THEN x ELSE g[Len(s)] \o x
  BY <1>1, FlattensAppend
<1>3. t \in Seq(U) /\ t # <<>> /\ Len(t) = Len(s) + 1 /\ Len(s) \in Nat
  BY AppendProperties
<1> HIDE DEF t
<1>4. PICK k : Flattens(k, t) /\ FlattenSeq(t) = k[Len(t)]
  BY <1>3, FlattenIs
<1>5. k[Len(t)] = h[Len(t)]
  <2>1. Len(t) \in 1 .. Len(t)
    BY <1>3
  <2> DEFINE n == Len(t)
  <2>2. n \in 1 .. Len(t) /\ n <= Len(t)
    BY <1>3
  <2> HIDE DEF n
  <2>3. k[n] = h[n]
    BY <1>2, <1>3, <1>4, <2>2, FlattensUnique
  <2> QED
    BY <2>3 DEF n
<1> QED
  BY <1>1, <1>2, <1>3, <1>4, <1>5 DEF t

(* Sets of sequences that can be concatenated.                             *)
Closed(U) ==
  /\ <<>> \in U
  /\ \A a, b \in U : a \o b \in U
  /\ \A a \in U : <<>> \o a = a /\ a \o <<>> = a
  /\ \A a, b, c \in U : (a \o b) \o c = a \o (b \o c)

LEMMA Regroup ==
  ASSUME NEW U, Closed(U), NEW a \in U, NEW b \in U, NEW c \in U
  PROVE  (a \o b) \o c = a \o (b \o c)
BY DEF Closed

LEMMA SequencesClosed == ASSUME NEW T PROVE Closed(Seq(T))
BY ConcatProperties, ConcatEmptySeq, ConcatAssociative DEF Closed

LEMMA FlattenAppend ==
  ASSUME NEW U, Closed(U), NEW s \in Seq(U), NEW x \in U
  PROVE  /\ FlattenSeq(<<>>) = <<>>
         /\ FlattenSeq(s) \in U
         /\ FlattenSeq(Append(s, x)) = FlattenSeq(s) \o x
<1>0. FlattenSeq(<<>>) = <<>>
  BY DEF FlattenSeq
<1>1. FlattenSeq(s) \in U
  <2> DEFINE Bad == {n \in Nat : \E t \in Seq(U) : Len(t) = n /\ FlattenSeq(t) \notin U}
  <2> SUFFICES ASSUME Bad # {} PROVE FALSE
    OBVIOUS
  <2>1. PICK n \in Bad : \A m \in Bad : n <= m
    <3>1. Bad \in SUBSET Nat
      OBVIOUS
    <3> HIDE DEF Bad
    <3> QED
      BY <3>1, LeastNumber
  <2>2. PICK t \in Seq(U) : Len(t) = n /\ FlattenSeq(t) \notin U
    OBVIOUS
  <2>3. t # <<>>
    BY <1>0, <2>2 DEF Closed
  <2>4. PICK f \in Seq(U), y \in U : t = Append(f, y)
    BY <2>3, SequenceEmptyOrAppend
  <2>5. Len(f) \in Nat /\ Len(f) < n
    BY <2>2, <2>4, AppendProperties
  <2>6. FlattenSeq(f) \in U
    BY <2>1, <2>5
  <2>7. FlattenSeq(f) \o y \in U
    BY <2>6, Zenon DEF Closed
  <2>8. FlattenSeq(t) = IF f = <<>> THEN y ELSE FlattenSeq(f) \o y
    BY <2>4, FlattenLast
  <2> QED
    BY <2>2, <2>7, <2>8
<1>2. FlattenSeq(Append(s, x)) = FlattenSeq(s) \o x
  <2>1. <<>> \o x = x
    BY Zenon DEF Closed
  <2> QED
    BY <1>0, <2>1, FlattenLast
<1> QED
  BY <1>0, <1>1, <1>2

(* FlattenSeq by the first sequence.                                       *)
LEMMA FlattenHead ==
  ASSUME NEW U, Closed(U), NEW s \in Seq(U), s # <<>>
  PROVE  FlattenSeq(s) = Head(s) \o FlattenSeq(Tail(s))
<1> DEFINE Bad == {n \in Nat : \E t \in Seq(U) :
                     /\ Len(t) = n /\ t # <<>>
                     /\ FlattenSeq(t) # Head(t) \o FlattenSeq(Tail(t))}
<1>0. \A a, b, c \in U : (a \o b) \o c = a \o (b \o c)
  BY Zenon DEF Closed
<1> SUFFICES ASSUME Bad # {} PROVE FALSE
  OBVIOUS
<1>1. PICK n \in Bad : \A m \in Bad : n <= m
  <2>1. Bad \in SUBSET Nat
    OBVIOUS
  <2> HIDE DEF Bad
  <2> QED
    BY <2>1, LeastNumber
<1>2. PICK t \in Seq(U) : /\ Len(t) = n /\ t # <<>>
                          /\ FlattenSeq(t) # Head(t) \o FlattenSeq(Tail(t))
  OBVIOUS
<1>3. PICK f \in Seq(U), y \in U : t = Append(f, y)
  BY <1>2, SequenceEmptyOrAppend
<1>4. FlattenSeq(t) = FlattenSeq(f) \o y /\ FlattenSeq(f) \in U
  BY <1>3, FlattenAppend
<1>5. CASE f = <<>>
  <2>1. Head(t) = y /\ Tail(t) = <<>>
    BY <1>3, <1>5, HeadTailAppend
  <2>2. FlattenSeq(f) = <<>> /\ FlattenSeq(<<>>) = <<>>
    BY <1>3, <1>5, FlattenAppend
  <2>3. <<>> \o y = y /\ y \o <<>> = y
    BY <1>3, Zenon DEF Closed
  <2> QED
    BY <1>2, <1>4, <2>1, <2>2, <2>3
<1>6. CASE f # <<>>
  <2>1. Head(t) = Head(f) /\ Tail(t) = Append(Tail(f), y)
    BY <1>3, <1>6, HeadTailAppend
  <2>2. Tail(f) \in Seq(U) /\ Head(f) \in U
    BY <1>6, HeadTailProperties
  <2>3. Len(f) \in Nat /\ Len(f) < n
    BY <1>2, <1>3, AppendProperties
  <2>4. FlattenSeq(f) = Head(f) \o FlattenSeq(Tail(f))
    BY <1>1, <1>6, <2>3
  <2>5. FlattenSeq(Tail(t)) = FlattenSeq(Tail(f)) \o y /\ FlattenSeq(Tail(f)) \in U
    BY <2>1, <2>2, FlattenAppend
  <2>6. FlattenSeq(t) = Head(f) \o (FlattenSeq(Tail(f)) \o y)
    <3>1. (Head(f) \o FlattenSeq(Tail(f))) \o y = Head(f) \o (FlattenSeq(Tail(f)) \o y)
      BY <1>0, <1>3, <2>2, <2>5
    <3> QED
      BY <1>4, <2>4, <3>1
  <2> QED
    BY <1>2, <2>1, <2>5, <2>6
<1> QED
  BY <1>5, <1>6
-----------------------------------------------------------------------------
(* The unread bytes of a direction: a write adds at their end, a read takes*)
(* from their front, and on their way they stay what they are.             *)
LEMMA UnreadType ==
  ASSUME NEW st \in Streams
  PROVE  /\ Unread(st) \in Seq(Byte)
         /\ st.arrived \in Seq(Byte) /\ st.wire \in Seq(Seq(Byte))
         /\ FlattenSeq(st.wire) \in Seq(Byte)
<1> DEFINE U == Seq(Byte)
<1>1. Closed(U)
  BY SequencesClosed
<1>2. st.arrived \in U /\ st.wire \in Seq(U)
  BY DEF Streams
<1> HIDE DEF U
<1>3. FlattenSeq(st.wire) \in U
  BY <1>1, <1>2, FlattenAppend
<1>4. Unread(st) \in U
  BY <1>1, <1>2, <1>3, Zenon DEF Unread, Closed
<1> QED
  BY <1>2, <1>3, <1>4 DEF U

LEMMA UnreadWrite ==
  ASSUME NEW st \in Streams, NEW bytes \in Seq(Byte)
  PROVE  Unread(Write(st, bytes)) = Unread(st) \o bytes
<1> DEFINE U == Seq(Byte)
<1>1. Closed(U)
  BY SequencesClosed
<1>2. /\ st.arrived \in U /\ st.wire \in Seq(U) /\ FlattenSeq(st.wire) \in U
      /\ bytes \in U
  BY UnreadType
<1>3. Write(st, bytes).wire = Append(st.wire, bytes) /\ Write(st, bytes).arrived = st.arrived
  BY WriteType
<1> HIDE DEF U
<1>4. FlattenSeq(Append(st.wire, bytes)) = FlattenSeq(st.wire) \o bytes
  BY <1>1, <1>2, FlattenAppend
<1>5. (st.arrived \o FlattenSeq(st.wire)) \o bytes = st.arrived \o (FlattenSeq(st.wire) \o bytes)
  <2> DEFINE a == st.arrived
  <2> DEFINE b == FlattenSeq(st.wire)
  <2> DEFINE c == bytes
  <2>1. Closed(U) /\ a \in U /\ b \in U /\ c \in U
    BY <1>2, <1>1
  <2> HIDE DEF a, b, c
  <2>2. (a \o b) \o c = a \o (b \o c)
    BY <2>1, Regroup
  <2> QED
    BY <2>2 DEF a, b, c
<1> QED
  BY <1>3, <1>4, <1>5 DEF Unread

LEMMA UnreadRead ==
  ASSUME NEW st \in Streams, NEW max \in Nat \ {0}
  PROVE  Readable(st, max) \o Unread(Read(st, max)) = Unread(st)
<1> DEFINE U == Seq(Byte)
<1> DEFINE old == st.arrived
<1> DEFINE rest == SubSeq(old, max + 1, Len(old))
<1>1. Closed(U)
  BY SequencesClosed
<1>2. old \in Seq(Byte) /\ FlattenSeq(st.wire) \in Seq(Byte) /\ Len(old) \in Nat
  BY UnreadType
<1>3. Read(st, max).arrived = rest /\ Read(st, max).wire = st.wire
  BY DEF Read, Streams
<1>4. rest \in Seq(Byte) /\ Readable(st, max) \in Seq(Byte)
  <2>1. rest \in Seq(Byte)
    BY <1>2, SubSeqProperties
  <2> QED
    BY <2>1, ReadType
<1>5. Readable(st, max) \o rest = old
  <2> HIDE DEF old
  <2>1. CASE Len(old) <= max
    <3>1. rest = <<>>
      BY <1>2, <2>1, SubSeqEmpty
    <3> QED
      BY <1>2, <2>1, <3>1, ConcatEmptySeq DEF Readable, old
  <2>2. CASE Len(old) > max
    <3>1. Readable(st, max) = SubSeq(old, 1, max)
      BY <1>2, <2>2 DEF Readable, old
    <3>2. /\ 1 \in 1 .. Len(old) + 1 /\ max \in 1 - 1 .. Len(old)
          /\ Len(old) \in max .. Len(old)
      BY <1>2, <2>2
    <3>3. SubSeq(old, 1, max) \o rest = SubSeq(old, 1, Len(old))
      BY <1>2, <3>2, ConcatAdjacentSubSeq
    <3> QED
      BY <1>2, <3>1, <3>3, SubSeqFull
  <2> QED
    BY <1>2, <2>1, <2>2
<1>6. /\ Readable(st, max) \in U /\ rest \in U /\ FlattenSeq(st.wire) \in U
  BY <1>2, <1>4
<1> HIDE DEF U, rest, old
<1>7. (Readable(st, max) \o rest) \o FlattenSeq(st.wire)
        = Readable(st, max) \o (rest \o FlattenSeq(st.wire))
  BY <1>1, <1>6, Regroup
<1> QED
  BY <1>3, <1>5, <1>7 DEF Unread, old

LEMMA UnreadArrive ==
  ASSUME NEW st \in Streams, st.wire # <<>>, NEW k \in 0 .. Len(Head(st.wire))
  PROVE  Unread(Arrive(st, k)) = Unread(st)
<1> DEFINE U == Seq(Byte)
<1> DEFINE segment == Head(st.wire)
<1> DEFINE after == Tail(st.wire)
<1> DEFINE front == SubSeq(segment, 1, k)
<1> DEFINE back == SubSeq(segment, k + 1, Len(segment))
<1> DEFINE rest == IF k = Len(segment) THEN <<>> ELSE <<back>>
<1>1. Closed(U)
  BY SequencesClosed
<1>2. st.wire \in Seq(U) /\ st.arrived \in U
  BY UnreadType
<1>3. segment \in Seq(Byte) /\ Len(segment) \in Nat /\ k \in Nat /\ k <= Len(segment)
  <2>1. segment \in Seq(Byte)
    BY UnreadType, HeadTailProperties
  <2> QED
    BY <2>1
<1>4. segment \in U /\ after \in Seq(U)
  <2> HIDE DEF U
  <2> QED
    BY <1>2, HeadTailProperties
<1>5. front \in U /\ back \in U
  <2> HIDE DEF segment
  <2> QED
    BY <1>3, SubSeqProperties
<1>6. front \o back = segment /\ (k = Len(segment) => front = segment)
  <2> HIDE DEF segment
  <2>1. /\ 1 \in 1 .. Len(segment) + 1 /\ k \in 1 - 1 .. Len(segment)
        /\ Len(segment) \in k .. Len(segment)
    BY <1>3
  <2>2. front \o back = SubSeq(segment, 1, Len(segment))
    BY <1>3, <2>1, ConcatAdjacentSubSeq
  <2> QED
    BY <1>3, <2>2, SubSeqFull
<1>7. Arrive(st, k).wire = rest \o after /\ Arrive(st, k).arrived = st.arrived \o front
  BY DEF Arrive
<1> HIDE DEF U, back
<1>8. FlattenSeq(st.wire) = segment \o FlattenSeq(after) /\ FlattenSeq(after) \in U
  BY <1>1, <1>2, <1>4, FlattenHead, FlattenAppend
<1>9. front \o FlattenSeq(rest \o after) = segment \o FlattenSeq(after)
  <2>1. CASE k = Len(segment)
    <3>1. rest \o after = after
      BY <1>4, <2>1, ConcatEmptySeq
    <3> QED
      BY <1>6, <2>1, <3>1
  <2>2. CASE k # Len(segment)
    <3> DEFINE w == <<back>> \o after
    <3>1. <<back>> \in Seq(U) /\ Len(<<back>>) = 1 /\ <<back>>[1] = back
      BY <1>5
    <3>2. /\ w \in Seq(U) /\ w # <<>> /\ Head(w) = back /\ Tail(w) = after
      BY <1>4, <1>5
    <3> HIDE DEF w, after
    <3>3. FlattenSeq(w) = back \o FlattenSeq(after)
      BY <1>1, <3>2, FlattenHead
    <3>4. (front \o back) \o FlattenSeq(after) = front \o (back \o FlattenSeq(after))
      <4> DEFINE a == front
      <4> DEFINE b == back
      <4> DEFINE c == FlattenSeq(after)
      <4>1. Closed(U) /\ a \in U /\ b \in U /\ c \in U
        BY <1>8, <1>1, <1>5
      <4> HIDE DEF a, b, c
      <4>2. (a \o b) \o c = a \o (b \o c)
        BY <4>1, Regroup
      <4> QED
        BY <4>2 DEF a, b, c
    <3> QED
      BY <1>6, <2>2, <3>3, <3>4 DEF w
  <2> QED
    BY <2>1, <2>2
<1>10. FlattenSeq(rest \o after) \in U
  <2>1. rest \o after \in Seq(U)
    BY <1>4, <1>5
  <2> HIDE DEF rest, after
  <2> QED
    BY <1>1, <1>5, <2>1, FlattenAppend
<1> HIDE DEF rest, after, front, segment
<1>11. (st.arrived \o front) \o FlattenSeq(rest \o after)
         = st.arrived \o (front \o FlattenSeq(rest \o after))
  <2> DEFINE a == st.arrived
  <2> DEFINE b == front
  <2> DEFINE c == FlattenSeq(rest \o after)
  <2>1. Closed(U) /\ a \in U /\ b \in U /\ c \in U
    BY <1>2, <1>10, <1>1, <1>5
  <2> HIDE DEF a, b, c
  <2>2. (a \o b) \o c = a \o (b \o c)
    BY <2>1, Regroup
  <2> QED
    BY <2>2 DEF a, b, c
<1> QED
  BY <1>7, <1>8, <1>9, <1>11 DEF Unread

(* What the server holds between its read and its write.                   *)
Held == IF spc = "write" THEN buf ELSE <<>>

Sent == FlattenSeq([l \in 1 .. line |-> Line(l)])

RoundTrip == received \o Unread(toClient) \o Held \o Unread(toServer)

LEMMA RoundTripType ==
  ASSUME TypeInv
  PROVE  /\ toServer \in Streams /\ toClient \in Streams
         /\ received \in Seq(Byte) /\ Held \in Seq(Byte)
         /\ Unread(toServer) \in Seq(Byte) /\ Unread(toClient) \in Seq(Byte)
         /\ MAXLINE \in Nat \ {0}
<1>1. toServer \in Streams /\ toClient \in Streams /\ MAXLINE \in Nat \ {0}
  BY EchoAssumption, InputAssumption DEF TypeInv, TypeOK, IsStream, Streams
<1>2. received \in Seq(Byte) /\ buf \in Seq(Byte)
  BY DEF TypeInv, TypeOK
<1> QED
  BY <1>1, <1>2, UnreadType DEF Held

LEMMA PieceArrives ==
  ASSUME NEW st \in Streams, st.wire # <<>>, NEW k \in Pieces(st)
  PROVE  Unread(Arrive(st, k)) = Unread(st)
<1>1. Head(st.wire) \in Seq(Byte)
  BY DEF Streams
<1>2. k \in 0 .. Len(Head(st.wire))
  BY <1>1 DEF Pieces
<1> QED
  BY <1>2, UnreadArrive

LEMMA RoundTripStep ==
  ASSUME TypeInv, NothingLost, [Next]_vars
  PROVE  NothingLost'
<1> SUFFICES ASSUME copies' = 1 PROVE RoundTrip' = Sent'
  BY DEF NothingLost, RoundTrip, Held, Sent
<1> DEFINE U == Seq(Byte)
<1>0. /\ copies = 1 /\ input' = input
      /\ RoundTrip = Sent
  BY DEF NothingLost, RoundTrip, Held, Sent, Next, vars, client, SendLine, ReadReply,
     Finish, ServerRead, ServerWrite, ArriveAtServer, ArriveAtClient
<1>1. Closed(U)
  BY SequencesClosed
<1>2. /\ toServer \in Streams /\ toClient \in Streams /\ MAXLINE \in Nat \ {0}
      /\ received \in U /\ Held \in U /\ Unread(toServer) \in U /\ Unread(toClient) \in U
  BY RoundTripType
<1>3. CASE SendLine
  <2>1. /\ line' = line + 1 /\ line \in Nat /\ line + 1 \in 1 .. MaxLines
        /\ toServer' = Write(toServer, Line(line + 1))
        /\ UNCHANGED <<received, toClient, spc, buf>>
    BY <1>3, EchoAssumption, InputAssumption DEF SendLine, ReadStdin, server, TypeInv, TypeOK
  <2> DEFINE new == Line(line + 1)
  <2> DEFINE lines == [l \in 1 .. line |-> Line(l)]
  <2>2. new \in U
    BY <2>1, LineType
  <2>3. lines \in Seq(U)
    <3>1. ASSUME NEW l \in 1 .. line PROVE Line(l) \in U
      <4>1. l \in 1 .. MaxLines
        BY <2>1, EchoAssumption, InputAssumption
      <4> QED
        BY <4>1, LineType
    <3> HIDE DEF U
    <3> QED
      BY <2>1, <3>1
  <2>4. [l \in 1 .. line |-> Line(l)]' = Append(lines, new)
    <3>1. ASSUME NEW l PROVE Line(l)' = Line(l)
      BY <1>0 DEF Line
    <3>2. [l \in 1 .. line |-> Line(l)]' = [l \in 1 .. line + 1 |-> Line(l)]
      BY <2>1, <3>1
    <3>3. Len(lines) = line
      BY <2>1
    <3>4. Append(lines, new) = [l \in 1 .. line + 1 |-> Line(l)]
      BY <2>1, <3>3
    <3> QED
      BY <3>2, <3>4
  <2>5. Unread(toServer)' = Unread(toServer) \o new
    BY <1>2, <2>1, <2>2, UnreadWrite
  <2> HIDE DEF U, new, lines
  <2>6. Sent' = Sent \o new
    BY <1>1, <2>2, <2>3, <2>4, FlattenAppend DEF Sent, lines
  <2> DEFINE before == received \o Unread(toClient) \o Held
  <2>7. before \in U
    BY <1>1, <1>2, Zenon DEF Closed
  <2>8. before' = before
    BY <2>1 DEF Held
  <2> HIDE DEF before
  <2>9. (before \o Unread(toServer)) \o new = before \o (Unread(toServer) \o new)
    <3> DEFINE a == before
    <3> DEFINE b == Unread(toServer)
    <3> DEFINE c == new
    <3>1. Closed(U) /\ a \in U /\ b \in U /\ c \in U
      BY <1>2, <1>1, <2>2, <2>7
    <3> HIDE DEF a, b, c
    <3>2. (a \o b) \o c = a \o (b \o c)
      BY <3>1, Regroup
    <3> QED
      BY <3>2 DEF a, b, c
  <2> QED
    BY <1>0, <2>5, <2>6, <2>8, <2>9 DEF RoundTrip, before
<1>4. CASE ReadReply
  <2> DEFINE bytes == Readable(toClient, MAXLINE)
  <2>1. /\ received' = received \o bytes /\ toClient' = Read(toClient, MAXLINE)
        /\ UNCHANGED <<line, spc, buf, toServer>>
    BY <1>4 DEF ReadReply, ReplyMax, server
  <2>2. bytes \in U /\ Unread(toClient)' \in U
    BY <1>2, <2>1, ReadType, UnreadType
  <2>3. bytes \o Unread(toClient)' = Unread(toClient)
    BY <1>2, <2>1, UnreadRead
  <2> HIDE DEF U, bytes
  <2>4. (received \o bytes) \o Unread(toClient)' = received \o (bytes \o Unread(toClient)')
    <3> DEFINE a == received
    <3> DEFINE b == bytes
    <3> DEFINE c == Unread(toClient)'
    <3>1. Closed(U) /\ a \in U /\ b \in U /\ c \in U
      BY <2>2, <1>1, <1>2
    <3> HIDE DEF a, b, c
    <3>2. (a \o b) \o c = a \o (b \o c)
      BY <3>1, Regroup
    <3> QED
      BY <3>2 DEF a, b, c
  <2>5. Held' = Held /\ Unread(toServer)' = Unread(toServer) /\ Sent' = Sent
    BY <1>0, <2>1 DEF Held, Sent, Line
  <2> QED
    BY <1>0, <2>1, <2>3, <2>4, <2>5 DEF RoundTrip
<1>5. CASE ServerRead
  <2> DEFINE bytes == Readable(toServer, MAXLINE)
  <2>1. /\ buf' = bytes /\ toServer' = Read(toServer, MAXLINE) /\ spc = "read"
        /\ spc' = "write" /\ UNCHANGED <<line, received, toClient>>
    BY <1>5 DEF ServerRead, client
  <2>2. bytes \in U /\ Unread(toServer)' \in U
    BY <1>2, <2>1, ReadType, UnreadType
  <2>3. bytes \o Unread(toServer)' = Unread(toServer)
    BY <1>2, <2>1, UnreadRead
  <2>4. Held = <<>> /\ Held' = bytes /\ Sent' = Sent
    BY <1>0, <2>1 DEF Held, Sent, Line
  <2> DEFINE before == received \o Unread(toClient)
  <2> HIDE DEF U, bytes
  <2>5. before \in U
    BY <1>1, <1>2, Zenon DEF Closed
  <2>6. before' = before
    BY <2>1
  <2> HIDE DEF before
  <2>7. before \o <<>> = before
    BY <1>1, <2>5, Zenon DEF Closed
  <2>8. (before \o bytes) \o Unread(toServer)' = before \o (bytes \o Unread(toServer)')
    BY <1>1, <2>2, <2>5, Regroup
  <2> QED
    BY <1>0, <2>3, <2>4, <2>6, <2>7, <2>8 DEF RoundTrip, before
<1>6. CASE ServerWrite
  <2>1. /\ toClient' = Write(toClient, buf) /\ spc = "write" /\ spc' = "read"
        /\ UNCHANGED <<line, received, toServer>>
    BY <1>0, <1>6 DEF ServerWrite, Answered, client, TypeInv, TypeOK
  <2>2. buf \in U /\ Held = buf /\ Held' = <<>>
    BY <2>1 DEF Held, TypeInv, TypeOK
  <2>3. Unread(toClient)' = Unread(toClient) \o buf /\ Sent' = Sent
    BY <1>0, <1>2, <2>1, <2>2, UnreadWrite DEF Sent, Line
  <2> HIDE DEF U
  <2>4. (received \o Unread(toClient)) \o buf = received \o (Unread(toClient) \o buf)
    BY <1>1, <1>2, <2>2, Regroup
  <2>5. (received \o Unread(toClient)) \o buf \in U
    BY <1>1, <1>2, <2>2, Zenon DEF Closed
  <2>6. ((received \o Unread(toClient)) \o buf) \o <<>> = (received \o Unread(toClient)) \o buf
    BY <1>1, <2>5, Zenon DEF Closed
  <2> QED
    BY <1>0, <2>1, <2>2, <2>3, <2>4, <2>6 DEF RoundTrip
<1>7. CASE ArriveAtServer
  <2>1. PICK k \in Pieces(toServer) : toServer' = Arrive(toServer, k)
    BY <1>7 DEF ArriveAtServer
  <2>2. toServer.wire # <<>> /\ UNCHANGED <<line, received, spc, buf, toClient>>
    BY <1>7 DEF ArriveAtServer, client, server
  <2>3. Unread(toServer)' = Unread(toServer)
    BY <1>2, <2>1, <2>2, PieceArrives
  <2> QED
    BY <1>0, <2>2, <2>3 DEF RoundTrip, Held, Sent, Line
<1>8. CASE ArriveAtClient
  <2>1. PICK k \in Pieces(toClient) : toClient' = Arrive(toClient, k)
    BY <1>8 DEF ArriveAtClient
  <2>2. toClient.wire # <<>> /\ UNCHANGED <<line, received, spc, buf, toServer>>
    BY <1>8 DEF ArriveAtClient, client, server
  <2>3. Unread(toClient)' = Unread(toClient)
    BY <1>2, <2>1, <2>2, PieceArrives
  <2> QED
    BY <1>0, <2>2, <2>3 DEF RoundTrip, Held, Sent, Line
<1>9. CASE Finish \/ UNCHANGED vars
  <2>1. UNCHANGED <<line, received, spc, buf, toServer, toClient>>
    BY <1>9 DEF Finish, vars, client, server
  <2> QED
    BY <1>0, <2>1 DEF RoundTrip, Held, Sent, Line
<1> QED
  BY <1>3, <1>4, <1>5, <1>6, <1>7, <1>8, <1>9 DEF Next

(* However the network splits and merges them, the bytes of the echo come  *)
(* back in order, none lost and none twice (client-url.c:66-74), for any   *)
(* input and any buffers.                                                  *)
THEOREM NoByteLost == Spec => []NothingLost
<1>1. Init => NothingLost
  <2> SUFFICES ASSUME Init PROVE NothingLost
    OBVIOUS
  <2>1. FlattenSeq(<<>>) = <<>>
    BY DEF FlattenSeq
  <2>2. Unread(NewStream) = <<>>
    BY <2>1 DEF Unread, NewStream
  <2>3. [l \in 1 .. 0 |-> Line(l)] = <<>>
    OBVIOUS
  <2>4. line = 0 /\ received = <<>> /\ spc = "read" /\ toServer = NewStream
        /\ toClient = NewStream
    BY DEF Init, InitStreams
  <2>5. <<>> \o <<>> = <<>>
    OBVIOUS
  <2>6. received \o Unread(toClient) \o (IF spc = "write" THEN buf ELSE <<>>)
                 \o Unread(toServer) = <<>>
    BY <2>2, <2>4, <2>5
  <2>7. FlattenSeq([l \in 1 .. line |-> Line(l)]) = <<>>
    BY <2>1, <2>3, <2>4
  <2> QED
    BY <2>6, <2>7 DEF NothingLost
<1>2. TypeInv /\ NothingLost /\ [Next]_vars => TypeInv' /\ NothingLost'
  BY TypeStep, RoundTripStep
<1> QED
  BY <1>1, <1>2, InitType, PTL DEF Spec
-----------------------------------------------------------------------------
(* The doublers over a pipe.                                               *)
PipeTypes ==
  /\ input \in [1 .. MaxLines -> 1 .. MaxLen]
  /\ line \in 0 .. MaxLines
  /\ ppc \in {"write", "killed"} => line > 0
  /\ pipe \in Seq(Byte) /\ chunk \in Seq(Byte) /\ stdout \in Seq(Seq(Byte))

(* Chunks are printed in pairs, up to the one that is being printed.       *)
PairsInv ==
  /\ \A k \in 1 .. Len(stdout) \div 2 : stdout[2 * k - 1] = stdout[2 * k]
  /\ Len(stdout) % 2 = 1 =>
       childpc \in {"write", "failed", "killed"} /\ stdout[Len(stdout)] = chunk

(* The child finds the end of the file only once the parent has sent all.  *)
EndInv ==
  /\ "parent" \in writers <=> ppc \in {"fork", "close", "read", "write"}
  /\ ppc = "fork" => childpc = "none"
  /\ ppc \in {"wait", "exited"} => line = MaxLines
  /\ childpc = "exited" => pipe = <<>> /\ "parent" \notin writers
  /\ status = "success" => childpc = "exited"

LEMMA PipeNumbers ==
  /\ MAXLINE \in Nat /\ MAXLINE > 0 /\ Capacity \in Nat /\ MaxLines \in Nat
  /\ MaxLen \in Nat /\ MaxLen > 0
  BY InputAssumption, PipeAssumption

(* The first of each pair.                                                 *)
FirstsOf(s, h) == [k \in 1 .. h |-> s[2 * k - 1]]

LEMMA FirstsType ==
  ASSUME NEW S, NEW s \in Seq(S), NEW h \in Nat, 2 * h <= Len(s)
  PROVE  FirstsOf(s, h) \in Seq(S) /\ Len(FirstsOf(s, h)) = h
<1>1. ASSUME NEW k \in 1 .. h PROVE s[2 * k - 1] \in S
  <2>1. 2 * k - 1 \in 1 .. Len(s)
    OBVIOUS
  <2> QED
    BY <2>1
<1>2. FirstsOf(s, h) \in [1 .. h -> S]
  BY <1>1 DEF FirstsOf
<1> QED
  BY <1>2

LEMMA FirstsSame ==
  ASSUME NEW S, NEW s \in Seq(S), NEW x \in S, NEW h \in Nat, 2 * h <= Len(s)
  PROVE  FirstsOf(Append(s, x), h) = FirstsOf(s, h)
<1> DEFINE t == Append(s, x)
<1>1. \A i \in 1 .. Len(s) : t[i] = s[i]
  BY AppendProperties
<1> HIDE DEF t
<1>2. ASSUME NEW k \in 1 .. h PROVE t[2 * k - 1] = s[2 * k - 1]
  <2>1. 2 * k - 1 \in 1 .. Len(s)
    OBVIOUS
  <2> QED
    BY <1>1, <2>1
<1> QED
  BY <1>2 DEF FirstsOf, t

LEMMA FirstsNext ==
  ASSUME NEW S, NEW s \in Seq(S), NEW x \in S, NEW h \in Nat, Len(s) = 2 * h + 1
  PROVE  FirstsOf(Append(s, x), h + 1) = Append(FirstsOf(s, h), s[Len(s)])
<1> DEFINE t == Append(s, x)
           y == s[Len(s)]
           f == FirstsOf(s, h)
           g == Append(f, y)
<1>1. \A i \in 1 .. Len(s) : t[i] = s[i]
  BY AppendProperties
<1>2. f \in Seq(S) /\ Len(f) = h /\ \A k \in 1 .. h : f[k] = s[2 * k - 1]
  <2>1. 2 * h <= Len(s)
    OBVIOUS
  <2> QED
    BY <2>1, FirstsType DEF FirstsOf
<1>3. y \in S
  <2>1. Len(s) \in 1 .. Len(s)
    OBVIOUS
  <2> QED
    BY <2>1
<1> HIDE DEF t, f, y
<1>4. /\ g \in Seq(S) /\ Len(g) = h + 1 /\ g[h + 1] = y
      /\ \A k \in 1 .. h : g[k] = f[k]
  BY <1>2, <1>3, AppendProperties
<1> HIDE DEF g
<1>5. ASSUME NEW k \in 1 .. h + 1 PROVE t[2 * k - 1] = g[k]
  <2>1. 2 * k - 1 \in 1 .. Len(s)
    OBVIOUS
  <2>2. CASE k = h + 1
    <3>1. 2 * k - 1 = Len(s)
      BY <2>2
    <3> QED
      BY <1>1, <1>4, <2>1, <2>2, <3>1 DEF y
  <2>3. CASE k \in 1 .. h
    BY <1>1, <1>2, <1>4, <2>1, <2>3
  <2> QED
    BY <2>2, <2>3
<1>6. g = [k \in 1 .. h + 1 |-> g[k]]
  BY <1>4
<1>7. FirstsOf(t, h + 1) = [k \in 1 .. h + 1 |-> g[k]]
  BY <1>5 DEF FirstsOf
<1> QED
  BY <1>6, <1>7 DEF t, f, y, g

(* The input up to a line.                                                 *)
LinesOf(n) == [l \in 1 .. n |-> Line(l)]

LEMMA PipeLineType ==
  ASSUME PipeTypes, NEW l \in 1 .. MaxLines
  PROVE  Line(l) \in Seq(Byte)
  BY LineIs DEF PipeTypes

LEMMA LinesType ==
  ASSUME PipeTypes, NEW n \in 0 .. MaxLines
  PROVE  LinesOf(n) \in Seq(Seq(Byte)) /\ Len(LinesOf(n)) = n
<1>1. \A l \in 1 .. n : l \in 1 .. MaxLines
  BY PipeNumbers
<1>2. LinesOf(n) \in [1 .. n -> Seq(Byte)] /\ n \in Nat
  BY <1>1, PipeLineType, PipeNumbers DEF LinesOf
<1> DEFINE U == Seq(Byte)
<1> HIDE DEF U
<1>3. LinesOf(n) \in [1 .. n -> U]
  BY <1>2 DEF U
<1>4. LinesOf(n) \in Seq(U) /\ Len(LinesOf(n)) = n
  BY <1>2, <1>3
<1> QED
  BY <1>4 DEF U

LEMMA LinesNext ==
  ASSUME PipeTypes, NEW n \in 1 .. MaxLines
  PROVE  LinesOf(n) = Append(LinesOf(n - 1), Line(n))
<1> DEFINE U == Seq(Byte)
           s == LinesOf(n - 1)
           x == Line(n)
           t == LinesOf(n)
           m == n - 1
<1>1. m \in 0 .. MaxLines /\ n \in 0 .. MaxLines /\ n \in Nat /\ m + 1 = n /\ m \in Nat
  BY PipeNumbers
<1>2. s \in Seq(U) /\ Len(s) = m /\ t \in Seq(U) /\ Len(t) = n /\ x \in U
  BY <1>1, LinesType, PipeLineType
<1>3. (\A k \in 1 .. m : t[k] = s[k]) /\ t[n] = x
  <2>1. \A k \in 1 .. m : k \in 1 .. n
    BY <1>1
  <2>2. n \in 1 .. n
    BY <1>1
  <2> QED
    BY <2>1, <2>2 DEF LinesOf
<1> HIDE DEF U, s, x, t, m
<1> DEFINE a == Append(s, x)
<1>4. a \in Seq(U) /\ Len(a) = n /\ a[n] = x /\ \A k \in 1 .. m : a[k] = s[k]
  BY <1>1, <1>2, AppendProperties
<1> HIDE DEF a
<1>5. \A k \in 1 .. n : t[k] = a[k]
  <2>1. \A k \in 1 .. n : k = n \/ k \in 1 .. m
    BY <1>1
  <2> QED
    BY <1>3, <1>4, <2>1
<1>6. t = a
  BY <1>2, <1>4, <1>5
<1> QED
  BY <1>6 DEF t, a, s, x, m

LEMMA CopiedIs ==
  ASSUME PipeTypes, NEW n \in 0 .. MaxLines
  PROVE  /\ Copied(n) \in Seq(Byte)
         /\ n > 0 => Copied(n) = Copied(n - 1) \o Line(n)
<1> DEFINE U == Seq(Byte)
<1>1. \A k : Copied(k) = FlattenSeq(LinesOf(k))
  BY DEF Copied, LinesOf
<1>2. Closed(U)
  BY SequencesClosed
<1>3. LinesOf(n) \in Seq(U) /\ <<>> \in U
  BY LinesType
<1>4. FlattenSeq(LinesOf(n)) \in U
  <2> HIDE DEF U
  <2> QED
    BY <1>2, <1>3, FlattenAppend
<1>5. ASSUME n > 0 PROVE FlattenSeq(LinesOf(n)) = FlattenSeq(LinesOf(n - 1)) \o Line(n)
  <2>1. n \in 1 .. MaxLines /\ n - 1 \in 0 .. MaxLines
    BY <1>5, PipeNumbers
  <2>2. LinesOf(n) = Append(LinesOf(n - 1), Line(n))
    BY <2>1, LinesNext
  <2> DEFINE s == LinesOf(n - 1)
             x == Line(n)
  <2>3. s \in Seq(U) /\ x \in U
    BY <2>1, LinesType, PipeLineType
  <2> HIDE DEF s, x, U
  <2>4. FlattenSeq(Append(s, x)) = FlattenSeq(s) \o x
    BY <1>2, <2>3, FlattenAppend
  <2> QED
    BY <2>2, <2>4 DEF s, x
<1> QED
  BY <1>1, <1>4, <1>5

LEMMA PipeStart ==
  ASSUME PipeInit
  PROVE  PipeTypes /\ PairsInv /\ EndInv /\ DoubledInOrder
<1>1. PipeTypes /\ PairsInv /\ EndInv
  BY PipeNumbers DEF PipeInit, InitStreams, PipeTypes, PairsInv, EndInv
<1>2. FlattenSeq(<<>>) = <<>>
  BY DEF FlattenSeq
<1>3. \A f : [k \in 1 .. 0 |-> f] = <<>>
  OBVIOUS
<1>4. line = 0 /\ ppc = "fork" /\ childpc = "none" /\ stdout = <<>> /\ pipe = <<>>
  BY DEF PipeInit, InitStreams
<1>5. Len(stdout) \div 2 = 0
  BY <1>4
<1>6. Firsts(0) = <<>>
  <2>1. [k \in 1 .. 0 |-> stdout[2 * k - 1]] = <<>>
    OBVIOUS
  <2> QED
    BY <1>2, <2>1 DEF Firsts
<1>7. Written = <<>>
  <2>1. [l \in 1 .. 0 |-> Line(l)] = <<>>
    OBVIOUS
  <2> QED
    BY <1>2, <1>4, <2>1 DEF Written, Copied
<1>8. InHands = {<<>>}
  BY <1>4 DEF InHands
<1>9. (<<>> \o <<>>) \o <<>> = <<>>
  OBVIOUS
<1>10. \E held \in InHands : Firsts(0) \o held \o pipe = Written
  BY <1>4, <1>6, <1>7, <1>8, <1>9
<1> QED
  BY <1>1, <1>5, <1>10 DEF DoubledInOrder, PairsInv

(* What a read takes out of the pipe.                                      *)
LEMMA TakenApart ==
  ASSUME PipeTypes, ReadPipe
  PROVE  /\ chunk' \in Seq(Byte) /\ pipe' \in Seq(Byte)
         /\ chunk' \o pipe' = pipe
<1> DEFINE n == Min({MAXLINE, Len(pipe)})
<1>1. Len(pipe) \in Nat /\ MAXLINE \in Nat /\ pipe \in Seq(Byte)
  BY PipeNumbers DEF PipeTypes
<1>2. n \in {MAXLINE, Len(pipe)} /\ n <= Len(pipe)
  <2>1. \E m \in {MAXLINE, Len(pipe)} : \A k \in {MAXLINE, Len(pipe)} : m <= k
    BY <1>1
  <2>2. n = CHOOSE m \in {MAXLINE, Len(pipe)} : \A k \in {MAXLINE, Len(pipe)} : m <= k
    BY DEF Min
  <2> HIDE DEF n
  <2> QED
    BY <2>1, <2>2
<1>3. chunk' = SubSeq(pipe, 1, n) /\ pipe' = SubSeq(pipe, n + 1, Len(pipe))
  BY DEF ReadPipe
<1> HIDE DEF n
<1>4. n \in 0 .. Len(pipe)
  BY <1>1, <1>2
<1> DEFINE a == SubSeq(pipe, 1, n)
           b == SubSeq(pipe, n + 1, Len(pipe))
           f == Len(pipe)
           m == f - n
<1>5. a \in Seq(Byte) /\ Len(a) = n /\ \A k \in 1 .. n : a[k] = pipe[k]
  BY <1>1, <1>4, SubSeqProperties
<1>6. b \in Seq(Byte) /\ Len(b) = m /\ \A k \in 1 .. m : b[k] = pipe[n + k]
  BY <1>1, <1>4, SubSeqProperties
<1>7. n \in Nat /\ m \in Nat /\ n + m = f /\ Len(pipe) = f /\ f \in Nat
  BY <1>1, <1>4
<1> HIDE DEF a, b, f, m
<1> DEFINE c == a \o b
<1>8. c \in Seq(Byte) /\ Len(c) = n + m
      /\ \A k \in 1 .. n + m : c[k] = IF k <= n THEN a[k] ELSE b[k - n]
  BY <1>5, <1>6, <1>7
<1> HIDE DEF c
<1>9. \A k \in 1 .. f : c[k] = pipe[k]
  <2> SUFFICES ASSUME NEW k \in 1 .. f PROVE c[k] = pipe[k]
    OBVIOUS
  <2>1. CASE k <= n
    BY <1>5, <1>7, <1>8, <2>1
  <2>2. CASE ~ (k <= n)
    <3>1. k - n \in 1 .. m /\ n + (k - n) = k
      BY <1>7, <2>2
    <3> QED
      BY <1>6, <1>7, <1>8, <2>2, <3>1
  <2> QED
    BY <2>1, <2>2
<1>10. c = pipe
  BY <1>1, <1>7, <1>8, <1>9
<1> QED
  BY <1>3, <1>5, <1>6, <1>10 DEF a, b, c

LEMMA PipeTypesStep ==
  ASSUME PipeTypes, [PipeNext]_pipeVars
  PROVE  PipeTypes'
<1> USE PipeNumbers
<1>1. CASE WritePipe
  <2> DEFINE x == Line(line)
             U == Seq(Byte)
  <2>1. line \in 1 .. MaxLines
    BY <1>1 DEF WritePipe, PipeTypes
  <2>2. x \in U
    BY <2>1, PipeLineType
  <2>3. pipe \in U /\ pipe' = pipe \o x
    BY <1>1 DEF WritePipe, PipeTypes
  <2>4. Closed(U)
    BY SequencesClosed
  <2> HIDE DEF x, U
  <2>5. pipe' \in U
    BY <2>2, <2>3, <2>4 DEF Closed
  <2> QED
    BY <1>1, <2>5 DEF WritePipe, PipeTypes, child, U
<1>2. CASE ReadPipe
  BY <1>2, TakenApart DEF ReadPipe, PipeTypes, parent
<1>3. CASE WriteOut
  <2> DEFINE U == Seq(Byte)
  <2>1. stdout \in Seq(U) /\ chunk \in U /\ stdout' = Append(stdout, chunk)
    BY <1>3 DEF WriteOut, PipeTypes
  <2> HIDE DEF U
  <2>2. stdout' \in Seq(U)
    BY <2>1
  <2> QED
    BY <1>3, <2>2 DEF WriteOut, PipeTypes, parent, U
<1>4. CASE ReadInput
  <2>1. line' \in 0 .. MaxLines /\ line' > 0
    BY <1>4 DEF ReadInput, ReadStdin, PipeTypes
  <2> QED
    BY <1>4, <2>1 DEF ReadInput, ReadStdin, PipeTypes, child
<1>5. CASE Fork \/ ParentCloseRead \/ BrokenPipe \/ CloseWrite \/ Wait
  BY <1>5 DEF Fork, ParentCloseRead, BrokenPipe, CloseWrite, Wait, PipeTypes, child
<1>6. CASE ChildCloseWrite \/ ChildExit
  BY <1>6 DEF ChildCloseWrite, ChildExit, ChildEnds, PipeTypes, parent
<1>7. CASE Failure
  BY <1>7 DEF Failure, ForkFails, ExecFails, WriteFails, ChildKilled, ChildEnds,
     PipeTypes, parent, child
<1>8. CASE UNCHANGED pipeVars
  BY <1>8 DEF pipeVars, parent, child, PipeTypes
<1> QED
  BY <1>1, <1>2, <1>3, <1>4, <1>5, <1>6, <1>7, <1>8
  DEF PipeNext, ParentStep, ChildStep

LEMMA EndStep ==
  ASSUME PipeTypes, EndInv, [PipeNext]_pipeVars
  PROVE  EndInv'
<1> USE PipeNumbers
<1>1. CASE WritePipe
  BY <1>1 DEF WritePipe, EndInv, child
<1>2. CASE ReadPipe
  BY <1>2 DEF ReadPipe, EndInv, parent
<1>3. CASE WriteOut
  BY <1>3 DEF WriteOut, EndInv, parent
<1>4. CASE Fork \/ ParentCloseRead \/ ReadInput
  BY <1>4 DEF Fork, ParentCloseRead, ReadInput, ReadStdin, EndInv, child
<1>5. CASE BrokenPipe \/ CloseWrite \/ Wait
  BY <1>5 DEF BrokenPipe, CloseWrite, Wait, EndInv, child, pr_exit
<1>6. CASE ChildCloseWrite \/ ChildExit
  BY <1>6 DEF ChildCloseWrite, ChildExit, ChildEnds, EndOfFile, ChildUnused, EndInv, parent
<1>7. CASE ForkFails
  BY <1>7 DEF ForkFails, EndInv, child
<1>8. CASE ExecFails \/ WriteFails \/ ChildKilled
  BY <1>8 DEF ExecFails, WriteFails, ChildKilled, ChildEnds, EndInv, parent
<1>9. CASE UNCHANGED pipeVars
  BY <1>9 DEF pipeVars, parent, child, EndInv
<1> QED
  BY <1>1, <1>2, <1>3, <1>4, <1>5, <1>6, <1>7, <1>8, <1>9
  DEF PipeNext, ParentStep, ChildStep, Failure

(* One more chunk on the standard output.                                  *)
LEMMA PairsOut ==
  ASSUME PipeTypes, PairsInv, WriteOut
  PROVE  /\ PairsInv'
         /\ Len(stdout) % 2 = 0 =>
              /\ Len(stdout') \div 2 = Len(stdout) \div 2
              /\ childpc' = "write"
              /\ FirstsOf(stdout', Len(stdout) \div 2)
                   = FirstsOf(stdout, Len(stdout) \div 2)
         /\ Len(stdout) % 2 = 1 =>
              /\ Len(stdout') \div 2 = Len(stdout) \div 2 + 1
              /\ childpc' = "read"
              /\ FirstsOf(stdout', Len(stdout) \div 2 + 1)
                   = Append(FirstsOf(stdout, Len(stdout) \div 2), chunk)
<1> DEFINE U == Seq(Byte)
           s == stdout
           t == Append(stdout, chunk)
           n == Len(s)
           h == n \div 2
<1>1. s \in Seq(U) /\ chunk \in U
  BY DEF PipeTypes
<1>2. /\ stdout' = t /\ childpc = "write"
      /\ childpc' = IF n % 2 = 1 THEN "read" ELSE "write"
      /\ chunk' = chunk
  BY DEF WriteOut, LastCopy
<1>3. /\ \A k \in 1 .. h : s[2 * k - 1] = s[2 * k]
      /\ n % 2 = 1 => s[n] = chunk
  BY DEF PairsInv
<1> HIDE DEF U
<1>4. /\ Len(t) = n + 1 /\ t[n + 1] = chunk /\ \A i \in 1 .. n : t[i] = s[i]
      /\ n \in Nat
  BY <1>1, AppendProperties
<1>5. /\ n % 2 = 0 => FirstsOf(t, h) = FirstsOf(s, h)
      /\ n % 2 = 1 => FirstsOf(t, h + 1) = Append(FirstsOf(s, h), s[n])
  <2>1. h \in Nat /\ (n % 2 = 0 => 2 * h <= n) /\ (n % 2 = 1 => n = 2 * h + 1)
    BY <1>4
  <2> HIDE DEF h
  <2>2. n % 2 = 0 => FirstsOf(t, h) = FirstsOf(s, h)
    BY <1>1, <2>1, FirstsSame
  <2>3. n % 2 = 1 => FirstsOf(t, h + 1) = Append(FirstsOf(s, h), s[n])
    BY <1>1, <2>1, FirstsNext
  <2> QED
    BY <2>2, <2>3
<1> HIDE DEF s, t, n
<1>6. \A k \in 1 .. h : t[2 * k - 1] = t[2 * k]
  <2> SUFFICES ASSUME NEW k \in 1 .. h PROVE t[2 * k - 1] = t[2 * k]
    OBVIOUS
  <2>1. 2 * k - 1 \in 1 .. n /\ 2 * k \in 1 .. n
    BY <1>4
  <2> QED
    BY <1>3, <1>4, <2>1
<1>7. CASE n % 2 = 0
  <2>1. (n + 1) \div 2 = h /\ (n + 1) % 2 = 1
    BY <1>4, <1>7
  <2>2. PairsInv'
    <3>1. /\ \A k \in 1 .. Len(t) \div 2 : t[2 * k - 1] = t[2 * k]
          /\ t[Len(t)] = chunk
      BY <1>4, <1>6, <2>1
    <3>2. childpc' = "write"
      BY <1>2, <1>7
    <3> HIDE DEF h
    <3> QED
      BY <1>2, <3>1, <3>2 DEF PairsInv
  <2> QED
    BY <1>2, <1>4, <1>5, <1>7, <2>1, <2>2 DEF n, s
<1>8. CASE n % 2 = 1
  <2>1. (n + 1) \div 2 = h + 1 /\ (n + 1) % 2 = 0 /\ 2 * (h + 1) - 1 = n /\ 2 * (h + 1) = n + 1
        /\ n \in 1 .. n /\ h \in Nat
    BY <1>4, <1>8
  <2>2. PairsInv'
    <3> HIDE DEF h
    <3>1. t[2 * (h + 1) - 1] = t[2 * (h + 1)]
      BY <1>3, <1>4, <1>8, <2>1
    <3>2. \A k \in 1 .. h + 1 : t[2 * k - 1] = t[2 * k]
      <4>1. \A k \in 1 .. h + 1 : k = h + 1 \/ k \in 1 .. h
        BY <2>1
      <4> QED
        BY <1>6, <3>1, <4>1
    <3>3. Len(t) % 2 # 1 /\ Len(t) \div 2 = h + 1
      BY <1>4, <2>1
    <3> QED
      BY <1>2, <3>2, <3>3 DEF PairsInv
  <2> QED
    BY SMTT(30), <1>2, <1>3, <1>4, <1>5, <1>8, <2>1, <2>2 DEF n, s
<1>9. n % 2 = 0 \/ n % 2 = 1
  BY <1>4
<1> QED
  BY <1>7, <1>8, <1>9

LEMMA PairsStep ==
  ASSUME PipeTypes, PairsInv, EndInv, [PipeNext]_pipeVars
  PROVE  PairsInv'
<1>1. CASE WriteOut
  BY <1>1, PairsOut
<1>2. CASE stdout' = stdout /\ chunk' = chunk /\ childpc' = childpc
  BY <1>2 DEF PairsInv
<1>3. CASE stdout' = stdout /\ childpc \notin {"write", "failed", "killed"}
  BY <1>3 DEF PairsInv
<1>4. CASE ExecFails \/ WriteFails \/ ChildKilled
  BY <1>4 DEF ExecFails, WriteFails, ChildKilled, ChildEnds, PairsInv
<1>5. CASE Fork \/ ForkFails
  BY <1>3, <1>5 DEF Fork, ForkFails, EndInv, child
<1>6. CASE ChildCloseWrite \/ ReadPipe \/ ChildExit
  BY <1>3, <1>6 DEF ChildCloseWrite, ReadPipe, ChildExit, ChildEnds
<1>7. CASE ParentCloseRead \/ ReadInput \/ WritePipe
  BY <1>2, <1>7 DEF ParentCloseRead, ReadInput, ReadStdin, WritePipe, child
<1>8. CASE BrokenPipe \/ CloseWrite \/ Wait
  BY <1>2, <1>8 DEF BrokenPipe, CloseWrite, Wait, child
<1>9. CASE UNCHANGED pipeVars
  BY <1>2, <1>9 DEF pipeVars, child
<1> QED
  BY <1>1, <1>4, <1>5, <1>6, <1>7, <1>8, <1>9
  DEF PipeNext, ParentStep, ChildStep, Failure

(* What is printed, every chunk once.                                      *)
PrintedOnce == FlattenSeq(FirstsOf(stdout, Len(stdout) \div 2))

LEMMA OrderIs ==
  DoubledInOrder <=>
    /\ \A k \in 1 .. Len(stdout) \div 2 : stdout[2 * k - 1] = stdout[2 * k]
    /\ \E held \in InHands : (PrintedOnce \o held) \o pipe = Written
<1>1. Firsts(Len(stdout) \div 2) = PrintedOnce
  BY DEF Firsts, PrintedOnce, FirstsOf
<1> QED
  BY <1>1 DEF DoubledInOrder

LEMMA OrderTypes ==
  ASSUME PipeTypes
  PROVE  /\ PrintedOnce \in Seq(Byte) /\ InHands \subseteq Seq(Byte)
         /\ pipe \in Seq(Byte)
         /\ FirstsOf(stdout, Len(stdout) \div 2) \in Seq(Seq(Byte))
<1> DEFINE U == Seq(Byte)
           h == Len(stdout) \div 2
<1>1. stdout \in Seq(U) /\ pipe \in U /\ chunk \in U
  BY DEF PipeTypes
<1>2. Closed(U)
  BY SequencesClosed
<1>3. <<>> \in U
  OBVIOUS
<1> HIDE DEF U
<1>4. h \in Nat /\ 2 * h <= Len(stdout)
  <2>1. Len(stdout) \in Nat
    BY <1>1
  <2> QED
    BY <2>1
<1>5. FirstsOf(stdout, h) \in Seq(U)
  <2> HIDE DEF h
  <2> QED
    BY <1>1, <1>4, FirstsType
<1>6. PrintedOnce \in U
  BY <1>2, <1>3, <1>5, FlattenAppend DEF PrintedOnce
<1>7. InHands \subseteq U
  BY <1>1, <1>3 DEF InHands
<1> QED
  BY <1>1, <1>5, <1>6, <1>7 DEF U

LEMMA OrderStep ==
  ASSUME PipeTypes, PairsInv, EndInv, DoubledInOrder,
         [PipeNext]_pipeVars
  PROVE  DoubledInOrder'
<1> DEFINE U == Seq(Byte)
           f == PrintedOnce
           p == pipe
           w == Written
           InOrder == \E held \in InHands : (PrintedOnce \o held) \o pipe = Written
<1>1. InOrder
  BY OrderIs
<1>2. SUFFICES InOrder'
  <2>1. (\A k \in 1 .. Len(stdout) \div 2 : stdout[2 * k - 1] = stdout[2 * k])'
    BY PairsStep DEF PairsInv
  <2>2. DoubledInOrder' <=>
          ( /\ \A k \in 1 .. Len(stdout) \div 2 : stdout[2 * k - 1] = stdout[2 * k]
            /\ \E held \in InHands : (PrintedOnce \o held) \o pipe = Written )'
    BY OrderIs, PTL
  <2> QED
    BY <1>2, <2>1, <2>2
<1>3. PICK h \in InHands : (f \o h) \o p = w
  BY <1>1
<1>0. Closed(U) /\ f \in U /\ h \in U /\ p \in U
  BY SequencesClosed, OrderTypes
<1>4. ASSUME UNCHANGED <<stdout, line>>, h \in InHands', pipe' = pipe,
             ppc' \in {"write", "killed"} <=> ppc \in {"write", "killed"},
             input' = input
      PROVE  InOrder'
  <2>1. PrintedOnce' = f /\ Written' = w
    BY <1>4 DEF PrintedOnce, Written, Copied, Line
  <2> QED
    BY <1>3, <1>4, <2>1
<1>5. CASE ReadInput
  <2>1. PrintedOnce' = f /\ InHands' = InHands /\ pipe' = p
    BY <1>5 DEF ReadInput, ReadStdin, child, PrintedOnce, InHands
  <2>2. line' = line + 1 /\ ppc' = "write" /\ ppc = "read" /\ input' = input
        /\ line \in Nat /\ (line + 1) - 1 = line
    BY <1>5, PipeNumbers DEF ReadInput, ReadStdin, PipeTypes
  <2>3. Written = Copied(line)
    BY <2>2 DEF Written
  <2>4. Written' = Copied(line)
    BY <2>2 DEF Written, Copied, Line
  <2> QED
    BY <1>3, <2>1, <2>3, <2>4
<1>6. CASE WritePipe
  <2> DEFINE x == Line(line)
  <2>1. line \in 1 .. MaxLines /\ ppc = "write" /\ ppc' = "read"
        /\ pipe' = p \o x /\ UNCHANGED <<input, line, childpc, chunk, stdout>>
    BY <1>6 DEF WritePipe, PipeTypes, child
  <2>2. x \in U
    BY <2>1, PipeLineType
  <2>3. w = Copied(line - 1) /\ w' = Copied(line)
    BY <2>1 DEF Written, Copied, Line
  <2>4. w' = w \o x
    <3>1. line \in 0 .. MaxLines /\ line > 0
      BY <2>1
    <3> QED
      BY <2>3, <3>1, CopiedIs
  <2>5. PrintedOnce' = f /\ InHands' = InHands
    BY <2>1 DEF PrintedOnce, InHands
  <2> HIDE DEF x, U, f, p, w
  <2>6. f \o h \in U
    BY <1>0 DEF Closed
  <2>7. ((f \o h) \o p) \o x = (f \o h) \o (p \o x)
    <3> DEFINE a == f \o h
    <3> HIDE DEF a
    <3>1. a \in U
      BY <2>6 DEF a
    <3>2. (a \o p) \o x = a \o (p \o x)
      BY <1>0, <2>2, <3>1, Regroup
    <3> QED
      BY <3>2 DEF a
  <2>8. (f \o h) \o (p \o x) = w'
    BY <1>3, <2>4, <2>7
  <2> QED
    BY <2>1, <2>5, <2>8 DEF w
<1>7. CASE ReadPipe
  <2> DEFINE b == chunk'
             q == pipe'
  <2>1. /\ childpc = "read" /\ childpc' = "write"
        /\ UNCHANGED <<input, line, ppc, stdout>>
    BY <1>7 DEF ReadPipe, parent
  <2>2. b \in U /\ q \in U /\ b \o q = p
    BY <1>7, TakenApart
  <2>3. PrintedOnce' = f /\ w' = w
    BY <2>1 DEF PrintedOnce, Written, Copied, Line
  <2>4. h = <<>> /\ InHands' = {b}
    BY <2>1 DEF InHands
  <2> HIDE DEF b, q, U, f, p, w
  <2>5. (f \o b) \o q = f \o p
    <3>1. Closed(U) /\ f \in U /\ b \in U /\ q \in U
      BY <1>0, <2>2
    <3>2. (f \o b) \o q = f \o (b \o q)
      BY <3>1, Regroup
    <3> QED
      BY <2>2, <3>2
  <2>6. f \o h = f
    BY <1>0, <2>4 DEF Closed
  <2>7. (f \o b) \o q = w'
    BY <1>3, <2>3, <2>5, <2>6
  <2> QED
    BY <2>3, <2>4, <2>7 DEF q, w
<1>8. CASE WriteOut
  <2> DEFINE n == Len(stdout)
             g == FirstsOf(stdout, n \div 2)
  <2>1. /\ childpc = "write" /\ pipe' = p /\ chunk' = chunk
        /\ UNCHANGED <<input, line, ppc>>
    BY <1>8 DEF WriteOut, parent
  <2>2. w' = w /\ h = chunk
    BY <2>1 DEF Written, Copied, Line, InHands
  <2>3. CASE n % 2 = 0
    <3>1. PrintedOnce' = f /\ InHands' = InHands
      BY <1>8, <2>1, <2>3, PairsOut DEF PrintedOnce, InHands
    <3> QED
      BY <1>3, <2>1, <2>2, <3>1
  <2>4. CASE n % 2 = 1
    <3>1. PrintedOnce' = FlattenSeq(Append(g, chunk)) /\ InHands' = {<<>>}
      BY <1>8, <2>1, <2>4, PairsOut DEF PrintedOnce, InHands
    <3>2. g \in Seq(U) /\ chunk \in U /\ f = FlattenSeq(g)
      BY OrderTypes DEF PipeTypes, PrintedOnce
    <3> HIDE DEF g, U, f, p, w
    <3>3. FlattenSeq(Append(g, chunk)) = f \o h
      <4> DEFINE x == chunk
      <4>1. Closed(U) /\ g \in Seq(U) /\ x \in U
        BY <1>0, <3>2
      <4> HIDE DEF x
      <4>2. FlattenSeq(Append(g, x)) = FlattenSeq(g) \o x
        BY <4>1, FlattenAppend
      <4> QED
        BY <2>2, <3>2, <4>2 DEF x
    <3>4. (f \o h) \o <<>> = f \o h
      <4>1. f \o h \in U
        BY <1>0 DEF Closed
      <4> QED
        BY <1>0, <4>1 DEF Closed
    <3>5. (PrintedOnce' \o <<>>) \o pipe' = w'
      BY <1>3, <2>1, <2>2, <3>1, <3>3, <3>4
    <3> QED
      BY <3>1, <3>5 DEF w
  <2>5. n % 2 = 0 \/ n % 2 = 1
    <3>1. n \in Nat
      BY DEF PipeTypes
    <3> QED
      BY <3>1
  <2> QED
    BY <2>3, <2>4, <2>5
<1>9. CASE Fork \/ ForkFails
  BY <1>4, <1>9 DEF Fork, ForkFails, EndInv, InHands, child
<1>10. CASE ParentCloseRead \/ CloseWrite
  BY <1>4, <1>10 DEF ParentCloseRead, CloseWrite, child, InHands
<1>11. CASE Wait \/ BrokenPipe
  BY <1>4, <1>11 DEF Wait, BrokenPipe, child, InHands
<1>12. CASE ChildCloseWrite
  BY <1>4, <1>12 DEF ChildCloseWrite, parent, InHands
<1>13. CASE ChildExit
  BY <1>4, <1>13 DEF ChildExit, ChildEnds, parent, InHands
<1>14. CASE ExecFails \/ WriteFails \/ ChildKilled
  BY <1>4, <1>14 DEF ExecFails, WriteFails, ChildKilled, ChildEnds, parent, InHands
<1>15. CASE UNCHANGED pipeVars
  BY <1>4, <1>15 DEF pipeVars, parent, child, InHands
<1> QED
  BY <1>5, <1>6, <1>7, <1>8, <1>9, <1>10, <1>11, <1>12, <1>13, <1>14, <1>15
  DEF PipeNext, ParentStep, ChildStep, Failure

PipeInv == PipeTypes /\ PairsInv /\ EndInv /\ DoubledInOrder

LEMMA PipeInvariance == PipeSpec => []PipeInv
<1>1. PipeInit => PipeInv
  BY PipeStart DEF PipeInv
<1>2. PipeInv /\ [PipeNext]_pipeVars => PipeInv'
  BY PipeTypesStep, PairsStep, EndStep, OrderStep DEF PipeInv
<1> QED
  BY <1>1, <1>2, PTL DEF PipeSpec

(* The doublers over a pipe neither lose nor reorder a byte, whatever the  *)
(* room in the pipe, the size of the reads and the input, and print every  *)
(* chunk twice (question-6.c:60-65), but for the one chunk that a child    *)
(* which is killed or cannot write has in its hands.                       *)
THEOREM PipeInOrder == PipeSpec => []DoubledInOrder
<1>1. PipeInv => DoubledInOrder
  BY DEF PipeInv
<1> QED
  BY <1>1, PipeInvariance, PTL

(* A parent that reports a normal end of the child with status 0 has sent  *)
(* its whole input and all of it is printed (question-1-pipe.c:63-64),     *)
(* whatever the size of the pipe and of the input and whether system calls *)
(* are refused or not.                                                     *)
THEOREM PipeComplete == PipeSpec => []NormalIsComplete
<1>1. PipeInv => NormalIsComplete
  <2> SUFFICES ASSUME PipeInv, ppc = "exited", status = "success"
               PROVE  /\ pipe = <<>>
                      /\ Firsts(Len(stdout) \div 2) = Copied(MaxLines)
                      /\ Len(stdout) % 2 = 0
    BY DEF NormalIsComplete
  <2> DEFINE f == PrintedOnce
             U == Seq(Byte)
  <2>1. childpc = "exited" /\ pipe = <<>> /\ line = MaxLines
    BY DEF PipeInv, EndInv
  <2>2. Len(stdout) % 2 = 0
    <3>1. Len(stdout) % 2 # 1
      BY <2>1, Zenon DEF PipeInv, PairsInv
    <3>2. Len(stdout) \in Nat
      BY DEF PipeInv, PipeTypes
    <3> QED
      BY <3>1, <3>2
  <2>3. Written = Copied(MaxLines)
    BY <2>1 DEF Written
  <2>4. InHands = {<<>>}
    BY <2>1 DEF InHands
  <2>5. (f \o <<>>) \o <<>> = Written
    BY <2>1, <2>4, OrderIs DEF PipeInv
  <2>6. Closed(U) /\ f \in U
    BY SequencesClosed, OrderTypes DEF PipeInv
  <2>7. Firsts(Len(stdout) \div 2) = f
    BY DEF Firsts, PrintedOnce, FirstsOf
  <2> HIDE DEF f, U
  <2>8. (f \o <<>>) \o <<>> = f
    BY <2>6 DEF Closed
  <2> QED
    BY <2>1, <2>2, <2>3, <2>5, <2>7, <2>8
<1> QED
  BY <1>1, PipeInvariance, PTL
=============================================================================
