----------------------------- MODULE TcpStream -----------------------------
(***************************************************************************)
(* One direction of a connected stream socket, as the programs see it      *)
(* through write and read: the bytes of all writes arrive in order and     *)
(* exactly once, but read returns what has arrived so far, whatever writes *)
(* that came from.                                                         *)
(***************************************************************************)
EXTENDS Naturals, SequencesExt

(* wire: the segments on their way; arrived: bytes the reader can take.    *)
NewStream == [wire |-> <<>>, arrived |-> <<>>]

IsStream(st, Byte) ==
  st \in [wire : Seq(Seq(Byte)), arrived : Seq(Byte)]

Write(st, bytes) == [st EXCEPT !.wire = Append(@, bytes)]

(* Up to max bytes, all that have arrived if there are fewer.              *)
Readable(st, max) ==
  IF Len(st.arrived) <= max THEN st.arrived ELSE SubSeq(st.arrived, 1, max)

Read(st, max) == [st EXCEPT !.arrived = SubSeq(@, max + 1, Len(@))]

(* The first k bytes of the oldest segment arrive, and the rest stays.     *)
Arrive(st, k) ==
  LET segment == Head(st.wire)
      rest == IF k = Len(segment) THEN <<>> ELSE <<SubSeq(segment, k + 1, Len(segment))>>
  IN  [wire |-> rest \o Tail(st.wire), arrived |-> st.arrived \o SubSeq(segment, 1, k)]

(* All bytes that were written and not yet read, in order.                 *)
Unread(st) == st.arrived \o FlattenSeq(st.wire)
=============================================================================
