---------------------------- MODULE Measurements ----------------------------
(***************************************************************************)
(* The loops of the measuring programs: exercise4/client.c sends a number  *)
(* of bytes in blocks, exercise4/server.c takes the time of a transfer,    *)
(* and exercise6/q1-client.c looks for the largest datagram it can send.   *)
(***************************************************************************)
EXTENDS Integers, SequencesExt

(* The number of writes of send_data; each # 0, or the division fails.     *)
Writes(total, each) == total \div each + (IF total % each # 0 THEN 1 ELSE 0)

(* read_data: flag tells that the clock runs.  The reads of a connection   *)
(* return counts of bytes and then 0 for ever; when is the number of reads.*)
Clock == [flag |-> 0, start |-> 0, printed |-> <<>>, when |-> 0]

(* Slip: the flag is not set back, and each end of the file is printed.    *)
AfterRead_Runs(s, n) ==
  LET t == [s EXCEPT !.when = @ + 1] IN
  CASE n > 0 /\ s.flag = 0 -> [t EXCEPT !.start = t.when, !.flag = 1]
    [] n = 0 /\ s.flag = 1 -> [t EXCEPT !.printed = Append(@, <<t.start, t.when>>)]
    [] OTHER -> t

AfterRead(s, n) ==
  LET t == [s EXCEPT !.when = @ + 1] IN
  CASE n > 0 /\ s.flag = 0 -> [t EXCEPT !.start = t.when, !.flag = 1]
    [] n = 0 /\ s.flag = 1 -> [t EXCEPT !.printed = Append(@, <<t.start, t.when>>), !.flag = 0]
    [] OTHER -> t

read_data(reads) == FoldLeft(AfterRead, Clock, reads).printed

(* str_cli of q1-client.c: sendto takes up to limit bytes; n grows from    *)
(* first up to last, and is printed when it is too long.                   *)
NextSize_Same(n, limit, last) == n      \* slip: the size is not increased
NextSize(n, limit, last) == IF n <= limit /\ n < last THEN n + 1 ELSE n

StopsAt(first, last, limit) ==
  FoldLeft(LAMBDA n, round : NextSize(n, limit, last), first, [k \in 1 .. last |-> k])

(* 0 if nothing is printed.                                                *)
Printed(first, last, limit) ==
  LET n == StopsAt(first, last, limit) IN IF n > limit THEN n ELSE 0
=============================================================================
