---------------------------- MODULE PriorityQueue ----------------------------
(***************************************************************************)
(* What a message queue promises: at most Capacity messages, the one with  *)
(* the highest priority is taken first, and among those with the same      *)
(* priority the one that was put first.                                    *)
(***************************************************************************)
EXTENDS Naturals, Sequences

CONSTANTS Message,     \* records with a field prio
          Capacity

VARIABLE queue

Init == queue = <<>>

(* Behind all messages that are not below m, in front of all that are.     *)
Put(m) ==
  /\ Len(queue) < Capacity
  /\ \E n \in 0 .. Len(queue) :
       /\ \A k \in 1 .. n : queue[k].prio >= m.prio
       /\ \A k \in (n + 1) .. Len(queue) : queue[k].prio < m.prio
       /\ queue' = SubSeq(queue, 1, n) \o <<m>> \o SubSeq(queue, n + 1, Len(queue))

Take ==
  /\ queue # <<>>
  /\ queue' = Tail(queue)

Next == Take \/ \E m \in Message : Put(m)

Spec == Init /\ [][Next]_queue
=============================================================================
