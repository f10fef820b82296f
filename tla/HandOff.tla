------------------------------ MODULE HandOff ------------------------------
(***************************************************************************)
(* What producers and consumers of prodcons6.c promise together: the       *)
(* numbers 0, 1, 2, ... are stored in this order until there are Items of  *)
(* them, each is handed out at most once and only after it was stored, and *)
(* in the end all of them are.                                             *)
(***************************************************************************)
EXTENDS Naturals, Sequences

CONSTANT Items      \* how many items there are to produce

VARIABLES
  stored,   \* the items stored so far, in the order of storing
  taken     \* how many of them have been handed to a consumer

Init == stored = <<>> /\ taken = 0

Produce ==
  /\ Len(stored) < Items
  /\ stored' = Append(stored, Len(stored))
  /\ UNCHANGED taken

Consume ==
  /\ taken < Len(stored)
  /\ taken' = taken + 1
  /\ UNCHANGED stored

Next == Produce \/ Consume

Spec == Init /\ [][Next]_<<stored, taken>>
=============================================================================
