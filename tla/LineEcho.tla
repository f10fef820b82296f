------------------------------ MODULE LineEcho ------------------------------
(***************************************************************************)
(* What the echo and doubler programs promise to the user: each line read  *)
(* from the standard input is printed copies times, and the next one is    *)
(* read only then.                                                         *)
(***************************************************************************)
EXTENDS Naturals, Sequences

CONSTANT Lines    \* how many lines the input has

VARIABLES
  copies,   \* how often each line is printed; fixed
  asked,    \* how many lines have been read
  printed   \* the numbers of the lines that were printed, in order

vars == <<copies, asked, printed>>

Init == copies \in Nat /\ asked = 0 /\ printed = <<>>

Ask ==
  /\ asked < Lines
  /\ Len(printed) = asked * copies
  /\ asked' = asked + 1
  /\ UNCHANGED <<copies, printed>>

Answer ==
  /\ Len(printed) < asked * copies
  /\ printed' = Append(printed, asked)
  /\ UNCHANGED <<copies, asked>>

Next == Ask \/ Answer

Spec == Init /\ [][Next]_vars
=============================================================================
