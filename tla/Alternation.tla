---------------------------- MODULE Alternation ----------------------------
(***************************************************************************)
(* What the shared character table of exercise4/incr.c promises: it is a   *)
(* log to which characters are appended one at a time, never two equal     *)
(* ones in a row, and which never grows past a limit.  Task 5 of           *)
(* exercise4/problems.txt asks for ABABAB... of two processes.             *)
(***************************************************************************)
EXTENDS Naturals, Sequences

CONSTANTS
  Chars,    \* the characters that are written
  Limit     \* the longest the log can become

VARIABLE log

InTurns(s) == \A k \in 2..Len(s) : s[k] # s[k - 1]

Init == log \in Seq(Chars) /\ Len(log) <= Limit /\ InTurns(log)

Write(c) ==
  /\ Len(log) < Limit
  /\ Len(log) # 0 => log[Len(log)] # c
  /\ log' = Append(log, c)

Next == \E c \in Chars : Write(c)

Spec == Init /\ [][Next]_log
=============================================================================
