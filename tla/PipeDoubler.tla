---------------------------- MODULE PipeDoubler ----------------------------
(***************************************************************************)
(* The doublers over an unnamed pipe, exercise2/question-6.c (the child    *)
(* runs doubler()) and exercise3/question-1-pipe.c with doubler.c (the     *)
(* child makes the pipe its standard input and executes doubler): the      *)
(* parent copies the chunks of its standard input into the pipe, closes    *)
(* it and waits for the child; the child writes each chunk it reads twice. *)
(*                                                                         *)
(* A read returns end of file when the pipe is empty and no process has    *)
(* its write end open; a write without a reader kills the writer.            *)
(***************************************************************************)
EXTENDS StandardStreams, SequencesExt

CONSTANTS
  Capacity,   \* bytes the pipe holds
  MayDie      \* TRUE: the child may be killed, and a system call refused

ASSUME PipeAssumption ==
  /\ Capacity \in Nat \ {0} /\ MaxLen <= Capacity
  /\ MayDie \in BOOLEAN

VARIABLES
  ppc,        \* the parent: "fork", "close", "read", "write", "wait",
              \* "exited", "failed" or "killed"
  childpc,    \* the child: "none", "close", "read", "write", "exited" (status 0),
              \* "failed" (a normal end with status 1) or "killed"
  pipe,       \* the bytes in the pipe
  readers, writers,   \* the processes that have the ends of the pipe open
  chunk,      \* what the child's last read returned
  status      \* where waitpid puts the status: "NULL" is nowhere (question-6.c);
              \* "unset" (question-1-pipe.c) until it is "success", "failure"
              \* or "signal"

parent == <<input, line, ppc, status>>
child == <<childpc, chunk, stdout>>
pipeVars == <<parent, child, pipe, readers, writers>>

Copied(n) == FlattenSeq([l \in 1 .. n |-> Line(l)])

PipeInit ==
  /\ InitStreams
  /\ ppc = "fork" /\ childpc = "none" /\ status \in {"NULL", "unset"}
  /\ pipe = <<>> /\ readers = {"parent"} /\ writers = {"parent"}
  /\ chunk = <<>>
-----------------------------------------------------------------------------
Fork ==
  /\ ppc = "fork"
  /\ ppc' = "close" /\ childpc' = "close"
  /\ readers' = {"parent", "child"} /\ writers' = {"parent", "child"}
  /\ UNCHANGED <<input, line, status, chunk, stdout, pipe>>

ForkFails ==
  /\ MayDie /\ ppc = "fork"
  /\ ppc' = "failed"
  /\ readers' = readers \ {"parent"} /\ writers' = writers \ {"parent"}
  /\ UNCHANGED <<input, line, status, child, pipe>>

ParentUnused == {"parent"}

ParentCloseRead ==
  /\ ppc = "close"
  /\ readers' = readers \ ParentUnused
  /\ ppc' = "read"
  /\ UNCHANGED <<input, line, status, child, pipe, writers>>

ReadInput ==
  /\ ppc = "read"
  /\ ReadStdin
  /\ ppc' = "write"
  /\ UNCHANGED <<input, status, child, pipe, readers, writers>>

(* A write of at most PIPE_BUF bytes waits until all of them fit.          *)
WritePipe ==
  /\ ppc = "write"
  /\ readers # {}
  /\ Len(pipe) + input[line] <= Capacity
  /\ pipe' = pipe \o Line(line)
  /\ ppc' = "read"
  /\ UNCHANGED <<input, line, status, child, readers, writers>>

BrokenPipe ==
  /\ ppc = "write"
  /\ readers = {}
  /\ ppc' = "killed"
  /\ writers' = writers \ {"parent"}
  /\ UNCHANGED <<input, line, status, child, pipe, readers>>

CloseWrite ==
  /\ ppc = "read"
  /\ line = MaxLines
  /\ writers' = writers \ {"parent"}
  /\ ppc' = "wait"
  /\ UNCHANGED <<input, line, status, child, pipe, readers>>

(* Slip: every normal end is reported as a success.                        *)
pr_exit_AnyExit == IF childpc = "killed" THEN "signal" ELSE "success"
pr_exit ==
  CASE childpc = "exited" -> "success"
    [] childpc = "failed" -> "failure"
    [] childpc = "killed" -> "signal"

(* waitpid, and the report of question-1-pipe.c; question-6.c reports      *)
(* nothing.                                                                *)
Wait ==
  /\ ppc = "wait"
  /\ childpc \in {"exited", "failed", "killed"}
  /\ status' = IF status = "NULL" THEN status ELSE pr_exit
  /\ ppc' = "exited"
  /\ readers' = readers \ {"parent"}
  /\ UNCHANGED <<input, line, child, pipe, writers>>
-----------------------------------------------------------------------------
(* Slip: the child keeps the write end.                                    *)
ChildUnused_Nothing == {}
ChildUnused == {"child"}

ChildCloseWrite ==
  /\ childpc = "close"
  /\ writers' = writers \ ChildUnused
  /\ childpc' = "read"
  /\ UNCHANGED <<parent, chunk, stdout, pipe, readers>>

ReadPipe ==
  /\ childpc = "read"
  /\ pipe # <<>>
  /\ LET n == Min({MAXLINE, Len(pipe)})
     IN  /\ chunk' = SubSeq(pipe, 1, n)
         /\ pipe' = SubSeq(pipe, n + 1, Len(pipe))
  /\ childpc' = "write"
  /\ UNCHANGED <<parent, stdout, readers, writers>>

ChildEnds(how) ==
  /\ childpc' = how
  /\ readers' = readers \ {"child"}
  /\ writers' = writers \ {"child"}
  /\ UNCHANGED <<parent, chunk, stdout, pipe>>

EndOfFile == pipe = <<>> /\ writers = {}

ChildExit == childpc = "read" /\ EndOfFile /\ ChildEnds("exited")

(* dup2 or execve refused, in the child of question-1-pipe.c; the child of *)
(* question-6.c calls doubler() itself.                                    *)
ExecFails == MayDie /\ childpc = "close" /\ status # "NULL" /\ ChildEnds("failed")

(* A write to the standard output that is refused.                         *)
WriteFails == MayDie /\ childpc = "write" /\ ChildEnds("failed")

ChildKilled == MayDie /\ childpc \in {"close", "read", "write"} /\ ChildEnds("killed")

(* Slip: one copy.                                                         *)
LastCopy_Once == TRUE
LastCopy == Len(stdout) % 2 = 1

WriteOut ==
  /\ childpc = "write"
  /\ stdout' = Append(stdout, chunk)
  /\ childpc' = IF LastCopy THEN "read" ELSE "write"
  /\ UNCHANGED <<parent, chunk, pipe, readers, writers>>
-----------------------------------------------------------------------------
ParentStep ==
  \/ Fork \/ ParentCloseRead \/ ReadInput \/ WritePipe \/ BrokenPipe \/ CloseWrite \/ Wait

ChildStep == ChildCloseWrite \/ ReadPipe \/ ChildExit \/ WriteOut

Failure == ForkFails \/ ExecFails \/ WriteFails \/ ChildKilled

PipeNext == ParentStep \/ ChildStep \/ Failure

PipeSpec == PipeInit /\ [][PipeNext]_pipeVars

FairPipeSpec == PipeSpec /\ WF_pipeVars(ParentStep) /\ WF_pipeVars(ChildStep)
-----------------------------------------------------------------------------
(* What was written to the pipe is what is in it, what the child has in    *)
(* its hands, and what it has printed, every chunk of that twice           *)
(* (question-6.c:60-65): nothing is lost or reordered on the way.  A child *)
(* that is killed, or that cannot write, takes at most the chunk it has    *)
(* in its hands with it, printed once or not at all.                       *)
Written == Copied(IF ppc \in {"write", "killed"} THEN line - 1 ELSE line)

Firsts(n) == FlattenSeq([k \in 1 .. n |-> stdout[2 * k - 1]])

InHands ==
  CASE childpc = "write" -> {chunk}
    [] childpc \in {"failed", "killed"} -> {chunk, <<>>}
    [] OTHER -> {<<>>}

DoubledInOrder ==
  LET n == Len(stdout) \div 2
  IN  /\ \A k \in 1 .. n : stdout[2 * k - 1] = stdout[2 * k]
      /\ \E held \in InHands : Firsts(n) \o held \o pipe = Written

(* A parent that reports a normal end of the child with status 0           *)
(* (question-1-pipe.c:63-64) has sent its whole input, and all is printed: *)
(* a child that could not run doubler, or could not write, also ends       *)
(* normally, but with status 1.                                            *)
NormalIsComplete ==
  ppc = "exited" /\ status = "success" =>
    /\ pipe = <<>>
    /\ Firsts(Len(stdout) \div 2) = Copied(MaxLines)
    /\ Len(stdout) % 2 = 0

(* The parent ends, whether the child lives or not: no read waits for an   *)
(* end of file that a forgotten descriptor keeps away, no write for room   *)
(* that nobody makes (question-6.c:23, 33, 40).                            *)
ParentEnds == <>(ppc \in {"exited", "failed", "killed"})
=============================================================================
