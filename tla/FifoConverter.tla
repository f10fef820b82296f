--------------------------- MODULE FifoConverter ---------------------------
(***************************************************************************)
(* exercise3/question-2.c and converter.c: the parent makes two FIFOs,     *)
(* forks, sends one chunk of its standard input through the first, waits   *)
(* for the child, and prints what the converter left in the second.  The   *)
(* FIFOs have fixed names, so that instances of the program meet in them.  *)
(*                                                                         *)
(* A name leads to a FIFO or to nothing.  FIFOs are named by their maker;  *)
(* a process that has opened one keeps it after unlink.  An open waits     *)
(* until a process opens the other end: the parent writes the first FIFO   *)
(* and reads the second, the child the reverse.  A chunk is a sequence of  *)
(* lines that end with a newline, each in lower ("a") or upper case ("A"). *)
(***************************************************************************)
EXTENDS Naturals, Sequences

CONSTANTS
  Inst,       \* the instances of the program that are started
  None,       \* the name leads to nothing, the process waits for no FIFO
  MaxLines    \* bound of the chunk

ASSUME FifoAssumption ==
  /\ None \notin Inst
  /\ MaxLines \in Nat

Fifos == {"fifo1", "fifo2"}
Chunks == UNION {[1 .. n -> {"a", "A"}] : n \in 0 .. MaxLines}

VARIABLES
  name,     \* for each name, the maker of the FIFO, or None
  ppc, cpc, \* where each parent and each child is
  at,       \* the maker of the FIFO that a process waits to open
  fds,      \* the makers of the first and second FIFO each process has open
  data,     \* what is in the FIFOs of each maker
  input,    \* what read(STDIN_FILENO) returns to each parent
  buf,      \* the converter's buffer
  stdout    \* what each parent has printed

vars == <<name, ppc, cpc, at, fds, data, input, buf, stdout>>

parent(i) == <<i, "parent">>
child(i) == <<i, "child">>
Proc == Inst \X {"parent", "child"}

Init ==
  /\ name = [f \in Fifos |-> None]
  /\ ppc = [i \in Inst |-> "mkfifo1"] /\ cpc = [i \in Inst |-> "none"]
  /\ at = [p \in Proc |-> None]
  /\ fds = [p \in Proc |-> {}]
  /\ data = [i \in Inst |-> [f \in Fifos |-> <<>>]]
  /\ input \in [Inst -> Chunks]
  /\ buf = [i \in Inst |-> <<>>]
  /\ stdout = [i \in Inst |-> <<>>]

Goto(i, s) == ppc' = [ppc EXCEPT ![i] = s]
ChildGoto(i, s) == cpc' = [cpc EXCEPT ![i] = s]
Unlink(S) == name' = [f \in Fifos |-> IF f \in S THEN None ELSE name[f]]
-----------------------------------------------------------------------------
(* mkfifo and its error paths                                              *)

Make(i, f, next) ==
  /\ name[f] = None
  /\ name' = [name EXCEPT ![f] = i]
  /\ Goto(i, next)
  /\ UNCHANGED <<cpc, at, fds, data, input, buf, stdout>>

MakeFirst(i) == ppc[i] = "mkfifo1" /\ Make(i, "fifo1", "mkfifo2")
MakeSecond(i) == ppc[i] = "mkfifo2" /\ Make(i, "fifo2", "fork")

(* Slip: go on with the FIFO that is there.                                *)
FirstExists_GoesOn(i) ==
  /\ ppc[i] = "mkfifo1" /\ name["fifo1"] # None
  /\ Goto(i, "mkfifo2")
  /\ UNCHANGED <<name, cpc, at, fds, data, input, buf, stdout>>

(* Slip: clean up what somebody else made.                                 *)
FirstExists_CleansUp(i) ==
  /\ ppc[i] = "mkfifo1" /\ name["fifo1"] # None
  /\ Unlink({"fifo1"})
  /\ Goto(i, "failed")
  /\ UNCHANGED <<cpc, at, fds, data, input, buf, stdout>>

FirstExists(i) ==
  /\ ppc[i] = "mkfifo1" /\ name["fifo1"] # None
  /\ Goto(i, "failed")
  /\ UNCHANGED <<name, cpc, at, fds, data, input, buf, stdout>>

(* Slip: the first FIFO stays.                                             *)
SecondExists_Leaves(i) ==
  /\ ppc[i] = "mkfifo2" /\ name["fifo2"] # None
  /\ Goto(i, "failed")
  /\ UNCHANGED <<name, cpc, at, fds, data, input, buf, stdout>>

SecondExists(i) ==
  /\ ppc[i] = "mkfifo2" /\ name["fifo2"] # None
  /\ Unlink({"fifo1"})
  /\ Goto(i, "failed")
  /\ UNCHANGED <<cpc, at, fds, data, input, buf, stdout>>

(* Slip: the child opens the second FIFO first.                            *)
ChildOpens_Swapped == <<"fifo2", "fifo1">>
ChildOpens == <<"fifo1", "fifo2">>

Fork(i) ==
  /\ ppc[i] = "fork"
  /\ Goto(i, "fifo1") /\ ChildGoto(i, ChildOpens[1])
  /\ UNCHANGED <<name, at, fds, data, input, buf, stdout>>
-----------------------------------------------------------------------------
(* open: a process whose control is at "fifo1" or "fifo2" opens that one.  *)

pc(p) == IF p[2] = "parent" THEN ppc[p[1]] ELSE cpc[p[1]]

(* How a process ends: normally, on a name that is in its way or leads to  *)
(* nothing, on a system call that is refused, or by a signal.              *)
Cut == {"refused", "killed"}
Ended == {"done", "failed"} \cup Cut

End(p, how) ==
  /\ IF p[2] = "parent" THEN Goto(p[1], how) /\ UNCHANGED cpc
                        ELSE ChildGoto(p[1], how) /\ UNCHANGED ppc
  /\ at' = [at EXCEPT ![p] = None]
  /\ fds' = [fds EXCEPT ![p] = {}]

Open(p) ==
  /\ pc(p) \in Fifos /\ at[p] = None
  /\ IF name[pc(p)] = None
       THEN End(p, "failed")
       ELSE at' = [at EXCEPT ![p] = name[pc(p)]] /\ UNCHANGED <<ppc, cpc, fds>>
  /\ UNCHANGED <<name, data, input, buf, stdout>>

ParentAfter(f) == IF f = "fifo1" THEN "fifo2" ELSE "read"
ChildAfter(f) == IF f = ChildOpens[1] THEN ChildOpens[2] ELSE "read"

Meet(i, j) ==
  /\ at[parent(i)] # None /\ at[parent(i)] = at[child(j)]
  /\ ppc[i] = cpc[j]
  /\ Goto(i, ParentAfter(ppc[i])) /\ ChildGoto(j, ChildAfter(cpc[j]))
  /\ at' = [at EXCEPT ![parent(i)] = None, ![child(j)] = None]
  /\ LET opened == {<<at[parent(i)], ppc[i]>>}
     IN  fds' = [fds EXCEPT ![parent(i)] = @ \cup opened, ![child(j)] = @ \cup opened]
  /\ UNCHANGED <<name, data, input, buf, stdout>>

Fd(p, f) == CHOOSE m \in Inst : <<m, f>> \in fds[p]
OtherEnd(p, f) == \E q \in Proc \ {p} : <<Fd(p, f), f>> \in fds[q]
Read(p, f) == data[Fd(p, f)][f]
Fill(p, f, s) == data' = [data EXCEPT ![Fd(p, f)][f] = s]
-----------------------------------------------------------------------------
ReadInput(i) ==
  /\ ppc[i] = "read"
  /\ Goto(i, IF input[i] # <<>> THEN "write" ELSE "wait")
  /\ UNCHANGED <<name, cpc, at, fds, data, input, buf, stdout>>

(* Slip: a loop, although only one answer is awaited.                      *)
Written_GoesOn == "read"
Written == "wait"

WriteInput(i) ==
  /\ ppc[i] = "write"
  /\ OtherEnd(parent(i), "fifo1")
  /\ Fill(parent(i), "fifo1", Read(parent(i), "fifo1") \o input[i])
  /\ Goto(i, Written)
  /\ UNCHANGED <<name, cpc, at, fds, input, buf, stdout>>

BrokenPipe(p, f) ==
  /\ pc(p) = "write"
  /\ f = (IF p[2] = "parent" THEN "fifo1" ELSE "fifo2")
  /\ ~OtherEnd(p, f)
  /\ End(p, "killed")
  /\ UNCHANGED <<name, data, input, buf, stdout>>

Wait(i) ==
  /\ ppc[i] = "wait"
  /\ cpc[i] \in Ended
  /\ Goto(i, "print")
  /\ UNCHANGED <<name, cpc, at, fds, data, input, buf, stdout>>

PrintAnswer(i) ==
  /\ ppc[i] = "print"
  /\ Read(parent(i), "fifo2") # <<>> \/ ~OtherEnd(parent(i), "fifo2")
  /\ stdout' = [stdout EXCEPT ![i] = Read(parent(i), "fifo2")]
  /\ Fill(parent(i), "fifo2", <<>>)
  /\ Goto(i, "unlink1")
  /\ UNCHANGED <<name, cpc, at, fds, input, buf>>

(* close of both FIFOs, and the first unlink                               *)
UnlinkFirst(i) ==
  /\ ppc[i] = "unlink1"
  /\ fds' = [fds EXCEPT ![parent(i)] = {}]
  /\ Unlink({"fifo1"})
  /\ Goto(i, IF name["fifo1"] # None THEN "unlink2" ELSE "failed")
  /\ UNCHANGED <<cpc, at, data, input, buf, stdout>>

UnlinkSecond(i) ==
  /\ ppc[i] = "unlink2"
  /\ Unlink({"fifo2"})
  /\ Goto(i, IF name["fifo2"] # None THEN "done" ELSE "failed")
  /\ UNCHANGED <<cpc, at, fds, data, input, buf, stdout>>
-----------------------------------------------------------------------------
(* The child is the converter as soon as it has opened both FIFOs: one     *)
(* read, the first line in lower case, one write.                          *)

Convert(s) == [s EXCEPT ![1] = "a"]

ReadChunk(i) ==
  /\ cpc[i] = "read"
  /\ Read(child(i), "fifo1") # <<>>
  /\ buf' = [buf EXCEPT ![i] = Convert(Read(child(i), "fifo1"))]
  /\ Fill(child(i), "fifo1", <<>>)
  /\ ChildGoto(i, "write")
  /\ UNCHANGED <<name, ppc, at, fds, input, stdout>>

EndOfFile(i) ==
  /\ cpc[i] = "read"
  /\ Read(child(i), "fifo1") = <<>> /\ ~OtherEnd(child(i), "fifo1")
  /\ End(child(i), "done")
  /\ UNCHANGED <<name, data, input, buf, stdout>>

WriteChunk(i) ==
  /\ cpc[i] = "write"
  /\ OtherEnd(child(i), "fifo2")
  /\ Fill(child(i), "fifo2", Read(child(i), "fifo2") \o buf[i])
  /\ End(child(i), "done")
  /\ UNCHANGED <<name, input, buf, stdout>>

(* err_quit where the system refuses what the process cannot do without: a *)
(* parent's fork, open, write, waitpid, close or unlink, a child's open,   *)
(* its dup2 and execve before it reads, its write.  Nothing is cleaned up. *)
Refusable(p) ==
  IF p[2] = "parent"
  THEN {"fork", "fifo1", "fifo2", "write", "wait", "print", "unlink1", "unlink2"}
  ELSE {"fifo1", "fifo2", "read", "write"}

Refused(p) ==
  /\ pc(p) \in Refusable(p)
  /\ End(p, "refused")
  /\ UNCHANGED <<name, data, input, buf, stdout>>

(* A signal.                                                               *)
Kill(p) ==
  /\ pc(p) \notin Ended \cup {"none"}
  /\ End(p, "killed")
  /\ UNCHANGED <<name, data, input, buf, stdout>>
-----------------------------------------------------------------------------
ParentStep(i) ==
  \/ MakeFirst(i) \/ FirstExists(i) \/ MakeSecond(i) \/ SecondExists(i) \/ Fork(i)
  \/ Open(parent(i)) \/ \E j \in Inst : Meet(i, j)
  \/ ReadInput(i) \/ WriteInput(i) \/ BrokenPipe(parent(i), "fifo1")
  \/ Wait(i) \/ PrintAnswer(i) \/ UnlinkFirst(i) \/ UnlinkSecond(i)

ChildStep(i) ==
  \/ Open(child(i)) \/ ReadChunk(i) \/ EndOfFile(i) \/ WriteChunk(i) \/ BrokenPipe(child(i), "fifo2")

Next ==
  \E i \in Inst :
    \/ ParentStep(i) \/ ChildStep(i)
    \/ \E p \in {parent(i), child(i)} : Refused(p) \/ Kill(p)

Spec == Init /\ [][Next]_vars

FairSpec ==
  Spec /\ \A i \in Inst : WF_vars(ParentStep(i)) /\ WF_vars(ChildStep(i))
-----------------------------------------------------------------------------
TypeOK ==
  /\ name \in [Fifos -> Inst \cup {None}]
  /\ ppc \in [Inst -> {"mkfifo1", "mkfifo2", "fork", "fifo1", "fifo2", "read", "write",
                       "wait", "print", "unlink1", "unlink2"} \cup Ended]
  /\ cpc \in [Inst -> {"none", "fifo1", "fifo2", "read", "write"} \cup Ended]
  /\ at \in [Proc -> Inst \cup {None}]
  /\ fds \in [Proc -> SUBSET (Inst \X Fifos)]
  /\ data \in [Inst -> [Fifos -> Chunks]]
  /\ input \in [Inst -> Chunks] /\ buf \in [Inst -> Chunks] /\ stdout \in [Inst -> Chunks]

(* The fixed names never lead a process into the FIFO of another instance: *)
(* whoever finds FIFOs that are there gives up (question-2.c:24-30), and a *)
(* maker unlinks its own only when nobody will open them again (60).       *)
OwnFifos ==
  \A p \in Proc :
    /\ at[p] \in {p[1], None}
    /\ \A o \in fds[p] : o[1] = p[1]

(* The instance that has made both FIFOs never fails in an open or unlink  *)
(* (question-2.c:35-38, 60): an instance that comes too late removes       *)
(* nothing but what it made.                                               *)
WinnerUndisturbed == [][\A i \in Inst :
  ppc'[i] = "failed" => ppc[i] \in {"mkfifo1", "mkfifo2", "failed"}]_ppc

(* A FIFO at one of the names, which keeps every later instance out, is    *)
(* that of a parent that has still to unlink it, was killed, or gave up    *)
(* because a system call was refused: err_quit cleans up after the second  *)
(* mkfifo only (question-2.c:28), and not after fork (33) or later.        *)
(* Parents that end in another way, those that came too late among them,   *)
(* leave nothing (question-2.c:28, 60).                                    *)
NothingLeft ==
  \A f \in Fifos : name[f] # None => ppc[name[f]] \notin {"done", "failed"}

(* An instance that has made both FIFOs and reads a chunk that is not      *)
(* empty prints as many lines as it has, and ends, unless one of its       *)
(* processes is killed or refused a system call: parent and child open the *)
(* FIFOs in an order that lets them meet (question-2.c:35-38, 63-66).      *)
Completes ==
  \A i \in Inst :
    ppc[i] = "fork" /\ input[i] # <<>> ~>
      \/ ppc[i] = "done" /\ Len(stdout[i]) = Len(input[i])
      \/ {ppc[i], cpc[i]} \cap Cut # {}
=============================================================================
