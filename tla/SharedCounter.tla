--------------------------- MODULE SharedCounter ---------------------------
(***************************************************************************)
(* exercise3/question-4.c: processes started with the same path map that   *)
(* file and increment the int in it under a record lock on the file        *)
(* itself; each unlinks the path before it exits.  exercise3/question-5.c  *)
(* does the same after NLoop rounds in which it increments the counter and *)
(* stores a character at that offset (NLoop = 0: question-4.c).            *)
(*                                                                         *)
(* A path leads to a file, and to another one after unlink and creat, so a *)
(* process keeps the file it has opened.  An action is one system call or  *)
(* one access to the mapping.                                              *)
(***************************************************************************)
EXTENDS Integers

CONSTANTS
  Proc,
  NLoop,        \* argv[2] of question-5.c
  Char,         \* the code of argv[3][0]
  PageBytes,    \* the bytes that are mapped for certain
  MaxFiles,     \* bound of the model: how many files are ever created
  Exists,       \* TRUE: the file is there before the first start
  Base,         \* the int in it then
  MayDie        \* TRUE: a process may be killed

CounterAssumption ==
  /\ NLoop \in Nat /\ Char \in 0 .. 255
  /\ PageBytes \in Nat /\ MaxFiles \in Nat \ {0}
  /\ Exists \in BOOLEAN /\ Base \in Nat /\ MayDie \in BOOLEAN

ASSUME CounterAssumption

NoFile == 0
First == 1      \* the file that is there at the start
Files == First .. MaxFiles
NoData == -1    \* the file is empty
None == -1      \* a process that has printed no ticket

VARIABLES
  link,     \* the file the path leads to, or NoFile
  files,    \* the number of files there were so far
  data,     \* the int at the start of each file
  owners,   \* the processes that hold the lock of each file
  pc,       \* where each process is
  fd,       \* the file each process has opened
  reg,      \* the value of *ptr that is being incremented
  round,    \* i
  ticket,   \* history: the value printed in the last critical section
  counted,  \* history: the increments done in each file
  touched   \* history: the files whose counter a character was stored into

vars == <<link, files, data, owners, pc, fd, reg, round, ticket, counted, touched>>

Init ==
  /\ link = (IF Exists THEN First ELSE NoFile)
  /\ files = (IF Exists THEN 1 ELSE 0)
  /\ data = [f \in Files |-> IF Exists /\ f = First THEN Base ELSE NoData]
  /\ owners = [f \in Files |-> {}]
  /\ pc = [p \in Proc |-> "stat"]
  /\ fd = [p \in Proc |-> NoFile]
  /\ reg = [p \in Proc |-> 0]
  /\ round = [p \in Proc |-> 0]
  /\ ticket = [p \in Proc |-> None]
  /\ counted = [f \in Files |-> 0]
  /\ touched = {}

Goto(p, from, to) ==
  /\ pc[p] = from
  /\ pc' = [pc EXCEPT ![p] = to]

InSection == {"load", "store", "put", "show", "print", "unlock"}
Ended == {"done", "failed", "dead"}
-----------------------------------------------------------------------------
Stat(p) ==
  /\ Goto(p, "stat", IF link = NoFile THEN "create" ELSE "open")
  /\ UNCHANGED <<link, files, data, owners, fd, reg, round, ticket, counted, touched>>

(* open with O_CREAT: the file may have been created since stat.           *)
Create(p) ==
  /\ Goto(p, "create", "zero")
  /\ IF link = NoFile
     THEN /\ files < MaxFiles
          /\ files' = files + 1
          /\ link' = files + 1
     ELSE UNCHANGED <<files, link>>
  /\ fd' = [fd EXCEPT ![p] = link']
  /\ UNCHANGED <<data, owners, reg, round, ticket, counted, touched>>

(* write(fd, &zero, sizeof(int)), mmap and my_lock_init                    *)
WriteZero(p) ==
  /\ Goto(p, "zero", "lock")
  /\ data' = [data EXCEPT ![fd[p]] = 0]
  /\ UNCHANGED <<link, files, owners, fd, reg, round, ticket, counted, touched>>

(* Slip: every process initialises the counter.                            *)
Open_Zeroes(p) ==
  /\ link # NoFile
  /\ Goto(p, "open", "zero")
  /\ fd' = [fd EXCEPT ![p] = link]
  /\ UNCHANGED <<link, files, data, owners, reg, round, ticket, counted, touched>>

Open(p) ==
  /\ link # NoFile
  /\ Goto(p, "open", "lock")
  /\ fd' = [fd EXCEPT ![p] = link]
  /\ UNCHANGED <<link, files, data, owners, reg, round, ticket, counted, touched>>

(* the path has been unlinked since stat                                   *)
OpenFails(p) ==
  /\ link = NoFile
  /\ Goto(p, "open", "failed")
  /\ UNCHANGED <<link, files, data, owners, fd, reg, round, ticket, counted, touched>>
-----------------------------------------------------------------------------
(* Slip: the lock is asked for without waiting.                            *)
my_lock_wait_NoWait(p) == owners' = [owners EXCEPT ![fd[p]] = @ \cup {p}]

my_lock_wait(p) ==
  /\ owners[fd[p]] \subseteq {p}
  /\ owners' = [owners EXCEPT ![fd[p]] = {p}]

my_lock_release(p) == owners' = [owners EXCEPT ![fd[p]] = @ \ {p}]

Lock(p) ==
  /\ Goto(p, "lock", "load")
  /\ my_lock_wait(p)
  /\ UNCHANGED <<link, files, data, fd, reg, round, ticket, counted, touched>>

LastSection(p) == round[p] >= NLoop

(* Incrementing the shared int is a load ...                               *)
LoadCount(p) ==
  /\ Goto(p, "load", "store")
  /\ data[fd[p]] # NoData
  /\ reg' = [reg EXCEPT ![p] = data[fd[p]]]
  /\ UNCHANGED <<link, files, data, owners, fd, round, ticket, counted, touched>>

(* ... and a store                                                         *)
(* Slip: the lock is given up as soon as the counter is written.           *)
StoreCount_Unlocks(p) ==
  /\ Goto(p, "store", IF LastSection(p) THEN "print" ELSE "put")
  /\ data' = [data EXCEPT ![fd[p]] = reg[p] + 1]
  /\ counted' = [counted EXCEPT ![fd[p]] = @ + 1]
  /\ my_lock_release(p)
  /\ UNCHANGED <<link, files, fd, reg, round, ticket, touched>>

StoreCount(p) ==
  /\ Goto(p, "store", IF LastSection(p) THEN "print" ELSE "put")
  /\ data' = [data EXCEPT ![fd[p]] = reg[p] + 1]
  /\ counted' = [counted EXCEPT ![fd[p]] = @ + 1]
  /\ UNCHANGED <<link, files, owners, fd, reg, round, ticket, touched>>

PrintCount(p) ==
  /\ Goto(p, "print", "unlock")
  /\ ticket' = [ticket EXCEPT ![p] = reg[p]]
  /\ UNCHANGED <<link, files, data, owners, fd, reg, round, counted, touched>>

(* The int after its byte k was written (little-endian, k in 0 .. 3).      *)
Weight == <<1, 256, 65536, 16777216>>

WithByte(int, k) ==
  LET w == Weight[k + 1] IN int - ((int \div w) % 256) * w + Char * w

(* The character goes to pchar + (the counter), and pchar is ptr: an       *)
(* offset below 4 is a byte of the counter itself.                         *)
PutChar(p) ==
  /\ Goto(p, "put", "show")
  /\ data[fd[p]] < PageBytes
  /\ IF data[fd[p]] < 4
     THEN /\ data' = [data EXCEPT ![fd[p]] = WithByte(@, @)]
          /\ touched' = touched \cup {fd[p]}
     ELSE UNCHANGED <<data, touched>>
  /\ UNCHANGED <<link, files, owners, fd, reg, round, ticket, counted>>

(* Beyond the page the store may meet another mapping of the process.      *)
PutElsewhere(p) ==
  /\ Goto(p, "put", "show")
  /\ data[fd[p]] >= PageBytes
  /\ UNCHANGED <<link, files, data, owners, fd, reg, round, ticket, counted, touched>>

(* the loop that prints the characters                                     *)
Show(p) ==
  /\ Goto(p, "show", "unlock")
  /\ UNCHANGED <<link, files, data, owners, fd, reg, round, ticket, counted, touched>>

Unlock(p) ==
  /\ Goto(p, "unlock", IF LastSection(p) THEN "unlink" ELSE "lock")
  /\ my_lock_release(p)
  /\ round' = [round EXCEPT ![p] = IF LastSection(p) THEN @ ELSE @ + 1]
  /\ UNCHANGED <<link, files, data, fd, reg, ticket, counted, touched>>

(* close(fd), unlink(argv[1]) whatever the path leads to, exit             *)
Unlink(p) ==
  /\ Goto(p, "unlink", "done")
  /\ link' = NoFile
  /\ UNCHANGED <<files, data, owners, fd, reg, round, ticket, counted, touched>>
-----------------------------------------------------------------------------
Die(p) ==
  /\ pc' = [pc EXCEPT ![p] = "dead"]
  /\ owners' = [f \in Files |-> owners[f] \ {p}]
  /\ UNCHANGED <<link, files, data, fd, reg, round, ticket, counted, touched>>

(* SIGBUS: no byte of the page is in the file                              *)
BusError(p) == pc[p] = "load" /\ data[fd[p]] = NoData /\ Die(p)

(* SIGSEGV: an access beyond the page                                      *)
Fault(p) == pc[p] \in {"put", "show"} /\ data[fd[p]] >= PageBytes /\ Die(p)

Kill(p) == MayDie /\ pc[p] \notin Ended /\ Die(p)
-----------------------------------------------------------------------------
Section(p) ==
  \/ Lock(p) \/ LoadCount(p) \/ StoreCount(p) \/ PrintCount(p)
  \/ PutChar(p) \/ PutElsewhere(p) \/ Show(p) \/ Unlock(p)

Step(p) ==
  \/ Stat(p) \/ Create(p) \/ WriteZero(p) \/ Open(p) \/ OpenFails(p)
  \/ Section(p) \/ Unlink(p) \/ BusError(p) \/ Fault(p)

Next == \E p \in Proc : Step(p) \/ Kill(p)

Spec == Init /\ [][Next]_vars
-----------------------------------------------------------------------------
TypeOK ==
  /\ link \in Files \cup {NoFile}
  /\ files \in 0 .. MaxFiles
  /\ data \in [Files -> Nat \cup {NoData}]
  /\ owners \in [Files -> SUBSET Proc]
  /\ pc \in [Proc -> {"stat", "create", "zero", "open", "lock", "unlink"}
                     \cup InSection \cup Ended]
  /\ fd \in [Proc -> Files \cup {NoFile}]
  /\ reg \in [Proc -> Nat]
  /\ round \in [Proc -> 0 .. NLoop]
  /\ ticket \in [Proc -> Nat \cup {None}]
  /\ counted \in [Files -> Nat]
  /\ touched \subseteq Files

(* No two processes are in the critical section of the same file, however  *)
(* they came to it (question-4.c:60-64, question-5.c:69-79, 83-87).        *)
MutualExclusion ==
  \A p, q \in Proc :
    p # q /\ pc[p] \in InSection /\ pc[q] \in InSection => fd[p] # fd[q]

(* question-4.c:32-64, question-5.c:38-87: the file that was there first   *)
(* is never initialised again, whoever finds the path gone and creates     *)
(* another one.  Until a character is stored into it, its counter is the   *)
(* old one plus the increments of all processes ...                        *)
FirstCounts ==
  Exists /\ First \notin touched => data[First] = Base + counted[First]

(* ... and no two of its processes print the same last number.             *)
FirstTickets ==
  Exists /\ First \notin touched =>
    \A p, q \in Proc :
      p # q /\ fd[p] = First /\ fd[q] = First /\ ticket[p] # None =>
        ticket[p] # ticket[q]

(* "the counter becomes correctly incremented" (exercise3/problems.txt:    *)
(* 43-45): no two processes that increment the same file print the same    *)
(* number.                                                                 *)
AllTickets ==
  \A p, q \in Proc :
    p # q /\ fd[p] = fd[q] /\ ticket[p] # None => ticket[p] # ticket[q]
=============================================================================
