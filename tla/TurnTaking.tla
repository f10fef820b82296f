----------------------------- MODULE TurnTaking -----------------------------
(***************************************************************************)
(* exercise4/incr.c: independent processes, each started from its own      *)
(* command line with the same path, map that file and write their own      *)
(* character into it in turns.  The file holds an int counter followed by  *)
(* a table of SIZE characters; the counter is the index of the next free   *)
(* cell.  A process that finds its own character in the last cell gives    *)
(* the lock up, naps, and looks again.                                     *)
(*                                                                         *)
(* An action is one system call or one access to the shared memory, so     *)
(* that a process can be killed, or the creator of the file overtaken,     *)
(* between any two of them.  File offsets are counted with the int counter *)
(* as one unit: cell k lies at offset k + 1.                               *)
(***************************************************************************)
EXTENDS FcntlLock, Integers, FiniteSets

CONSTANTS
  CharOf,   \* argv[3][0] of each process
  Nul,      \* the zero byte
  NumLoop,  \* num_loop of each process; any integer when argv[2] is no number
  SIZE,     \* number of cells of the table
  Page      \* offsets in a page of the mapping

Chars == {CharOf[p] : p \in Proc}

ASSUME TurnAssumption ==
  /\ IsFiniteSet(Proc) /\ Proc # {}
  /\ Nul \notin Chars
  /\ NumLoop \in [Proc -> Int]
  /\ SIZE \in Nat \ {0}
  /\ Page \in Nat \ {0}

VARIABLES
  exists,   \* the file argv[1] exists
  flen,     \* its length: offsets 0 .. flen - 1 are in the file
  counter,  \* the shared int, *iptr
  table,    \* the shared characters, cptr[]
  i,        \* the local i of each process: stat's result, then a loop index
  pc,       \* where each process is
  warm      \* the file was complete when the processes were started

state == <<holder, exists, flen, counter, table, i, pc>>
vars == <<holder, exists, flen, counter, table, i, pc, warm>>
-----------------------------------------------------------------------------
(* The cells a process can touch: those of the table and, behind them, the *)
(* rest of the last page of the mapping.                                   *)
Cells == 0 .. (SIZE + Cardinality(Proc))

(* The first offset of o's page is in the file: an access to o does not    *)
(* raise SIGBUS.                                                           *)
Backed(o) == o - (o % Page) < flen

Grow(n) == flen' = IF flen < n THEN n ELSE flen

Goto(p, from, to) ==
  /\ pc[p] = from
  /\ pc' = [pc EXCEPT ![p] = to]

Setup == {"stat", "open", "zero", "fill", "map"}
Locked == {"check", "turn", "store", "incr", "unlock"}
Ended == {"done", "dead"}
-----------------------------------------------------------------------------
Stat(p) ==
  /\ Goto(p, "stat", "open")
  /\ i' = [i EXCEPT ![p] = IF exists THEN 0 ELSE -1]
  /\ UNCHANGED <<holder, exists, flen, counter, table>>

Open(p) ==
  /\ Goto(p, "open", IF i[p] = -1 THEN "zero" ELSE "map")
  /\ exists' = TRUE
  /\ UNCHANGED <<holder, flen, counter, table, i>>

(* write(fd, &zero, sizeof(int)) and the head of the loop that follows     *)
ZeroCounter(p) ==
  /\ Goto(p, "zero", "fill")
  /\ counter' = 0
  /\ Grow(1)
  /\ i' = [i EXCEPT ![p] = 0]
  /\ UNCHANGED <<holder, exists, table>>

(* One round of that loop: write(fd, &zero, 1).                            *)
ZeroCell(p) ==
  /\ Goto(p, "fill", IF i[p] + 1 < SIZE THEN "fill" ELSE "map")
  /\ table' = [table EXCEPT ![i[p]] = Nul]
  /\ Grow(i[p] + 2)
  /\ i' = [i EXCEPT ![p] = i[p] + 1]
  /\ UNCHANGED <<holder, exists, counter>>

(* mmap, close, my_lock_init: nothing shared changes                       *)
Mmap(p) ==
  /\ Goto(p, "map", "loop")
  /\ i' = [i EXCEPT ![p] = 0]
  /\ UNCHANGED <<holder, exists, flen, counter, table>>

Lock(p) ==
  /\ i[p] < NumLoop[p]
  /\ Goto(p, "loop", "check")
  /\ my_lock_wait(p)
  /\ UNCHANGED <<exists, flen, counter, table, i>>

Return(p) ==
  /\ i[p] >= NumLoop[p]
  /\ Goto(p, "loop", "done")
  /\ ReleaseOnExit(p)
  /\ UNCHANGED <<exists, flen, counter, table, i>>

(* the counter has reached SIZE - 1: give the lock up and exit             *)
ExitFull(p) ==
  /\ Backed(0)
  /\ counter >= SIZE - 1
  /\ Goto(p, "check", "done")
  /\ my_lock_release(p)
  /\ UNCHANGED <<exists, flen, counter, table, i>>

(* Slip: the last cell of the table counts as free.                        *)
NotFull_OneMore(p) ==
  /\ Backed(0)
  /\ counter < SIZE
  /\ Goto(p, "check", "turn")
  /\ UNCHANGED <<holder, exists, flen, counter, table, i>>

NotFull(p) ==
  /\ Backed(0)
  /\ counter < SIZE - 1
  /\ Goto(p, "check", "turn")
  /\ UNCHANGED <<holder, exists, flen, counter, table, i>>

(* The last cell holds c and the counter is not 0; cptr[-1] is a byte of   *)
(* the counter itself, and what it holds does not matter then.             *)
LastIsMine_NextCell(p) == counter # 0 /\ table[counter] = CharOf[p]  \* slip
LastIsMine(p) == counter # 0 /\ table[counter - 1] = CharOf[p]

(* Slip: the lock is kept during the nap.                                  *)
NotMyTurn_KeepsLock(p) ==
  /\ Backed(0) /\ Backed(counter)
  /\ LastIsMine(p)
  /\ Goto(p, "turn", "nap")
  /\ UNCHANGED <<holder, exists, flen, counter, table, i>>

NotMyTurn(p) ==
  /\ Backed(0) /\ Backed(counter)
  /\ LastIsMine(p)
  /\ Goto(p, "turn", "nap")
  /\ my_lock_release(p)
  /\ UNCHANGED <<exists, flen, counter, table, i>>

(* usleep(100); my_lock_wait()                                             *)
LockAgain(p) ==
  /\ Goto(p, "nap", "turn")
  /\ my_lock_wait(p)
  /\ UNCHANGED <<exists, flen, counter, table, i>>

MyTurn(p) ==
  /\ Backed(0) /\ Backed(counter)
  /\ ~LastIsMine(p)
  /\ Goto(p, "turn", "store")
  /\ UNCHANGED <<holder, exists, flen, counter, table, i>>

Store(p) ==
  /\ Backed(0) /\ Backed(counter + 1)
  /\ Goto(p, "store", "incr")
  /\ table' = [table EXCEPT ![counter] = CharOf[p]]
  /\ UNCHANGED <<holder, exists, flen, counter, i>>

Incr(p) ==
  /\ Backed(0)
  /\ Goto(p, "incr", "unlock")
  /\ counter' = counter + 1
  /\ UNCHANGED <<holder, exists, flen, table, i>>

Unlock(p) ==
  /\ Goto(p, "unlock", "loop")
  /\ my_lock_release(p)
  /\ i' = [i EXCEPT ![p] = i[p] + 1]
  /\ UNCHANGED <<exists, flen, counter, table>>

(* SIGBUS: an access to a page of the mapping that the file does not reach *)
BusError(p) ==
  /\ \/ pc[p] \in {"check", "turn", "store", "incr"} /\ ~Backed(0)
     \/ pc[p] = "turn" /\ ~Backed(counter)
     \/ pc[p] = "store" /\ ~Backed(counter + 1)
  /\ pc' = [pc EXCEPT ![p] = "dead"]
  /\ ReleaseOnExit(p)
  /\ UNCHANGED <<exists, flen, counter, table, i>>

(* a signal from outside ends the process, wherever it is                  *)
Kill(p) ==
  /\ pc[p] \notin Ended
  /\ pc' = [pc EXCEPT ![p] = "dead"]
  /\ ReleaseOnExit(p)
  /\ UNCHANGED <<exists, flen, counter, table, i>>

Step(p) ==
  \/ Stat(p) \/ Open(p) \/ ZeroCounter(p) \/ ZeroCell(p) \/ Mmap(p)
  \/ Lock(p) \/ Return(p) \/ ExitFull(p) \/ NotFull(p)
  \/ NotMyTurn(p) \/ LockAgain(p) \/ MyTurn(p)
  \/ Store(p) \/ Incr(p) \/ Unlock(p) \/ BusError(p)

(* The kernel may write the last page of the file to disk at any moment,   *)
(* and it zeroes what the page holds behind the end of the file.           *)
WriteBack ==
  /\ table' = [k \in Cells |-> IF k + 1 < flen THEN table[k] ELSE Nul]
  /\ UNCHANGED <<holder, exists, flen, counter, i, pc>>

Next ==
  /\ (\E p \in Proc : Step(p) \/ Kill(p)) \/ WriteBack
  /\ UNCHANGED warm
-----------------------------------------------------------------------------
(* Some of the processes are started, each from its own command line; the  *)
(* others have returned from an earlier run.                               *)
InitProcs ==
  /\ my_lock_init
  /\ i = [p \in Proc |-> 0]
  /\ pc \in [Proc -> {"stat", "done"}]

(* No earlier run: the first process to look creates the file.             *)
ColdInit ==
  /\ InitProcs
  /\ exists = FALSE
  /\ flen = 0
  /\ counter = 0
  /\ table = [k \in Cells |-> Nul]
  /\ warm = FALSE

(* The file an earlier run left: complete, with some characters in it, and *)
(* perhaps one more in the next cell, stored by a process that was killed  *)
(* before it could count it.                                               *)
Filled(n, t) ==
  /\ \A k \in 0 .. (SIZE - 1) : k < n => t[k] \in Chars
  /\ \A k \in 1 .. (SIZE - 1) : k < n => t[k] # t[k - 1]
  /\ \A k \in Cells : k > n => t[k] = Nul

WarmInit ==
  /\ InitProcs
  /\ exists = TRUE
  /\ flen = SIZE + 1
  /\ counter \in 0 .. (SIZE - 2 + Cardinality(Proc))
  /\ table \in [Cells -> Chars \cup {Nul}]
  /\ Filled(counter, table)
  /\ warm = TRUE

Init == ColdInit \/ WarmInit

Spec == Init /\ [][Next]_vars

(* A process that can go on does, and one that waits for the lock gets it  *)
(* if it becomes free again and again: an unlock wakes the waiters, and    *)
(* the only process that could take it back at once naps first.            *)
Fairness ==
  \A p \in Proc : WF_state(Step(p)) /\ SF_state(Lock(p)) /\ SF_state(LockAgain(p))

FairSpec == Spec /\ Fairness
-----------------------------------------------------------------------------
TypeOK ==
  /\ LockType
  /\ exists \in BOOLEAN
  /\ flen \in Nat
  /\ counter \in 0 .. (SIZE + Cardinality(Proc))
  /\ table \in [Cells -> Chars \cup {Nul}]
  /\ i \in [Proc -> Int]
  /\ \A p \in Proc : pc[p] = "fill" => i[p] \in 0 .. (SIZE - 1)
  /\ pc \in [Proc -> Setup \cup Locked \cup {"loop", "nap"} \cup Ended]
  /\ warm \in BOOLEAN

(* The lock is owned exactly while one process is between my_lock_wait and *)
(* my_lock_release of incr.c: two processes are never both inside, and a   *)
(* process that was killed inside leaves the lock free.                    *)
MutualExclusion ==
  \A p \in Proc : pc[p] \in Locked <=> holder = p

(* The processes that have passed the test for a full table and have not   *)
(* yet counted their character: the test is not repeated after a nap.      *)
Passed == {p \in Proc : pc[p] \in {"turn", "nap", "store", "incr"}}

(* The full test of incr.c:73 is stale for everyone that naps.  However    *)
(* the naps interleave, the counter overshoots SIZE - 1 by at most one per *)
(* process that is not the last to pass.                                   *)
CounterBound ==
  counter + Cardinality(Passed) <= SIZE - 2 + Cardinality(Proc)

(* So two processes, what the exercise asks for, never store outside the   *)
(* table.                                                                  *)
StoresInTable ==
  Cardinality(Proc) <= 2 => \A p \in Proc : pc[p] = "store" => counter < SIZE

(* The cells of the table that have been counted.                          *)
Counted == {k \in 0 .. (SIZE - 1) : k < counter}

(* In a file that was complete when the processes were started, the        *)
(* characters that have been counted are never two equal in a row: no      *)
(* process takes a turn that is not its own.                               *)
InTurns ==
  warm => \A k \in Counted \ {0} : table[k] # table[k - 1]

(* No counted character of such a file is ever overwritten or uncounted,   *)
(* whoever is killed and wherever.                                         *)
CountedIsKept ==
  [][ warm => /\ counter' >= counter
              /\ \A k \in Counted : table'[k] = table[k] ]_vars

(* The counted part of its table is a log that only ever takes a character *)
(* different from its last one.  Processes that create the file may reset  *)
(* what others have counted, and promise no log.                           *)
logged == IF ~warm THEN 0 ELSE IF counter < SIZE THEN counter ELSE SIZE
log == [k \in 1 .. logged |-> table[k - 1]]
Alt == INSTANCE Alternation WITH Limit <- SIZE
IsAlternation == Alt!Spec

(* Just two processes are started, on a complete file, with different      *)
(* characters and equal loop numbers.                                      *)
IsPair ==
  /\ warm
  /\ \E p, q \in Proc :
       /\ {r \in Proc : pc[r] # "done"} = {p, q}
       /\ CharOf[p] # CharOf[q]
       /\ NumLoop[p] = NumLoop[q]

(* Two such processes both come to an end, unless one of them is killed:   *)
(* neither waits for a turn that the other will not give it any more.      *)
BothFinish ==
  IsPair => <>(\/ \A p \in Proc : pc[p] = "done"
               \/ \E p \in Proc : pc[p] = "dead")
=============================================================================
