-------------------------- MODULE TurnTaking_proofs --------------------------
(***************************************************************************)
(* What is proved of exercise4/incr.c for any number of processes, any     *)
(* characters and loop numbers, and any size of the table.                 *)
(***************************************************************************)
EXTENDS TurnTaking, Sequences, FiniteSetTheorems, TLAPS

(* What holds however the file came into being.                            *)
IInv == TypeOK /\ MutualExclusion /\ CounterBound

LEMMA ProcsAreFew ==
  ASSUME NEW S \in SUBSET Proc
  PROVE  /\ IsFiniteSet(S)
         /\ Cardinality(S) \in Nat
         /\ Cardinality(Proc) \in Nat \ {0}
         /\ Cardinality(S) <= Cardinality(Proc)
<1>1. IsFiniteSet(Proc) /\ Proc # {}
  BY TurnAssumption
<1>2. Cardinality(Proc) \in Nat /\ Cardinality(Proc) # 0
  BY <1>1, FS_CardinalityType, FS_EmptySet
<1> QED
  BY <1>1, <1>2, FS_Subset, FS_CardinalityType

LEMMA InitIInv == Init => IInv
<1> SUFFICES ASSUME ColdInit \/ WarmInit
             PROVE  IInv
  BY DEF Init
<1>1. Cardinality(Proc) \in Nat \ {0} /\ SIZE \in Nat \ {0}
  BY ProcsAreFew, TurnAssumption
<1>2. holder = None /\ i = [p \in Proc |-> 0] /\ pc \in [Proc -> {"stat", "done"}]
  BY DEF ColdInit, WarmInit, InitProcs, my_lock_init
<1>3. counter \in 0 .. (SIZE - 2 + Cardinality(Proc))
  <2>1. ColdInit => counter = 0
    BY DEF ColdInit
  <2>2. WarmInit => counter \in 0 .. (SIZE - 2 + Cardinality(Proc))
    BY DEF WarmInit
  <2> QED
    BY <1>1, <2>1, <2>2
<1>4. /\ exists \in BOOLEAN /\ flen \in Nat /\ warm \in BOOLEAN
      /\ table \in [Cells -> Chars \cup {Nul}]
  <2>1. CASE ColdInit
    BY <2>1 DEF ColdInit
  <2>2. CASE WarmInit
    BY <1>1, <2>2 DEF WarmInit
  <2> QED
    BY <2>1, <2>2
<1>5. TypeOK
  <2>1. LockType /\ i \in [Proc -> Int] /\ \A p \in Proc : pc[p] # "fill"
    BY <1>2 DEF LockType
  <2>2. pc \in [Proc -> Setup \cup Locked \cup {"loop", "nap"} \cup Ended]
    BY <1>2 DEF Setup, Ended
  <2>3. counter \in 0 .. (SIZE + Cardinality(Proc))
    BY <1>1, <1>3
  <2> QED
    BY <1>4, <2>1, <2>2, <2>3 DEF TypeOK
<1>6. MutualExclusion
  BY <1>2, NoneAssumption DEF MutualExclusion, Locked
<1>7. CounterBound
  <2>1. Passed = {}
    BY <1>2 DEF Passed
  <2>2. Cardinality(Passed) = 0
    BY <2>1, FS_EmptySet
  <2> QED
    BY <1>1, <1>3, <2>2 DEF CounterBound
<1> QED
  BY <1>5, <1>6, <1>7 DEF IInv

(* A step moves at most one process, and only between locations.           *)
LEMMA LocationStep ==
  ASSUME TypeOK, NEW p \in Proc, Step(p) \/ Kill(p)
  PROVE  pc' \in [Proc -> Setup \cup Locked \cup {"loop", "nap"} \cup Ended]
<1> USE DEF TypeOK, Setup, Locked, Ended
<1>1. CASE Step(p)
  BY <1>1 DEF Step, Stat, Open, ZeroCounter, ZeroCell, Mmap, Lock, Return,
     ExitFull, NotFull, NotMyTurn, LockAgain, MyTurn, Store, Incr, Unlock,
     BusError, Goto
<1>2. CASE Kill(p)
  BY <1>2 DEF Kill
<1> QED
  BY <1>1, <1>2

LEMMA TypeStep == IInv /\ [Next]_vars => TypeOK'
<1> SUFFICES ASSUME IInv, [Next]_vars
             PROVE  TypeOK'
  OBVIOUS
<1> USE TurnAssumption DEF IInv
<1>0. Cardinality(Proc) \in Nat \ {0}
  BY ProcsAreFew
<1>1. ASSUME NEW p \in Proc, Step(p) \/ Kill(p), UNCHANGED warm
      PROVE  TypeOK'
  <2> USE <1>1 DEF Step, Stat, Open, ZeroCounter, ZeroCell, Mmap, Lock, Return,
      ExitFull, NotFull, NotMyTurn, LockAgain, MyTurn, Store, Incr, Unlock,
      BusError, Kill
  <2>1. LockType'
    BY DEF TypeOK, LockType, my_lock_wait, my_lock_release, ReleaseOnExit
  <2>2. exists' \in BOOLEAN /\ flen' \in Nat
    <3>1. CASE ZeroCell(p)
      <4>1. i[p] + 2 \in Nat
        BY <3>1 DEF TypeOK, Goto
      <4> QED
        BY <3>1, <4>1 DEF TypeOK, Grow
    <3>2. CASE ZeroCounter(p)
      BY <3>2 DEF TypeOK, Grow
    <3> QED
      BY <3>1, <3>2 DEF TypeOK
  <2>3. i' \in [Proc -> Int]
    BY DEF TypeOK
  <2>4. \A q \in Proc : pc'[q] = "fill" => i'[q] \in 0 .. (SIZE - 1)
    BY DEF TypeOK, Goto
  <2>5. table' \in [Cells -> Chars \cup {Nul}]
    BY DEF TypeOK, Chars
  <2>6. counter' \in 0 .. (SIZE + Cardinality(Proc))
    <3>1. CASE Incr(p)
      <4>1. p \in Passed
        BY <3>1 DEF Passed, Goto
      <4>2. Cardinality(Passed) \in Nat \ {0}
        BY <4>1, ProcsAreFew, FS_EmptySet DEF Passed
      <4> QED
        BY <1>0, <3>1, <4>2 DEF TypeOK, CounterBound
    <3>2. CASE ~Incr(p)
      BY <1>0, <3>2 DEF TypeOK
    <3> QED
      BY <3>1, <3>2
  <2> QED
    BY <2>1, <2>2, <2>3, <2>4, <2>5, <2>6, LocationStep DEF TypeOK
<1>2. CASE WriteBack /\ UNCHANGED warm
  BY <1>2 DEF TypeOK, LockType, WriteBack
<1>3. CASE UNCHANGED vars
  BY <1>3 DEF TypeOK, LockType, vars, Cells
<1> QED
  BY <1>1, <1>2, <1>3 DEF Next

LEMMA MutexStep == IInv /\ [Next]_vars => MutualExclusion'
<1> SUFFICES ASSUME IInv, [Next]_vars
             PROVE  MutualExclusion'
  OBVIOUS
<1> USE DEF IInv
<1>1. ASSUME NEW p \in Proc, Step(p) \/ Kill(p) PROVE MutualExclusion'
  BY <1>1, NoneAssumption
     DEF Step, Stat, Open, ZeroCounter, ZeroCell, Mmap, Lock, Return,
     ExitFull, NotFull, NotMyTurn, LockAgain, MyTurn, Store, Incr, Unlock,
     BusError, Kill, Goto, MutualExclusion, TypeOK, LockType, Locked,
     my_lock_wait, my_lock_release, ReleaseOnExit
<1>2. CASE WriteBack
  BY <1>2 DEF MutualExclusion, WriteBack
<1>3. CASE UNCHANGED vars
  BY <1>3 DEF MutualExclusion, vars
<1> QED
  BY <1>1, <1>2, <1>3 DEF Next

(* Only NotFull makes Passed larger, and it has just seen that the counter *)
(* is below SIZE - 1; ZeroCounter sets the counter to 0, but its process   *)
(* has not passed.                                                         *)
LEMMA BoundStep == IInv /\ [Next]_vars => CounterBound'
<1> SUFFICES ASSUME IInv, [Next]_vars
             PROVE  CounterBound'
  OBVIOUS
<1> USE TurnAssumption DEF IInv, CounterBound
<1>0. /\ Cardinality(Proc) \in Nat \ {0}
      /\ Cardinality(Passed) \in Nat
      /\ Cardinality(Passed') \in Nat
      /\ Cardinality(Passed') <= Cardinality(Proc)
      /\ IsFiniteSet(Passed)
      /\ counter \in Nat
  BY ProcsAreFew DEF Passed, TypeOK
<1>1. ASSUME NEW p \in Proc, Step(p) \/ Kill(p) PROVE CounterBound'
  <2>1. CASE NotFull(p)
    BY <1>0, <2>1 DEF NotFull
  <2>2. CASE ZeroCounter(p)
    <3>1. Passed' \subseteq Proc \ {p}
      BY <2>2 DEF ZeroCounter, Goto, Passed, TypeOK
    <3>2. Cardinality(Passed') <= Cardinality(Proc) - 1
      BY <3>1, <1>0, FS_RemoveElement, FS_Subset
    <3> QED
      BY <1>0, <2>2, <3>2 DEF ZeroCounter
  <2>3. CASE Incr(p)
    <3>1. p \in Passed /\ Passed' = Passed \ {p}
      BY <2>3 DEF Incr, Goto, Passed, TypeOK
    <3>2. Cardinality(Passed') = Cardinality(Passed) - 1
      BY <1>0, <3>1, FS_RemoveElement
    <3> QED
      BY <1>0, <2>3, <3>2 DEF Incr
  <2>4. CASE ~NotFull(p) /\ ~ZeroCounter(p) /\ ~Incr(p)
    <3>1. Passed' \subseteq Passed
      BY <1>1, <2>4 DEF Step, Stat, Open, ZeroCell, Mmap, Lock, Return,
         ExitFull, NotMyTurn, LockAgain, MyTurn, Store, Unlock, BusError,
         Kill, Goto, Passed, TypeOK
    <3>2. counter' = counter
      BY <1>1, <2>4 DEF Step, Stat, Open, ZeroCell, Mmap, Lock, Return,
         ExitFull, NotMyTurn, LockAgain, MyTurn, Store, Unlock, BusError, Kill
    <3>3. Cardinality(Passed') <= Cardinality(Passed)
      BY <1>0, <3>1, FS_Subset
    <3> QED
      BY <1>0, <3>2, <3>3
  <2> QED
    BY <2>1, <2>2, <2>3, <2>4
<1>2. CASE WriteBack \/ UNCHANGED vars
  BY <1>2 DEF WriteBack, vars, Passed
<1> QED
  BY <1>1, <1>2 DEF Next

(* The types are right, the lock is held exactly inside the critical       *)
(* section, and the counter keeps its bound, whoever created the file.     *)
THEOREM Invariant == Spec => []IInv
<1>1. IInv /\ [Next]_vars => IInv'
  BY TypeStep, MutexStep, BoundStep DEF IInv
<1> QED
  BY InitIInv, <1>1, PTL DEF Spec

(* The kernel lets one process at a time into the critical section of      *)
(* incr.c, also when processes are killed inside it.                       *)
THEOREM OneInside == Spec => []MutualExclusion
BY Invariant, PTL DEF IInv

(* The counter overshoots by at most one per process that is not the last  *)
(* to pass the test for a full table.                                      *)
THEOREM CounterIsBounded == Spec => []CounterBound
BY Invariant, PTL DEF IInv

(* Two processes never store outside the table: at most one of them can    *)
(* have passed the full test before the other one filled the last cell but *)
(* one.                                                                    *)
THEOREM TwoStoreInTable == Spec => []StoresInTable
<1>1. IInv => StoresInTable
  <2> SUFFICES ASSUME IInv, Cardinality(Proc) <= 2,
                      NEW p \in Proc, pc[p] = "store"
               PROVE  counter < SIZE
    BY DEF StoresInTable
  <2>1. p \in Passed
    BY DEF Passed
  <2>2. Cardinality(Passed) \in Nat \ {0}
    BY <2>1, ProcsAreFew, FS_EmptySet DEF Passed
  <2> QED
    BY <2>2, ProcsAreFew, TurnAssumption DEF IInv, CounterBound, TypeOK
<1> QED
  BY Invariant, <1>1, PTL
(***************************************************************************)
(* What holds in addition when the file is complete from the start: no     *)
(* process sets the counter or a cell back, so the character before the    *)
(* one about to be written is the one that was compared.                   *)
(***************************************************************************)
WarmFile ==
  /\ exists = TRUE
  /\ flen = SIZE + 1
  /\ \A p \in Proc : /\ pc[p] \notin {"zero", "fill"}
                     /\ pc[p] = "open" => i[p] # -1

Fits(p) ==
  /\ pc[p] \in {"store", "incr"} =>
       \A k \in 0 .. (SIZE - 1) : k + 1 = counter => table[k] # CharOf[p]
  /\ pc[p] = "incr" => (counter < SIZE => table[counter] = CharOf[p])

Complete ==
  /\ WarmFile
  /\ \A k \in Counted : table[k] \in Chars
  /\ InTurns
  /\ \A p \in Proc : Fits(p)

WarmInv == warm => Complete

LEMMA WarmInitInv == Init => WarmInv
<1>1. WarmInit => Complete
  BY TurnAssumption, ProcsAreFew
     DEF WarmInit, InitProcs, Filled, Complete, WarmFile, Fits, InTurns, Counted
<1> QED
  BY <1>1 DEF Init, ColdInit, WarmInv

LEMMA WarmFileStep == IInv /\ warm /\ Complete /\ [Next]_vars => WarmFile'
<1> SUFFICES ASSUME IInv, warm, Complete, [Next]_vars
             PROVE  WarmFile'
  OBVIOUS
<1> USE DEF Complete, WarmFile
<1>1. ASSUME NEW p \in Proc, Step(p) \/ Kill(p) PROVE WarmFile'
  <2>1. ~ZeroCounter(p) /\ ~ZeroCell(p)
    BY DEF ZeroCounter, ZeroCell, Goto
  <2>2. exists' = TRUE /\ flen' = SIZE + 1
    BY <1>1, <2>1 DEF Step, Stat, Open, Mmap, Lock, Return,
       ExitFull, NotFull, NotMyTurn, LockAgain, MyTurn, Store, Incr, Unlock,
       BusError, Kill
  <2>3. \A q \in Proc : /\ pc'[q] \notin {"zero", "fill"}
                        /\ pc'[q] = "open" => i'[q] # -1
    <3>1. pc \in [Proc -> Setup \cup Locked \cup {"loop", "nap"} \cup Ended]
          /\ i \in [Proc -> Int]
      BY DEF IInv, TypeOK
    <3>2. CASE Stat(p)
      <4>1. pc' = [pc EXCEPT ![p] = "open"] /\ i' = [i EXCEPT ![p] = 0]
        BY <3>2 DEF Stat, Goto
      <4> QED
        BY <3>1, <4>1
    <3>3. CASE Open(p)
      <4>1. pc' = [pc EXCEPT ![p] = "map"] /\ i' = i
        BY <3>3 DEF Open, Goto
      <4> QED
        BY <3>1, <4>1
    <3>4. CASE ~Stat(p) /\ ~Open(p)
      BY <1>1, <2>1, <3>4 DEF Step, Mmap, Lock, Return,
         ExitFull, NotFull, NotMyTurn, LockAgain, MyTurn, Store, Incr, Unlock,
         BusError, Kill, Goto, IInv, TypeOK
    <3> QED
      BY <3>2, <3>3, <3>4
  <2> QED
    BY <2>2, <2>3
<1>2. CASE WriteBack \/ UNCHANGED vars
  BY <1>2 DEF WriteBack, vars
<1> QED
  BY <1>1, <1>2 DEF Next

(* No step of the loop changes a cell that has been counted.               *)
LEMMA CountedStep ==
  IInv /\ warm /\ Complete /\ [Next]_vars =>
    /\ counter' >= counter
    /\ \A k \in Counted : table'[k] = table[k]
<1> SUFFICES ASSUME IInv, warm, Complete, [Next]_vars
             PROVE  /\ counter' >= counter
                    /\ \A k \in Counted : table'[k] = table[k]
  OBVIOUS
<1> USE TurnAssumption DEF IInv, TypeOK, Complete, WarmFile
<1>0. Cardinality(Proc) \in Nat /\ Counted \subseteq Cells
  BY ProcsAreFew DEF Counted, Cells
<1>1. ASSUME NEW p \in Proc, Step(p) \/ Kill(p)
      PROVE  /\ counter' >= counter
             /\ \A k \in Counted : table'[k] = table[k]
  <2>1. ~ZeroCounter(p) /\ ~ZeroCell(p)
    BY DEF ZeroCounter, ZeroCell, Goto
  <2>2. CASE Store(p)
    BY <1>0, <2>2 DEF Store, Counted
  <2>3. CASE Incr(p)
    BY <1>0, <2>3 DEF Incr, Counted
  <2>4. CASE ~Store(p) /\ ~Incr(p)
    <3>1. counter' = counter /\ table' = table
      BY <1>1, <2>1, <2>4 DEF Step, Stat, Open, Mmap, Lock, Return,
         ExitFull, NotFull, NotMyTurn, LockAgain, MyTurn, Unlock, BusError, Kill
    <3> QED
      BY <1>0, <3>1
  <2> QED
    BY <2>2, <2>3, <2>4
<1>2. CASE WriteBack
  BY <1>0, <1>2 DEF WriteBack, Counted
<1>3. CASE UNCHANGED vars
  BY <1>0, <1>3 DEF vars
<1> QED
  BY <1>1, <1>2, <1>3 DEF Next

LEMMA TurnsStep ==
  IInv /\ warm /\ Complete /\ [Next]_vars =>
    /\ InTurns'
    /\ (\A k \in Counted : table[k] \in Chars)'
<1> SUFFICES ASSUME IInv, warm, Complete, [Next]_vars
             PROVE  InTurns' /\ (\A k \in Counted : table[k] \in Chars)'
  OBVIOUS
<1> USE TurnAssumption DEF IInv, TypeOK, Complete
<1>0. counter \in Nat /\ \A k \in Counted : table'[k] = table[k]
  BY CountedStep
<1>1. CASE \E p \in Proc : Incr(p)
  <2>1. PICK p \in Proc : Incr(p)
    BY <1>1
  <2>2. counter' = counter + 1 /\ table' = table /\ pc[p] = "incr"
    BY <2>1 DEF Incr, Goto
  <2>3. CASE counter < SIZE
    <3>1. /\ Counted' = Counted \cup {counter}
          /\ Counted = 0 .. (counter - 1)
      BY <1>0, <2>2, <2>3 DEF Counted
    <3>2. table[counter] = CharOf[p] /\ CharOf[p] \in Chars
      BY <2>2, <2>3 DEF Fits, Chars
    <3>3. counter # 0 => table[counter - 1] # CharOf[p]
      BY <1>0, <2>2, <2>3 DEF Fits
    <3> QED
      BY <1>0, <2>2, <3>1, <3>2, <3>3 DEF InTurns
  <2>4. CASE counter >= SIZE
    BY <1>0, <2>2, <2>4 DEF InTurns, Counted
  <2> QED
    BY <1>0, <2>3, <2>4
<1>2. CASE counter' = counter
  BY <1>0, <1>2 DEF InTurns, Counted
<1>3. counter' = counter \/ \E p \in Proc : Incr(p)
  BY DEF Next, Step, Stat, Open, ZeroCounter, ZeroCell, Mmap, Lock, Return,
     ExitFull, NotFull, NotMyTurn, LockAgain, MyTurn, Store, Unlock,
     BusError, Kill, WriteBack, vars, WarmFile, Goto
<1> QED
  BY <1>1, <1>2, <1>3

(* The character that was compared is still the last one when p stores and *)
(* counts its own: the lock keeps everyone else away from both cells.      *)
LEMMA FitsStep ==
  ASSUME IInv, warm, Complete, [Next]_vars, NEW q \in Proc
  PROVE  Fits(q)'
<1> USE TurnAssumption DEF IInv, TypeOK, Complete
<1>0. Cardinality(Proc) \in Nat /\ counter \in Nat /\ CharOf[q] \in Chars
  BY ProcsAreFew DEF Chars
<1>1. ASSUME NEW p \in Proc, Step(p) \/ Kill(p) PROVE Fits(q)'
  <2>1. ~ZeroCounter(p) /\ ~ZeroCell(p)
    BY DEF ZeroCounter, ZeroCell, Goto, WarmFile
  <2>2. CASE Store(p) \/ Incr(p)
    <3>1. CASE p = q
      <4>1. CASE Store(q)
        <5>1. pc[q] = "store" /\ pc'[q] = "incr" /\ counter' = counter
          BY <4>1 DEF Store, Goto
        <5>2. table' = [table EXCEPT ![counter] = CharOf[q]]
          BY <4>1 DEF Store
        <5>3. counter \in Cells
          BY <1>0 DEF Cells
        <5>4. ASSUME NEW k \in 0 .. (SIZE - 1), k + 1 = counter
              PROVE  table'[k] # CharOf[q]
          BY <1>0, <5>1, <5>2, <5>4 DEF Fits
        <5> QED
          BY <1>0, <5>1, <5>2, <5>3, <5>4 DEF Fits
      <4>2. CASE Incr(q)
        BY <4>2 DEF Incr, Goto, Fits
      <4> QED
        BY <2>2, <3>1, <4>1, <4>2
    <3>2. CASE p # q
      <4>1. holder = p /\ pc'[q] = pc[q]
        BY <2>2, <3>2 DEF Store, Incr, Goto, MutualExclusion, Locked
      <4>2. pc[q] \notin {"store", "incr"}
        BY <3>2, <4>1 DEF MutualExclusion, Locked
      <4> QED
        BY <4>1, <4>2 DEF Fits
    <3> QED
      BY <3>1, <3>2
  <2>3. CASE MyTurn(p)
    <3>1. /\ counter' = counter /\ table' = table
          /\ pc' = [pc EXCEPT ![p] = "store"]
          /\ ~LastIsMine(p)
      BY <2>3 DEF MyTurn, Goto
    <3>2. CASE p = q
      <4>1. ASSUME NEW k \in 0 .. (SIZE - 1), k + 1 = counter
            PROVE  table[k] # CharOf[q]
        <5>1. k = counter - 1 /\ counter # 0
          BY <1>0, <4>1
        <5> QED
          BY <3>1, <3>2, <5>1 DEF LastIsMine
      <4> QED
        BY <3>1, <3>2, <4>1 DEF Fits
    <3>3. CASE p # q
      BY <3>1, <3>3 DEF Fits
    <3> QED
      BY <3>2, <3>3
  <2>4. CASE ~Store(p) /\ ~Incr(p) /\ ~MyTurn(p)
    <3>1. counter' = counter /\ table' = table
      BY <1>1, <2>1, <2>4 DEF Step, Stat, Open, Mmap, Lock, Return, ExitFull,
         NotFull, NotMyTurn, LockAgain, Unlock, BusError, Kill
    <3>2. pc'[q] = pc[q] \/ pc'[q] \notin {"store", "incr"}
      BY <1>1, <2>1, <2>4 DEF Step, Stat, Open, Mmap, Lock, Return, ExitFull,
         NotFull, NotMyTurn, LockAgain, Unlock, BusError, Kill, Goto
    <3> QED
      BY <3>1, <3>2 DEF Fits
  <2> QED
    BY <2>2, <2>3, <2>4
<1>2. CASE WriteBack
  <2>1. /\ counter' = counter /\ pc' = pc
        /\ \A k \in 0 .. (SIZE - 1) : table'[k] = table[k]
    BY <1>0, <1>2 DEF WriteBack, WarmFile, Cells
  <2> QED
    BY <1>0, <2>1 DEF Fits
<1>3. CASE UNCHANGED vars
  BY <1>3 DEF vars, Fits
<1> QED
  BY <1>1, <1>2, <1>3 DEF Next

THEOREM WarmInvariant == Spec => [](IInv /\ WarmInv)
<1>1. IInv /\ WarmInv /\ [Next]_vars => WarmInv'
  <2> SUFFICES ASSUME IInv, WarmInv, [Next]_vars, warm'
               PROVE  Complete'
    BY DEF WarmInv
  <2>1. warm /\ Complete
    BY DEF WarmInv, Next, vars
  <2> QED
    BY <2>1, WarmFileStep, TurnsStep, FitsStep DEF Complete
<1>2. Init /\ [][Next]_vars /\ []IInv => []WarmInv
  BY WarmInitInv, <1>1, PTL
<1> QED
  BY Invariant, <1>2, PTL DEF Spec

(* In a file that was complete when the processes started, no two counted  *)
(* characters in a row are equal, for any number of processes and whoever  *)
(* is killed.                                                              *)
THEOREM TurnsAreKept == Spec => []InTurns
<1>1. WarmInv => InTurns
  BY DEF WarmInv, Complete, InTurns
<1> QED
  BY <1>1, WarmInvariant, PTL

(* A counted character stays what it is and stays counted.                 *)
THEOREM NothingUncounted == Spec => CountedIsKept
<1>1. IInv /\ WarmInv /\ [Next]_vars =>
        [ warm => /\ counter' >= counter
                  /\ \A k \in Counted : table'[k] = table[k] ]_vars
  BY CountedStep DEF WarmInv
<1> QED
  BY <1>1, WarmInvariant, PTL DEF Spec, CountedIsKept

LEMMA LogInit == Init => Alt!Init
<1> SUFFICES ASSUME Init PROVE Alt!Init
  OBVIOUS
<1> DEFINE n == logged
<1>1. /\ n \in Nat /\ n <= SIZE
      /\ \A k \in 1 .. n : /\ table[k - 1] \in Chars
                           /\ k # 1 => table[k - 1] # table[k - 2]
  <2>1. CASE warm
    <3>1. /\ counter \in Nat /\ SIZE \in Nat
          /\ \A k \in Counted : table[k] \in Chars
          /\ InTurns
      BY <2>1, InitIInv, WarmInitInv, TurnAssumption
         DEF IInv, TypeOK, WarmInv, Complete
    <3>2. n \in Nat /\ n <= SIZE /\ n <= counter
      BY <3>1 DEF logged
    <3>3. ASSUME NEW k \in 1 .. n
          PROVE  /\ table[k - 1] \in Chars
                 /\ k # 1 => table[k - 1] # table[k - 2]
      <4>1. k - 1 \in Counted /\ (k - 1) - 1 = k - 2
        BY <3>1, <3>2 DEF Counted
      <4>2. k # 1 => k - 1 # 0
        OBVIOUS
      <4> QED
        BY <2>1, <3>1, <4>1, <4>2 DEF InTurns
    <3> QED
      BY <3>2, <3>3
  <2>2. CASE ~warm
    BY <2>2, TurnAssumption DEF logged
  <2> QED
    BY <2>1, <2>2
<1>2. log = [k \in 1 .. n |-> table[k - 1]]
  BY DEF log
<1> HIDE DEF n
<1>3. log \in Seq(Chars) /\ Len(log) = n
  <2>1. n \in Nat /\ \A k \in 1 .. n : table[k - 1] \in Chars
    BY <1>1
  <2> QED
    BY <1>2, <2>1
<1>4. ASSUME NEW k \in 2 .. n PROVE log[k] # log[k - 1]
  <2>1. k \in 1 .. n /\ k - 1 \in 1 .. n /\ k # 1 /\ (k - 1) - 1 = k - 2
    BY <1>1
  <2>2. table[k - 1] # table[k - 2]
    BY <1>1, <2>1
  <2>3. log[k] = table[k - 1] /\ log[k - 1] = table[k - 2]
    BY <1>2, <2>1
  <2> QED
    BY <2>2, <2>3
<1> QED
  BY <1>1, <1>3, <1>4 DEF Alt!Init, Alt!InTurns

LEMMA LogStep == IInv /\ warm /\ Complete /\ [Next]_vars => [Alt!Next]_log
<1> SUFFICES ASSUME IInv, warm, Complete, [Next]_vars PROVE [Alt!Next]_log
  OBVIOUS
<1>1. /\ counter \in Nat /\ SIZE \in Nat
      /\ \A k \in Counted : table[k] \in Chars
      /\ \A k \in Counted : table'[k] = table[k]
  BY CountedStep, TurnAssumption DEF IInv, TypeOK, Complete
<1>0. warm' = warm
  BY DEF Next, vars
<1> USE <1>0
<1>2. CASE counter' = counter \/ (counter' = counter + 1 /\ counter >= SIZE)
  <2>1. log' = log
    BY <1>1, <1>2 DEF log, logged, Counted
  <2> QED
    BY <2>1
<1>3. ASSUME NEW p \in Proc, Incr(p), counter < SIZE PROVE Alt!Next
  <2>1. pc[p] = "incr" /\ counter' = counter + 1 /\ table' = table
    BY <1>3 DEF Incr, Goto
  <2>2. table[counter] = CharOf[p] /\ CharOf[p] \in Chars
    BY <1>3, <2>1 DEF Complete, Fits, Chars
  <2>3. counter # 0 => table[counter - 1] # CharOf[p]
    <3>1. counter # 0 => counter - 1 \in 0 .. (SIZE - 1)
      BY <1>1, <1>3
    <3> QED
      BY <1>1, <2>1, <3>1 DEF Complete, Fits
  <2>4. log = [k \in 1 .. counter |-> table[k - 1]]
    BY <1>1, <1>3 DEF log, logged
  <2>5. log' = [k \in 1 .. (counter + 1) |-> table[k - 1]]
    BY <1>1, <1>3, <2>1 DEF log, logged
  <2>6. log \in Seq(Chars) /\ Len(log) = counter
    <3>1. \A k \in 1 .. counter : table[k - 1] \in Chars
      BY <1>1, <1>3 DEF Counted
    <3> QED
      BY <1>1, <2>4, <3>1
  <2>7. log' = Append(log, CharOf[p])
    BY <1>1, <2>2, <2>4, <2>5, <2>6
  <2>8. Len(log) # 0 => log[Len(log)] # CharOf[p]
    BY <1>1, <2>3, <2>4, <2>6
  <2> QED
    BY <1>3, <2>2, <2>6, <2>7, <2>8 DEF Alt!Next, Alt!Write
<1>4. counter' = counter \/ \E p \in Proc : Incr(p)
  BY DEF Next, Step, Stat, Open, ZeroCounter, ZeroCell, Mmap, Lock, Return,
     ExitFull, NotFull, NotMyTurn, LockAgain, MyTurn, Store, Unlock,
     BusError, Kill, WriteBack, vars, Complete, WarmFile, Goto
<1> QED
  BY <1>1, <1>2, <1>3, <1>4 DEF Incr

(* The processes implement the log of Alternation: every step appends one  *)
(* character different from the last one, or changes nothing of it.        *)
THEOREM TableIsLog == Spec => IsAlternation
<1>1. Init => Alt!Init
  BY LogInit
<1>2. IInv /\ WarmInv /\ [Next]_vars => [Alt!Next]_log
  <2> SUFFICES ASSUME IInv, WarmInv, [Next]_vars
               PROVE  [Alt!Next]_log
    OBVIOUS
  <2>1. CASE warm
    BY <2>1, LogStep DEF WarmInv
  <2>2. CASE ~warm
    <3>1. logged = 0 /\ logged' = 0
      BY <2>2 DEF logged, Next, vars
    <3> HIDE DEF logged
    <3>2. log' = log
      BY <3>1 DEF log
    <3> QED
      BY <3>2
  <2> QED
    BY <2>1, <2>2
<1> QED
  BY <1>1, <1>2, WarmInvariant, PTL DEF Spec, IsAlternation, Alt!Spec
=============================================================================
