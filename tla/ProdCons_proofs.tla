-------------------------- MODULE ProdCons_proofs --------------------------
(***************************************************************************)
(* What is proved of prodcons6.c for any number of producers, consumers    *)
(* and items: the accounting, the refinement of HandOff, and, by induction *)
(* over the subsets of a finite set, the printed totals.  With the same    *)
(* induction, what the loops of Algorithms compute for any input: the      *)
(* largest datagram, the bulk transfer, the temperature scripts and the    *)
(* answers of UNIX_TL.                                                     *)
(***************************************************************************)
EXTENDS ProdCons, Algorithms, FiniteSetTheorems, WellFoundedInduction, TLAPS

(* Each mutex is held by the thread that is between its lock and unlock.   *)
Owners ==
  /\ \A p \in Producers : pc[p] = "put" <=> putMutex = p
  /\ \A t \in Threads : pc[t] \in {"post", "gate", "test"} <=> readyMutex = t

(* The items are stored in order, each in the cell of its own number.      *)
Values ==
  /\ nval = nput
  /\ \A k \in Index : k < nput => buff[k] = k

IInv ==
  /\ TypeOK
  /\ Owners
  /\ Values
  /\ Accounting
  /\ OneInside
  /\ NoLostWakeup
  /\ ItemForEachInside

(* What Post does to the threads: the poster goes on, and if nothing was   *)
(* ready and somebody sleeps, one sleeper is woken.                        *)
LEMMA PostMoves ==
  ASSUME TypeOK, NEW p \in Producers, Post(p)
  PROVE  /\ pc' \in [Threads -> ProducerAt \cup ConsumerAt]
         /\ pc[p] = "post" /\ pc'[p] = "count"
         /\ \A t \in Producers \ {p} : pc'[t] = pc[t]
         /\ \A c \in Consumers : \/ pc'[c] = pc[c]
                                 \/ pc[c] = "asleep" /\ pc'[c] = "relock"
         /\ nready = 0 /\ Sleeping # {} =>
              \E c \in Sleeping : pc'[c] = "relock"
<1> USE ThreadAssumption DEF TypeOK, ProducerAt, ConsumerAt, Threads
<1>1. pc[p] = "post" /\ p \notin Consumers
  BY DEF Post
<1>2. CASE nready = 0 /\ Sleeping # {}
  <2>1. PICK c \in Sleeping : pc' = [[pc EXCEPT ![p] = "count"] EXCEPT ![c] = "relock"]
    BY <1>2 DEF Post, Signal
  <2>2. c \in Consumers /\ pc[c] = "asleep" /\ c # p /\ c \notin Producers
    BY <1>1, <2>1 DEF Sleeping
  <2> QED
    BY <1>1, <2>1, <2>2
<1>3. CASE ~(nready = 0 /\ Sleeping # {})
  <2>1. pc' = [pc EXCEPT ![p] = "count"]
    BY <1>3 DEF Post, Signal
  <2> QED
    BY <1>1, <1>3, <2>1
<1> QED
  BY <1>2, <1>3

LEMMA InitIInv == Init => IInv
<1> SUFFICES ASSUME Init PROVE IInv
  OBVIOUS
<1> USE ThreadAssumption DEF Init
<1>0. \A t \in Threads : pc[t] = "new" /\ t # NoThread
  OBVIOUS
<1>1. TypeOK
  <2>1. /\ pc \in [Threads -> ProducerAt \cup ConsumerAt]
        /\ \A p \in Producers : pc[p] \in ProducerAt
        /\ \A c \in Consumers : pc[c] \in ConsumerAt
    BY DEF ProducerAt, ConsumerAt, Threads
  <2>2. count \in [Threads -> Nat]
    <3>1. count = [t \in Threads |-> 0]
      OBVIOUS
    <3> HIDE DEF Init
    <3> QED
      BY <3>1
  <2>3. buff \in [Index -> Nat]
    <3>1. buff = [k \in Index |-> 0]
      OBVIOUS
    <3> HIDE DEF Init
    <3> QED
      BY <3>1
  <2>4. /\ putMutex \in Producers \cup {NoThread}
        /\ readyMutex \in Threads \cup {NoThread}
        /\ nput \in 0 .. nitems /\ nval \in Nat
        /\ nready \in Nat /\ nget \in Nat /\ nconsumer \in Int
    OBVIOUS
  <2>5. exited \in BOOLEAN
    <3>1. exited = FALSE
      OBVIOUS
    <3> HIDE DEF Init
    <3> QED
      BY <3>1
  <2> HIDE DEF Init
  <2> QED
    BY <2>1, <2>2, <2>3, <2>4, <2>5 DEF TypeOK
<1>2. Owners /\ Values
  <2>1. \A p \in Producers : p \in Threads
    BY DEF Threads
  <2>2. Owners
    BY <1>0, <2>1 DEF Owners
  <2>3. Values
    BY DEF Values, Index
  <2> QED
    BY <2>2, <2>3
<1>3. Posting = {} /\ Inside = {} /\ Sleeping = {}
  BY DEF Posting, Inside, Sleeping, Threads
<1>4. Accounting /\ OneInside /\ NoLostWakeup /\ ItemForEachInside
  BY <1>3, FS_EmptySet DEF Accounting, OneInside, NoLostWakeup, ItemForEachInside
<1> QED
  BY <1>1, <1>2, <1>4 DEF IInv

LEMMA LocationStep ==
  ASSUME TypeOK, Next
  PROVE  /\ pc' \in [Threads -> ProducerAt \cup ConsumerAt]
         /\ \A p \in Producers : pc'[p] \in ProducerAt
         /\ \A c \in Consumers : pc'[c] \in ConsumerAt
<1> USE ThreadAssumption DEF TypeOK, ProducerAt, ConsumerAt, Threads
<1>1. CASE \E t \in Threads : Create(t)
  BY <1>1 DEF Create, Goto
<1>2. CASE Exit
  BY <1>2 DEF Exit
<1>3. ASSUME NEW p \in Producers, Producer(p), ~Post(p)
      PROVE  \E l \in ProducerAt : pc' = [pc EXCEPT ![p] = l]
  BY <1>3 DEF Producer, LockPut, ArrayFull, Put, LockReady, CountPut, Goto
<1>4. ASSUME NEW p \in Producers, Post(p)
      PROVE  /\ pc' \in [Threads -> ProducerAt \cup ConsumerAt]
             /\ \A q \in Producers : pc'[q] \in ProducerAt
             /\ \A c \in Consumers : pc'[c] \in ConsumerAt
  BY <1>4, PostMoves
<1>5. ASSUME NEW c \in Consumers, Consumer(c) \/ WakeUnsignalled(c)
      PROVE  \E l \in ConsumerAt : pc' = [pc EXCEPT ![c] = l]
  BY <1>5 DEF Consumer, LockGate, GateClosed, AllTaken, EnterGate, CondWait,
     Relock, Take, CountTake, WakeUnsignalled, Goto
<1>6. CASE \E p \in Producers : Producer(p) /\ ~Post(p)
  <2>1. PICK p \in Producers : Producer(p) /\ ~Post(p)
    BY <1>6
  <2>2. PICK l \in ProducerAt : pc' = [pc EXCEPT ![p] = l]
    BY <1>3, <2>1
  <2> QED
    BY <2>2
<1>7. CASE \E c \in Consumers : Consumer(c) \/ WakeUnsignalled(c)
  <2>1. PICK c \in Consumers : Consumer(c) \/ WakeUnsignalled(c)
    BY <1>7
  <2>2. PICK l \in ConsumerAt : pc' = [pc EXCEPT ![c] = l]
    BY <1>5, <2>1
  <2> QED
    BY <2>2
<1> QED
  BY <1>1, <1>2, <1>4, <1>6, <1>7 DEF Next, Producer

(* Which steps change which of the shared variables.                       *)
LEMMA Frames ==
  ASSUME [Next]_vars
  PROVE  /\ \/ nput' = nput /\ nval' = nval /\ buff' = buff
            \/ \E p \in Producers : Put(p)
         /\ \/ nready' = nready /\ nget' = nget /\ nconsumer' = nconsumer
            \/ \E p \in Producers : Post(p)
            \/ \E c \in Consumers : EnterGate(c) \/ Take(c)
         /\ \/ count' = count
            \/ \E p \in Producers : CountPut(p)
            \/ \E c \in Consumers : CountTake(c)
<1>1. \/ nput' = nput /\ nval' = nval /\ buff' = buff
      \/ \E p \in Producers : Put(p)
  BY DEF Next, Create, Exit, Producer, LockPut, ArrayFull, LockReady,
     Post, CountPut, Consumer, LockGate, GateClosed, AllTaken, EnterGate,
     CondWait, Relock, Take, CountTake, WakeUnsignalled, put, ready, vars
<1>2. \/ nready' = nready /\ nget' = nget /\ nconsumer' = nconsumer
      \/ \E p \in Producers : Post(p)
      \/ \E c \in Consumers : EnterGate(c) \/ Take(c)
  BY DEF Next, Create, Exit, Producer, LockPut, ArrayFull, Put, LockReady,
     CountPut, Consumer, LockGate, GateClosed, AllTaken, CondWait, Relock,
     CountTake, WakeUnsignalled, put, ready, vars
<1>3. \/ count' = count
      \/ \E p \in Producers : CountPut(p)
      \/ \E c \in Consumers : CountTake(c)
  BY DEF Next, Create, Exit, Producer, LockPut, ArrayFull, Put, LockReady,
     Post, Consumer, LockGate, GateClosed, AllTaken, EnterGate, CondWait,
     Relock, Take, WakeUnsignalled, put, ready, vars
<1> QED
  BY <1>1, <1>2, <1>3

LEMMA TypeStep == IInv /\ [Next]_vars => TypeOK'
<1> SUFFICES ASSUME IInv, [Next]_vars PROVE TypeOK'
  OBVIOUS
<1> USE ThreadAssumption DEF IInv
<1>1. CASE UNCHANGED vars
  BY <1>1 DEF vars, put, ready, TypeOK
<1>2. CASE Next
  <2>1. /\ putMutex' \in Producers \cup {NoThread}
        /\ readyMutex' \in Threads \cup {NoThread}
        /\ exited' \in BOOLEAN
    BY <1>2 DEF Next, Create, Exit, Producer, LockPut, ArrayFull, Put, LockReady,
       Post, CountPut, Consumer, LockGate, GateClosed, AllTaken, EnterGate,
       CondWait, Relock, Take, CountTake, WakeUnsignalled, put, ready, TypeOK,
       Threads
  <2>2. nput' \in 0 .. nitems /\ nval' \in Nat /\ buff' \in [Index -> Nat]
    BY Frames DEF TypeOK, Put
  <2>3. nready' \in Nat /\ nget' \in Nat /\ nconsumer' \in Int
    <3>1. ASSUME NEW p \in Producers, Post(p)
          PROVE  nready' = nready + 1 /\ nget' = nget /\ nconsumer' = nconsumer
      BY <3>1 DEF Post
    <3>2. ASSUME NEW c \in Consumers, EnterGate(c)
          PROVE  nready' = nready /\ nget' = nget /\ nconsumer' = nconsumer + 1
      BY <3>2 DEF EnterGate
    <3>3. ASSUME NEW c \in Consumers, Take(c)
          PROVE  /\ nready # 0 /\ nready' = nready - 1
                 /\ nget' = nget + 1 /\ nconsumer' = nconsumer - 1
      BY <3>3 DEF Take
    <3> QED
      BY Frames, <3>1, <3>2, <3>3 DEF TypeOK
  <2>4. count' \in [Threads -> Nat]
    BY Frames DEF TypeOK, CountPut, CountTake
  <2> QED
    BY <1>2, <2>1, <2>2, <2>3, <2>4, LocationStep DEF TypeOK
<1> QED
  BY <1>1, <1>2

LEMMA OwnersStep == IInv /\ [Next]_vars => Owners'
<1> SUFFICES ASSUME IInv, [Next]_vars PROVE Owners'
  OBVIOUS
<1> USE ThreadAssumption DEF IInv, Owners
<1>1. CASE UNCHANGED vars
  BY <1>1 DEF vars, put, ready
<1>2. ASSUME NEW t \in Threads, Create(t) PROVE Owners'
  BY <1>2 DEF Create, Goto, put, ready, TypeOK, Threads
<1>3. CASE Exit
  BY <1>3 DEF Exit, put, ready
<1>4. ASSUME NEW p \in Producers, Producer(p), ~Post(p) PROVE Owners'
  BY <1>4 DEF Producer, LockPut, ArrayFull, Put, LockReady, CountPut, Goto,
     put, ready, TypeOK, Threads, ProducerAt, ConsumerAt
<1>5. ASSUME NEW p \in Producers, Post(p) PROVE Owners'
  <2>1. putMutex' = putMutex /\ readyMutex' = NoThread /\ readyMutex = p
    BY <1>5 DEF Post, put, Threads
  <2>2. \A q \in Producers : pc'[q] = "put" <=> pc[q] = "put"
    BY <1>5, PostMoves
  <2>3. \A t \in Threads : pc'[t] \notin {"post", "gate", "test"}
    BY <1>5, <2>1, PostMoves DEF Threads, TypeOK, ProducerAt, ConsumerAt
  <2> QED
    BY <2>1, <2>2, <2>3
<1>6. ASSUME NEW c \in Consumers, Consumer(c) \/ WakeUnsignalled(c) PROVE Owners'
  BY <1>6 DEF Consumer, LockGate, GateClosed, AllTaken, EnterGate, CondWait,
     Relock, Take, CountTake, WakeUnsignalled, Goto,
     put, ready, TypeOK, Threads, ProducerAt, ConsumerAt
<1> QED
  BY <1>1, <1>2, <1>3, <1>4, <1>5, <1>6 DEF Next

LEMMA ValuesStep == IInv /\ [Next]_vars => Values'
<1> SUFFICES ASSUME IInv, [Next]_vars PROVE Values'
  OBVIOUS
<1>1. CASE nput' = nput /\ nval' = nval /\ buff' = buff
  BY <1>1 DEF IInv, Values, Index
<1>2. ASSUME NEW p \in Producers, Put(p) PROVE Values'
  <2>1. /\ nput' = nput + 1 /\ nval' = nval + 1
        /\ buff' = [buff EXCEPT ![nput] = nval]
        /\ nput \in Nat /\ buff \in [Index -> Nat] /\ nput \in Index
    BY <1>2, ThreadAssumption DEF Put, IInv, TypeOK, Index
  <2>2. nval = nput /\ \A k \in Index : k < nput => buff[k] = k
    BY DEF IInv, Values
  <2>3. ASSUME NEW k \in Index, k < nput + 1 PROVE buff'[k] = k
    BY <2>1, <2>2, <2>3 DEF Index
  <2> QED
    BY <2>1, <2>2, <2>3 DEF Values, Index
<1> QED
  BY Frames, <1>1, <1>2

(* Two sets of threads that a step moves a thread into or out of.          *)
LEMMA PostingStep ==
  ASSUME IInv, [Next]_vars
  PROVE  /\ IsFiniteSet(Posting) /\ Cardinality(Posting) \in Nat
         /\ \A p \in Producers : Put(p) =>
              Cardinality(Posting') = Cardinality(Posting) + 1
         /\ \A p \in Producers : Post(p) =>
              Cardinality(Posting') = Cardinality(Posting) - 1
         /\ (\A p \in Producers : ~Put(p) /\ ~Post(p)) => Posting' = Posting
<1> USE ThreadAssumption DEF IInv
<1>1. IsFiniteSet(Posting) /\ Cardinality(Posting) \in Nat
  BY FS_Subset, FS_CardinalityType DEF Posting
<1>2. ASSUME NEW p \in Producers, Put(p)
      PROVE  Cardinality(Posting') = Cardinality(Posting) + 1
  <2>1. p \notin Posting /\ Posting' = Posting \cup {p}
    BY <1>2 DEF Put, Goto, Posting, TypeOK, Threads
  <2> QED
    BY <1>1, <2>1, FS_AddElement
<1>3. ASSUME NEW p \in Producers, Post(p)
      PROVE  Cardinality(Posting') = Cardinality(Posting) - 1
  <2>1. p \in Posting /\ Posting' = Posting \ {p}
    BY <1>3, PostMoves DEF Posting
  <2> QED
    BY <1>1, <2>1, FS_RemoveElement
<1>4. ASSUME \A p \in Producers : ~Put(p) /\ ~Post(p)
      PROVE  Posting' = Posting
  BY <1>4 DEF Next, Create, Exit, Producer, LockPut, ArrayFull, LockReady,
     CountPut, Consumer, LockGate, GateClosed, AllTaken, EnterGate,
     CondWait, Relock, Take, CountTake, WakeUnsignalled, vars, Goto, Posting,
     TypeOK, Threads
<1> QED
  BY <1>1, <1>2, <1>3, <1>4

LEMMA InsideStep ==
  ASSUME IInv, [Next]_vars
  PROVE  /\ IsFiniteSet(Inside) /\ Cardinality(Inside) \in Nat
         /\ \A c \in Consumers : EnterGate(c) =>
              Cardinality(Inside') = Cardinality(Inside) + 1
         /\ \A c \in Consumers : Take(c) =>
              Cardinality(Inside') = Cardinality(Inside) - 1
         /\ (\A c \in Consumers : ~EnterGate(c) /\ ~Take(c)) => Inside' = Inside
<1> USE ThreadAssumption DEF IInv
<1>1. IsFiniteSet(Inside) /\ Cardinality(Inside) \in Nat
  BY FS_Subset, FS_CardinalityType DEF Inside
<1>2. ASSUME NEW c \in Consumers, EnterGate(c)
      PROVE  Cardinality(Inside') = Cardinality(Inside) + 1
  <2>1. c \notin Inside /\ Inside' = Inside \cup {c}
    BY <1>2 DEF EnterGate, Goto, Inside, TypeOK, Threads
  <2> QED
    BY <1>1, <2>1, FS_AddElement
<1>3. ASSUME NEW c \in Consumers, Take(c)
      PROVE  Cardinality(Inside') = Cardinality(Inside) - 1
  <2>1. c \in Inside /\ Inside' = Inside \ {c}
    BY <1>3 DEF Take, Goto, Inside, TypeOK, Threads
  <2> QED
    BY <1>1, <2>1, FS_RemoveElement
<1>4. ASSUME \A c \in Consumers : ~EnterGate(c) /\ ~Take(c)
      PROVE  Inside' = Inside
  <2>1. ASSUME NEW p \in Producers, Post(p) PROVE Inside' = Inside
    BY <2>1, PostMoves DEF Inside
  <2>2. CASE \A p \in Producers : ~Post(p)
    BY <1>4, <2>2 DEF Next, Create, Exit, Producer, LockPut, ArrayFull, Put,
       LockReady, CountPut, Consumer, LockGate, GateClosed, AllTaken, CondWait,
       Relock, CountTake, WakeUnsignalled, vars, Goto, Inside, TypeOK, Threads
  <2> QED
    BY <2>1, <2>2
<1> QED
  BY <1>1, <1>2, <1>3, <1>4

LEMMA AccountingStep == IInv /\ [Next]_vars => Accounting'
<1> SUFFICES ASSUME IInv, [Next]_vars PROVE Accounting'
  OBVIOUS
<1>0. /\ nready \in Nat /\ nget \in Nat /\ nput \in Nat
      /\ Cardinality(Posting) \in Nat
      /\ nready + nget + Cardinality(Posting) = nput
  BY PostingStep DEF IInv, TypeOK, Accounting
<1>1. ASSUME NEW p \in Producers, Put(p) PROVE Accounting'
  <2>1. nput' = nput + 1 /\ nready' = nready /\ nget' = nget
    BY <1>1 DEF Put, ready
  <2> QED
    BY <1>0, <1>1, <2>1, PostingStep DEF Accounting
<1>2. ASSUME NEW p \in Producers, Post(p) PROVE Accounting'
  <2>1. nput' = nput /\ nready' = nready + 1 /\ nget' = nget
    BY <1>2 DEF Post, put
  <2> QED
    BY <1>0, <1>2, <2>1, PostingStep DEF Accounting
<1>3. CASE \A p \in Producers : ~Put(p) /\ ~Post(p)
  <2>1. nput' = nput /\ Posting' = Posting
    BY <1>3, Frames, PostingStep
  <2>2. nready' + nget' = nready + nget
    <3>1. ASSUME NEW c \in Consumers, EnterGate(c) \/ Take(c)
          PROVE  nready' + nget' = nready + nget
      BY <1>0, <3>1 DEF EnterGate, Take
    <3> QED
      BY <1>3, <3>1, Frames
  <2>3. nready' \in Nat /\ nget' \in Nat
    BY TypeStep DEF TypeOK
  <2> QED
    BY <1>0, <2>1, <2>2, <2>3 DEF Accounting
<1> QED
  BY <1>1, <1>2, <1>3

LEMMA GateStep == IInv /\ [Next]_vars => OneInside' /\ ItemForEachInside'
<1> SUFFICES ASSUME IInv, [Next]_vars PROVE OneInside' /\ ItemForEachInside'
  OBVIOUS
<1>0. /\ nget \in Nat /\ nconsumer \in Int /\ nitems \in Nat
      /\ Cardinality(Inside) \in Nat
      /\ nconsumer = Cardinality(Inside) /\ nconsumer <= 1
      /\ nget + nconsumer <= nitems
  BY InsideStep, ThreadAssumption DEF IInv, TypeOK, OneInside, ItemForEachInside
<1>1. ASSUME NEW c \in Consumers, EnterGate(c)
      PROVE  OneInside' /\ ItemForEachInside'
  <2>1. nconsumer <= 0 /\ nconsumer' = nconsumer + 1 /\ nget' = nget /\ nget < nitems
    BY <1>1 DEF EnterGate
  <2> QED
    BY <1>0, <1>1, <2>1, InsideStep DEF OneInside, ItemForEachInside
<1>2. ASSUME NEW c \in Consumers, Take(c)
      PROVE  OneInside' /\ ItemForEachInside'
  <2>1. nconsumer' = nconsumer - 1 /\ nget' = nget + 1
    BY <1>2 DEF Take
  <2> QED
    BY <1>0, <1>2, <2>1, InsideStep DEF OneInside, ItemForEachInside
<1>3. CASE \A c \in Consumers : ~EnterGate(c) /\ ~Take(c)
  <2>1. nconsumer' = nconsumer /\ nget' = nget
    BY <1>3, Frames DEF Post
  <2>2. Inside' = Inside
    BY <1>3, InsideStep
  <2> QED
    BY <1>0, <2>1, <2>2 DEF OneInside, ItemForEachInside
<1> QED
  BY <1>1, <1>2, <1>3

(* The last sleeper: everyone who sleeps is inside the gate.               *)
LEMMA SleeperIsAlone ==
  ASSUME IInv, NEW c \in Sleeping, NEW d \in Sleeping
  PROVE  c = d
<1>1. IsFiniteSet(Inside) /\ Cardinality(Inside) <= 1 /\ {c, d} \subseteq Inside
  BY ThreadAssumption, FS_Subset DEF Inside, Sleeping, IInv, OneInside
<1>2. Cardinality(Inside \ {c}) = Cardinality(Inside) - 1
  BY <1>1, FS_RemoveElement
<1>3. Cardinality(Inside \ {c}) \in Nat /\ Cardinality(Inside) \in Nat
  BY <1>1, FS_Subset, FS_CardinalityType
<1>4. Cardinality(Inside \ {c}) = 0 /\ IsFiniteSet(Inside \ {c})
  BY <1>1, <1>2, <1>3, FS_Subset
<1> QED
  BY <1>1, <1>4, FS_EmptySet

LEMMA WakeupStep == IInv /\ [Next]_vars => NoLostWakeup'
<1> SUFFICES ASSUME IInv, [Next]_vars, Sleeping' # {} PROVE nready' = 0
  BY DEF NoLostWakeup
<1> USE ThreadAssumption
<1>0. (Sleeping # {} => nready = 0) /\ nready \in Nat
  BY DEF IInv, NoLostWakeup, TypeOK
<1>1. ASSUME NEW p \in Producers, Post(p) PROVE nready' = 0
  <2>1. PICK d \in Sleeping' : TRUE
    OBVIOUS
  <2>2. d \in Consumers /\ pc'[d] = "asleep" /\ d \in Sleeping
    BY <1>1, <2>1, PostMoves DEF Sleeping, IInv
  <2>3. PICK c \in Sleeping : pc'[c] = "relock"
    BY <1>0, <1>1, <2>2, PostMoves DEF IInv
  <2>4. c = d
    BY <2>2, <2>3, SleeperIsAlone
  <2> QED
    BY <2>2, <2>3, <2>4
<1>2. ASSUME NEW c \in Consumers, Take(c) PROVE nready' = 0
  <2>1. nready # 0 /\ Sleeping' = Sleeping
    BY <1>2 DEF Take, Goto, Sleeping, IInv, TypeOK, Threads
  <2> QED
    BY <1>0, <2>1
<1>3. ASSUME NEW c \in Consumers, CondWait(c) PROVE nready' = 0
  BY <1>3 DEF CondWait
<1>4. CASE /\ \A p \in Producers : ~Post(p)
           /\ \A c \in Consumers : ~Take(c) /\ ~CondWait(c)
  <2>1. nready' = nready
    BY <1>4, Frames DEF EnterGate
  <2>2. Sleeping' \subseteq Sleeping
    BY <1>4 DEF Next, Create, Exit, Producer, LockPut, ArrayFull, Put,
       LockReady, CountPut, Consumer, LockGate, GateClosed, AllTaken, EnterGate,
       Relock, CountTake, WakeUnsignalled, vars, Goto, Sleeping, IInv, TypeOK,
       Threads
  <2> QED
    BY <1>0, <2>1, <2>2
<1> QED
  BY <1>1, <1>2, <1>3, <1>4

(* The inductive invariant of prodcons6.c.                                 *)
THEOREM Invariance == Spec => []IInv
<1>1. IInv /\ [Next]_vars => IInv'
  BY TypeStep, OwnersStep, ValuesStep, AccountingStep, GateStep, WakeupStep
     DEF IInv
<1> QED
  BY InitIInv, <1>1, PTL DEF Spec

(* No variable leaves its type: the array is only stored to inside its     *)
(* first nitems cells, and no counter becomes negative.                    *)
THEOREM TypeCorrect == Spec => []TypeOK
BY Invariance, PTL DEF IInv

(* Stored items are ready, taken or about to be posted, at every moment.   *)
THEOREM AccountingHolds == Spec => []Accounting
BY Invariance, PTL DEF IInv

(* Signalling only when nready is 0 loses no wake-up, however many         *)
(* consumers there are, because one at a time is inside the gate.          *)
THEOREM NoWakeupLost == Spec => [](OneInside /\ NoLostWakeup)
BY Invariance, PTL DEF IInv

(* A consumer inside the gate has an item to come, so none is left asleep. *)
THEOREM ItemToCome == Spec => []ItemForEachInside
BY Invariance, PTL DEF IInv

LEMMA HandInit == Init => Hand!Init
<1> SUFFICES ASSUME Init PROVE Hand!Init
  OBVIOUS
<1>1. nput = 0 /\ nget = 0
  BY DEF Init
<1> QED
  BY <1>1 DEF Hand!Init

LEMMA HandStep ==
  IInv /\ [Next]_vars =>
    [Hand!Next]_<<[k \in 1 .. nput |-> buff[k - 1]], nget>>
<1> SUFFICES ASSUME IInv, [Next]_vars
             PROVE  [Hand!Next]_<<[k \in 1 .. nput |-> buff[k - 1]], nget>>
  OBVIOUS
<1> DEFINE stored == [k \in 1 .. nput |-> buff[k - 1]]
<1>0. nput \in Nat /\ buff \in [Index -> Nat] /\ nitems \in Nat /\ nput <= nitems
  BY ThreadAssumption DEF IInv, TypeOK
<1>1. stored \in Seq(Nat) /\ Len(stored) = nput
  <2>1. \A k \in 1 .. nput : k - 1 \in Index
    BY <1>0 DEF Index
  <2> QED
    BY <1>0, <2>1
<1>2. ASSUME NEW p \in Producers, Put(p) PROVE Hand!Produce
  <2>1. /\ nput < nitems /\ nput' = nput + 1 /\ nget' = nget
        /\ buff' = [buff EXCEPT ![nput] = nval] /\ nval = nput
        /\ nput \in Index
    BY <1>0, <1>2 DEF Put, ready, IInv, Values, Index
  <2>2. stored' = [k \in 1 .. (nput + 1) |-> buff'[k - 1]]
    BY <2>1
  <2>3. \A k \in 1 .. (nput + 1) :
          buff'[k - 1] = IF k = nput + 1 THEN nput ELSE buff[k - 1]
    BY <1>0, <2>1 DEF Index
  <2>4. Append(stored, nput) =
          [k \in 1 .. (nput + 1) |-> IF k = nput + 1 THEN nput ELSE buff[k - 1]]
    BY <1>0, <1>1
  <2>5. stored' = Append(stored, Len(stored))
    BY <1>1, <2>2, <2>3, <2>4
  <2> QED
    BY <1>1, <2>1, <2>5 DEF Hand!Produce
<1>3. ASSUME NEW c \in Consumers, Take(c) PROVE Hand!Consume
  <2>1. nready # 0 /\ nget' = nget + 1 /\ nput' = nput /\ buff' = buff
    BY <1>3 DEF Take, put
  <2>2. nget < nput
    BY <2>1, PostingStep DEF IInv, TypeOK, Accounting
  <2>3. stored' = stored
    BY <2>1
  <2> QED
    BY <1>1, <2>1, <2>2, <2>3 DEF Hand!Consume
<1>4. CASE (\A p \in Producers : ~Put(p)) /\ (\A c \in Consumers : ~Take(c))
  <2>1. nput' = nput /\ buff' = buff /\ nget' = nget
    BY <1>4, Frames DEF Post, EnterGate
  <2>2. stored' = stored
    BY <2>1
  <2> QED
    BY <2>1, <2>2
<1> QED
  BY <1>2, <1>3, <1>4 DEF Hand!Next

(* Every step of the threads is a step of HandOff or changes nothing that  *)
(* HandOff sees: items are stored in order, and each is handed out once    *)
(* and not before it was stored.                                           *)
THEOREM ImplementsHandOff == Spec => IsHandOff
<1>1. IInv /\ [Next]_vars =>
        [Hand!Next]_<<[k \in 1 .. nput |-> buff[k - 1]], nget>>
  BY HandStep
<1> QED
  BY HandInit, <1>1, Invariance, PTL DEF Spec, IsHandOff, Hand!Spec
-----------------------------------------------------------------------------
(* Induction over the subsets of a finite set: if some of them are bad,    *)
(* there is a bad one all of whose proper subsets are good.                *)
LEMMA MinimalSubset ==
  ASSUME NEW S, IsFiniteSet(S), NEW Bad, Bad \subseteq SUBSET S, Bad # {}
  PROVE  \E X \in Bad : \A Y \in Bad : Y \subseteq X => Y = X
<1>1. IsWellFoundedOn(StrictSubsetOrdering(S), FiniteSubsetsOf(S))
  BY FS_StrictSubsetOrderingWellFounded
<1>2. Bad \subseteq FiniteSubsetsOf(S)
  BY FS_FiniteSubsetsOfFinite
<1>3. PICK X \in Bad : \A Y \in Bad : ~(<<Y, X>> \in StrictSubsetOrdering(S))
  BY <1>1, <1>2, WFMin
<1>4. \A Y \in Bad : Y \subseteq X /\ Y # X => <<Y, X>> \in StrictSubsetOrdering(S)
  BY DEF StrictSubsetOrdering
<1>5. \A Y \in Bad : Y \subseteq X => Y = X
  BY <1>3, <1>4
<1> QED
  BY <1>5

(* The function that a fold over S computes with, defined for all subsets  *)
(* of X: the fold over a set is one step, for the element that is picked,  *)
(* from the fold over the others.                                          *)
FoldsOver(g, step, base, pick, X) ==
  g = [s \in SUBSET X |->
         IF s = {} THEN base ELSE step[<<pick[s], g[s \ {pick[s]}]>>]]

Picks(pick, S) == \A s \in SUBSET S : s # {} => pick[s] \in s

(* Two of them agree where both are defined, and there is one for every    *)
(* finite set.                                                             *)
LEMMA FoldUnique ==
  ASSUME NEW S, IsFiniteSet(S), NEW step, NEW base, NEW pick, Picks(pick, S),
         NEW X \in SUBSET S, NEW Y \in SUBSET S, NEW g, NEW h,
         FoldsOver(g, step, base, pick, X), FoldsOver(h, step, base, pick, Y),
         NEW s \in SUBSET (X \cap Y)
  PROVE  g[s] = h[s]
<1> DEFINE Bad == {t \in SUBSET (X \cap Y) : g[t] # h[t]}
<1> SUFFICES ASSUME Bad # {} PROVE FALSE
  OBVIOUS
<1>1. PICK t \in Bad : \A u \in Bad : u \subseteq t => u = t
  <2>1. Bad \subseteq SUBSET S
    OBVIOUS
  <2> HIDE DEF Bad
  <2> QED
    BY <2>1, MinimalSubset
<1>2. t # {}
  BY DEF FoldsOver
<1> DEFINE u == t \ {pick[t]}
<1>3. u \in SUBSET (X \cap Y) /\ g[u] = h[u]
  <2>1. pick[t] \in t
    BY <1>1, <1>2 DEF Picks
  <2> QED
    BY <1>1, <2>1
<1>4. g[t] = step[<<pick[t], g[u]>>] /\ h[t] = step[<<pick[t], h[u]>>]
  BY <1>2 DEF FoldsOver
<1> QED
  BY <1>3, <1>4

LEMMA FoldExists ==
  ASSUME NEW S, IsFiniteSet(S), NEW V, NEW base \in V, NEW step \in [S \X V -> V],
         NEW pick, Picks(pick, S)
  PROVE  \E g \in [SUBSET S -> V] : FoldsOver(g, step, base, pick, S)
<1> DEFINE Is(g, X) == g \in [SUBSET X -> V] /\ FoldsOver(g, step, base, pick, X)
           Bad == {X \in SUBSET S : ~ \E g : Is(g, X)}
<1> SUFFICES ASSUME Bad # {} PROVE FALSE
  OBVIOUS
<1>1. PICK X \in Bad : \A Y \in Bad : Y \subseteq X => Y = X
  <2>1. Bad \subseteq SUBSET S
    OBVIOUS
  <2> HIDE DEF Bad
  <2> QED
    BY <2>1, MinimalSubset
<1> DEFINE G(Y) == CHOOSE g : Is(g, Y)
           P(s) == s \ {pick[s]}
<1>2. ASSUME NEW Y \in SUBSET X, Y # X PROVE Is(G(Y), Y)
  BY <1>1, <1>2
<1> HIDE DEF G
<1> DEFINE value(s) == IF s = {} THEN base ELSE step[<<pick[s], G(P(s))[P(s)]>>]
<1> DEFINE g == [s \in SUBSET X |-> value(s)]
<1>3. ASSUME NEW s \in SUBSET X, s # {}
      PROVE  pick[s] \in s /\ pick[s] \in S /\ P(s) \in SUBSET s /\ P(s) \in SUBSET X /\ P(s) # X
  BY <1>1, <1>3 DEF Picks
<1> HIDE DEF P
<1>4. ASSUME NEW s \in SUBSET X, s # {} PROVE G(P(s))[P(s)] \in V
  <2> DEFINE u == P(s)
  <2>1. Is(G(u), u)
    BY <1>2, <1>3, <1>4
  <2>2. u \in SUBSET u
    OBVIOUS
  <2> HIDE DEF u
  <2>3. G(u)[u] \in V
    BY <2>1, <2>2
  <2> QED
    BY <2>3 DEF u
<1>5. ASSUME NEW s \in SUBSET X PROVE value(s) \in V
  BY <1>3, <1>4
<1>6. ASSUME NEW s \in SUBSET X, s # X PROVE value(s) = G(s)[s]
  <2>1. FoldsOver(G(s), step, base, pick, s)
    BY <1>2, <1>6
  <2>2. CASE s = {}
    BY <2>1, <2>2 DEF FoldsOver
  <2>3. CASE s # {}
    <3>1. P(s) \in SUBSET s /\ P(s) \in SUBSET X /\ P(s) # X /\ s \in SUBSET S /\ P(s) \in SUBSET S
      BY <1>3, <1>6, <2>3
    <3>2. FoldsOver(G(P(s)), step, base, pick, P(s))
      BY <1>2, <3>1
    <3>3. G(s)[P(s)] = G(P(s))[P(s)]
      BY <2>1, <3>1, <3>2, FoldUnique
    <3>4. G(s)[s] = step[<<pick[s], G(s)[P(s)]>>]
      BY <2>1, <2>3 DEF FoldsOver, P
    <3> QED
      BY <2>3, <3>3, <3>4
  <2> QED
    BY <2>2, <2>3
<1>7. ASSUME NEW s \in SUBSET X
      PROVE  g[s] = IF s = {} THEN base ELSE step[<<pick[s], g[P(s)]>>]
  <2>1. CASE s = {}
    BY <2>1
  <2>2. CASE s # {}
    <3>1. g[P(s)] = value(P(s)) /\ value(P(s)) = G(P(s))[P(s)]
      BY <1>3, <1>6, <2>2
    <3>2. g[s] = value(s)
      OBVIOUS
    <3> QED
      BY <2>2, <3>1, <3>2
  <2> QED
    BY <2>1, <2>2
<1>8. g \in [SUBSET X -> V]
  BY <1>5
<1>9. FoldsOver(g, step, base, pick, X)
  <2> HIDE DEF g
  <2>1. g = [s \in SUBSET X |-> g[s]]
    BY DEF g
  <2> QED
    BY <1>7, <2>1 DEF FoldsOver, P
<1> QED
  BY <1>1, <1>8, <1>9

(* The sum of f over a set is one of its terms and the sum over the other  *)
(* elements.                                                               *)
First(s) == CHOOSE x \in s : TRUE
Others(s) == s \ {First(s)}

Adds(g, f, X) ==
  g = [s \in SUBSET X |-> IF s = {} THEN 0 ELSE f[First(s)] + g[Others(s)]]

LEMMA OthersAreFewer ==
  ASSUME NEW s, s # {}
  PROVE  First(s) \in s /\ Others(s) \subseteq s /\ Others(s) # s
BY DEF First, Others

LEMMA AddsExists ==
  ASSUME NEW S, IsFiniteSet(S), NEW f, \A x \in S : f[x] \in Nat
  PROVE  \E g : Adds(g, f, S)
<1> DEFINE step == [x \in S \X Nat |-> f[x[1]] + x[2]]
           pick == [s \in SUBSET S |-> First(s)]
<1>1. step \in [S \X Nat -> Nat]
  OBVIOUS
<1>2. Picks(pick, S)
  BY OthersAreFewer DEF Picks
<1>3. PICK g \in [SUBSET S -> Nat] : FoldsOver(g, step, 0, pick, S)
  <2> HIDE DEF step, pick
  <2> QED
    BY <1>1, <1>2, FoldExists
<1>4. ASSUME NEW s \in SUBSET S, s # {}
      PROVE  step[<<pick[s], g[s \ {pick[s]}]>>] = f[First(s)] + g[Others(s)]
  <2>1. pick[s] = First(s) /\ First(s) \in S /\ g[Others(s)] \in Nat
    BY <1>3, <1>4, OthersAreFewer
  <2> QED
    BY <2>1 DEF Others
<1> HIDE DEF step, pick
<1>5. Adds(g, f, S)
  BY <1>3, <1>4 DEF Adds, FoldsOver
<1> QED
  BY <1>5

SumOf(f, S) == FoldFunctionOnSet(+, 0, f, S)

(* The fold computes with such a function.                                 *)
LEMMA FoldAdds ==
  ASSUME NEW S, IsFiniteSet(S), NEW f, \A x \in S : f[x] \in Nat
  PROVE  \E g : Adds(g, f, S) /\ SumOf(f, S) = g[S]
<1> DEFINE g == CHOOSE h : Adds(h, f, S)
<1>1. Adds(g, f, S)
  BY AddsExists
<1>2. SumOf(f, S) = g[S]
  BY DEF SumOf, FoldFunctionOnSet, MapThenFoldSet, Adds, First, Others
<1> QED
  BY <1>1, <1>2

(* The sum is a natural number, 0 if all terms are, and one more if one    *)
(* term is.                                                                *)
LEMMA SumOfZeros ==
  ASSUME NEW S, IsFiniteSet(S), NEW f, \A x \in S : f[x] = 0
  PROVE  SumOf(f, S) = 0
<1>1. PICK g : Adds(g, f, S) /\ SumOf(f, S) = g[S]
  BY FoldAdds
<1> DEFINE Bad == {t \in SUBSET S : g[t] # 0}
<1> SUFFICES ASSUME Bad # {} PROVE FALSE
  BY <1>1
<1>2. PICK t \in Bad : \A u \in Bad : u \subseteq t => u = t
  <2>1. Bad \subseteq SUBSET S
    OBVIOUS
  <2> HIDE DEF Bad
  <2> QED
    BY <2>1, MinimalSubset
<1>3. t # {}
  BY <1>1 DEF Adds
<1>4. First(t) \in S /\ g[Others(t)] = 0
  BY <1>2, <1>3, OthersAreFewer
<1>5. g[t] = f[First(t)] + g[Others(t)]
  BY <1>1, <1>3 DEF Adds
<1> QED
  BY <1>4, <1>5

LEMMA SumOfOneMore ==
  ASSUME NEW S, IsFiniteSet(S), NEW f, NEW h, NEW x,
         \A y \in S : f[y] \in Nat /\ h[y] = IF y = x THEN f[y] + 1 ELSE f[y]
  PROVE  /\ SumOf(f, S) \in Nat
         /\ SumOf(h, S) =
              IF x \in S THEN SumOf(f, S) + 1
              ELSE SumOf(f, S)
<1>1. PICK g : Adds(g, f, S) /\ SumOf(f, S) = g[S]
  BY FoldAdds
<1>2. PICK k : Adds(k, h, S) /\ SumOf(h, S) = k[S]
  BY FoldAdds
<1> DEFINE Good(t) == g[t] \in Nat /\ k[t] = IF x \in t THEN g[t] + 1 ELSE g[t]
<1> DEFINE Bad == {t \in SUBSET S : ~ Good(t)}
<1> SUFFICES ASSUME Bad # {} PROVE FALSE
  BY <1>1, <1>2
<1>3. PICK t \in Bad : \A u \in Bad : u \subseteq t => u = t
  <2>1. Bad \subseteq SUBSET S
    OBVIOUS
  <2> HIDE DEF Bad
  <2> QED
    BY <2>1, MinimalSubset
<1>4. t # {}
  <2>1. g[{}] = 0 /\ k[{}] = 0
    BY <1>1, <1>2 DEF Adds
  <2>2. ~ Good(t)
    BY <1>3
  <2> QED
    BY <2>1, <2>2
<1>5. First(t) \in S /\ Good(Others(t)) /\ First(t) \in t
  BY <1>3, <1>4, OthersAreFewer
<1>6. g[t] = f[First(t)] + g[Others(t)] /\ k[t] = h[First(t)] + k[Others(t)]
  BY <1>1, <1>2, <1>4 DEF Adds
<1>7. x \in t <=> x = First(t) \/ x \in Others(t)
  BY <1>5 DEF Others
<1>8. First(t) \notin Others(t)
  BY DEF Others
<1>9. Good(t)
  <2>0. f[First(t)] \in Nat /\ h[First(t)] = IF First(t) = x THEN f[First(t)] + 1 ELSE f[First(t)]
     BY <1>5
  <2> QED
     BY <1>5, <1>6, <1>7, <1>8, <2>0
<1> QED
  BY <1>9
-----------------------------------------------------------------------------
(* Items that are stored, or taken, and not yet counted by their thread.   *)
PutsToCount == {p \in Producers : pc[p] \in {"lockReady", "post", "count"}}
TakesToCount == {c \in Consumers : pc[c] = "count"}

Counted ==
  /\ Total(Producers) + Cardinality(PutsToCount) = nput
  /\ Total(Consumers) + Cardinality(TakesToCount) = nget

(* Threads only end when there is nothing left to do for them.             *)
Ends ==
  /\ \A p \in Producers : pc[p] = "done" => nput >= nitems
  /\ \A c \in Consumers : pc[c] = "done" => nget >= nitems
  /\ exited => \A t \in Threads : pc[t] = "done"

CountInv == Counted /\ Ends

(* How the two sets change, and the number of items with them.             *)
LEMMA PutsStep ==
  ASSUME IInv, [Next]_vars
  PROVE  /\ IsFiniteSet(PutsToCount) /\ Cardinality(PutsToCount) \in Nat
         /\ \A p \in Producers : Put(p) =>
              Cardinality(PutsToCount') = Cardinality(PutsToCount) + 1
         /\ \A p \in Producers : CountPut(p) =>
              Cardinality(PutsToCount') = Cardinality(PutsToCount) - 1
         /\ (\A p \in Producers : ~Put(p) /\ ~CountPut(p)) =>
              PutsToCount' = PutsToCount
<1> USE ThreadAssumption DEF IInv
<1>1. IsFiniteSet(PutsToCount) /\ Cardinality(PutsToCount) \in Nat
  BY FS_Subset, FS_CardinalityType DEF PutsToCount
<1>2. ASSUME NEW p \in Producers, Put(p)
      PROVE  Cardinality(PutsToCount') = Cardinality(PutsToCount) + 1
  <2>1. p \notin PutsToCount /\ PutsToCount' = PutsToCount \cup {p}
    BY <1>2 DEF Put, Goto, PutsToCount, TypeOK, Threads
  <2> QED
    BY <1>1, <2>1, FS_AddElement
<1>3. ASSUME NEW p \in Producers, CountPut(p)
      PROVE  Cardinality(PutsToCount') = Cardinality(PutsToCount) - 1
  <2>1. p \in PutsToCount /\ PutsToCount' = PutsToCount \ {p}
    BY <1>3 DEF CountPut, Goto, PutsToCount, TypeOK, Threads
  <2> QED
    BY <1>1, <2>1, FS_RemoveElement
<1>4. ASSUME \A p \in Producers : ~Put(p) /\ ~CountPut(p)
      PROVE  PutsToCount' = PutsToCount
  <2>1. ASSUME NEW p \in Producers, Post(p) PROVE PutsToCount' = PutsToCount
    BY <2>1, PostMoves DEF PutsToCount
  <2>2. CASE \A p \in Producers : ~Post(p)
    BY <1>4, <2>2 DEF Next, Create, Exit, Producer, LockPut, ArrayFull,
       LockReady, Consumer, LockGate, GateClosed, AllTaken, EnterGate, CondWait,
       Relock, Take, CountTake, WakeUnsignalled, vars, Goto, PutsToCount, TypeOK,
       Threads
  <2> QED
    BY <2>1, <2>2
<1> QED
  BY <1>1, <1>2, <1>3, <1>4

LEMMA TakesStep ==
  ASSUME IInv, [Next]_vars
  PROVE  /\ IsFiniteSet(TakesToCount) /\ Cardinality(TakesToCount) \in Nat
         /\ \A c \in Consumers : Take(c) =>
              Cardinality(TakesToCount') = Cardinality(TakesToCount) + 1
         /\ \A c \in Consumers : CountTake(c) =>
              Cardinality(TakesToCount') = Cardinality(TakesToCount) - 1
         /\ (\A c \in Consumers : ~Take(c) /\ ~CountTake(c)) =>
              TakesToCount' = TakesToCount
<1> USE ThreadAssumption DEF IInv
<1>1. IsFiniteSet(TakesToCount) /\ Cardinality(TakesToCount) \in Nat
  BY FS_Subset, FS_CardinalityType DEF TakesToCount
<1>2. ASSUME NEW c \in Consumers, Take(c)
      PROVE  Cardinality(TakesToCount') = Cardinality(TakesToCount) + 1
  <2>1. c \notin TakesToCount /\ TakesToCount' = TakesToCount \cup {c}
    BY <1>2 DEF Take, Goto, TakesToCount, TypeOK, Threads
  <2> QED
    BY <1>1, <2>1, FS_AddElement
<1>3. ASSUME NEW c \in Consumers, CountTake(c)
      PROVE  Cardinality(TakesToCount') = Cardinality(TakesToCount) - 1
  <2>1. c \in TakesToCount /\ TakesToCount' = TakesToCount \ {c}
    BY <1>3 DEF CountTake, Goto, TakesToCount, TypeOK, Threads
  <2> QED
    BY <1>1, <2>1, FS_RemoveElement
<1>4. ASSUME \A c \in Consumers : ~Take(c) /\ ~CountTake(c)
      PROVE  TakesToCount' = TakesToCount
  <2>1. ASSUME NEW p \in Producers, Post(p) PROVE TakesToCount' = TakesToCount
    BY <2>1, PostMoves DEF TakesToCount
  <2>2. CASE \A p \in Producers : ~Post(p)
    BY <1>4, <2>2 DEF Next, Create, Exit, Producer, LockPut, ArrayFull, Put,
       LockReady, CountPut, Consumer, LockGate, GateClosed, AllTaken, EnterGate,
       CondWait, Relock, WakeUnsignalled, vars, Goto, TakesToCount, TypeOK, Threads
  <2> QED
    BY <2>1, <2>2
<1> QED
  BY <1>1, <1>2, <1>3, <1>4

(* Only a producer's own count changes the sum over the producers, and     *)
(* likewise for the consumers.                                             *)
(* The counts of the threads now and after a step.                        *)
LEMMA SumIsSumOf ==
  ASSUME NEW S
  PROVE  Total(S) = SumOf(count, S) /\ Total(S)' = SumOf(count', S)
<1>1. Total(S) = SumOf(count, S)
  BY DEF Total, SumOf
<1>2. Total(S)' = SumOf(count', S)
  BY DEF Total, SumOf, FoldFunctionOnSet, MapThenFoldSet
<1> QED
  BY <1>1, <1>2

LEMMA SumsType ==
  ASSUME IInv
  PROVE  Total(Producers) \in Nat /\ Total(Consumers) \in Nat
<1>1. /\ IsFiniteSet(Producers) /\ IsFiniteSet(Consumers)
      /\ count \in [Threads -> Nat]
      /\ Producers \subseteq Threads /\ Consumers \subseteq Threads
  BY ThreadAssumption DEF IInv, TypeOK, Threads
<1>2. ASSUME NEW S \in SUBSET Threads, IsFiniteSet(S)
      PROVE  Total(S) \in Nat
  <2> DEFINE more == [t \in S |-> IF t = NoThread THEN count[t] + 1 ELSE count[t]]
  <2>1. \A t \in S : /\ count[t] \in Nat
                     /\ more[t] = IF t = NoThread THEN count[t] + 1 ELSE count[t]
    BY <1>1, <1>2
  <2> HIDE DEF more
  <2> QED
    BY <1>2, <2>1, SumOfOneMore, SumIsSumOf
<1> QED
  BY <1>1, <1>2

LEMMA SumsStep ==
  ASSUME IInv, [Next]_vars
  PROVE  /\ \A p \in Producers : CountPut(p) =>
              Total(Producers)' = Total(Producers) + 1 /\ Total(Consumers)' = Total(Consumers)
         /\ \A c \in Consumers : CountTake(c) =>
              Total(Producers)' = Total(Producers) /\ Total(Consumers)' = Total(Consumers) + 1
         /\ /\ \A p \in Producers : ~CountPut(p)
            /\ \A c \in Consumers : ~CountTake(c)
            => Total(Producers)' = Total(Producers) /\ Total(Consumers)' = Total(Consumers)
<1>1. /\ IsFiniteSet(Producers) /\ IsFiniteSet(Consumers)
      /\ Producers \cap Consumers = {}
      /\ count \in [Threads -> Nat]
      /\ Producers \subseteq Threads /\ Consumers \subseteq Threads
  BY ThreadAssumption DEF IInv, TypeOK, Threads
<1>3. ASSUME NEW t \in Threads, count' = [count EXCEPT ![t] = @ + 1],
             NEW S \in SUBSET Threads, IsFiniteSet(S)
      PROVE  Total(S)' = IF t \in S THEN Total(S) + 1 ELSE Total(S)
  <2>1. \A u \in S : /\ count[u] \in Nat
                     /\ count'[u] = IF u = t THEN count[u] + 1 ELSE count[u]
    BY <1>1, <1>3
  <2>2. SumOf(count', S) =
          IF t \in S THEN SumOf(count, S) + 1
          ELSE SumOf(count, S)
    <3> DEFINE f == count
               h == count'
    <3>1. \A u \in S : f[u] \in Nat /\ h[u] = IF u = t THEN f[u] + 1 ELSE f[u]
      BY <2>1
    <3> HIDE DEF f, h
    <3>2. SumOf(h, S) = IF t \in S THEN SumOf(f, S) + 1 ELSE SumOf(f, S)
      BY <1>3, <3>1, SumOfOneMore
    <3> QED
      BY <3>2 DEF f, h
  <2> QED
    BY <2>2, SumIsSumOf
<1>4. ASSUME NEW p \in Producers, CountPut(p)
      PROVE  Total(Producers)' = Total(Producers) + 1 /\ Total(Consumers)' = Total(Consumers)
  <2>1. count' = [count EXCEPT ![p] = @ + 1] /\ p \notin Consumers /\ p \in Threads
    BY <1>1, <1>4 DEF CountPut
  <2> QED
    BY <1>1, <1>3, <2>1
<1>5. ASSUME NEW c \in Consumers, CountTake(c)
      PROVE  Total(Producers)' = Total(Producers) /\ Total(Consumers)' = Total(Consumers) + 1
  <2>1. count' = [count EXCEPT ![c] = @ + 1] /\ c \notin Producers /\ c \in Threads
    BY <1>1, <1>5 DEF CountTake
  <2> QED
    BY <1>1, <1>3, <2>1
<1>6. ASSUME \A p \in Producers : ~CountPut(p), \A c \in Consumers : ~CountTake(c)
      PROVE  Total(Producers)' = Total(Producers) /\ Total(Consumers)' = Total(Consumers)
  <2>1. count' = count
    BY <1>6, Frames
  <2> QED
    BY <2>1, SumIsSumOf
<1> QED
  BY <1>4, <1>5, <1>6

LEMMA CountedStep == IInv /\ CountInv /\ [Next]_vars => Counted'
<1> SUFFICES ASSUME IInv, CountInv, [Next]_vars PROVE Counted'
  OBVIOUS
<1>0. /\ Total(Producers) \in Nat /\ Cardinality(PutsToCount) \in Nat
      /\ Total(Consumers) \in Nat /\ Cardinality(TakesToCount) \in Nat
      /\ Total(Producers) + Cardinality(PutsToCount) = nput
      /\ Total(Consumers) + Cardinality(TakesToCount) = nget
  BY PutsStep, TakesStep, SumsType DEF CountInv, Counted
<1>1. ASSUME NEW p \in Producers, Put(p) PROVE Counted'
  <2>1. /\ nput' = nput + 1 /\ nget' = nget /\ count' = count
        /\ pc[p] = "put" /\ pc' = [pc EXCEPT ![p] = "lockReady"]
    BY <1>1 DEF Put, ready, Goto
  <2>2. Total(Producers)' = Total(Producers) /\ Total(Consumers)' = Total(Consumers)
    BY <2>1, SumIsSumOf
  <2>3. TakesToCount' = TakesToCount
    BY <2>1, ThreadAssumption DEF TakesToCount, IInv, TypeOK, Threads
  <2> QED
    BY <1>0, <1>1, <2>1, <2>2, <2>3, PutsStep DEF Counted
<1>2. ASSUME NEW p \in Producers, CountPut(p) PROVE Counted'
  <2>1. /\ nput' = nput /\ nget' = nget
        /\ pc' = [pc EXCEPT ![p] = "lockPut"]
    BY <1>2 DEF CountPut, put, ready, Goto
  <2>2. TakesToCount' = TakesToCount
    BY <2>1, ThreadAssumption DEF TakesToCount, IInv, TypeOK, Threads
  <2>3. Total(Producers)' = Total(Producers) + 1 /\ Total(Consumers)' = Total(Consumers)
    BY <1>2, SumsStep
  <2> QED
    BY <1>0, <1>2, <2>1, <2>2, <2>3, PutsStep DEF Counted
<1>3. ASSUME NEW c \in Consumers, Take(c) PROVE Counted'
  <2>1. /\ nput' = nput /\ nget' = nget + 1 /\ count' = count
        /\ pc' = [pc EXCEPT ![c] = "count"]
    BY <1>3 DEF Take, put, Goto
  <2>2. Total(Producers)' = Total(Producers) /\ Total(Consumers)' = Total(Consumers)
    BY <2>1, SumIsSumOf
  <2>3. PutsToCount' = PutsToCount
    BY <2>1, ThreadAssumption DEF PutsToCount, IInv, TypeOK, Threads
  <2> QED
    BY <1>0, <1>3, <2>1, <2>2, <2>3, TakesStep DEF Counted
<1>4. ASSUME NEW c \in Consumers, CountTake(c) PROVE Counted'
  <2>1. /\ nput' = nput /\ nget' = nget
        /\ pc' = [pc EXCEPT ![c] = "lock"]
    BY <1>4 DEF CountTake, put, ready, Goto
  <2>2. PutsToCount' = PutsToCount
    BY <2>1, ThreadAssumption DEF PutsToCount, IInv, TypeOK, Threads
  <2>3. Total(Producers)' = Total(Producers) /\ Total(Consumers)' = Total(Consumers) + 1
    BY <1>4, SumsStep
  <2> QED
    BY <1>0, <1>4, <2>1, <2>2, <2>3, TakesStep DEF Counted
<1>5. CASE /\ \A p \in Producers : ~Put(p) /\ ~CountPut(p)
           /\ \A c \in Consumers : ~Take(c) /\ ~CountTake(c)
  <2>1. nput' = nput /\ nget' = nget
    BY <1>5, Frames DEF Post, EnterGate
  <2> QED
    BY <1>0, <1>5, <2>1, PutsStep, TakesStep, SumsStep DEF Counted
<1> QED
  BY <1>1, <1>2, <1>3, <1>4, <1>5

(* A thread that has ended left when the items had run out, and stays so.  *)
LEMMA EndsStep == IInv /\ CountInv /\ [Next]_vars => Ends'
<1> SUFFICES ASSUME IInv, CountInv, [Next]_vars PROVE Ends'
  OBVIOUS
<1> USE ThreadAssumption DEF Threads
<1>1. nput' >= nput /\ nget' >= nget /\ nput \in Nat /\ nget \in Nat
  <2>1. nput \in Nat /\ nget \in Nat
    BY DEF IInv, TypeOK
  <2>2. nput' >= nput
    BY <2>1, Frames DEF Put
  <2>3. nget' >= nget
    <3>1. ASSUME NEW c \in Consumers, EnterGate(c) \/ Take(c) PROVE nget' >= nget
      BY <2>1, <3>1 DEF EnterGate, Take
    <3>2. ASSUME NEW p \in Producers, Post(p) PROVE nget' >= nget
      BY <2>1, <3>2 DEF Post
    <3> QED
      BY <2>1, <3>1, <3>2, Frames
  <2> QED
    BY <2>1, <2>2, <2>3
<1>2. nput' \in Nat /\ nget' \in Nat /\ nitems \in Nat
  BY TypeStep DEF TypeOK
<1>3. ASSUME NEW p \in Producers, pc'[p] = "done" PROVE nput' >= nitems
  <2>1. pc[p] = "done" \/ nput >= nitems
    <3>1. ASSUME NEW q \in Producers, Post(q) PROVE pc[p] = "done"
      BY <1>3, <3>1, PostMoves DEF IInv
    <3>2. CASE \A q \in Producers : ~Post(q)
      BY <1>3, <3>2 DEF Next, Create, Exit, Producer, LockPut, ArrayFull, Put,
         LockReady, CountPut, Consumer, LockGate, GateClosed, AllTaken, EnterGate,
         CondWait, Relock, Take, CountTake, WakeUnsignalled, vars, Goto, IInv, TypeOK
    <3> QED
      BY <3>1, <3>2
  <2> QED
    BY <1>1, <1>2, <2>1 DEF CountInv, Ends
<1>4. ASSUME NEW c \in Consumers, pc'[c] = "done" PROVE nget' >= nitems
  <2>1. pc[c] = "done" \/ nget >= nitems
    <3>1. ASSUME NEW q \in Producers, Post(q) PROVE pc[c] = "done"
      BY <1>4, <3>1, PostMoves DEF IInv
    <3>2. CASE \A q \in Producers : ~Post(q)
      BY <1>4, <3>2 DEF Next, Create, Exit, Producer, LockPut, ArrayFull, Put,
         LockReady, CountPut, Consumer, LockGate, GateClosed, AllTaken, EnterGate,
         CondWait, Relock, Take, CountTake, WakeUnsignalled, vars, Goto, IInv, TypeOK
    <3> QED
      BY <3>1, <3>2
  <2> QED
    BY <1>1, <1>2, <2>1 DEF CountInv, Ends
<1>5. ASSUME exited', NEW t \in Threads PROVE pc'[t] = "done"
  <2>1. CASE exited
    <3>1. \A u \in Threads : pc[u] = "done"
      BY <2>1 DEF CountInv, Ends
    <3>2. pc' = pc
      BY <3>1 DEF Next, Create, Exit, Producer, LockPut, ArrayFull, Put, LockReady,
         Post, CountPut, Consumer, LockGate, GateClosed, AllTaken, EnterGate,
         CondWait, Relock, Take, CountTake, WakeUnsignalled, vars, Goto
    <3> QED
      BY <3>1, <3>2
  <2>2. CASE ~exited
    <3>1. exited' # exited
      BY <1>5, <2>2
    <3>2. Exit
      BY <3>1 DEF Next, Create, Producer, LockPut, ArrayFull, Put, LockReady,
         Post, CountPut, Consumer, LockGate, GateClosed, AllTaken, EnterGate,
         CondWait, Relock, Take, CountTake, WakeUnsignalled, vars
    <3> QED
      BY <3>2 DEF Exit
  <2> QED
    BY <2>1, <2>2
<1> QED
  BY <1>3, <1>4, <1>5 DEF Ends

LEMMA InitCountInv == Init => CountInv
<1> SUFFICES ASSUME Init PROVE CountInv
  OBVIOUS
<1>1. /\ \A t \in Threads : pc[t] = "new" /\ count[t] = 0
      /\ nput = 0 /\ nget = 0 /\ ~exited
  BY DEF Init
<1>2. Producers \subseteq Threads /\ Consumers \subseteq Threads
  BY DEF Threads
<1>3. Total(Producers) = 0 /\ Total(Consumers) = 0
  BY <1>1, <1>2, ThreadAssumption, SumOfZeros, SumIsSumOf
<1>4. PutsToCount = {} /\ TakesToCount = {}
  BY <1>1, <1>2 DEF PutsToCount, TakesToCount
<1>5. Counted
  BY <1>1, <1>3, <1>4, FS_EmptySet DEF Counted
<1> QED
  BY <1>1, <1>2, <1>5 DEF CountInv, Ends

(* The totals that main prints: every item is counted by exactly one       *)
(* producer and by exactly one consumer, whoever is scheduled when.        *)
THEOREM TotalsAreRight == Spec => []PrintedTotals
<1>1. IInv /\ CountInv /\ [Next]_vars => CountInv'
  BY CountedStep, EndsStep DEF CountInv
<1>2. IInv /\ CountInv => PrintedTotals
  <2> SUFFICES ASSUME IInv, CountInv, exited
               PROVE  /\ Producers # {} => Total(Producers) = nitems
                      /\ Consumers # {} => Total(Consumers) = nitems
    BY DEF PrintedTotals
  <2>1. /\ \A t \in Producers \cup Consumers : pc[t] = "done"
        /\ PutsToCount = {} /\ TakesToCount = {}
    BY DEF CountInv, Ends, Threads, PutsToCount, TakesToCount
  <2>2. /\ Total(Producers) \in Nat /\ Total(Consumers) \in Nat
    BY SumsType
  <2>3. Total(Producers) = nput /\ Total(Consumers) = nget
    BY <2>1, <2>2, FS_EmptySet DEF CountInv, Counted
  <2>4. nput <= nitems /\ nput \in Nat /\ nitems \in Nat
    BY ThreadAssumption DEF IInv, TypeOK
  <2>5. nget \in Nat /\ nget <= nitems
    <3>1. Cardinality(Inside) \in Nat
      BY ThreadAssumption, FS_Subset, FS_CardinalityType DEF Inside
    <3> QED
      BY <2>4, <3>1 DEF IInv, TypeOK, OneInside, ItemForEachInside
  <2> QED
    BY <2>1, <2>3, <2>4, <2>5 DEF CountInv, Ends
<1> QED
  BY InitCountInv, <1>1, <1>2, Invariance, PTL DEF Spec
-----------------------------------------------------------------------------
(* The loops of Algorithms are folds from the left.  Induction over the    *)
(* numbers: there is a least one that is bad.                              *)
LEMMA LeastNumber ==
  ASSUME NEW Bad \in SUBSET Nat, Bad # {}
  PROVE  \E n \in Bad : \A m \in Bad : n <= m
<1> DEFINE Below == {p \in Nat \X Nat : p[1] < p[2]}
<1>1. IsWellFoundedOn(Below, Nat)
  BY NatLessThanWellFounded DEF OpToRel
<1>2. PICK n \in Bad : \A m \in Bad : ~ (<<m, n>> \in Below)
  <2> HIDE DEF Below
  <2> QED
    BY <1>1, WFMin
<1>3. ASSUME NEW m \in Bad, m < n PROVE FALSE
  <2>1. <<m, n>> \in Below
    BY <1>3
  <2> QED
    BY <1>2, <2>1
<1> QED
  BY <1>3

(* A set of numbers that 0 is in, and every number up to n whose           *)
(* predecessor is.                                                         *)
LEMMA UpTo ==
  ASSUME NEW n \in Nat, NEW P, 0 \in P, \A k \in 1 .. n : k - 1 \in P => k \in P
  PROVE  0 .. n \subseteq P
<1> DEFINE Bad == {k \in 0 .. n : k \notin P}
<1> SUFFICES ASSUME Bad # {} PROVE FALSE
  OBVIOUS
<1>1. PICK k \in Bad : \A m \in Bad : k <= m
  <2>1. Bad \in SUBSET Nat
    OBVIOUS
  <2> HIDE DEF Bad
  <2> QED
    BY <2>1, LeastNumber
<1>2. k \in 1 .. n /\ k - 1 \in 0 .. n
  BY <1>1
<1>3. k - 1 \in P
  BY <1>1, <1>2
<1> QED
  BY <1>1, <1>2, <1>3

(* A fold from the left picks the last element.                            *)
LastOf(n) == [s \in SUBSET (1 .. n) |-> Max(s)]

LEMMA LastIsPicked ==
  ASSUME NEW n \in Nat
  PROVE  /\ \A s \in SUBSET (1 .. n) : s # {} => Max(s) \in s
         /\ Picks(LastOf(n), 1 .. n)
         /\ \A k \in 1 .. n : /\ Max(1 .. k) = k
                              /\ (1 .. k) \ {k} = 1 .. (k - 1)
<1>1. ASSUME NEW s \in SUBSET (1 .. n), s # {} PROVE Max(s) \in s
  <2> DEFINE Bounds == {k \in Nat : \A x \in s : x <= k}
  <2>1. PICK k \in Bounds : \A m \in Bounds : k <= m
    <3>1. Bounds \in SUBSET Nat /\ n \in Bounds
      OBVIOUS
    <3> HIDE DEF Bounds
    <3> QED
      BY <3>1, LeastNumber
  <2>2. k \in s
    <3> SUFFICES ASSUME k \notin s PROVE FALSE
      OBVIOUS
    <3>1. PICK x \in s : x \in 1 .. n /\ x <= k
      BY <1>1, <2>1
    <3>2. \A y \in s : y <= k /\ y # k /\ y \in Nat
      BY <2>1
    <3>3. k - 1 \in Bounds
      BY <3>1, <3>2
    <3> QED
      BY <2>1, <3>3
  <2>3. \E x \in s : \A y \in s : x >= y
    BY <2>1, <2>2
  <2> QED
    BY <2>3 DEF Max
<1>2. ASSUME NEW k \in 1 .. n PROVE Max(1 .. k) = k /\ (1 .. k) \ {k} = 1 .. (k - 1)
  <2>1. k \in 1 .. k /\ \A y \in 1 .. k : k >= y
    OBVIOUS
  <2>2. Max(1 .. k) \in 1 .. k /\ \A y \in 1 .. k : Max(1 .. k) >= y
    BY <2>1 DEF Max
  <2>3. Max(1 .. k) >= k /\ Max(1 .. k) <= k
    BY <2>1, <2>2
  <2> QED
    BY <2>2, <2>3
<1> QED
  BY <1>1, <1>2 DEF Picks, LastOf

LEMMA Beginning ==
  ASSUME NEW n \in Nat, NEW k \in 1 .. n
  PROVE  /\ 1 .. k \in SUBSET (1 .. n) /\ 1 .. k # {} /\ Max(1 .. k) = k
         /\ (1 .. k) \ {k} = 1 .. (k - 1) /\ k - 1 \in 0 .. n /\ k \in 0 .. n
<1>1. k - 1 \in 0 .. n /\ k \in 0 .. n /\ 1 \in 1 .. k
  OBVIOUS
<1>2. \A x \in 1 .. k : x \in 1 .. n
  OBVIOUS
<1>3. 1 .. k \in SUBSET (1 .. n) /\ 1 .. k # {}
  BY <1>1, <1>2, Zenon
<1>4. Max(1 .. k) = k /\ (1 .. k) \ {k} = 1 .. (k - 1)
  BY LastIsPicked
<1> QED
  BY <1>1, <1>3, <1>4

-----------------------------------------------------------------------------
(* The sizes that q1-client.c tries.                                       *)
Sizes(p, first, last, limit) ==
  /\ p[0] = first
  /\ \A k \in 1 .. last : p[k] = NextSize(p[k - 1], limit, last)

LEMMA SizesExist ==
  ASSUME NEW first \in Nat, NEW last \in Nat, NEW limit \in Nat
  PROVE  \E p : Sizes(p, first, last, limit) /\ StopsAt(first, last, limit) = p[last]
<1> DEFINE D == 1 .. last
           step == [x \in D \X Nat |-> NextSize(x[2], limit, last)]
           Rule(h) == h = [s \in SUBSET D |->
                        IF s = {} THEN first ELSE NextSize(h[s \ {Max(s)}], limit, last)]
           h == CHOOSE h : Rule(h)
<1>1. IsFiniteSet(D) /\ Picks(LastOf(last), D)
  BY LastIsPicked, FS_Interval
<1>2. step \in [D \X Nat -> Nat]
  BY DEF NextSize
<1>3. PICK g \in [SUBSET D -> Nat] : FoldsOver(g, step, first, LastOf(last), D)
  <2> HIDE DEF D, step
  <2> QED
    BY <1>1, <1>2, FoldExists
<1>4. Rule(g)
  <2>1. ASSUME NEW s \in SUBSET D, s # {}
        PROVE  step[<<LastOf(last)[s], g[s \ {LastOf(last)[s]}]>>]
                 = NextSize(g[s \ {Max(s)}], limit, last)
    <3>1. LastOf(last)[s] = Max(s) /\ Max(s) \in D
      BY <2>1, LastIsPicked DEF LastOf
    <3>2. g[s \ {Max(s)}] \in Nat
      BY <1>3
    <3> QED
      BY <3>1, <3>2
  <2> HIDE DEF step, D
  <2> QED
    BY <1>3, <2>1 DEF FoldsOver
<1>5. Rule(h)
  BY <1>4
<1>6. StopsAt(first, last, limit) = h[D]
  <2>1. DOMAIN [k \in 1 .. last |-> k] = D
    OBVIOUS
  <2> QED
    BY <2>1 DEF StopsAt, FoldLeft, MapThenFoldSet
<1> HIDE DEF h
<1> DEFINE p == [k \in 0 .. last |-> h[1 .. k]]
<1>7. p[0] = first
  <2>1. 1 .. 0 = {}
    OBVIOUS
  <2> QED
    BY <1>5, <2>1
<1>8. ASSUME NEW k \in 1 .. last PROVE p[k] = NextSize(p[k - 1], limit, last)
  <2>1. 1 .. k \in SUBSET D /\ 1 .. k # {} /\ Max(1 .. k) = k
        /\ (1 .. k) \ {k} = 1 .. (k - 1) /\ k - 1 \in 0 .. last /\ k \in 0 .. last
    BY Beginning
  <2>2. h[1 .. k] = NextSize(h[1 .. (k - 1)], limit, last)
    BY <1>5, <2>1
  <2> QED
    BY <2>1, <2>2
<1>9. p[last] = h[D]
  OBVIOUS
<1> QED
  BY <1>6, <1>7, <1>8, <1>9 DEF Sizes

LEMMA LargestSize ==
  ASSUME NEW first \in Nat, NEW last \in Nat, NEW limit \in Nat, first <= last
  PROVE  StopsAt(first, last, limit)
           = IF limit < first THEN first ELSE IF limit < last THEN limit + 1 ELSE last
<1>1. PICK p : Sizes(p, first, last, limit) /\ StopsAt(first, last, limit) = p[last]
  BY SizesExist
<1> DEFINE P == {k \in 0 .. last :
                   p[k] = IF limit < first THEN first
                          ELSE IF first + k <= limit /\ first + k <= last THEN first + k
                          ELSE IF limit < last THEN limit + 1 ELSE last}
<1>2. 0 \in P
  BY <1>1 DEF Sizes
<1>3. ASSUME NEW k \in 1 .. last, k - 1 \in P PROVE k \in P
  <2>1. p[k] = NextSize(p[k - 1], limit, last)
    BY <1>1 DEF Sizes
  <2> QED
    BY <1>3, <2>1 DEF NextSize
<1>4. last \in P
  <2> HIDE DEF P
  <2> QED
    BY <1>2, <1>3, UpTo
<1> QED
  BY <1>1, <1>4

(* q1-client.c prints one byte more than the largest datagram, for any     *)
(* first and last size and any limit (q1-client.c:59-67).                  *)
THEOREM PrintsOneMore == AlgorithmsSpec => []OneTooMany
<1>1. AnyInput => OneTooMany
  <2> SUFFICES ASSUME AnyInput, program = "q1-client" PROVE OneTooMany
    BY DEF OneTooMany
  <2>1. input \in 1 .. MaxLimit /\ MaxLimit \in Nat
    BY AlgorithmsAssumption DEF AnyInput
  <2>2. FirstSize \in Nat /\ LastSize \in Nat /\ FirstSize <= LastSize
    BY AlgorithmsAssumption
  <2>3. Max({FirstSize, input + 1}) = IF input < FirstSize THEN FirstSize ELSE input + 1
    <3> DEFINE m == IF input < FirstSize THEN FirstSize ELSE input + 1
               s == {FirstSize, input + 1}
    <3>1. m \in s /\ \A y \in s : m >= y
      BY <2>1, <2>2
    <3>2. Max(s) \in s /\ \A y \in s : Max(s) >= y
      BY <3>1 DEF Max
    <3> QED
      BY <2>1, <2>2, <3>1, <3>2
  <2> QED
    BY <2>1, <2>2, <2>3, LargestSize DEF OneTooMany, Printed
<1>2. OneTooMany /\ [Stay]_inputs => OneTooMany'
  BY DEF Stay, inputs, OneTooMany
<1> QED
  BY <1>1, <1>2, PTL DEF AlgorithmsSpec

-----------------------------------------------------------------------------
(* The clock of the server after every read.                               *)
Clocks == [flag : {0, 1}, start : Nat, printed : Seq(Nat \X Nat), when : Nat]

LEMMA AfterReadIs ==
  ASSUME NEW s \in Clocks, NEW n \in Nat
  PROVE  /\ AfterRead(s, n) \in Clocks
         /\ AfterRead(s, n).when = s.when + 1
         /\ AfterRead(s, n).flag = IF n > 0 THEN 1 ELSE 0
         /\ n > 0 /\ s.flag = 0 => AfterRead(s, n).start = s.when + 1
         /\ ~(n > 0 /\ s.flag = 0) => AfterRead(s, n).start = s.start
         /\ n = 0 /\ s.flag = 1 =>
              AfterRead(s, n).printed = Append(s.printed, <<s.start, s.when + 1>>)
         /\ ~(n = 0 /\ s.flag = 1) => AfterRead(s, n).printed = s.printed
<1> DEFINE t == [s EXCEPT !.when = @ + 1]
           S == Seq(Nat \X Nat)
           R == [flag : {0, 1}, start : Nat, printed : S, when : Nat]
           more == Append(s.printed, <<s.start, s.when + 1>>)
           a == AfterRead(s, n)
<1>1. s.flag \in {0, 1} /\ s.start \in Nat /\ s.when + 1 \in Nat /\ s.printed \in S
  BY DEF Clocks
<1>2. more \in S
  BY <1>1
<1>3. Clocks = R
  BY DEF Clocks
<1> HIDE DEF more, S
<1>4. t \in R /\ t.when = s.when + 1 /\ t.flag = s.flag /\ t.start = s.start
      /\ t.printed = s.printed
  BY <1>1, <1>3
<1> HIDE DEF t
<1>5. CASE n > 0 /\ s.flag = 0
  <2>1. a = [t EXCEPT !.start = t.when, !.flag = 1]
    BY <1>5 DEF AfterRead, t
  <2>2. t.when \in Nat
    BY <1>1, <1>4
  <2> HIDE DEF a
  <2>3. a \in R /\ a.start = t.when /\ a.flag = 1 /\ a.printed = t.printed /\ a.when = t.when
    BY <1>4, <2>1, <2>2
  <2> QED
    BY <1>3, <1>4, <1>5, <2>3 DEF a
<1>6. CASE n = 0 /\ s.flag = 1
  <2>1. a = [t EXCEPT !.printed = Append(@, <<t.start, t.when>>), !.flag = 0]
    BY <1>6 DEF AfterRead, t
  <2>2. Append(t.printed, <<t.start, t.when>>) = more
    BY <1>4 DEF more
  <2> HIDE DEF a
  <2>3. a = [t EXCEPT !.printed = more, !.flag = 0]
    BY <1>4, <2>1, <2>2
  <2>4. a \in R /\ a.printed = more /\ a.flag = 0 /\ a.start = t.start /\ a.when = t.when
    BY <1>2, <1>4, <2>3
  <2> QED
    BY <1>3, <1>4, <1>6, <2>4 DEF a, more
<1>7. CASE ~(n > 0 /\ s.flag = 0) /\ ~(n = 0 /\ s.flag = 1)
  <2>1. a = t
    BY <1>7 DEF AfterRead, t
  <2> QED
    BY <1>1, <1>3, <1>4, <1>7, <2>1
<1> QED
  BY <1>5, <1>6, <1>7

ReadOn(p, reads) ==
  /\ p[0] = Clock
  /\ \A k \in 1 .. Len(reads) : p[k] = AfterRead(p[k - 1], reads[k])

LEMMA ClocksExist ==
  ASSUME NEW reads \in Seq(Nat)
  PROVE  \E p : ReadOn(p, reads) /\ read_data(reads) = p[Len(reads)].printed
<1> DEFINE n == Len(reads)
           D == 1 .. n
           step == [x \in D \X Clocks |-> AfterRead(x[2], reads[x[1]])]
           Rule(h) == h = [s \in SUBSET D |->
                        IF s = {} THEN Clock ELSE AfterRead(h[s \ {Max(s)}], reads[Max(s)])]
           h == CHOOSE h : Rule(h)
<1>1. n \in Nat /\ IsFiniteSet(D) /\ Picks(LastOf(n), D)
  BY LastIsPicked, FS_Interval
<1>2. step \in [D \X Clocks -> Clocks] /\ Clock \in Clocks
  <2>1. ASSUME NEW x \in D \X Clocks PROVE AfterRead(x[2], reads[x[1]]) \in Clocks
    <3>1. x[1] \in D /\ x[2] \in Clocks /\ reads[x[1]] \in Nat
      OBVIOUS
    <3> QED
      BY <3>1, AfterReadIs
  <2>2. <<>> \in Seq(Nat \X Nat)
    OBVIOUS
  <2>3. Clock \in Clocks
    BY <2>2 DEF Clock, Clocks
  <2> QED
    BY <2>1, <2>3
<1>3. PICK g \in [SUBSET D -> Clocks] : FoldsOver(g, step, Clock, LastOf(n), D)
  <2> HIDE DEF D, step
  <2> QED
    BY <1>1, <1>2, FoldExists
<1>4. Rule(g)
  <2>1. ASSUME NEW s \in SUBSET D, s # {}
        PROVE  step[<<LastOf(n)[s], g[s \ {LastOf(n)[s]}]>>]
                 = AfterRead(g[s \ {Max(s)}], reads[Max(s)])
    <3>1. LastOf(n)[s] = Max(s) /\ Max(s) \in D
      BY <1>1, <2>1, LastIsPicked DEF LastOf
    <3>2. g[s \ {Max(s)}] \in Clocks
      BY <1>3
    <3> QED
      BY <3>1, <3>2
  <2> HIDE DEF step, D
  <2> QED
    BY <1>3, <2>1 DEF FoldsOver
<1>5. Rule(h)
  BY <1>4
<1>6. read_data(reads) = h[D].printed
  <2>1. DOMAIN reads = D
    OBVIOUS
  <2> QED
    BY <2>1 DEF read_data, FoldLeft, MapThenFoldSet
<1> HIDE DEF h, n
<1> DEFINE p == [k \in 0 .. n |-> h[1 .. k]]
<1>7. p[0] = Clock
  <2>1. 1 .. 0 = {} /\ 0 \in 0 .. n
    BY <1>1
  <2> QED
    BY <1>5, <2>1
<1>8. ASSUME NEW k \in 1 .. n PROVE p[k] = AfterRead(p[k - 1], reads[k])
  <2>1. 1 .. k \in SUBSET D /\ 1 .. k # {} /\ Max(1 .. k) = k
        /\ (1 .. k) \ {k} = 1 .. (k - 1) /\ k - 1 \in 0 .. n /\ k \in 0 .. n
    BY <1>1, Beginning
  <2>2. h[1 .. k] = AfterRead(h[1 .. (k - 1)], reads[k])
    BY <1>5, <2>1
  <2> QED
    BY <2>1, <2>2
<1>9. p[n] = h[D]
  BY <1>1
<1> QED
  BY <1>6, <1>7, <1>8, <1>9 DEF ReadOn, n

(* The first data starts the clock, the first end of the file stops it.    *)
LEMMA OneTime ==
  ASSUME NEW data \in Seq(Nat), NEW ends \in Nat, ends > 0,
         \A k \in 1 .. Len(data) : data[k] > 0
  PROVE  read_data(data \o [k \in 1 .. ends |-> 0])
           = IF data = <<>> THEN <<>> ELSE <<<<1, Len(data) + 1>>>>
<1> DEFINE zeros == [k \in 1 .. ends |-> 0]
           reads == data \o zeros
           m == Len(data)
           n == Len(reads)
<1>1. zeros \in Seq(Nat) /\ Len(zeros) = ends /\ \A k \in 1 .. ends : zeros[k] = 0
  <2>1. zeros \in [1 .. ends -> Nat]
    OBVIOUS
  <2> QED
    BY <2>1
<1>2. m \in Nat
  OBVIOUS
<1> HIDE DEF zeros
<1>3. /\ reads \in Seq(Nat) /\ n = m + ends
      /\ \A k \in 1 .. m : reads[k] = data[k]
      /\ \A k \in m + 1 .. n : reads[k] = zeros[k - m]
  <2>1. data \in Seq(Nat) /\ zeros \in Seq(Nat)
    BY <1>1
  <2>2. reads \in Seq(Nat) /\ Len(reads) = Len(data) + Len(zeros)
    BY <2>1
  <2>3. \A k \in 1 .. Len(data) : reads[k] = data[k]
    BY <2>1
  <2>4. \A k \in Len(data) + 1 .. Len(data) + Len(zeros) : reads[k] = zeros[k - Len(data)]
    BY <2>1
  <2> QED
    BY <1>1, <2>2, <2>3, <2>4
<1> HIDE DEF reads, n, m
<1>4. (\A k \in 1 .. m : reads[k] > 0) /\ \A k \in m + 1 .. n : reads[k] = 0
  <2>1. \A k \in m + 1 .. n : k - m \in 1 .. ends
    BY <1>2, <1>3
  <2> QED
    BY <1>1, <1>3, <2>1 DEF m
<1>5. PICK p : ReadOn(p, reads) /\ read_data(reads) = p[n].printed
  BY <1>3, ClocksExist DEF n
<1>6. \A k \in 1 .. n : p[k] = AfterRead(p[k - 1], reads[k]) /\ reads[k] \in Nat
  BY <1>3, <1>5 DEF ReadOn, n
<1> DEFINE P == {k \in 0 .. n :
                   /\ p[k] \in Clocks /\ p[k].when = k
                   /\ p[k].flag = IF 1 <= k /\ k <= m THEN 1 ELSE 0
                   /\ 1 <= k /\ k <= m => p[k].start = 1
                   /\ p[k].printed = IF m = 0 \/ k <= m THEN <<>> ELSE <<<<1, m + 1>>>>}
<1>7. 0 \in P
  <2>1. p[0] = Clock /\ Clock.when = 0 /\ Clock.flag = 0 /\ Clock.printed = <<>>
    BY <1>5 DEF ReadOn, Clock
  <2>2. Clock \in Clocks
    <3>1. <<>> \in Seq(Nat \X Nat)
      OBVIOUS
    <3> QED
      BY <3>1 DEF Clock, Clocks
  <2>3. 0 \in 0 .. n /\ ~(1 <= 0) /\ 0 <= m
    BY <1>2, <1>3
  <2> QED
    BY <2>1, <2>2, <2>3
<1>8. ASSUME NEW k \in 1 .. n, k - 1 \in P PROVE k \in P
  <2> DEFINE s == p[k - 1]
             t == p[k]
             r == reads[k]
  <2>1. /\ s \in Clocks /\ s.when = k - 1
        /\ s.flag = IF 1 <= k - 1 /\ k - 1 <= m THEN 1 ELSE 0
        /\ 1 <= k - 1 /\ k - 1 <= m => s.start = 1
        /\ s.printed = IF m = 0 \/ k - 1 <= m THEN <<>> ELSE <<<<1, m + 1>>>>
    BY <1>8
  <2>2. t = AfterRead(s, r) /\ r \in Nat
    BY <1>6
  <2>3. (k <= m => r > 0) /\ (k > m => r = 0)
    BY <1>2, <1>3, <1>4
  <2> HIDE DEF s, t, r, P
  <2>4. k \in Nat /\ k >= 1 /\ k \in 0 .. n
    BY <1>2, <1>3
  <2>a. /\ t \in Clocks /\ t.when = s.when + 1
        /\ t.flag = IF r > 0 THEN 1 ELSE 0
        /\ r > 0 /\ s.flag = 0 => t.start = s.when + 1
        /\ ~(r > 0 /\ s.flag = 0) => t.start = s.start
        /\ r = 0 /\ s.flag = 1 => t.printed = Append(s.printed, <<s.start, s.when + 1>>)
        /\ ~(r = 0 /\ s.flag = 1) => t.printed = s.printed
    BY <2>1, <2>2, AfterReadIs
  <2>5. t \in Clocks /\ t.when = k
    BY <2>1, <2>4, <2>a
  <2>6. CASE k = 1 /\ k <= m
    <3>1. r > 0 /\ s.flag = 0 /\ s.printed = <<>> /\ s.when + 1 = 1
      BY <1>2, <2>1, <2>3, <2>4, <2>6
    <3>2. t.start = 1 /\ t.flag = 1 /\ t.printed = <<>>
      BY <2>1, <2>a, <3>1
    <3> QED
      BY <2>4, <2>5, <2>6, <3>2 DEF t, P
  <2>7. CASE k # 1 /\ k <= m
    <3>1. r > 0 /\ s.flag = 1 /\ s.printed = <<>> /\ s.start = 1
      BY <1>2, <2>1, <2>3, <2>4, <2>7
    <3>2. t.start = 1 /\ t.flag = 1 /\ t.printed = <<>>
      BY <2>1, <2>a, <3>1
    <3> QED
      BY <2>4, <2>5, <2>7, <3>2 DEF t, P
  <2>8. CASE k = m + 1 /\ m > 0
    <3>1. r = 0 /\ s.flag = 1 /\ s.printed = <<>> /\ s.start = 1 /\ s.when + 1 = m + 1
      BY <1>2, <2>1, <2>3, <2>4, <2>8
    <3>2. t.flag = 0 /\ t.printed = Append(<<>>, <<1, m + 1>>)
      BY <2>1, <2>a, <3>1
    <3>3. t.printed = <<<<1, m + 1>>>>
      BY <3>2
    <3>4. ~(k <= m) /\ m # 0
      BY <1>2, <2>4, <2>8
    <3> QED
      BY <2>4, <2>5, <3>2, <3>3, <3>4 DEF t, P
  <2>9. CASE k > m + 1 \/ m = 0
    <3>1. r = 0 /\ s.flag = 0 /\ ~(k <= m) /\ (m = 0 \/ ~(k - 1 <= m))
      BY <1>2, <2>1, <2>3, <2>4, <2>9
    <3>2. t.flag = 0 /\ t.printed = s.printed
      BY <2>1, <2>a, <3>1
    <3>3. s.printed = IF m = 0 THEN <<>> ELSE <<<<1, m + 1>>>>
      BY <2>1, <3>1
    <3> QED
      BY <2>4, <2>5, <3>1, <3>2, <3>3 DEF t, P
  <2> QED
    BY <1>2, <2>4, <2>6, <2>7, <2>8, <2>9
<1>9. n \in P
  <2> HIDE DEF P
  <2>1. n \in Nat
    BY <1>2, <1>3
  <2> QED
    BY <1>7, <1>8, <2>1, UpTo
<1>10. p[n].printed = IF m = 0 THEN <<>> ELSE <<<<1, m + 1>>>>
  <2>1. ~(n <= m)
    BY <1>2, <1>3
  <2> QED
    BY <1>9, <2>1
<1>11. m = 0 <=> data = <<>>
  BY DEF m
<1> QED
  BY <1>5, <1>10, <1>11 DEF m, reads, zeros

(* The number of writes, times the size of the blocks.                     *)
LEMMA WritesSuffice ==
  ASSUME NEW total \in Nat, NEW each \in Nat, each > 0
  PROVE  LET w == Writes(total, each) IN
         /\ w * each >= total /\ (w - 1) * each < total
         /\ w * each = total <=> total % each = 0
<1> DEFINE q == total \div each
           r == total % each
<1>1. q \in Nat /\ r \in Nat /\ r < each /\ total = q * each + r
  OBVIOUS
<1> QED
  BY <1>1 DEF Writes

(* Whatever is to be sent in blocks of any size is sent by the fewest      *)
(* writes (exercise4/client.c:53-56), and any reads that bring data before *)
(* the end of the file are timed once, from the first to the end           *)
(* (server.c:93-113).                                                      *)
THEOREM TransfersRight == AlgorithmsSpec => []BulkTransfer
<1>1. AnyInput => FewestWrites
  <2> SUFFICES ASSUME AnyInput, program = "client" PROVE FewestWrites
    BY DEF FewestWrites
  <2>1. input \in Transfers /\ MaxTotal \in Nat
    BY AlgorithmsAssumption DEF AnyInput
  <2>2. input.total \in Nat /\ input.each \in Nat /\ input.each > 0
    BY <2>1 DEF Transfers
  <2> QED
    BY <2>2, WritesSuffice DEF FewestWrites
<1>2. AnyInput => TimedOnce
  <2> SUFFICES ASSUME AnyInput, program = "server" PROVE TimedOnce
    BY DEF TimedOnce
  <2>1. input \in BoundedSeq(1 .. MaxRead, MaxReads) \X (1 .. MaxReads)
    BY DEF AnyInput
  <2> DEFINE data == input[1]
             ends == input[2]
  <2>2. MaxReads \in Nat /\ data \in UNION {[1 .. m -> 1 .. MaxRead] : m \in 0 .. MaxReads}
        /\ ends \in 1 .. MaxReads
    BY <2>1, AlgorithmsAssumption DEF BoundedSeq, SeqOf
  <2> HIDE DEF data, ends
  <2>3. PICK m \in 0 .. MaxReads : data \in [1 .. m -> 1 .. MaxRead]
    BY <2>2
  <2>4. data \in [1 .. m -> Nat] /\ m \in Nat /\ \A k \in 1 .. m : data[k] > 0
    BY <2>2, <2>3
  <2>5. data \in Seq(Nat) /\ Len(data) = m
    BY <2>4
  <2>6. ends \in Nat /\ ends > 0
    BY <2>2
  <2>7. read_data(data \o [k \in 1 .. ends |-> 0])
          = IF data = <<>> THEN <<>> ELSE <<<<1, Len(data) + 1>>>>
    BY <2>4, <2>5, <2>6, OneTime
  <2> QED
    BY <2>7 DEF TimedOnce, data, ends
<1>3. BulkTransfer /\ [Stay]_inputs => BulkTransfer'
  BY DEF Stay, inputs, BulkTransfer, FewestWrites, TimedOnce
<1> QED
  BY <1>1, <1>2, <1>3, PTL DEF AlgorithmsSpec, BulkTransfer

-----------------------------------------------------------------------------
(* The extreme so far and its file, after every file.                      *)
Extremum == [temp : Int, file : Nat]

ExtremeRounds(p, order, first, temps) ==
  /\ p[0] = [temp |-> first, file |-> 0]
  /\ \A k \in 1 .. Len(temps) : p[k] = Better(order, p[k - 1], k, temps[k])

LEMMA ExtremesExist ==
  ASSUME NEW order, NEW first \in Int, NEW temps \in Seq(Int)
  PROVE  \E p : /\ ExtremeRounds(p, order, first, temps)
                /\ Extreme(order, first, temps) = p[Len(temps)]
<1> DEFINE n == Len(temps)
           D == 1 .. n
           base == [temp |-> first, file |-> 0]
           step == [x \in D \X Extremum |-> Better(order, x[2], x[1], temps[x[1]])]
           Rule(h) == h = [s \in SUBSET D |->
             IF s = {} THEN base ELSE Better(order, h[s \ {Max(s)}], Max(s), temps[Max(s)])]
           h == CHOOSE h : Rule(h)
<1>1. n \in Nat /\ IsFiniteSet(D) /\ Picks(LastOf(n), D)
  BY LastIsPicked, FS_Interval
<1>2. step \in [D \X Extremum -> Extremum] /\ base \in Extremum
  <2>1. ASSUME NEW x \in D \X Extremum PROVE Better(order, x[2], x[1], temps[x[1]]) \in Extremum
    <3>1. x[1] \in D /\ x[2] \in Extremum /\ temps[x[1]] \in Int /\ x[1] \in Nat
      OBVIOUS
    <3> QED
      BY <3>1 DEF Better, Extremum
  <2> QED
    BY <2>1 DEF Extremum
<1>3. PICK g \in [SUBSET D -> Extremum] : FoldsOver(g, step, base, LastOf(n), D)
  <2> HIDE DEF D, step, base
  <2> QED
    BY <1>1, <1>2, FoldExists
<1>4. Rule(g)
  <2>1. ASSUME NEW s \in SUBSET D, s # {}
        PROVE  step[<<LastOf(n)[s], g[s \ {LastOf(n)[s]}]>>]
                 = Better(order, g[s \ {Max(s)}], Max(s), temps[Max(s)])
    <3>1. LastOf(n)[s] = Max(s) /\ Max(s) \in D
      BY <1>1, <2>1, LastIsPicked DEF LastOf
    <3>2. g[s \ {Max(s)}] \in Extremum
      BY <1>3
    <3> QED
      BY <3>1, <3>2
  <2> HIDE DEF step, D, base
  <2> QED
    BY <1>3, <2>1 DEF FoldsOver
<1>5. Rule(h)
  BY <1>4
<1>6. Extreme(order, first, temps) = h[D]
  <2> DEFINE places == [i \in DOMAIN temps |-> i]
  <2>1. DOMAIN places = D /\ DOMAIN temps = D
    OBVIOUS
  <2>2. ASSUME NEW s \in SUBSET D, s # {} PROVE places[Max(s)] = Max(s)
    BY <1>1, <2>1, <2>2, LastIsPicked
  <2> HIDE DEF places
  <2>3. ASSUME NEW f
        PROVE [s \in SUBSET D |-> IF s = {} THEN base
                  ELSE Better(order, f[s \ {Max(s)}], places[Max(s)], temps[places[Max(s)]])]
               = [s \in SUBSET D |-> IF s = {} THEN base
                  ELSE Better(order, f[s \ {Max(s)}], Max(s), temps[Max(s)])]
    <3>1. ASSUME NEW s \in SUBSET D
          PROVE  (IF s = {} THEN base
                  ELSE Better(order, f[s \ {Max(s)}], places[Max(s)], temps[places[Max(s)]]))
               = (IF s = {} THEN base
                  ELSE Better(order, f[s \ {Max(s)}], Max(s), temps[Max(s)]))
      BY <2>2
    <3> QED
      BY <3>1, Zenon
  <2> DEFINE i == CHOOSE f : f = [s \in SUBSET D |-> IF s = {} THEN base
                    ELSE Better(order, f[s \ {Max(s)}], places[Max(s)], temps[places[Max(s)]])]
  <2>4. i = h
    BY <2>3
  <2>5. Extreme(order, first, temps) = i[D]
    BY <2>1 DEF places, Extreme, FoldLeftDomain, FoldLeft, MapThenFoldSet
  <2> QED
    BY <2>4, <2>5
<1> HIDE DEF h, n
<1> DEFINE p == [k \in 0 .. n |-> h[1 .. k]]
<1>7. p[0] = base
  <2>1. 1 .. 0 = {} /\ 0 \in 0 .. n
    BY <1>1
  <2> QED
    BY <1>5, <2>1
<1>8. ASSUME NEW k \in 1 .. n PROVE p[k] = Better(order, p[k - 1], k, temps[k])
  <2>1. 1 .. k \in SUBSET D /\ 1 .. k # {} /\ Max(1 .. k) = k
        /\ (1 .. k) \ {k} = 1 .. (k - 1) /\ k - 1 \in 0 .. n /\ k \in 0 .. n
    BY <1>1, Beginning
  <2>2. h[1 .. k] = Better(order, h[1 .. (k - 1)], k, temps[k])
    BY <1>5, <2>1
  <2> QED
    BY <2>1, <2>2
<1>9. p[n] = h[D]
  BY <1>1
<1> QED
  BY <1>6, <1>7, <1>8, <1>9 DEF ExtremeRounds, n

(* It is the extreme of what was read, and the first file that has it.     *)
IsExtreme(order, first, temps, e) ==
  /\ \A i \in 1 .. Len(temps) : ~Beats(order, temps[i], e.temp)
  /\ \/ e.temp = first /\ e.file = 0
     \/ /\ Beats(order, e.temp, first) /\ e.file \in 1 .. Len(temps)
        /\ temps[e.file] = e.temp
        /\ \A i \in 1 .. (e.file - 1) : temps[i] # e.temp

LEMMA ExtremeFound ==
  ASSUME NEW order, NEW first \in Int, NEW temps \in Seq(Int)
  PROVE  /\ Extreme(order, first, temps) \in Extremum
         /\ ~Beats(order, first, Extreme(order, first, temps).temp)
         /\ IsExtreme(order, first, temps, Extreme(order, first, temps))
<1>1. PICK p : /\ ExtremeRounds(p, order, first, temps)
               /\ Extreme(order, first, temps) = p[Len(temps)]
  BY ExtremesExist
<1> DEFINE n == Len(temps)
           Good(e, k) ==
             /\ e \in Extremum
             /\ ~Beats(order, first, e.temp)
             /\ \A i \in 1 .. k : ~Beats(order, temps[i], e.temp)
             /\ \/ e.temp = first /\ e.file = 0
                \/ /\ Beats(order, e.temp, first) /\ e.file \in 1 .. k
                   /\ temps[e.file] = e.temp
                   /\ \A i \in 1 .. (e.file - 1) : temps[i] # e.temp
           P == {k \in 0 .. n : Good(p[k], k)}
<1>2. n \in Nat /\ \A i \in 1 .. n : temps[i] \in Int
  OBVIOUS
<1>3. p[0] = [temp |-> first, file |-> 0]
      /\ \A k \in 1 .. n : p[k] = Better(order, p[k - 1], k, temps[k])
  BY <1>1 DEF ExtremeRounds
<1> HIDE DEF n
<1>4. 0 \in P
  BY <1>2, <1>3 DEF Extremum, Beats
<1>5. ASSUME NEW k \in 1 .. n, k - 1 \in P PROVE k \in P
  <2> DEFINE e == p[k - 1]
             t == temps[k]
  <2>1. k \in Nat /\ k >= 1 /\ k <= n /\ t \in Int
    BY <1>2
  <2>2. Good(e, k - 1)
    BY <1>5
  <2>3. p[k] = Better(order, e, k, t)
    BY <1>3
  <2> HIDE DEF e
  <2>4. CASE Beats(order, t, e.temp)
    <3> DEFINE b == [temp |-> t, file |-> k]
    <3>1. p[k] = b /\ b.temp = t /\ b.file = k /\ b \in Extremum
      BY <2>1, <2>3, <2>4 DEF Better, Extremum
    <3> HIDE DEF b
    <3>2. e.temp \in Int
      BY <2>2 DEF Extremum
    <3>3. ASSUME NEW i \in 1 .. k - 1
          PROVE  i \in 1 .. n /\ temps[i] \in Int /\ ~Beats(order, temps[i], e.temp)
      BY <1>2, <2>1, <2>2
    <3>4. ASSUME NEW i \in 1 .. k PROVE ~Beats(order, temps[i], t)
      <4>1. CASE i = k
        BY <2>1, <4>1 DEF Beats
      <4>2. CASE i \in 1 .. k - 1
        BY <2>1, <2>4, <3>2, <3>3, <4>2 DEF Beats
      <4> QED
        BY <2>1, <4>1, <4>2
    <3>5. ASSUME NEW i \in 1 .. k - 1 PROVE temps[i] # t
      BY <2>4, <3>3
    <3>6. Beats(order, t, first) /\ ~Beats(order, first, t)
      BY <2>1, <2>2, <2>4, <3>2 DEF Beats
    <3>7. Good(b, k)
      BY <2>1, <3>1, <3>4, <3>5, <3>6
    <3> QED
      BY <1>2, <2>1, <3>1, <3>7
  <2>5. CASE ~Beats(order, t, e.temp)
    <3>1. p[k] = e
      BY <2>3, <2>5 DEF Better
    <3>2. Good(e, k)
      BY <2>1, <2>2, <2>5
    <3> QED
      BY <1>2, <2>1, <3>1, <3>2
  <2> QED
    BY <2>4, <2>5
<1>6. n \in P
  <2> HIDE DEF P
  <2>1. n \in Nat
    BY <1>2
  <2>2. 0 .. n \subseteq P
    BY <1>4, <1>5, <2>1, UpTo
  <2> QED
    BY <2>1, <2>2
<1> QED
  BY <1>1, <1>6 DEF IsExtreme, n

(* The script that looks for both in one pass.                             *)
Both == [high : Int, low : Int]

BothRounds(p, temps) ==
  /\ p[0] = [high |-> 0, low |-> 60]
  /\ \A k \in 1 .. Len(temps) : p[k] = BothStep(p[k - 1], temps[k])

LEMMA BothExist ==
  ASSUME NEW temps \in Seq(Int)
  PROVE  \E p : BothRounds(p, temps) /\ max_and_min(temps) = p[Len(temps)]
<1> DEFINE n == Len(temps)
           D == 1 .. n
           base == [high |-> 0, low |-> 60]
           step == [x \in D \X Both |-> BothStep(x[2], temps[x[1]])]
           Rule(h) == h = [s \in SUBSET D |->
             IF s = {} THEN base ELSE BothStep(h[s \ {Max(s)}], temps[Max(s)])]
           h == CHOOSE h : Rule(h)
<1>1. n \in Nat /\ IsFiniteSet(D) /\ Picks(LastOf(n), D)
  BY LastIsPicked, FS_Interval
<1>2. step \in [D \X Both -> Both] /\ base \in Both
  <2>1. ASSUME NEW x \in D \X Both PROVE BothStep(x[2], temps[x[1]]) \in Both
    <3>1. x[1] \in D /\ x[2] \in Both /\ temps[x[1]] \in Int
      OBVIOUS
    <3> QED
      BY <3>1 DEF BothStep, Both
  <2> QED
    BY <2>1 DEF Both
<1>3. PICK g \in [SUBSET D -> Both] : FoldsOver(g, step, base, LastOf(n), D)
  <2> HIDE DEF D, step, base
  <2> QED
    BY <1>1, <1>2, FoldExists
<1>4. Rule(g)
  <2>1. ASSUME NEW s \in SUBSET D, s # {}
        PROVE  step[<<LastOf(n)[s], g[s \ {LastOf(n)[s]}]>>]
                 = BothStep(g[s \ {Max(s)}], temps[Max(s)])
    <3>1. LastOf(n)[s] = Max(s) /\ Max(s) \in D
      BY <1>1, <2>1, LastIsPicked DEF LastOf
    <3>2. g[s \ {Max(s)}] \in Both
      BY <1>3
    <3> QED
      BY <3>1, <3>2
  <2> HIDE DEF step, D, base
  <2> QED
    BY <1>3, <2>1 DEF FoldsOver
<1>5. Rule(h)
  BY <1>4
<1>6. max_and_min(temps) = h[D]
  <2>1. DOMAIN temps = D
    OBVIOUS
  <2> QED
    BY <2>1 DEF max_and_min, FoldLeft, MapThenFoldSet
<1> HIDE DEF h, n
<1> DEFINE p == [k \in 0 .. n |-> h[1 .. k]]
<1>7. p[0] = base
  <2>1. 1 .. 0 = {} /\ 0 \in 0 .. n
    BY <1>1
  <2> QED
    BY <1>5, <2>1
<1>8. ASSUME NEW k \in 1 .. n PROVE p[k] = BothStep(p[k - 1], temps[k])
  <2>1. 1 .. k \in SUBSET D /\ 1 .. k # {} /\ Max(1 .. k) = k
        /\ (1 .. k) \ {k} = 1 .. (k - 1) /\ k - 1 \in 0 .. n /\ k \in 0 .. n
    BY <1>1, Beginning
  <2>2. h[1 .. k] = BothStep(h[1 .. (k - 1)], temps[k])
    BY <1>5, <2>1
  <2> QED
    BY <2>1, <2>2
<1>9. p[n] = h[D]
  BY <1>1
<1> QED
  BY <1>6, <1>7, <1>8, <1>9 DEF BothRounds, n

(* A reading above the lowest was the highest when it was read.            *)
LEMMA BothFound ==
  ASSUME NEW temps \in Seq(Int)
  PROVE  LET b == max_and_min(temps)
             n == Len(temps)
         IN  /\ b \in Both /\ b.high >= 0 /\ b.low <= 60
             /\ \A i \in 1 .. n : temps[i] <= b.high
             /\ b.high = 0 \/ \E i \in 1 .. n : temps[i] = b.high
             /\ b.low = 60 \/ \E i \in 1 .. n : temps[i] = b.low
             /\ \A i \in 1 .. n :
                  temps[i] < b.low => /\ temps[i] > 0
                                      /\ \A j \in 1 .. (i - 1) : temps[j] < temps[i]
<1>1. PICK p : BothRounds(p, temps) /\ max_and_min(temps) = p[Len(temps)]
  BY BothExist
<1> DEFINE n == Len(temps)
           Good(b, k) ==
             /\ b \in Both /\ b.high >= 0 /\ b.low <= 60
             /\ \A i \in 1 .. k : temps[i] <= b.high
             /\ b.high = 0 \/ \E i \in 1 .. k : temps[i] = b.high
             /\ b.low = 60 \/ \E i \in 1 .. k : temps[i] = b.low
             /\ \A i \in 1 .. k :
                  temps[i] < b.low => /\ temps[i] > 0
                                      /\ \A j \in 1 .. (i - 1) : temps[j] < temps[i]
           P == {k \in 0 .. n : Good(p[k], k)}
<1>2. n \in Nat /\ \A i \in 1 .. n : temps[i] \in Int
  OBVIOUS
<1>3. p[0] = [high |-> 0, low |-> 60]
      /\ \A k \in 1 .. n : p[k] = BothStep(p[k - 1], temps[k])
  BY <1>1 DEF BothRounds
<1> HIDE DEF n
<1>4. 0 \in P
  BY <1>2, <1>3 DEF Both
<1>5. ASSUME NEW k \in 1 .. n, k - 1 \in P PROVE k \in P
  <2> DEFINE b == p[k - 1]
             c == p[k]
             t == temps[k]
  <2>1. k \in Nat /\ k >= 1 /\ k <= n /\ t \in Int /\ k \in 0 .. n
    BY <1>2
  <2>2. Good(b, k - 1) /\ b.high \in Int /\ b.low \in Int
    BY <1>5 DEF Both
  <2>3. c = BothStep(b, t)
    BY <1>3
  <2>4. /\ c \in Both
        /\ c.high = IF t > b.high THEN t ELSE b.high
        /\ c.low = IF t <= b.high /\ t < b.low THEN t ELSE b.low
    BY <2>1, <2>2, <2>3 DEF BothStep, Both
  <2>5. ASSUME NEW i \in 1 .. k PROVE i = k \/ (i \in 1 .. (k - 1) /\ temps[i] \in Int)
    BY <1>2, <2>1
  <2> HIDE DEF b, c
  <2>6. c.high >= 0 /\ c.low <= 60 /\ \A i \in 1 .. k : temps[i] <= c.high
    BY <2>1, <2>2, <2>4, <2>5
  <2>7. c.high = 0 \/ \E i \in 1 .. k : temps[i] = c.high
    BY <2>1, <2>2, <2>4
  <2>8. c.low = 60 \/ \E i \in 1 .. k : temps[i] = c.low
    BY <2>1, <2>2, <2>4
  <2>9. ASSUME NEW i \in 1 .. k, temps[i] < c.low
        PROVE  temps[i] > 0 /\ \A j \in 1 .. (i - 1) : temps[j] < temps[i]
    <3>1. CASE i = k
      <4>1. t > b.high
        BY <2>1, <2>2, <2>4, <2>9, <3>1
      <4>2. ASSUME NEW j \in 1 .. (i - 1) PROVE temps[j] < temps[i]
        <5>1. j \in 1 .. (k - 1) /\ j \in 1 .. n
          <6>1. n \in Nat
            BY <1>2
          <6> QED
            BY <2>1, <3>1, <6>1
        <5> QED
          BY <1>2, <2>1, <2>2, <3>1, <4>1, <5>1
      <4> QED
        BY <2>1, <2>2, <3>1, <4>1, <4>2
    <3>2. CASE i # k
      <4>1. i \in 1 .. (k - 1) /\ temps[i] \in Int
        BY <2>5, <3>2
      <4>2. temps[i] < b.low
        BY <2>1, <2>2, <2>4, <2>9, <4>1
      <4> QED
        BY <2>2, <4>1, <4>2
    <3> QED
      BY <3>1, <3>2
  <2>10. Good(c, k)
    BY <2>4, <2>6, <2>7, <2>8, <2>9
  <2> QED
    BY <2>1, <2>10 DEF c
<1>6. n \in P
  <2> HIDE DEF P
  <2>1. n \in Nat
    BY <1>2
  <2>2. 0 .. n \subseteq P
    BY <1>4, <1>5, <2>1, UpTo
  <2> QED
    BY <2>1, <2>2
<1> QED
  BY <1>1, <1>6 DEF n

LEMMA TheMax ==
  ASSUME NEW S, NEW m \in S, S \subseteq Int, \A y \in S : y <= m
  PROVE  Max(S) = m
<1>1. m \in S /\ \A y \in S : m >= y
  OBVIOUS
<1>2. Max(S) \in S /\ \A y \in S : Max(S) >= y
  BY <1>1 DEF Max
<1>3. Max(S) \in Int /\ m \in Int /\ Max(S) >= m /\ Max(S) <= m
  BY <1>2
<1> QED
  BY <1>3

LEMMA TheMin ==
  ASSUME NEW S, NEW m \in S, S \subseteq Int, \A y \in S : m <= y
  PROVE  Min(S) = m
<1>1. m \in S /\ \A y \in S : m <= y
  OBVIOUS
<1>2. Min(S) \in S /\ \A y \in S : Min(S) <= y
  BY <1>1 DEF Min
<1>3. Min(S) \in Int /\ m \in Int /\ Min(S) >= m /\ Min(S) <= m
  BY <1>2
<1> QED
  BY <1>3

(* The first file that has a temperature.                                  *)
LEMMA TheFirst ==
  ASSUME NEW temps \in Seq(Int), NEW f \in 1 .. Len(temps),
         \A i \in 1 .. (f - 1) : temps[i] # temps[f]
  PROVE  Min({i \in 1 .. Len(temps) : temps[i] = temps[f]}) = f
<1> DEFINE S == {i \in 1 .. Len(temps) : temps[i] = temps[f]}
<1>1. f \in S /\ S \subseteq Int
  OBVIOUS
<1>2. ASSUME NEW y \in S PROVE f <= y
  <2>1. y \in 1 .. Len(temps) /\ temps[y] = temps[f] /\ y \notin 1 .. (f - 1)
    OBVIOUS
  <2> QED
    BY <2>1
<1> HIDE DEF S
<1>3. Min(S) = f
  BY <1>1, <1>2, TheMin
<1> QED
  BY <1>3 DEF S

LEMMA OnePassRight ==
  ASSUME NEW temps \in Seq(Int)
  PROVE  LET n == Len(temps)
             high == Max(Range(temps) \cup {0})
             low == Min(Range(temps) \cup {60})
             FirstOf(t) == IF t \in Range(temps)
                           THEN Min({f \in 1 .. n : temps[f] = t}) ELSE 0
         IN  /\ max_temp(temps) = [temp |-> high, file |-> IF high = 0 THEN 0 ELSE FirstOf(high)]
             /\ min_temp(temps) = [temp |-> low, file |-> IF low = 60 THEN 0 ELSE FirstOf(low)]
             /\ max_and_min(temps).high = high
             /\ max_and_min(temps).low # low =>
                  /\ temps[1] = low /\ low > 0
                  /\ \A f \in 2 .. n : temps[f] # low
<1> DEFINE n == Len(temps)
           R == Range(temps)
           high == Max(R \cup {0})
           low == Min(R \cup {60})
           FirstOf(t) == IF t \in R THEN Min({f \in 1 .. n : temps[f] = t}) ELSE 0
           a == max_temp(temps)
           z == min_temp(temps)
           b == max_and_min(temps)
<1>1. n \in Nat /\ \A i \in 1 .. n : temps[i] \in Int
  OBVIOUS
<1>2. R = {temps[i] : i \in 1 .. n} /\ R \subseteq Int
  BY DEF Range
<1>3. a \in Extremum /\ a.temp >= 0 /\ IsExtreme("max", 0, temps, a)
  <2>1. a \in Extremum /\ ~Beats("max", 0, a.temp) /\ IsExtreme("max", 0, temps, a)
    BY ExtremeFound DEF max_temp
  <2> QED
    BY <2>1 DEF Beats, Extremum
<1>4. z \in Extremum /\ z.temp <= 60 /\ IsExtreme("min", 60, temps, z)
  <2>1. z \in Extremum /\ ~Beats("min", 60, z.temp) /\ IsExtreme("min", 60, temps, z)
    BY ExtremeFound DEF min_temp
  <2> QED
    BY <2>1 DEF Beats, Extremum
<1>5. /\ b \in Both /\ b.high >= 0 /\ b.low <= 60
      /\ \A i \in 1 .. n : temps[i] <= b.high
      /\ b.high = 0 \/ \E i \in 1 .. n : temps[i] = b.high
      /\ b.low = 60 \/ \E i \in 1 .. n : temps[i] = b.low
      /\ \A i \in 1 .. n :
           temps[i] < b.low => /\ temps[i] > 0
                               /\ \A j \in 1 .. (i - 1) : temps[j] < temps[i]
  BY BothFound
<1> HIDE DEF a, z, b
<1>6. a.temp = high
  <2>1. a.temp \in R \cup {0} /\ R \cup {0} \subseteq Int
    BY <1>2, <1>3 DEF IsExtreme
  <2>2. ASSUME NEW y \in R \cup {0} PROVE y <= a.temp
    <3>1. \A i \in 1 .. n : temps[i] <= a.temp
      BY <1>1, <1>3 DEF IsExtreme, Beats, Extremum
    <3> QED
      BY <1>2, <1>3, <3>1
  <2> QED
    BY <2>1, <2>2, TheMax
<1>7. z.temp = low
  <2>1. z.temp \in R \cup {60} /\ R \cup {60} \subseteq Int
    BY <1>2, <1>4 DEF IsExtreme
  <2>2. ASSUME NEW y \in R \cup {60} PROVE z.temp <= y
    <3>1. \A i \in 1 .. n : z.temp <= temps[i]
      BY <1>1, <1>4 DEF IsExtreme, Beats, Extremum
    <3> QED
      BY <1>2, <1>4, <3>1
  <2> QED
    BY <2>1, <2>2, TheMin
<1>8. a.file = IF high = 0 THEN 0 ELSE FirstOf(high)
  <2>1. CASE a.temp = 0
    BY <1>3, <1>6, <2>1 DEF IsExtreme, Beats
  <2>2. CASE a.temp # 0
    <3>1. a.file \in 1 .. n /\ temps[a.file] = a.temp
          /\ \A i \in 1 .. (a.file - 1) : temps[i] # temps[a.file]
      BY <1>3, <2>2 DEF IsExtreme
    <3>2. Min({f \in 1 .. n : temps[f] = temps[a.file]}) = a.file
      BY <3>1, TheFirst
    <3>3. a.temp \in R
      BY <1>2, <3>1
    <3> QED
      BY <1>6, <2>2, <3>1, <3>2, <3>3
  <2> QED
    BY <2>1, <2>2
<1>9. z.file = IF low = 60 THEN 0 ELSE FirstOf(low)
  <2>1. CASE z.temp = 60
    BY <1>4, <1>7, <2>1 DEF IsExtreme, Beats
  <2>2. CASE z.temp # 60
    <3>1. z.file \in 1 .. n /\ temps[z.file] = z.temp
          /\ \A i \in 1 .. (z.file - 1) : temps[i] # temps[z.file]
      BY <1>4, <2>2 DEF IsExtreme
    <3>2. Min({f \in 1 .. n : temps[f] = temps[z.file]}) = z.file
      BY <3>1, TheFirst
    <3>3. z.temp \in R
      BY <1>2, <3>1
    <3> QED
      BY <1>7, <2>2, <3>1, <3>2, <3>3
  <2> QED
    BY <2>1, <2>2
<1>10. b.high = high
  <2>1. b.high \in R \cup {0} /\ R \cup {0} \subseteq Int
    BY <1>2, <1>5
  <2>2. \A y \in R \cup {0} : y <= b.high
    BY <1>2, <1>5
  <2> QED
    BY <2>1, <2>2, TheMax
<1>11. ASSUME b.low # low
       PROVE  temps[1] = low /\ low > 0 /\ \A f \in 2 .. n : temps[f] # low
  <2>1. z.temp \in Int /\ b.low \in Int /\ \A i \in 1 .. n : z.temp <= temps[i]
    BY <1>1, <1>4, <1>5 DEF IsExtreme, Beats, Extremum, Both
  <2>2. low <= b.low /\ low \in Int /\ \A i \in 1 .. n : low <= temps[i]
    BY <1>4, <1>5, <1>7, <2>1
  <2> HIDE DEF low
  <2>3. low < b.low /\ low # 60
    BY <1>5, <1>11, <2>1, <2>2
  <2>4. PICK i \in 1 .. n : temps[i] = low
    BY <1>4, <1>7, <2>3 DEF IsExtreme
  <2>5. ASSUME NEW k \in 1 .. n, temps[k] = low PROVE k = 1 /\ low > 0
    <3>1. low > 0 /\ \A j \in 1 .. (k - 1) : temps[j] < low
      BY <1>5, <2>3, <2>5
    <3>2. CASE k # 1
      <4>1. 1 \in 1 .. (k - 1) /\ 1 \in 1 .. n
        BY <1>1, <2>5, <3>2
      <4> QED
        BY <1>1, <2>2, <3>1, <4>1
    <3> QED
      BY <3>1, <3>2
  <2>6. \A f \in 2 .. n : f \in 1 .. n /\ f # 1
    BY <1>1
  <2> QED
    BY <2>4, <2>5, <2>6
<1> HIDE DEF high, low
<1>12. a = [temp |-> high, file |-> IF high = 0 THEN 0 ELSE FirstOf(high)]
  BY <1>3, <1>6, <1>8 DEF Extremum
<1>13. z = [temp |-> low, file |-> IF low = 60 THEN 0 ELSE FirstOf(low)]
  BY <1>4, <1>7, <1>9 DEF Extremum
<1> QED
  BY <1>10, <1>11, <1>12, <1>13 DEF a, z, b, high, low

-----------------------------------------------------------------------------
(* A daily script after every file.                                        *)
DayNames == {"", "d1", "d2"}
Readings == [day : {"d1", "d2"}, temp : Int]
PrintedLine == Nat \X Int
Reports == [lines : Seq(PrintedLine), day : DayNames, temp : Int, file : Nat]

NoReport(first) == [lines |-> <<>>, day |-> "", temp |-> first, file |-> 0]

LEMMA DailyStepIs ==
  ASSUME NEW order, NEW first \in Int, NEW s \in Reports, NEW f \in Nat, NEW r \in Readings
  PROVE  LET t == DailyStep(s, f, r, order, first)
             replaced == r.day # s.day \/ Beats(order, r.temp, s.temp)
         IN  /\ t \in Reports
             /\ t.day = r.day
             /\ t.temp = IF replaced THEN r.temp ELSE s.temp
             /\ t.file = IF replaced THEN f ELSE s.file
             /\ t.lines = IF r.day # s.day /\ s.temp # first
                          THEN Append(s.lines, <<s.file, s.temp>>) ELSE s.lines
<1> DEFINE S == Seq(PrintedLine)
           R == [lines : S, day : DayNames, temp : Int, file : Nat]
           more == Append(s.lines, <<s.file, s.temp>>)
           t == DailyStep(s, f, r, order, first)
<1>1. s.lines \in S /\ s.day \in DayNames /\ s.temp \in Int /\ s.file \in Nat
  BY DEF Reports
<1>2. more \in S
  BY <1>1 DEF PrintedLine
<1>3. r.day \in DayNames /\ r.temp \in Int
  BY DEF Readings, DayNames
<1>4. Reports = R
  BY DEF Reports
<1> HIDE DEF S, more
<1>5. CASE r.day # s.day
  <2>1. t = [lines |-> IF s.temp = first THEN s.lines ELSE more,
             day |-> r.day, temp |-> r.temp, file |-> f]
    BY <1>5 DEF DailyStep, NewDay, more
  <2> HIDE DEF t
  <2>2. /\ t \in R /\ t.day = r.day /\ t.temp = r.temp /\ t.file = f
        /\ t.lines = IF s.temp = first THEN s.lines ELSE more
    BY <1>1, <1>2, <1>3, <2>1
  <2> QED
    BY <1>4, <1>5, <2>2 DEF t, more
<1>6. CASE r.day = s.day /\ Beats(order, r.temp, s.temp)
  <2>1. t = [s EXCEPT !.temp = r.temp, !.file = f]
    BY <1>6 DEF DailyStep
  <2> HIDE DEF t
  <2>2. /\ t \in R /\ t.day = s.day /\ t.temp = r.temp /\ t.file = f /\ t.lines = s.lines
    BY <1>3, <1>4, <2>1
  <2> QED
    BY <1>4, <1>6, <2>2 DEF t
<1>7. CASE r.day = s.day /\ ~Beats(order, r.temp, s.temp)
  <2>1. t = s
    BY <1>7 DEF DailyStep
  <2> QED
    BY <1>7, <2>1
<1> QED
  BY <1>5, <1>6, <1>7

DailyRounds(p, order, first, readings) ==
  /\ p[0] = NoReport(first)
  /\ \A k \in 1 .. Len(readings) :
       p[k] = DailyStep(p[k - 1], k, readings[k], order, first)

LEMMA DailyExist ==
  ASSUME NEW order, NEW first \in Int, NEW readings \in Seq(Readings)
  PROVE  \E p : LET s == p[Len(readings)] IN
                /\ DailyRounds(p, order, first, readings)
                /\ Daily(order, first, readings) = Append(s.lines, <<s.file, s.temp>>)
<1> DEFINE n == Len(readings)
           D == 1 .. n
           base == NoReport(first)
           step == [x \in D \X Reports |->
                      DailyStep(x[2], x[1], readings[x[1]], order, first)]
           Rule(h) == h = [s \in SUBSET D |->
             IF s = {} THEN base
             ELSE DailyStep(h[s \ {Max(s)}], Max(s), readings[Max(s)], order, first)]
           h == CHOOSE h : Rule(h)
<1>1. n \in Nat /\ IsFiniteSet(D) /\ Picks(LastOf(n), D)
  BY LastIsPicked, FS_Interval
<1>2. step \in [D \X Reports -> Reports] /\ base \in Reports
  <2>1. ASSUME NEW x \in D \X Reports
        PROVE  DailyStep(x[2], x[1], readings[x[1]], order, first) \in Reports
    <3>1. x[1] \in D /\ x[2] \in Reports /\ readings[x[1]] \in Readings /\ x[1] \in Nat
      OBVIOUS
    <3> QED
      BY <3>1, DailyStepIs
  <2>2. <<>> \in Seq(PrintedLine)
    OBVIOUS
  <2>3. base \in Reports
    BY <2>2 DEF Reports, NoReport, DayNames
  <2> QED
    BY <2>1, <2>3
<1>3. PICK g \in [SUBSET D -> Reports] : FoldsOver(g, step, base, LastOf(n), D)
  <2> HIDE DEF D, step, base
  <2> QED
    BY <1>1, <1>2, FoldExists
<1>4. Rule(g)
  <2>1. ASSUME NEW s \in SUBSET D, s # {}
        PROVE  step[<<LastOf(n)[s], g[s \ {LastOf(n)[s]}]>>]
                 = DailyStep(g[s \ {Max(s)}], Max(s), readings[Max(s)], order, first)
    <3>1. LastOf(n)[s] = Max(s) /\ Max(s) \in D
      BY <1>1, <2>1, LastIsPicked DEF LastOf
    <3>2. g[s \ {Max(s)}] \in Reports
      BY <1>3
    <3> QED
      BY <3>1, <3>2
  <2> HIDE DEF step, D, base
  <2> QED
    BY <1>3, <2>1 DEF FoldsOver
<1>5. Rule(h)
  BY <1>4
<1>6. Daily(order, first, readings) = Append(h[D].lines, <<h[D].file, h[D].temp>>)
  <2> DEFINE places == [i \in DOMAIN readings |-> i]
             Value(f, s) == DailyStep(f[s \ {Max(s)}], Max(s), readings[Max(s)], order, first)
             ValueAt(f, s) == DailyStep(f[s \ {Max(s)}], places[Max(s)],
                                        readings[places[Max(s)]], order, first)
  <2>1. DOMAIN places = D /\ DOMAIN readings = D
    OBVIOUS
  <2>2. ASSUME NEW s \in SUBSET D, s # {} PROVE places[Max(s)] = Max(s)
    BY <1>1, <2>1, <2>2, LastIsPicked
  <2> HIDE DEF places, base
  <2>3. ASSUME NEW f
        PROVE  [s \in SUBSET D |-> IF s = {} THEN base ELSE ValueAt(f, s)]
               = [s \in SUBSET D |-> IF s = {} THEN base ELSE Value(f, s)]
    <3>1. ASSUME NEW s \in SUBSET D
          PROVE  (IF s = {} THEN base ELSE ValueAt(f, s))
                   = (IF s = {} THEN base ELSE Value(f, s))
      BY <2>2
    <3> QED
      BY <3>1, Zenon
  <2> DEFINE i == CHOOSE f : f = [s \in SUBSET D |-> IF s = {} THEN base ELSE ValueAt(f, s)]
  <2>4. i = h
    BY <2>3
  <2>5. Daily(order, first, readings) = Append(i[D].lines, <<i[D].file, i[D].temp>>)
    BY <2>1 DEF places, base, NoReport, Daily, FoldLeftDomain, FoldLeft, MapThenFoldSet
  <2> QED
    BY <2>4, <2>5
<1> HIDE DEF h, n
<1> DEFINE p == [k \in 0 .. n |-> h[1 .. k]]
<1>7. p[0] = base
  <2>1. 1 .. 0 = {} /\ 0 \in 0 .. n
    BY <1>1
  <2> QED
    BY <1>5, <2>1
<1>8. ASSUME NEW k \in 1 .. n PROVE p[k] = DailyStep(p[k - 1], k, readings[k], order, first)
  <2>1. 1 .. k \in SUBSET D /\ 1 .. k # {} /\ Max(1 .. k) = k
        /\ (1 .. k) \ {k} = 1 .. (k - 1) /\ k - 1 \in 0 .. n /\ k \in 0 .. n
    BY <1>1, Beginning
  <2>2. h[1 .. k] = DailyStep(h[1 .. (k - 1)], k, readings[k], order, first)
    BY <1>5, <2>1
  <2> QED
    BY <2>1, <2>2
<1>9. p[n] = h[D]
  BY <1>1
<1> QED
  BY <1>6, <1>7, <1>8, <1>9 DEF DailyRounds, n

(* The line of a day names the first of its files with the extreme.        *)
LEMMA DayLineIs ==
  ASSUME NEW readings \in Seq(Readings), NEW order \in {"max", "min"},
         NEW a \in 1 .. Len(readings), NEW z \in a .. Len(readings), NEW x \in a .. z,
         \A i \in a .. z : ~Beats(order, readings[i].temp, readings[x].temp),
         \A i \in a .. (x - 1) : readings[i].temp # readings[x].temp
  PROVE  DayLine(readings, [from |-> a, to |-> z], order) = <<x, readings[x].temp>>
<1> DEFINE n == Len(readings)
           t == [i \in 1 .. n |-> readings[i].temp]
           temps == {readings[f].temp : f \in a .. z}
           files == {f \in a .. z : readings[f].temp = readings[x].temp}
<1>1. n \in Nat /\ \A i \in 1 .. n : readings[i].temp \in Int
  <2>1. \A i \in 1 .. n : readings[i] \in Readings
    OBVIOUS
  <2> QED
    BY <2>1 DEF Readings
<1>2. a \in Nat /\ z \in Nat /\ x \in Nat /\ a <= x /\ x <= z /\ z <= n /\ 1 <= a
  OBVIOUS
<1> HIDE DEF n
<1>3. \A i \in a .. z : readings[i].temp \in Int
  BY <1>1, <1>2
<1>4. readings[x].temp \in temps /\ temps \subseteq Int
  BY <1>3
<1>5. x \in files /\ files \subseteq Int
  OBVIOUS
<1>6. ASSUME NEW y \in files PROVE x <= y
  <2>1. y \in a .. z /\ y \notin a .. (x - 1)
    OBVIOUS
  <2> QED
    BY <1>2, <2>1
<1>7. Min(files) = x
  <2> HIDE DEF files
  <2> QED
    BY <1>5, <1>6, TheMin
<1>8. Best(order, temps) = readings[x].temp
  <2>1. CASE order = "max"
    <3>1. \A y \in temps : y <= readings[x].temp
      BY <1>3, <2>1 DEF Beats
    <3> HIDE DEF temps
    <3> QED
      BY <1>4, <2>1, <3>1, TheMax DEF Best
  <2>2. CASE order = "min"
    <3>1. \A y \in temps : readings[x].temp <= y
      BY <1>3, <2>2 DEF Beats
    <3> HIDE DEF temps
    <3> QED
      BY <1>4, <2>2, <3>1, TheMin DEF Best
  <2> QED
    BY <2>1, <2>2
<1> QED
  BY <1>7, <1>8 DEF DayLine

(* A day that ends where the next one starts, or with the files.           *)
LEMMA LastDay ==
  ASSUME NEW readings \in Seq(Readings), NEW st \in Starts(readings),
         NEW m \in st .. Len(readings),
         \A f \in (st + 1) .. m : f \notin Starts(readings),
         m = Len(readings) \/ m + 1 \in Starts(readings)
  PROVE  /\ [from |-> st, to |-> m] \in Days(readings)
         /\ \A d \in Days(readings) : d.to <= m => d.to < st \/ d = [from |-> st, to |-> m]
<1> DEFINE n == Len(readings)
           S == Starts(readings)
<1>1. n \in Nat /\ \A f \in S : f \in 1 .. n
  BY DEF Starts
<1> HIDE DEF n, S
<1>2. st \in S /\ st \in Nat /\ m \in Nat /\ st <= m /\ m <= n /\ 1 <= st
  BY <1>1 DEF S, n
<1>3. \A f \in (st + 1) .. m : f \notin S
  BY DEF S
<1>4. m = n \/ m + 1 \in S
  BY DEF S, n
<1>5. Days(readings) = {d \in [from : S, to : 1 .. n] :
         /\ d.from <= d.to /\ ((d.from + 1) .. d.to) \cap S = {}
         /\ d.to = n \/ d.to + 1 \in S}
  BY DEF Days, S, n
<1>6. [from |-> st, to |-> m] \in Days(readings)
  <2>1. ((st + 1) .. m) \cap S = {}
    BY <1>3
  <2>2. m \in 1 .. n
    BY <1>1, <1>2
  <2> QED
    BY <1>2, <1>4, <1>5, <2>1, <2>2
<1>7. ASSUME NEW d \in Days(readings), d.to <= m, ~(d.to < st)
      PROVE  d = [from |-> st, to |-> m]
  <2> DEFINE R == [from : S, to : 1 .. n]
  <2>1. /\ d \in R /\ d.from \in S /\ d.to \in 1 .. n
        /\ d.from <= d.to /\ ((d.from + 1) .. d.to) \cap S = {}
        /\ d.to = n \/ d.to + 1 \in S
    BY <1>5
  <2>2. d.from \in Nat /\ d.to \in Nat
    BY <1>1, <2>1
  <2>3. d.to = m
    <3>1. d.to + 1 \notin (st + 1) .. m \/ d.to = n
      BY <1>3, <2>1
    <3> QED
      BY <1>1, <1>2, <1>7, <2>2, <3>1
  <2>4. d.from = st
    <3>1. d.from \notin (st + 1) .. m /\ st \notin (d.from + 1) .. d.to
      BY <1>2, <1>3, <2>1
    <3> QED
      BY <1>2, <1>7, <2>1, <2>2, <2>3, <3>1
  <2> QED
    BY <2>1, <2>3, <2>4
<1> QED
  BY <1>6, <1>7

(* One more line, of a later file.                                         *)
LEMMA MoreLines ==
  ASSUME NEW lines \in Seq(PrintedLine), NEW l \in PrintedLine, InOrder(lines),
         \A j \in DOMAIN lines : lines[j][1] < l[1]
  PROVE  /\ Append(lines, l) \in Seq(PrintedLine)
         /\ InOrder(Append(lines, l))
         /\ ToSet(Append(lines, l)) = ToSet(lines) \cup {l}
         /\ \A j \in DOMAIN Append(lines, l) : Append(lines, l)[j][1] <= l[1]
<1> DEFINE n == Len(lines)
           L == Append(lines, l)
<1>1. n \in Nat /\ DOMAIN lines = 1 .. n /\ DOMAIN L = 1 .. (n + 1)
      /\ L[n + 1] = l /\ (\A j \in 1 .. n : L[j] = lines[j]) /\ L \in Seq(PrintedLine)
  OBVIOUS
<1>2. l[1] \in Nat /\ \A j \in 1 .. n : lines[j][1] \in Nat
  BY DEF PrintedLine
<1> HIDE DEF n, L
<1>3. InOrder(L)
  <2> SUFFICES ASSUME NEW j \in 1 .. (n + 1), NEW k \in 1 .. (n + 1), j < k
               PROVE  L[j][1] < L[k][1]
    BY <1>1 DEF InOrder
  <2>1. j \in 1 .. n /\ L[j] = lines[j]
    BY <1>1
  <2>2. CASE k = n + 1
    BY <1>1, <2>1, <2>2
  <2>3. CASE k \in 1 .. n
    BY <1>1, <2>1, <2>3 DEF InOrder
  <2> QED
    BY <1>1, <2>2, <2>3
<1>4. ToSet(L) = ToSet(lines) \cup {l}
  <2>1. 1 .. (n + 1) = (1 .. n) \cup {n + 1}
    BY <1>1
  <2>2. ASSUME NEW y \in ToSet(L) PROVE y \in ToSet(lines) \cup {l}
    BY <1>1, <2>1 DEF ToSet
  <2>3. ASSUME NEW y \in ToSet(lines) \cup {l} PROVE y \in ToSet(L)
    BY <1>1, <2>1 DEF ToSet
  <2> QED
    BY <2>2, <2>3
<1>5. ASSUME NEW j \in DOMAIN L PROVE L[j][1] <= l[1]
  BY <1>1, <1>2
<1> QED
  BY <1>1, <1>3, <1>4, <1>5 DEF L

(* The lines of the days before a file.                                    *)
LinesBefore(readings, order, first, st) ==
  {DayLine(readings, d, order) :
     d \in {c \in Days(readings) : c.to < st /\ DayLine(readings, c, order)[2] # first}}

(* What a daily script knows of the day that began with a file.            *)
KnowsDay(readings, order, first, s, k, st) ==
  /\ s \in Reports
  /\ st \in Starts(readings) /\ st <= k
  /\ \A f \in (st + 1) .. k : f \notin Starts(readings)
  /\ s.day = readings[k].day
  /\ s.file \in st .. k /\ s.temp = readings[s.file].temp
  /\ \A i \in st .. k : ~Beats(order, readings[i].temp, s.temp)
  /\ \A i \in st .. (s.file - 1) : readings[i].temp # s.temp
  /\ InOrder(s.lines)
  /\ \A j \in DOMAIN s.lines : s.lines[j][1] < st
  /\ ToSet(s.lines) = LinesBefore(readings, order, first, st)

(* A day ends.                                                             *)
LEMMA DayEnds ==
  ASSUME NEW readings \in Seq(Readings), NEW order \in {"max", "min"},
         NEW first \in Int, NEW s, NEW k \in 1 .. Len(readings), NEW st,
         KnowsDay(readings, order, first, s, k, st),
         k = Len(readings) \/ k + 1 \in Starts(readings)
  PROVE  /\ <<s.file, s.temp>> \in PrintedLine
         /\ [from |-> st, to |-> k] \in Days(readings)
         /\ DayLine(readings, [from |-> st, to |-> k], order) = <<s.file, s.temp>>
         /\ \A d \in Days(readings) : d.to <= k => d.to < st \/ d = [from |-> st, to |-> k]
<1>1. Len(readings) \in Nat /\ st \in 1 .. Len(readings) /\ st <= k
  BY DEF KnowsDay, Starts
<1>2. k \in st .. Len(readings) /\ k \in Nat /\ st \in Nat
  BY <1>1
<1>3. /\ s.file \in st .. k /\ s.temp = readings[s.file].temp
      /\ \A i \in st .. k : ~Beats(order, readings[i].temp, readings[s.file].temp)
      /\ \A i \in st .. (s.file - 1) : readings[i].temp # readings[s.file].temp
  BY DEF KnowsDay
<1>4. DayLine(readings, [from |-> st, to |-> k], order) = <<s.file, s.temp>>
  <2> DEFINE x == s.file
             day == DayLine(readings, [from |-> st, to |-> k], order)
  <2>1. day = <<x, readings[x].temp>>
    <3>1. /\ x \in st .. k
          /\ \A i \in st .. k : ~Beats(order, readings[i].temp, readings[x].temp)
          /\ \A i \in st .. (x - 1) : readings[i].temp # readings[x].temp
      BY <1>3
    <3> HIDE DEF x
    <3> QED
      BY <1>1, <1>2, <3>1, DayLineIs
  <2> QED
    BY <1>3, <2>1
<1>5. /\ [from |-> st, to |-> k] \in Days(readings)
      /\ \A d \in Days(readings) : d.to <= k => d.to < st \/ d = [from |-> st, to |-> k]
  <2>1. st \in Starts(readings) /\ \A f \in (st + 1) .. k : f \notin Starts(readings)
    BY DEF KnowsDay
  <2> QED
    BY <1>2, <2>1, LastDay
<1>6. s.file \in Nat /\ s.temp \in Int
  BY DEF KnowsDay, Reports
<1> QED
  BY <1>4, <1>5, <1>6 DEF PrintedLine

LEMMA FirstFile ==
  ASSUME NEW readings \in Seq(Readings), NEW order \in {"max", "min"},
         NEW first \in Int, NEW s, s = NoReport(first),
         NEW k \in 1 .. Len(readings), k = 1
  PROVE  KnowsDay(readings, order, first,
                  DailyStep(s, k, readings[k], order, first), k, k)
<1> DEFINE r == readings[k]
           t == DailyStep(s, k, r, order, first)
<1>1. r \in Readings /\ r.day \in {"d1", "d2"} /\ r.temp \in Int /\ k \in Nat
  <2>1. r \in Readings
    OBVIOUS
  <2> QED
    BY <2>1 DEF Readings
<1>2. s.lines = <<>> /\ s.day = "" /\ s.temp = first /\ s.file = 0 /\ s \in Reports
  <2>1. <<>> \in Seq(PrintedLine)
    OBVIOUS
  <2> QED
    BY <2>1 DEF NoReport, Reports, DayNames
<1>3. k \in Starts(readings)
  BY DEF Starts
<1>4. LinesBefore(readings, order, first, k) = {}
  <2>1. ASSUME NEW d \in Days(readings) PROVE ~(d.to < k)
    BY DEF Days
  <2> QED
    BY <2>1 DEF LinesBefore
<1> HIDE DEF r
<1>5. t \in Reports /\ t.day = r.day /\ t.temp = r.temp /\ t.file = k /\ t.lines = <<>>
  <2>1. r.day # s.day /\ r \in Readings /\ s \in Reports /\ k \in Nat
    BY <1>1, <1>2
  <2>2. /\ t \in Reports /\ t.day = r.day /\ t.temp = r.temp /\ t.file = k
        /\ t.lines = IF s.temp # first THEN Append(s.lines, <<s.file, s.temp>>) ELSE s.lines
    <3> QED
      BY <2>1, DailyStepIs
  <2> QED
    BY <1>2, <2>2
<1> HIDE DEF t
<1>6. InOrder(t.lines) /\ ToSet(t.lines) = {} /\ DOMAIN t.lines = {}
  BY <1>5 DEF InOrder, ToSet
<1>7. \A i \in k .. k : i = k
  BY <1>1
<1>8. /\ k <= k /\ k \in k .. k /\ (\A f \in (k + 1) .. k : FALSE) /\ (\A i \in k .. (k - 1) : FALSE)
      /\ ~Beats(order, r.temp, r.temp)
  BY <1>1 DEF Beats
<1>9. KnowsDay(readings, order, first, t, k, k)
  BY <1>3, <1>4, <1>5, <1>6, <1>7, <1>8 DEF KnowsDay, r
<1> QED
  BY <1>9 DEF t, r

LEMMA SameDay ==
  ASSUME NEW readings \in Seq(Readings), NEW order \in {"max", "min"},
         NEW first \in Int, NEW s, NEW k \in 2 .. Len(readings), NEW st,
         KnowsDay(readings, order, first, s, k - 1, st), k \notin Starts(readings)
  PROVE  KnowsDay(readings, order, first,
                  DailyStep(s, k, readings[k], order, first), k, st)
<1> DEFINE r == readings[k]
           t == DailyStep(s, k, r, order, first)
           replaced == Beats(order, r.temp, s.temp)
           n == Len(readings)
<1>1. n \in Nat /\ k \in Nat /\ 2 <= k /\ k <= n /\ k - 1 \in 1 .. n /\ k \in 1 .. n
  OBVIOUS
<1>2. r.day = s.day
  BY <1>1 DEF KnowsDay, Starts
<1>3. r \in Readings /\ s \in Reports
  BY <1>1 DEF KnowsDay
<1>4. r.temp \in Int /\ s.temp \in Int
  BY <1>3 DEF Readings, Reports
<1>5. st \in Nat /\ st <= k - 1 /\ s.file \in st .. (k - 1) /\ s.file \in Nat
  BY <1>1 DEF KnowsDay, Starts
<1>6. /\ t \in Reports /\ t.day = r.day
      /\ t.temp = IF replaced THEN r.temp ELSE s.temp
      /\ t.file = IF replaced THEN k ELSE s.file
      /\ t.lines = s.lines
  <2> DEFINE late == r.day # s.day \/ Beats(order, r.temp, s.temp)
  <2>1. /\ t \in Reports /\ t.day = r.day
        /\ t.temp = IF late THEN r.temp ELSE s.temp
        /\ t.file = IF late THEN k ELSE s.file
        /\ t.lines = IF r.day # s.day /\ s.temp # first
                     THEN Append(s.lines, <<s.file, s.temp>>) ELSE s.lines
    <3> HIDE DEF r
    <3> QED
      BY <1>1, <1>3, DailyStepIs
  <2> QED
    BY <1>2, <2>1
<1> HIDE DEF t
<1>7. /\ \A i \in st .. (k - 1) : ~Beats(order, readings[i].temp, s.temp)
      /\ \A i \in st .. (s.file - 1) : readings[i].temp # s.temp
      /\ s.temp = readings[s.file].temp
      /\ \A f \in (st + 1) .. (k - 1) : f \notin Starts(readings)
  BY DEF KnowsDay
<1>8. ASSUME NEW i \in st .. k PROVE i = k \/ (i \in st .. (k - 1) /\ readings[i].temp \in Int)
  <2>1. i \in 1 .. n
    BY <1>1 DEF KnowsDay, Starts
  <2>2. readings[i] \in Readings
    BY <2>1
  <2> QED
    BY <1>1, <1>5, <2>2 DEF Readings
<1> HIDE DEF n
<1>9. \A f \in (st + 1) .. k : f \notin Starts(readings)
  BY <1>1, <1>5, <1>7
<1>10. ASSUME NEW i \in st .. k PROVE ~Beats(order, readings[i].temp, t.temp)
  <2>1. CASE replaced
    <3>1. t.temp = r.temp
      BY <1>6, <2>1
    <3>2. CASE i = k
      BY <1>4, <3>1, <3>2 DEF Beats
    <3>3. CASE i \in st .. (k - 1) /\ readings[i].temp \in Int
      <4>1. ~Beats(order, readings[i].temp, s.temp)
        BY <1>7, <3>3
      <4> QED
        BY <1>4, <2>1, <3>1, <3>3, <4>1 DEF Beats
    <3> QED
      BY <1>8, <3>2, <3>3
  <2>2. CASE ~replaced
    BY <1>6, <1>7, <1>8, <2>2
  <2> QED
    BY <2>1, <2>2
<1>11. t.file \in st .. k /\ t.temp = readings[t.file].temp
  BY <1>1, <1>5, <1>6, <1>7
<1>12. ASSUME NEW i \in st .. (t.file - 1) PROVE readings[i].temp # t.temp
  <2>1. CASE replaced
    <3>1. i \in st .. (k - 1) /\ t.temp = r.temp
      BY <1>6, <2>1
    <3> QED
      BY <1>7, <2>1, <3>1
  <2>2. CASE ~replaced
    <3>1. i \in st .. (s.file - 1) /\ t.temp = s.temp
      BY <1>6, <2>2
    <3> QED
      BY <1>7, <3>1
  <2> QED
    BY <2>1, <2>2
<1>13. /\ st \in Starts(readings) /\ st <= k
       /\ InOrder(t.lines) /\ (\A j \in DOMAIN t.lines : t.lines[j][1] < st)
       /\ ToSet(t.lines) = LinesBefore(readings, order, first, st)
  BY <1>1, <1>5, <1>6 DEF KnowsDay
<1>14. KnowsDay(readings, order, first, t, k, st)
  BY <1>6, <1>9, <1>10, <1>11, <1>12, <1>13 DEF KnowsDay
<1> QED
  BY <1>14 DEF t

LEMMA NextDay ==
  ASSUME NEW readings \in Seq(Readings), NEW order \in {"max", "min"},
         NEW first \in Int, NEW s, NEW k \in 2 .. Len(readings), NEW st,
         KnowsDay(readings, order, first, s, k - 1, st), k \in Starts(readings)
  PROVE  KnowsDay(readings, order, first,
                  DailyStep(s, k, readings[k], order, first), k, k)
<1> DEFINE r == readings[k]
           t == DailyStep(s, k, r, order, first)
           l == <<s.file, s.temp>>
           day == [from |-> st, to |-> k - 1]
           n == Len(readings)
           line(d) == DayLine(readings, d, order)
<1>1. n \in Nat /\ k \in Nat /\ 2 <= k /\ k <= n /\ k - 1 \in 1 .. n /\ (k - 1) + 1 = k
  OBVIOUS
<1>2. r.day # s.day
  BY <1>1 DEF KnowsDay, Starts
<1>3. r \in Readings /\ s \in Reports
  BY <1>1 DEF KnowsDay
<1>4. r.temp \in Int /\ s.temp \in Int /\ s.lines \in Seq(PrintedLine) /\ s.file \in Nat
  BY <1>3 DEF Readings, Reports
<1>5. st \in Nat /\ st <= k - 1 /\ s.file \in st .. (k - 1)
  BY <1>1 DEF KnowsDay, Starts
<1>6. /\ t \in Reports /\ t.day = r.day /\ t.temp = r.temp /\ t.file = k
      /\ t.lines = IF s.temp # first THEN Append(s.lines, l) ELSE s.lines
  BY <1>1, <1>2, <1>3, DailyStepIs
<1> HIDE DEF t
<1>7. /\ l \in PrintedLine /\ day \in Days(readings) /\ line(day) = l
      /\ \A d \in Days(readings) : d.to <= k - 1 => d.to < st \/ d = day
  <2>1. k - 1 = n \/ (k - 1) + 1 \in Starts(readings)
    BY <1>1
  <2> QED
    BY <1>1, <2>1, DayEnds
<1>8. l[1] = s.file /\ l[2] = s.temp /\ day.to = k - 1
  OBVIOUS
<1>9. /\ InOrder(s.lines) /\ (\A j \in DOMAIN s.lines : s.lines[j][1] < st)
      /\ ToSet(s.lines) = LinesBefore(readings, order, first, st)
  BY DEF KnowsDay
<1>10. \A j \in DOMAIN s.lines : s.lines[j] \in PrintedLine /\ s.lines[j][1] \in Nat
  BY <1>4 DEF PrintedLine
<1>11. \A d \in Days(readings) : d.to \in Nat
  BY DEF Days
<1> HIDE DEF l, day, line, n
<1>12. LinesBefore(readings, order, first, k)
         = LinesBefore(readings, order, first, st) \cup {x \in {l} : s.temp # first}
  <2> DEFINE Before(m) == {c \in Days(readings) : c.to < m /\ line(c)[2] # first}
  <2>1. Before(k) = Before(st) \cup {x \in {day} : s.temp # first}
    <3>1. ASSUME NEW d \in Days(readings)
          PROVE  d.to < k <=> d.to < st \/ d = day
      BY <1>1, <1>5, <1>7, <1>8, <1>11
    <3> QED
      BY <1>7, <1>8, <3>1
  <2>2. \A m : LinesBefore(readings, order, first, m) = {line(d) : d \in Before(m)}
    BY DEF LinesBefore, line
  <2> HIDE DEF Before
  <2> QED
    BY <1>7, <2>1, <2>2
<1>13. /\ InOrder(t.lines) /\ (\A j \in DOMAIN t.lines : t.lines[j][1] < k)
       /\ ToSet(t.lines) = LinesBefore(readings, order, first, k)
  <2>1. CASE s.temp # first
    <3>1. \A j \in DOMAIN s.lines : s.lines[j][1] < l[1]
      BY <1>5, <1>8, <1>9, <1>10
    <3>2. /\ Append(s.lines, l) \in Seq(PrintedLine) /\ InOrder(Append(s.lines, l))
          /\ ToSet(Append(s.lines, l)) = ToSet(s.lines) \cup {l}
          /\ \A j \in DOMAIN Append(s.lines, l) : Append(s.lines, l)[j][1] <= l[1]
      BY <1>4, <1>7, <1>9, <3>1, MoreLines
    <3>3. t.lines = Append(s.lines, l)
      BY <1>6, <2>1
    <3>4. ASSUME NEW j \in DOMAIN t.lines PROVE t.lines[j][1] < k
      <4>1. t.lines \in Seq(PrintedLine)
        BY <1>6 DEF Reports
      <4>2. t.lines[j][1] \in Nat
        BY <4>1 DEF PrintedLine
      <4>3. t.lines[j][1] <= l[1]
        BY <3>2, <3>3
      <4> QED
        BY <1>1, <1>4, <1>5, <1>8, <4>2, <4>3
    <3> QED
      BY <1>9, <1>12, <2>1, <3>2, <3>3, <3>4
  <2>2. CASE s.temp = first
    <3>1. t.lines = s.lines
      BY <1>6, <2>2
    <3>2. \A j \in DOMAIN t.lines : t.lines[j][1] < k
      BY <1>1, <1>5, <1>9, <1>10, <3>1
    <3> QED
      BY <1>9, <1>12, <2>2, <3>1, <3>2
  <2> QED
    BY <2>1, <2>2
<1>14. \A i \in k .. k : i = k
  BY <1>1
<1>15. /\ k <= k /\ k \in k .. k /\ (\A f \in (k + 1) .. k : FALSE) /\ (\A i \in k .. (k - 1) : FALSE)
       /\ ~Beats(order, r.temp, r.temp)
  BY <1>1, <1>4 DEF Beats
<1>16. KnowsDay(readings, order, first, t, k, k)
  BY <1>6, <1>13, <1>14, <1>15 DEF KnowsDay
<1> QED
  BY <1>16 DEF t

(* A daily script prints the lines of the days, in their order.            *)
LEMMA DailyRight ==
  ASSUME NEW readings \in Seq(Readings), readings # <<>>,
         NEW order \in {"max", "min"}, NEW first \in Int
  PROVE  /\ InOrder(Daily(order, first, readings))
         /\ ToSet(Daily(order, first, readings)) = DayLines(readings, order, first)
<1> DEFINE n == Len(readings)
           Knows(s, k) == \E st : KnowsDay(readings, order, first, s, k, st)
           line(d) == DayLine(readings, d, order)
           printed == Daily(order, first, readings)
<1>1. PICK p : /\ DailyRounds(p, order, first, readings)
               /\ printed = Append(p[n].lines, <<p[n].file, p[n].temp>>)
  BY DailyExist
<1> DEFINE P == {k \in 0 .. n : k = 0 \/ Knows(p[k], k)}
<1>2. n \in Nat /\ n >= 1
  OBVIOUS
<1>3. /\ p[0] = NoReport(first)
      /\ \A k \in 1 .. n : p[k] = DailyStep(p[k - 1], k, readings[k], order, first)
  BY <1>1 DEF DailyRounds
<1>4. n \in P
  <2>1. 0 \in P
    BY <1>2
  <2>2. ASSUME NEW k \in 1 .. n, k - 1 \in P PROVE k \in P
    <3>1. k \in Nat /\ k \in 1 .. Len(readings) /\ k \in 0 .. n
      BY <1>2
    <3>2. p[k] = DailyStep(p[k - 1], k, readings[k], order, first)
      BY <1>3
    <3>3. CASE k = 1
      <4>1. p[k - 1] = NoReport(first)
        BY <1>3, <3>3
      <4>2. KnowsDay(readings, order, first, p[k], k, k)
        BY <3>1, <3>2, <3>3, <4>1, FirstFile
      <4> QED
        BY <3>1, <4>2
    <3>4. CASE k # 1
      <4> DEFINE s == p[k - 1]
      <4>1. k \in 2 .. Len(readings)
        BY <3>1, <3>4
      <4>2. PICK st : KnowsDay(readings, order, first, s, k - 1, st)
        BY <2>2, <3>1, <3>4
      <4> HIDE DEF s
      <4>3. CASE k \notin Starts(readings)
        <5>1. KnowsDay(readings, order, first,
                       DailyStep(s, k, readings[k], order, first), k, st)
          BY <4>1, <4>2, <4>3, SameDay
        <5> QED
          BY <3>1, <3>2, <5>1 DEF s
      <4>4. CASE k \in Starts(readings)
        <5>1. KnowsDay(readings, order, first,
                       DailyStep(s, k, readings[k], order, first), k, k)
          BY <4>1, <4>2, <4>4, NextDay
        <5> QED
          BY <3>1, <3>2, <5>1 DEF s
      <4> QED
        BY <4>3, <4>4
    <3> QED
      BY <3>3, <3>4
  <2> HIDE DEF P, n
  <2>3. 0 .. n \subseteq P
    BY <1>2, <2>1, <2>2, UpTo
  <2> QED
    BY <1>2, <2>3
<1> DEFINE s == p[n]
           l == <<s.file, s.temp>>
<1>5. PICK st : KnowsDay(readings, order, first, s, n, st)
  BY <1>2, <1>4
<1> DEFINE day == [from |-> st, to |-> n]
<1>6. printed = Append(s.lines, l)
  BY <1>1
<1> HIDE DEF s, printed
<1>7. /\ l \in PrintedLine /\ day \in Days(readings) /\ line(day) = l
      /\ \A d \in Days(readings) : d.to <= n => d.to < st \/ d = day
  <2>1. n \in 1 .. Len(readings)
    BY <1>2
  <2> QED
    BY <1>5, <2>1, DayEnds
<1>8. /\ s \in Reports /\ InOrder(s.lines) /\ (\A j \in DOMAIN s.lines : s.lines[j][1] < st)
      /\ ToSet(s.lines) = LinesBefore(readings, order, first, st)
      /\ st \in Nat /\ st <= n /\ s.file \in st .. n
  BY <1>2, <1>5 DEF KnowsDay, Starts
<1>9. s.lines \in Seq(PrintedLine)
  BY <1>8 DEF Reports
<1>10. \A d \in Days(readings) : d.to \in Nat /\ d.to <= n
  BY <1>2 DEF Days
<1>11. l[1] = s.file /\ day.to = n
  OBVIOUS
<1> HIDE DEF l, day, line, n
<1>12. \A j \in DOMAIN s.lines : s.lines[j][1] < l[1]
  <2>1. \A j \in DOMAIN s.lines : s.lines[j][1] \in Nat
    BY <1>9 DEF PrintedLine
  <2> QED
    BY <1>2, <1>8, <1>11, <2>1
<1>13. /\ InOrder(Append(s.lines, l))
       /\ ToSet(Append(s.lines, l)) = ToSet(s.lines) \cup {l}
  BY <1>7, <1>8, <1>9, <1>12, MoreLines
<1>14. DayLines(readings, order, first) = LinesBefore(readings, order, first, st) \cup {l}
  <2> DEFINE Before == {c \in Days(readings) : c.to < st /\ line(c)[2] # first}
             All == {d \in Days(readings) : line(d)[2] # first \/ d.to = n}
  <2>1. All = Before \cup {day}
    BY <1>2, <1>7, <1>8, <1>10, <1>11
  <2>2. LinesBefore(readings, order, first, st) = {line(d) : d \in Before}
    BY DEF LinesBefore, line
  <2>3. DayLines(readings, order, first) = {line(d) : d \in All}
    BY DEF DayLines, line, n
  <2> HIDE DEF Before, All
  <2> QED
    BY <1>7, <2>1, <2>2, <2>3
<1> QED
  BY <1>6, <1>8, <1>13, <1>14 DEF printed

(* A bounded sequence is a sequence over every larger set.                 *)
LEMMA BoundedIsSeq ==
  ASSUME NEW n \in Nat, NEW S, NEW T, S \subseteq T, NEW q \in BoundedSeq(S, n)
  PROVE  q \in Seq(T)
<1>1. q \in UNION {[1 .. m -> S] : m \in 0 .. n}
  BY DEF BoundedSeq, SeqOf
<1>2. PICK m \in 0 .. n : q \in [1 .. m -> S]
  BY <1>1
<1>3. m \in Nat /\ q \in [1 .. m -> T]
  BY <1>2
<1> QED
  BY <1>3

(* The scripts of linux-fun-2012 print the extremes of what they read,     *)
(* but for the exceptions the property names: the last day apart, a day    *)
(* whose extreme is the value the script starts with is left out, and the  *)
(* script that looks for both misses a lowest reading that came first.     *)
THEOREM ExtremesRight == AlgorithmsSpec => []Extremes
<1>1. AnyInput => Extremes
  <2> SUFFICES ASSUME AnyInput PROVE Extremes
    OBVIOUS
  <2>1. DailyExtremes
    <3> SUFFICES ASSUME program = "redux", input # <<>>
                 PROVE  /\ InOrder(daily_max(input)) /\ InOrder(daily_min(input))
                        /\ ToSet(daily_max(input)) = DayLines(input, "max", 0)
                        /\ ToSet(daily_min(input)) = DayLines(input, "min", 70)
      BY DEF DailyExtremes
    <3>1. input \in BoundedSeq([day : {"d1", "d2"}, temp : Temps], MaxReadings)
      BY DEF AnyInput
    <3>2. MaxReadings \in Nat
      BY AlgorithmsAssumption
    <3>3. [day : {"d1", "d2"}, temp : Temps] \subseteq Readings
      BY AlgorithmsAssumption DEF Readings
    <3>4. input \in Seq(Readings)
      BY <3>1, <3>2, <3>3, BoundedIsSeq
    <3>5. 0 \in Int /\ 70 \in Int /\ "max" \in {"max", "min"} /\ "min" \in {"max", "min"}
      OBVIOUS
    <3> QED
      BY <3>4, <3>5, DailyRight, Zenon DEF daily_max, daily_min
  <2>2. OnePass
    <3>1. ASSUME program = "max-temp" PROVE input \in Seq(Int)
      <4>1. input \in BoundedSeq(Temps, MaxReadings)
        BY <3>1 DEF AnyInput
      <4>2. MaxReadings \in Nat /\ Temps \subseteq Int
        BY AlgorithmsAssumption
      <4> QED
        BY <4>1, <4>2, BoundedIsSeq
    <3> QED
      BY <3>1, OnePassRight DEF OnePass
  <2> QED
    BY <2>1, <2>2 DEF Extremes
<1>2. Extremes /\ [Stay]_inputs => Extremes'
  <2> SUFFICES ASSUME Extremes, [Stay]_inputs PROVE Extremes'
    OBVIOUS
  <2>1. program' = program /\ input' = input
    BY DEF Stay, inputs
  <2> QED
    BY <2>1 DEF Extremes, DailyExtremes, OnePass
<1> QED
  BY <1>1, <1>2, PTL DEF AlgorithmsSpec
-----------------------------------------------------------------------------
(* The bytes of a command up to each of its pieces.                        *)
LengthRounds(p, pieces) ==
  /\ p[0] = 0
  /\ \A k \in 1 .. Len(pieces) : p[k] = p[k - 1] + pieces[k]

LEMMA LengthExists ==
  ASSUME NEW command, NEW pieces \in Seq(Nat), command.pieces = pieces
  PROVE  \E p : LengthRounds(p, pieces) /\ Length(command) = p[Len(pieces)]
<1> DEFINE n == Len(pieces)
           D == 1 .. n
           step == [x \in D \X Nat |-> x[2] + pieces[x[1]]]
           Rule(h) == h = [s \in SUBSET D |->
             IF s = {} THEN 0 ELSE h[s \ {Max(s)}] + pieces[Max(s)]]
           h == CHOOSE h : Rule(h)
<1>1. n \in Nat /\ IsFiniteSet(D) /\ Picks(LastOf(n), D)
  BY LastIsPicked, FS_Interval
<1>2. step \in [D \X Nat -> Nat] /\ 0 \in Nat
  OBVIOUS
<1>3. PICK g \in [SUBSET D -> Nat] : FoldsOver(g, step, 0, LastOf(n), D)
  <2> HIDE DEF D, step
  <2> QED
    BY <1>1, <1>2, FoldExists
<1>4. Rule(g)
  <2>1. ASSUME NEW s \in SUBSET D, s # {}
        PROVE  step[<<LastOf(n)[s], g[s \ {LastOf(n)[s]}]>>] = g[s \ {Max(s)}] + pieces[Max(s)]
    <3>1. LastOf(n)[s] = Max(s) /\ Max(s) \in D
      BY <1>1, <2>1, LastIsPicked DEF LastOf
    <3>2. g[s \ {Max(s)}] \in Nat
      BY <1>3
    <3> QED
      BY <3>1, <3>2
  <2> HIDE DEF step, D
  <2> QED
    BY <1>3, <2>1 DEF FoldsOver
<1>5. Rule(h)
  BY <1>4
<1>6. Length(command) = h[D]
  <2>1. DOMAIN pieces = D
    OBVIOUS
  <2> QED
    BY <2>1 DEF Length, FoldLeft, MapThenFoldSet
<1> HIDE DEF h, n
<1> DEFINE p == [k \in 0 .. n |-> h[1 .. k]]
<1>7. p[0] = 0
  <2>1. 1 .. 0 = {} /\ 0 \in 0 .. n
    BY <1>1
  <2> QED
    BY <1>5, <2>1
<1>8. ASSUME NEW k \in 1 .. n PROVE p[k] = p[k - 1] + pieces[k]
  <2>1. 1 .. k \in SUBSET D /\ 1 .. k # {} /\ Max(1 .. k) = k
        /\ (1 .. k) \ {k} = 1 .. (k - 1) /\ k - 1 \in 0 .. n /\ k \in 0 .. n
    BY <1>1, Beginning
  <2>2. h[1 .. k] = h[1 .. (k - 1)] + pieces[k]
    BY <1>5, <2>1
  <2> QED
    BY <2>1, <2>2
<1>9. p[n] = h[D]
  BY <1>1
<1> QED
  BY <1>6, <1>7, <1>8, <1>9 DEF LengthRounds, n

(* A command has at least a byte for every piece.                          *)
LEMMA LengthBounds ==
  ASSUME NEW command, NEW M \in Nat, NEW pieces \in Seq(1 .. M), command.pieces = pieces,
         NEW p, LengthRounds(p, pieces)
  PROVE  /\ \A k \in 0 .. Len(pieces) : p[k] \in Nat
         /\ \A k \in 1 .. Len(pieces) :
              p[k] \in Nat /\ p[k] >= pieces[1] + k - 1 /\ p[k] <= k * M
<1> DEFINE n == Len(pieces)
           P == {k \in 0 .. n : /\ p[k] \in Nat /\ p[k] <= k * M
                                /\ k > 0 => p[k] >= pieces[1] + k - 1}
<1>1. n \in Nat /\ \A k \in 1 .. n : pieces[k] \in 1 .. M
  OBVIOUS
<1>2. p[0] = 0 /\ \A k \in 1 .. n : p[k] = p[k - 1] + pieces[k]
  BY DEF LengthRounds
<1> HIDE DEF n
<1>3. 0 \in P
  BY <1>1, <1>2
<1>4. ASSUME NEW k \in 1 .. n, k - 1 \in P PROVE k \in P
  <2> DEFINE a == pieces[k]
             b == p[k - 1]
             d == pieces[1]
  <2>1. k \in Nat /\ k >= 1 /\ a \in Nat /\ a >= 1 /\ a <= M /\ d \in Nat /\ 1 \in 1 .. n
    BY <1>1
  <2>2. b \in Nat /\ b <= (k - 1) * M /\ (k - 1 > 0 => b >= d + (k - 1) - 1)
    BY <1>4
  <2>3. p[k] = b + a
    BY <1>2
  <2>4. k = 1 => a = d /\ b = 0
    BY <1>2
  <2> HIDE DEF a, b, d
  <2>5. k * M = (k - 1) * M + M
    BY <2>1
  <2>6. (k - 1) * M \in Nat
    BY <2>1
  <2>7. p[k] \in Nat /\ p[k] <= k * M
    BY <2>1, <2>2, <2>3, <2>5, <2>6
  <2>8. p[k] >= d + k - 1
    BY <2>1, <2>2, <2>3, <2>4
  <2> QED
    BY <1>1, <2>1, <2>7, <2>8 DEF d
<1>5. 0 .. n \subseteq P
  <2> HIDE DEF P
  <2> QED
    BY <1>1, <1>3, <1>4, UpTo
<1>6. ASSUME NEW k \in 1 .. n
      PROVE  p[k] \in Nat /\ p[k] >= pieces[1] + k - 1 /\ p[k] <= k * M
  <2>1. k \in 0 .. n /\ k > 0
    BY <1>1
  <2> QED
    BY <1>5, <2>1
<1>7. \A k \in 0 .. n : p[k] \in Nat
  BY <1>5
<1> QED
  BY <1>6, <1>7 DEF n

(* The state of response between its reads.                                *)
Buffers == [1 .. MAXLINE -> Nat \X Nat]
Replies ==
  {FilePath, Undefined} \cup
    {Reply([byte |-> x[1], buf |-> x[2]]) : x \in Nat \X Buffers}
Talks ==
  [ptr : Nat, byte : Nat, buf : Buffers, open : BOOLEAN, answers : Seq(Replies)]

LEMMA BytesAre ==
  ASSUME NEW c \in Nat, NEW from \in Nat, NEW to \in Nat, from <= to
  PROVE  /\ Bytes(c, from, to) \in Seq(Nat \X Nat)
         /\ Len(Bytes(c, from, to)) = to - from
         /\ \A k \in 1 .. (to - from) : Bytes(c, from, to)[k] = <<c, from + k>>
<1> DEFINE n == to - from
           f == [k \in 1 .. n |-> <<c, from + k>>]
<1>1. n \in Nat
  OBVIOUS
<1> HIDE DEF n
<1>2. f \in Seq(Nat \X Nat) /\ Len(f) = n /\ \A k \in 1 .. n : f[k] = <<c, from + k>>
  BY <1>1
<1>3. Bytes(c, from, to) = f
  BY DEF Bytes, n
<1> HIDE DEF f
<1> QED
  BY <1>2, <1>3 DEF n

LEMMA PlaceIs ==
  ASSUME NEW buf \in Buffers, NEW at \in Nat, NEW bytes \in Seq(Nat \X Nat)
  PROVE  /\ Place(buf, at, bytes) \in Buffers
         /\ \A k \in 1 .. MAXLINE :
              Place(buf, at, bytes)[k] =
                IF at < k /\ k <= at + Len(bytes) THEN bytes[k - at] ELSE buf[k]
<1> DEFINE n == Len(bytes)
<1>1. n \in Nat /\ \A k \in 1 .. n : bytes[k] \in Nat \X Nat
  OBVIOUS
<1>2. DOMAIN buf = 1 .. MAXLINE /\ MAXLINE \in Nat
  BY AlgorithmsAssumption DEF Buffers
<1> HIDE DEF n
<1>3. ASSUME NEW k \in 1 .. MAXLINE
      PROVE  /\ (IF k - 1 \in at .. (at + n - 1) THEN bytes[k - at] ELSE buf[k])
                  = IF at < k /\ k <= at + n THEN bytes[k - at] ELSE buf[k]
             /\ (IF at < k /\ k <= at + n THEN bytes[k - at] ELSE buf[k]) \in Nat \X Nat
  <2>1. k - 1 \in at .. (at + n - 1) <=> at < k /\ k <= at + n
    BY <1>1, <1>2
  <2>2. at < k /\ k <= at + n => bytes[k - at] \in Nat \X Nat
    BY <1>1, <1>2
  <2>3. buf[k] \in Nat \X Nat
    BY DEF Buffers
  <2> QED
    BY <2>1, <2>2, <2>3
<1>4. Place(buf, at, bytes) = [k \in 1 .. MAXLINE |->
               IF k - 1 \in at .. (at + n - 1) THEN bytes[k - at] ELSE buf[k]]
  BY <1>2 DEF Place, n
<1>5. Place(buf, at, bytes) = [k \in 1 .. MAXLINE |->
               IF at < k /\ k <= at + n THEN bytes[k - at] ELSE buf[k]]
  BY <1>3, <1>4, Zenon
<1> QED
  BY <1>3, <1>5 DEF n, Buffers

(* A read behind the first puts its bytes where ptr leads to.              *)
Written(new, old, c, at, from, n) ==
  \A k \in 1 .. MAXLINE :
    new[k] = IF at < k /\ k <= at + n THEN <<c, from + (k - at)>> ELSE old[k]

LEMMA ReadRestIs ==
  ASSUME NEW s \in Talks, NEW c \in Nat, NEW n \in Nat, NEW t, t = ReadRest(s, c, n)
  PROVE  /\ t \in Talks /\ t.ptr = s.ptr + n /\ t.byte = s.byte + n
         /\ t.open = s.open /\ t.answers = s.answers
         /\ Written(t.buf, s.buf, c, s.ptr, s.byte, n)
<1> DEFINE A == Seq(Replies)
           T == [ptr : Nat, byte : Nat, buf : Buffers, open : BOOLEAN, answers : A]
           b == Place(s.buf, s.ptr, Bytes(c, s.byte, s.byte + n))
<1>1. s \in T /\ s.ptr \in Nat /\ s.byte \in Nat /\ s.buf \in Buffers /\ T = Talks
  BY DEF Talks
<1>2. /\ b \in Buffers
      /\ \A k \in 1 .. MAXLINE :
           b[k] = IF s.ptr < k /\ k <= s.ptr + n THEN <<c, s.byte + (k - s.ptr)>> ELSE s.buf[k]
  <2>1. PICK from \in Nat, to \in Nat, at \in Nat : from = s.byte /\ to = s.byte + n /\ at = s.ptr
    BY <1>1
  <2> DEFINE bytes == Bytes(c, from, to)
  <2>2. /\ bytes \in Seq(Nat \X Nat) /\ Len(bytes) = n
        /\ \A k \in 1 .. n : bytes[k] = <<c, from + k>>
    <3>1. from <= to /\ to - from = n
      BY <2>1
    <3>2. bytes \in Seq(Nat \X Nat)
      BY <3>1, BytesAre
    <3>3. Len(bytes) = to - from
      BY <3>1, BytesAre
    <3>4. \A k \in 1 .. (to - from) : bytes[k] = <<c, from + k>>
      BY <3>1, BytesAre
    <3> QED
      BY <3>1, <3>2, <3>3, <3>4
  <2> HIDE DEF bytes
  <2>3. /\ Place(s.buf, at, bytes) \in Buffers
        /\ \A k \in 1 .. MAXLINE :
             Place(s.buf, at, bytes)[k] =
               IF at < k /\ k <= at + Len(bytes) THEN bytes[k - at] ELSE s.buf[k]
    BY <1>1, <2>2, PlaceIs
  <2>4. ASSUME NEW k \in 1 .. MAXLINE, at < k, k <= at + n
        PROVE  bytes[k - at] = <<c, from + (k - at)>>
    <3>1. k - at \in 1 .. n
      BY <2>4, AlgorithmsAssumption
    <3> QED
      BY <2>2, <3>1
  <2>5. b = Place(s.buf, at, bytes)
    BY <2>1 DEF bytes
  <2> QED
    BY <2>1, <2>2, <2>3, <2>4, <2>5
<1>3. t = [s EXCEPT !.buf = b, !.byte = s.byte + n, !.ptr = s.ptr + n]
  BY DEF ReadRest
<1> HIDE DEF A, b
<1>4. /\ t \in T /\ t.ptr = s.ptr + n /\ t.byte = s.byte + n
      /\ t.open = s.open /\ t.answers = s.answers /\ t.buf = b
  <2>1. s.ptr + n \in Nat /\ s.byte + n \in Nat /\ b \in Buffers
    BY <1>1, <1>2
  <2> HIDE DEF Buffers
  <2> QED
    BY <1>1, <1>3, <2>1
<1> QED
  BY <1>1, <1>2, <1>4 DEF Written

(* An E command in pieces, after each of its reads.                        *)
FirstPiece(r, pieces) == [r EXCEPT !.ptr = @ + pieces[1], !.byte = pieces[1]]

Rest(pieces) == Tail(pieces)

RestRounds(q, r, c, rest) ==
  /\ q[0] = r
  /\ \A k \in 1 .. Len(rest) : q[k] = ReadRest(q[k - 1], c, rest[k])

LEMMA RestExists ==
  ASSUME NEW r, NEW base \in Talks, NEW c \in Nat, NEW pieces, Len(pieces) # 1,
         base = FirstPiece(r, pieces), NEW rest \in Seq(Nat), rest = Rest(pieces),
         NEW e, e = EchoCommand(r, c, pieces)
  PROVE  \E q : RestRounds(q, base, c, rest) /\ e = q[Len(rest)]
<1> DEFINE n == Len(rest)
           D == 1 .. n
           step == [x \in D \X Talks |-> ReadRest(x[2], c, rest[x[1]])]
           Rule(h) == h = [s \in SUBSET D |->
             IF s = {} THEN base ELSE ReadRest(h[s \ {Max(s)}], c, rest[Max(s)])]
           h == CHOOSE h : Rule(h)
<1>1. n \in Nat /\ IsFiniteSet(D) /\ Picks(LastOf(n), D)
  BY LastIsPicked, FS_Interval
<1>2. step \in [D \X Talks -> Talks] /\ base \in Talks
  <2>1. ASSUME NEW x \in D \X Talks PROVE ReadRest(x[2], c, rest[x[1]]) \in Talks
    <3>1. x[1] \in D /\ x[2] \in Talks /\ rest[x[1]] \in Nat
      OBVIOUS
    <3> QED
      BY <3>1, ReadRestIs
  <2> QED
    BY <2>1
<1>3. PICK g \in [SUBSET D -> Talks] : FoldsOver(g, step, base, LastOf(n), D)
  <2> HIDE DEF D, step
  <2> QED
    BY <1>1, <1>2, FoldExists
<1>4. Rule(g)
  <2>1. ASSUME NEW s \in SUBSET D, s # {}
        PROVE  step[<<LastOf(n)[s], g[s \ {LastOf(n)[s]}]>>]
                 = ReadRest(g[s \ {Max(s)}], c, rest[Max(s)])
    <3>1. LastOf(n)[s] = Max(s) /\ Max(s) \in D
      BY <1>1, <2>1, LastIsPicked DEF LastOf
    <3>2. g[s \ {Max(s)}] \in Talks
      BY <1>3
    <3> QED
      BY <3>1, <3>2
  <2> HIDE DEF step, D
  <2> QED
    BY <1>3, <2>1 DEF FoldsOver
<1>5. Rule(h)
  BY <1>4
<1>6. e = h[D]
  <2>1. DOMAIN rest = D
    OBVIOUS
  <2> QED
    BY <2>1 DEF EchoCommand, FoldLeft, MapThenFoldSet, FirstPiece, Rest
<1> HIDE DEF h, n
<1> DEFINE p == [k \in 0 .. n |-> h[1 .. k]]
<1>7. p[0] = base
  <2>1. 1 .. 0 = {} /\ 0 \in 0 .. n
    BY <1>1
  <2> QED
    BY <1>5, <2>1
<1>8. ASSUME NEW k \in 1 .. n PROVE p[k] = ReadRest(p[k - 1], c, rest[k])
  <2>1. 1 .. k \in SUBSET D /\ 1 .. k # {} /\ Max(1 .. k) = k
        /\ (1 .. k) \ {k} = 1 .. (k - 1) /\ k - 1 \in 0 .. n /\ k \in 0 .. n
    BY <1>1, Beginning
  <2>2. h[1 .. k] = ReadRest(h[1 .. (k - 1)], c, rest[k])
    BY <1>5, <2>1
  <2> QED
    BY <2>1, <2>2
<1>9. p[n] = h[D]
  BY <1>1
<1> QED
  BY <1>6, <1>7, <1>8, <1>9 DEF RestRounds, n

LEMMA FirstPieceIs ==
  ASSUME NEW r \in Talks, NEW pieces, NEW a \in Nat, a = pieces[1],
         NEW s, s = FirstPiece(r, pieces)
  PROVE  /\ s \in Talks /\ s.ptr = r.ptr + a /\ s.byte = a
         /\ s.open = r.open /\ s.answers = r.answers /\ s.buf = r.buf
<1> DEFINE A == Seq(Replies)
           T == [ptr : Nat, byte : Nat, buf : Buffers, open : BOOLEAN, answers : A]
<1>1. r \in T /\ r.ptr \in Nat /\ T = Talks
  BY DEF Talks
<1>2. s = [r EXCEPT !.ptr = r.ptr + a, !.byte = a] /\ r.ptr + a \in Nat
  BY <1>1 DEF FirstPiece
<1> HIDE DEF A
<1> QED
  BY <1>1, <1>2

(* An E command is put where ptr led to, but for its first piece, and byte *)
(* counts it.                                                              *)
Echoed(new, old, c, at, a, l) ==
  \A k \in 1 .. MAXLINE :
    new[k] = IF at + a < k /\ k <= at + l THEN <<c, k - at>> ELSE old[k]

(* What only the answer changes.                                           *)
Kept(new, old) == new.open = old.open /\ new.answers = old.answers

Echo(e, r, c, first, len) ==
  /\ e \in Talks /\ e.ptr = r.ptr + len /\ e.byte = len
  /\ Kept(e, r) /\ Echoed(e.buf, r.buf, c, r.ptr, first, len)

LEMMA EchoIs ==
  ASSUME NEW r \in Talks, NEW c \in Nat, NEW command, NEW pieces \in Seq(Nat),
         command.pieces = pieces, Len(pieces) >= 2,
         NEW e, e = EchoCommand(r, c, pieces)
  PROVE  Length(command) \in Nat /\ Echo(e, r, c, pieces[1], Length(command))
<1> DEFINE L == Length(command)
           n == Len(pieces)
           rest == Tail(pieces)
           base == FirstPiece(r, pieces)
<1>1. PICK p : LengthRounds(p, pieces) /\ L = p[n]
  BY LengthExists
<1>2. /\ n \in Nat /\ n >= 2 /\ rest \in Seq(Nat) /\ Len(rest) = n - 1 /\ Len(pieces) # 1
      /\ \A k \in 1 .. (n - 1) : rest[k] = pieces[k + 1] /\ rest[k] \in Nat
  OBVIOUS
<1>3. PICK P \in Nat, a \in Nat : P = r.ptr /\ a = pieces[1]
  BY DEF Talks
<1>4. /\ base \in Talks /\ base.ptr = P + a /\ base.byte = a
      /\ base.open = r.open /\ base.answers = r.answers /\ base.buf = r.buf
  BY <1>3, FirstPieceIs
<1>5. PICK q : RestRounds(q, base, c, rest) /\ e = q[n - 1]
  <2>1. PICK s, tail : s = base /\ tail = rest
    OBVIOUS
  <2>2. /\ s = FirstPiece(r, pieces) /\ tail = Rest(pieces)
        /\ s \in Talks /\ tail \in Seq(Nat) /\ Len(pieces) # 1
    BY <1>2, <1>4, <2>1 DEF Rest
  <2> HIDE DEF base, rest
  <2>3. \E q : RestRounds(q, s, c, tail) /\ e = q[Len(tail)]
    BY <2>2, RestExists
  <2> QED
    BY <1>2, <2>1, <2>3
<1>6. p[0] = 0 /\ \A k \in 1 .. n : p[k] = p[k - 1] + pieces[k]
  BY <1>1 DEF LengthRounds
<1>7. q[0] = base /\ \A k \in 1 .. (n - 1) : q[k] = ReadRest(q[k - 1], c, rest[k])
  BY <1>2, <1>5 DEF RestRounds
<1> HIDE DEF L, n, rest, base
<1> DEFINE Good(s, l) ==
             /\ l \in Nat /\ l >= a
             /\ s \in Talks /\ s.ptr = P + l /\ s.byte = l
             /\ s.open = r.open /\ s.answers = r.answers
             /\ \A k \in 1 .. MAXLINE :
                  s.buf[k] = IF P + a < k /\ k <= P + l THEN <<c, k - P>> ELSE r.buf[k]
           S == {k \in 0 .. (n - 1) : Good(q[k], p[k + 1])}
<1>8. 0 \in S
  <2>1. 1 \in 1 .. n /\ 0 \in 0 .. (n - 1) /\ 0 + 1 = 1 /\ 1 - 1 = 0
    BY <1>2
  <2>2. p[1] = a
    BY <1>3, <1>6, <2>1
  <2>3. \A k \in 1 .. MAXLINE : ~(P + a < k /\ k <= P + a)
    BY AlgorithmsAssumption
  <2>4. Good(base, a)
    BY <1>4, <2>3
  <2> QED
    BY <1>7, <2>1, <2>2, <2>4
<1>9. ASSUME NEW j \in 1 .. (n - 1), j - 1 \in S PROVE j \in S
  <2>0. PICK s, t : s = q[j - 1] /\ t = q[j]
    OBVIOUS
  <2>1. j \in Nat /\ j \in 0 .. (n - 1) /\ j + 1 \in 1 .. n /\ (j - 1) + 1 = j /\ (j + 1) - 1 = j
    <3>1. j \in Nat /\ j >= 1 /\ j <= n - 1
      BY <1>2
    <3> QED
      BY <1>2, <3>1
  <2>2. PICK l \in Nat, x \in Nat : l = p[j] /\ x = rest[j] /\ Good(s, l)
    BY <1>2, <1>9, <2>0, <2>1
  <2>3. p[j + 1] = l + x
    BY <1>2, <1>6, <2>1, <2>2
  <2>4. t = ReadRest(s, c, x)
    BY <1>7, <2>0, <2>2
  <2>5. /\ t \in Talks /\ t.ptr = s.ptr + x /\ t.byte = s.byte + x
        /\ t.open = s.open /\ t.answers = s.answers
        /\ \A k \in 1 .. MAXLINE :
             t.buf[k] = IF s.ptr < k /\ k <= s.ptr + x
                        THEN <<c, s.byte + (k - s.ptr)>> ELSE s.buf[k]
    <3>1. s \in Talks /\ x \in Nat /\ c \in Nat
      BY <2>2
    <3> HIDE DEF S
    <3>2. t \in Talks /\ t.ptr = s.ptr + x /\ t.byte = s.byte + x
          /\ t.open = s.open /\ t.answers = s.answers
          /\ Written(t.buf, s.buf, c, s.ptr, s.byte, x)
      BY <2>4, <3>1, ReadRestIs
    <3> QED
      BY <3>2 DEF Written
  <2>6. s.ptr = P + l /\ s.byte = l /\ l >= a
    BY <2>2
  <2>7. ASSUME NEW k \in 1 .. MAXLINE
        PROVE  t.buf[k] = IF P + a < k /\ k <= P + (l + x) THEN <<c, k - P>> ELSE r.buf[k]
    <3>0. k \in Nat
      BY AlgorithmsAssumption
    <3>1. s.buf[k] = IF P + a < k /\ k <= P + l THEN <<c, k - P>> ELSE r.buf[k]
      BY <2>2
    <3>2. t.buf[k] = IF P + l < k /\ k <= P + l + x THEN <<c, l + (k - (P + l))>> ELSE s.buf[k]
      BY <2>5, <2>6
    <3>3. l + (k - (P + l)) = k - P
      BY <3>0
    <3> QED
      BY <2>6, <3>0, <3>1, <3>2, <3>3
  <2>8. Good(t, l + x)
    <3>1. l + x \in Nat /\ l + x >= a /\ (P + l) + x = P + (l + x)
      BY <2>6
    <3>2. t \in Talks /\ t.ptr = P + (l + x) /\ t.byte = l + x
      BY <2>5, <2>6, <3>1
    <3>3. t.open = r.open /\ t.answers = r.answers
      BY <2>2, <2>5
    <3> QED
      BY <2>7, <3>1, <3>2, <3>3
  <2> QED
    BY <2>0, <2>1, <2>3, <2>8
<1>10. n - 1 \in S
  <2> HIDE DEF S
  <2>1. n - 1 \in Nat
    BY <1>2
  <2>2. 0 .. (n - 1) \subseteq S
    BY <1>8, <1>9, <2>1, UpTo
  <2> QED
    BY <2>1, <2>2
<1>11. Good(e, L)
  <2>1. (n - 1) + 1 = n
    BY <1>2
  <2> QED
    BY <1>1, <1>5, <1>10, <2>1
<1>12. Echoed(e.buf, r.buf, c, P, a, L)
  BY <1>11 DEF Echoed
<1>13. Kept(e, r)
  BY <1>11 DEF Kept
<1> QED
  BY <1>3, <1>11, <1>12, <1>13 DEF L, Echo

(* An answer to a command, added to those before.                          *)
LEMMA ReplyType ==
  ASSUME NEW r \in Talks
  PROVE  Reply(r) \in Replies
<1>1. r.byte \in Nat /\ r.buf \in Buffers
  BY DEF Talks
<1> DEFINE x == <<r.byte, r.buf>>
<1>2. x \in Nat \X Buffers /\ x[1] = r.byte /\ x[2] = r.buf
  BY <1>1
<1>3. Reply([byte |-> x[1], buf |-> x[2]]) = Reply(r)
  BY <1>2 DEF Reply
<1> HIDE DEF x
<1> QED
  BY <1>2, <1>3 DEF Replies

LEMMA AnswerAdded ==
  ASSUME NEW r \in Talks, NEW x \in Replies, NEW t, t = [r EXCEPT !.answers = Append(@, x)]
  PROVE  /\ t \in Talks /\ t.answers = Append(r.answers, x)
         /\ t.ptr = r.ptr /\ t.byte = r.byte /\ t.buf = r.buf /\ t.open = r.open
         /\ Reply(t) = Reply(r)
<1> DEFINE A == Seq(Replies)
           T == [ptr : Nat, byte : Nat, buf : Buffers, open : BOOLEAN, answers : A]
<1>1. r \in T /\ r.answers \in A /\ T = Talks
  BY DEF Talks
<1>2. Append(r.answers, x) \in A
  BY <1>1
<1>3. t = [r EXCEPT !.answers = Append(r.answers, x)]
  OBVIOUS
<1> HIDE DEF A
<1>4. /\ t \in T /\ t.answers = Append(r.answers, x)
      /\ t.ptr = r.ptr /\ t.byte = r.byte /\ t.buf = r.buf /\ t.open = r.open
  <2> DEFINE w == Append(r.answers, x)
  <2> HIDE DEF w
  <2> QED
    BY <1>1, <1>2, <1>3 DEF w
<1>5. Reply(t) = Reply(r)
  BY <1>4 DEF Reply
<1> QED
  BY <1>1, <1>4, <1>5

(* The first read of a command.                                            *)
FirstRead(r, c, command) ==
  [r EXCEPT !.buf = Place(@, 0, Bytes(c, 0, command.pieces[1]))]

LEMMA FirstReadIs ==
  ASSUME NEW r \in Talks, NEW c \in Nat, NEW command, NEW a \in Nat, a = command.pieces[1],
         NEW s, s = FirstRead(r, c, command)
  PROVE  /\ s \in Talks /\ s.ptr = r.ptr /\ s.byte = r.byte
         /\ s.open = r.open /\ s.answers = r.answers
         /\ Written(s.buf, r.buf, c, 0, 0, a)
<1> DEFINE A == Seq(Replies)
           T == [ptr : Nat, byte : Nat, buf : Buffers, open : BOOLEAN, answers : A]
<1>1. r \in T /\ r.buf \in Buffers /\ T = Talks
  BY DEF Talks
<1>2. PICK from \in Nat : from = 0
  OBVIOUS
<1>3. PICK bytes : bytes = Bytes(c, from, a)
  OBVIOUS
<1>4. from <= a /\ a - from = a
  BY <1>2
<1>5. /\ bytes \in Seq(Nat \X Nat) /\ Len(bytes) = a
      /\ \A k \in 1 .. a : bytes[k] = <<c, from + k>>
  <2>1. bytes \in Seq(Nat \X Nat)
    BY <1>3, <1>4, BytesAre
  <2>2. Len(bytes) = a - from
    BY <1>3, <1>4, BytesAre
  <2>3. \A k \in 1 .. (a - from) : bytes[k] = <<c, from + k>>
    BY <1>3, <1>4, BytesAre
  <2> QED
    BY <1>4, <2>1, <2>2, <2>3
<1>6. PICK b : b = Place(r.buf, from, bytes)
  OBVIOUS
<1>7. /\ b \in Buffers
      /\ \A k \in 1 .. MAXLINE :
           b[k] = IF from < k /\ k <= from + Len(bytes) THEN bytes[k - from] ELSE r.buf[k]
  BY <1>1, <1>5, <1>6, PlaceIs
<1>8. s = [r EXCEPT !.buf = b]
  BY <1>2, <1>3, <1>6 DEF FirstRead
<1> HIDE DEF A
<1>9. /\ s \in T /\ s.ptr = r.ptr /\ s.byte = r.byte
      /\ s.open = r.open /\ s.answers = r.answers /\ s.buf = b
  <2>1. b \in Buffers
    BY <1>7
  <2> HIDE DEF Buffers
  <2> QED
    BY <1>1, <1>8, <2>1
<1>10. ASSUME NEW k \in 1 .. MAXLINE
       PROVE  b[k] = IF 0 < k /\ k <= 0 + a THEN <<c, 0 + (k - 0)>> ELSE r.buf[k]
  <2>1. k \in Nat /\ k > 0
    BY AlgorithmsAssumption
  <2>2. CASE k <= a
    <3>1. k \in 1 .. a /\ k - from = k /\ from + k = k
      BY <1>2, <2>1, <2>2
    <3>2. b[k] = bytes[k - from]
      BY <1>2, <1>5, <1>7, <2>1, <2>2
    <3>3. bytes[k] = <<c, from + k>>
      BY <1>5, <3>1
    <3>4. 0 + (k - 0) = k
      BY <2>1
    <3> QED
      BY <1>2, <2>1, <2>2, <3>1, <3>2, <3>3, <3>4
  <2>3. CASE ~(k <= a)
    BY <1>2, <1>5, <1>7, <2>1, <2>3
  <2> QED
    BY <2>2, <2>3
<1> QED
  BY <1>1, <1>9, <1>10 DEF Written

(* What a round of response does, by the letter of the command.            *)
Typed(command) ==
  /\ command.pieces \in Seq(Nat) /\ Len(command.pieces) >= 1
  /\ command.letter \in {"E", "C", "F", "Q", "#"}

Split(command) == Len(command.pieces) >= 2

SamePlace(t, r) == t.ptr = r.ptr /\ t.byte = r.byte

(* What a round adds to the answers.                                       *)
AddsAnswer(r, t, asks, echo) ==
  /\ asks => \E x \in Replies : t.answers = Append(r.answers, x) /\ (echo => x = Reply(t))
  /\ ~asks => t.answers = r.answers

LEMMA WholeIsAnswered ==
  ASSUME NEW r \in Talks, r.open = TRUE, NEW c \in Nat, NEW command, Typed(command),
         command.letter = "E", Len(command.pieces) = 1,
         NEW t, t = Answer(r, c, command)
  PROVE  /\ t \in Talks /\ SamePlace(t, r) /\ t.open = TRUE /\ AddsAnswer(r, t, TRUE, TRUE)
         /\ Written(t.buf, r.buf, c, 0, 0, command.pieces[1])
<1>1. PICK a \in Nat : a = command.pieces[1]
  BY DEF Typed
<1>2. PICK s : s = FirstRead(r, c, command)
  OBVIOUS
<1>3. /\ s \in Talks /\ s.ptr = r.ptr /\ s.byte = r.byte
      /\ s.open = r.open /\ s.answers = r.answers
      /\ Written(s.buf, r.buf, c, 0, 0, a)
  BY <1>1, <1>2, FirstReadIs
<1>4. PICK x : x = Reply(s)
  OBVIOUS
<1>5. t = [s EXCEPT !.answers = Append(@, x)]
  <2>1. EchoCommand(s, c, command.pieces) = s
    BY DEF EchoCommand
  <2> QED
    BY <1>2, <1>4, <2>1 DEF Answer, FirstRead
<1>6. x \in Replies
  BY <1>3, <1>4, ReplyType
<1>7. /\ t \in Talks /\ t.answers = Append(s.answers, x)
      /\ t.ptr = s.ptr /\ t.byte = s.byte /\ t.buf = s.buf /\ t.open = s.open
      /\ Reply(t) = Reply(s)
  BY <1>3, <1>5, <1>6, AnswerAdded
<1> QED
  BY <1>1, <1>3, <1>4, <1>6, <1>7 DEF SamePlace, AddsAnswer

EchoFrom(t, r, b, c, first, len) ==
  /\ t.ptr = r.ptr + len /\ t.byte = len /\ Echoed(t.buf, b, c, r.ptr, first, len)

LEMMA PiecesAreAnswered ==
  ASSUME NEW r \in Talks, r.open = TRUE, NEW c \in Nat, NEW command, Typed(command),
         command.letter = "E", Split(command),
         NEW t, t = Answer(r, c, command)
  PROVE  /\ Length(command) \in Nat
         /\ t \in Talks /\ t.open = TRUE /\ AddsAnswer(r, t, TRUE, TRUE)
         /\ \E b \in Buffers :
              /\ Written(b, r.buf, c, 0, 0, command.pieces[1])
              /\ EchoFrom(t, r, b, c, command.pieces[1], Length(command))
<1>1. PICK a \in Nat : a = command.pieces[1]
  BY DEF Typed
<1>2. PICK s : s = FirstRead(r, c, command)
  OBVIOUS
<1>3. /\ s \in Talks /\ s.ptr = r.ptr /\ s.byte = r.byte
      /\ s.open = r.open /\ s.answers = r.answers
      /\ Written(s.buf, r.buf, c, 0, 0, a)
  BY <1>1, <1>2, FirstReadIs
<1>4. PICK e : e = EchoCommand(s, c, command.pieces)
  OBVIOUS
<1>5. PICK l \in Nat :
        /\ l = Length(command) /\ e \in Talks /\ e.ptr = s.ptr + l /\ e.byte = l
        /\ Kept(e, s) /\ Echoed(e.buf, s.buf, c, s.ptr, command.pieces[1], l)
  <2>1. PICK pieces \in Seq(Nat) : command.pieces = pieces /\ Len(pieces) >= 2
    BY DEF Typed, Split
  <2>2. e = EchoCommand(s, c, pieces)
    BY <1>4, <2>1
  <2>3. Length(command) \in Nat /\ Echo(e, s, c, pieces[1], Length(command))
    BY <1>3, <2>1, <2>2, EchoIs
  <2>4. PICK l \in Nat : l = Length(command)
    BY <2>3
  <2> QED
    BY <2>1, <2>3, <2>4 DEF Echo
<1>6. PICK x : x = Reply(e)
  OBVIOUS
<1>7. t = [e EXCEPT !.answers = Append(@, x)]
  BY <1>1, <1>2, <1>4, <1>6 DEF Answer, FirstRead
<1>8. x \in Replies
  BY <1>5, <1>6, ReplyType
<1>9. /\ t \in Talks /\ t.answers = Append(e.answers, x)
      /\ t.ptr = e.ptr /\ t.byte = e.byte /\ t.buf = e.buf /\ t.open = e.open
      /\ Reply(t) = Reply(e)
  BY <1>5, <1>7, <1>8, AnswerAdded
<1>10. s.buf \in Buffers
  BY <1>3 DEF Talks
<1>11. Echoed(t.buf, s.buf, c, r.ptr, a, l)
  BY <1>1, <1>3, <1>5, <1>9
<1>12. \E b \in Buffers :
         /\ Written(b, r.buf, c, 0, 0, command.pieces[1])
         /\ EchoFrom(t, r, b, c, command.pieces[1], Length(command))
  <2>1. PICK b : b = s.buf
    OBVIOUS
  <2>2. b \in Buffers /\ Written(b, r.buf, c, 0, 0, command.pieces[1])
    BY <1>1, <1>3, <1>10, <2>1
  <2>3. EchoFrom(t, r, b, c, command.pieces[1], Length(command))
    <3>1. t.ptr = r.ptr + l /\ t.byte = l /\ Echoed(t.buf, b, c, r.ptr, a, l)
      BY <1>3, <1>5, <1>9, <1>11, <2>1
    <3> QED
      BY <1>1, <1>5, <3>1 DEF EchoFrom
  <2> QED
    BY <2>2, <2>3
<1> QED
  BY <1>3, <1>5, <1>6, <1>8, <1>9, <1>12 DEF Kept, AddsAnswer

(* What the tokens of an F command leave of the buffer.                    *)
Cut(new, old) == \A j \in 1 .. MAXLINE : new[j] = old[j] \/ new[j] = NUL

LEMMA FileIsAnswered ==
  ASSUME NEW s \in Talks, NEW command, command.letter = "F",
         NEW t, t = FileCommand(s, command)
  PROVE  /\ t \in Talks /\ SamePlace(t, s) /\ Cut(t.buf, s.buf)
         /\ (t.open = TRUE) <=> ~IsLast(command)
         /\ AddsAnswer(s, t, IsAnswered(command), FALSE)
<1> DEFINE A == Seq(Replies)
           T == [ptr : Nat, byte : Nat, buf : Buffers, open : BOOLEAN, answers : A]
<1>1. s \in T /\ s.buf \in Buffers /\ T = Talks
  BY DEF Talks
<1>2. PICK b : b = strtok(s.buf, command.nuls)
  OBVIOUS
<1>3. b \in Buffers /\ Cut(b, s.buf)
  <2>1. DOMAIN s.buf = 1 .. MAXLINE /\ \A j \in 1 .. MAXLINE : s.buf[j] \in Nat \X Nat
    BY <1>1 DEF Buffers
  <2>2. NUL \in Nat \X Nat
    BY DEF NUL
  <2>3. b = [j \in 1 .. MAXLINE |-> IF j \in command.nuls THEN NUL ELSE s.buf[j]]
    BY <1>2, <2>1 DEF strtok
  <2> QED
    BY <2>1, <2>2, <2>3 DEF Buffers, Cut
<1>4. PICK o \in BOOLEAN : o = ~IsLast(command)
  OBVIOUS
<1>5. PICK u : u = [s EXCEPT !.buf = b, !.open = o]
  OBVIOUS
<1> HIDE DEF A
<1>6. /\ u \in Talks /\ u.open = o /\ u.buf = b
      /\ u.ptr = s.ptr /\ u.byte = s.byte /\ u.answers = s.answers
  <2> HIDE DEF Buffers
  <2>1. /\ u \in T /\ u.open = o /\ u.buf = b
        /\ u.ptr = s.ptr /\ u.byte = s.byte /\ u.answers = s.answers
    BY <1>1, <1>3, <1>5
  <2> QED
    BY <1>1, <2>1
<1>7. t = IF IsAnswered(command) THEN [u EXCEPT !.answers = Append(@, Undefined)] ELSE u
  BY <1>2, <1>4, <1>5 DEF FileCommand
<1>8. CASE IsAnswered(command)
  <2>1. PICK x \in Replies : t = [u EXCEPT !.answers = Append(@, x)]
    BY <1>7, <1>8 DEF Replies
  <2>2. /\ t \in Talks /\ t.answers = Append(u.answers, x)
        /\ t.ptr = u.ptr /\ t.byte = u.byte /\ t.buf = u.buf /\ t.open = u.open
    BY <1>6, <2>1, AnswerAdded
  <2> QED
    BY <1>3, <1>4, <1>6, <1>8, <2>2 DEF SamePlace, AddsAnswer
<1>9. CASE ~IsAnswered(command)
  <2>1. t = u
    BY <1>7, <1>9
  <2> QED
    BY <1>3, <1>4, <1>6, <1>9, <2>1 DEF SamePlace, AddsAnswer
<1> QED
  BY <1>8, <1>9

LEMMA OtherIsAnswered ==
  ASSUME NEW r \in Talks, r.open = TRUE, NEW c \in Nat, NEW command, Typed(command),
         command.letter # "E", NEW t, t = Answer(r, c, command)
  PROVE  /\ t \in Talks /\ SamePlace(t, r)
         /\ (t.open = TRUE) <=> ~IsLast(command)
         /\ \E b \in Buffers :
              Written(b, r.buf, c, 0, 0, command.pieces[1]) /\ Cut(t.buf, b)
         /\ AddsAnswer(r, t, IsAnswered(command), FALSE)
<1>1. PICK a \in Nat : a = command.pieces[1]
  BY DEF Typed
<1>2. PICK s : s = FirstRead(r, c, command)
  OBVIOUS
<1>3. /\ s \in Talks /\ s.ptr = r.ptr /\ s.byte = r.byte
      /\ s.open = r.open /\ s.answers = r.answers
      /\ Written(s.buf, r.buf, c, 0, 0, a)
  BY <1>1, <1>2, FirstReadIs
<1>4. s.buf \in Buffers /\ Written(s.buf, r.buf, c, 0, 0, command.pieces[1])
  BY <1>1, <1>3 DEF Talks
<1>5. SUFFICES /\ t \in Talks /\ SamePlace(t, s) /\ Cut(t.buf, s.buf)
               /\ (t.open = TRUE) <=> ~IsLast(command)
               /\ AddsAnswer(s, t, IsAnswered(command), FALSE)
  BY <1>3, <1>4 DEF SamePlace, AddsAnswer
<1>6. CASE command.letter = "C"
  <2>1. FilePath \in Replies
    BY DEF Replies
  <2>2. PICK x \in Replies : t = [s EXCEPT !.answers = Append(@, x)]
    <3>1. t = [s EXCEPT !.answers = Append(@, FilePath)]
      BY <1>2, <1>6 DEF Answer, FirstRead
    <3> QED
      BY <2>1, <3>1
  <2>3. /\ t \in Talks /\ t.answers = Append(s.answers, x)
        /\ t.ptr = s.ptr /\ t.byte = s.byte /\ t.buf = s.buf /\ t.open = s.open
    BY <1>3, <2>2, AnswerAdded
  <2>4. IsAnswered(command) /\ ~IsLast(command)
    BY <1>6 DEF IsAnswered, IsLast
  <2> QED
    BY <1>3, <2>3, <2>4 DEF SamePlace, AddsAnswer, Cut
<1>7. CASE command.letter = "F"
  <2>1. t = FileCommand(s, command)
    BY <1>2, <1>7 DEF Answer, FirstRead
  <2> QED
    BY <1>3, <1>7, <2>1, FileIsAnswered
<1>8. CASE command.letter = "Q"
  <2>1. t = [s EXCEPT !.open = FALSE]
    BY <1>2, <1>8 DEF Answer, FirstRead
  <2>2. t \in Talks /\ t.answers = s.answers /\ t.open = FALSE
        /\ t.ptr = s.ptr /\ t.byte = s.byte /\ t.buf = s.buf
    <3> DEFINE A == Seq(Replies)
               T == [ptr : Nat, byte : Nat, buf : Buffers, open : BOOLEAN, answers : A]
    <3>1. s \in T /\ T = Talks
      BY <1>3 DEF Talks
    <3> HIDE DEF A
    <3>2. t \in T /\ t.answers = s.answers /\ t.open = FALSE
          /\ t.ptr = s.ptr /\ t.byte = s.byte /\ t.buf = s.buf
      <4> HIDE DEF Buffers
      <4> QED
        BY <2>1, <3>1
    <3> QED
      BY <3>1, <3>2
  <2>3. ~IsAnswered(command) /\ IsLast(command)
    BY <1>8 DEF IsAnswered, IsLast
  <2> QED
    BY <2>2, <2>3 DEF SamePlace, AddsAnswer, Cut
<1>9. CASE command.letter = "#"
  <2>1. t = s
    BY <1>2, <1>9 DEF Answer, FirstRead
  <2>2. ~IsAnswered(command) /\ ~IsLast(command)
    BY <1>9 DEF IsAnswered, IsLast
  <2> QED
    BY <1>3, <2>1, <2>2 DEF SamePlace, AddsAnswer, Cut
<1> QED
  BY <1>6, <1>7, <1>8, <1>9 DEF Typed

LEMMA ClosedStays ==
  ASSUME NEW r, r.open = FALSE, NEW c, NEW command
  PROVE  Answer(r, c, command) = r
BY DEF Answer

LEMMA AnswerType ==
  ASSUME NEW r \in Talks, NEW c \in Nat, NEW command, Typed(command)
  PROVE  Answer(r, c, command) \in Talks
<1>1. PICK t : t = Answer(r, c, command)
  OBVIOUS
<1>2. r.open \in BOOLEAN
  BY DEF Talks
<1>3. CASE r.open = FALSE
  BY <1>3, ClosedStays
<1>4. CASE r.open = TRUE /\ command.letter # "E"
  BY <1>1, <1>4, OtherIsAnswered
<1>5. CASE r.open = TRUE /\ command.letter = "E" /\ Split(command)
  BY <1>1, <1>5, PiecesAreAnswered
<1>6. CASE r.open = TRUE /\ command.letter = "E" /\ ~Split(command)
  <2>1. Len(command.pieces) = 1
    <3>1. PICK pieces \in Seq(Nat) : pieces = command.pieces
      BY DEF Typed
    <3>2. PICK n \in Nat : n = Len(pieces)
      OBVIOUS
    <3>3. n >= 1 /\ ~(n >= 2)
      BY <1>6, <3>1, <3>2 DEF Split, Typed
    <3>4. n = 1
      BY <3>3
    <3>5. Len(command.pieces) = n
      BY <3>1, <3>2
    <3> QED
      BY <3>4, <3>5
  <2> QED
    BY <1>1, <1>6, <2>1, WholeIsAnswered
<1> QED
  BY <1>2, <1>3, <1>4, <1>5, <1>6

LEMMA StartType ==
  ASSUME NEW r, r = Start(MAXLINE)
  PROVE  /\ r \in Talks /\ r.open = TRUE /\ r.ptr = 0 /\ r.byte = 0 /\ r.answers = <<>>
         /\ \A k \in 1 .. MAXLINE : r.buf[k] = <<0, 0>>
<1> DEFINE A == Seq(Replies)
           T == [ptr : Nat, byte : Nat, buf : Buffers, open : BOOLEAN, answers : A]
           b == [k \in 1 .. MAXLINE |-> Junk]
<1>1. T = Talks
  BY DEF Talks
<1>2. b \in Buffers /\ \A k \in 1 .. MAXLINE : b[k] = <<0, 0>>
  BY DEF Buffers, Junk
<1>3. <<>> \in A
  OBVIOUS
<1>4. r = [ptr |-> 0, byte |-> 0, buf |-> b, open |-> TRUE, answers |-> <<>>]
  BY DEF Start, Uninitialised
<1> HIDE DEF A, b
<1>5. /\ r \in T /\ r.open = TRUE /\ r.ptr = 0 /\ r.byte = 0 /\ r.answers = <<>>
      /\ r.buf = b
  <2> HIDE DEF Buffers
  <2> QED
    BY <1>2, <1>3, <1>4
<1> QED
  BY <1>1, <1>2, <1>5

(* The state of response after every command.                              *)
TalkRounds(p, cs) ==
  /\ p[0] = Start(MAXLINE)
  /\ \A k \in 1 .. Len(cs) : p[k] = Answer(p[k - 1], k, cs[k])

LEMMA TalkExists ==
  ASSUME NEW C, NEW cs \in Seq(C), \A x \in C : Typed(x)
  PROVE  \E p : /\ TalkRounds(p, cs)
                /\ response(cs, MAXLINE) = p[Len(cs)]
<1> DEFINE n == Len(cs)
           D == 1 .. n
           base == Start(MAXLINE)
           step == [x \in D \X Talks |-> Answer(x[2], x[1], cs[x[1]])]
           Rule(h) == h = [s \in SUBSET D |->
             IF s = {} THEN base ELSE Answer(h[s \ {Max(s)}], Max(s), cs[Max(s)])]
           h == CHOOSE h : Rule(h)
<1>1. n \in Nat /\ IsFiniteSet(D) /\ Picks(LastOf(n), D)
  BY LastIsPicked, FS_Interval
<1>2. step \in [D \X Talks -> Talks] /\ base \in Talks
  <2>1. ASSUME NEW x \in D \X Talks PROVE Answer(x[2], x[1], cs[x[1]]) \in Talks
    <3>1. x[1] \in D /\ x[2] \in Talks /\ Typed(cs[x[1]]) /\ x[1] \in Nat
      OBVIOUS
    <3> QED
      BY <3>1, AnswerType
  <2> QED
    BY <2>1, StartType
<1>3. PICK g \in [SUBSET D -> Talks] : FoldsOver(g, step, base, LastOf(n), D)
  <2> HIDE DEF D, step, base
  <2> QED
    BY <1>1, <1>2, FoldExists
<1>4. Rule(g)
  <2>1. ASSUME NEW s \in SUBSET D, s # {}
        PROVE  step[<<LastOf(n)[s], g[s \ {LastOf(n)[s]}]>>]
                 = Answer(g[s \ {Max(s)}], Max(s), cs[Max(s)])
    <3>1. LastOf(n)[s] = Max(s) /\ Max(s) \in D
      BY <1>1, <2>1, LastIsPicked DEF LastOf
    <3>2. g[s \ {Max(s)}] \in Talks
      BY <1>3
    <3> QED
      BY <3>1, <3>2
  <2> HIDE DEF step, D, base
  <2> QED
    BY <1>3, <2>1 DEF FoldsOver
<1>5. Rule(h)
  BY <1>4
<1>6. response(cs, MAXLINE) = h[D]
  <2> DEFINE places == [i \in DOMAIN cs |-> i]
  <2>1. DOMAIN places = D /\ DOMAIN cs = D
    OBVIOUS
  <2>2. ASSUME NEW s \in SUBSET D, s # {} PROVE places[Max(s)] = Max(s)
    BY <1>1, <2>1, <2>2, LastIsPicked
  <2> HIDE DEF places
  <2>3. ASSUME NEW f
        PROVE [s \in SUBSET D |-> IF s = {} THEN base
                  ELSE Answer(f[s \ {Max(s)}], places[Max(s)], cs[places[Max(s)]])]
               = [s \in SUBSET D |-> IF s = {} THEN base
                  ELSE Answer(f[s \ {Max(s)}], Max(s), cs[Max(s)])]
    <3>1. ASSUME NEW s \in SUBSET D
          PROVE  (IF s = {} THEN base
                  ELSE Answer(f[s \ {Max(s)}], places[Max(s)], cs[places[Max(s)]]))
               = (IF s = {} THEN base
                  ELSE Answer(f[s \ {Max(s)}], Max(s), cs[Max(s)]))
      BY <2>2
    <3> QED
      BY <3>1, Zenon
  <2> DEFINE i == CHOOSE f : f = [s \in SUBSET D |-> IF s = {} THEN base
                    ELSE Answer(f[s \ {Max(s)}], places[Max(s)], cs[places[Max(s)]])]
  <2>4. i = h
    BY <2>3
  <2>5. response(cs, MAXLINE) = i[D]
    BY <2>1 DEF places, response, FoldLeftDomain, FoldLeft, MapThenFoldSet
  <2> QED
    BY <2>4, <2>5
<1> HIDE DEF h, n
<1> DEFINE p == [k \in 0 .. n |-> h[1 .. k]]
<1>7. p[0] = base
  <2>1. 1 .. 0 = {} /\ 0 \in 0 .. n
    BY <1>1
  <2> QED
    BY <1>5, <2>1
<1>8. ASSUME NEW k \in 1 .. n PROVE p[k] = Answer(p[k - 1], k, cs[k])
  <2>1. 1 .. k \in SUBSET D /\ 1 .. k # {} /\ Max(1 .. k) = k
        /\ (1 .. k) \ {k} = 1 .. (k - 1) /\ k - 1 \in 0 .. n /\ k \in 0 .. n
    BY <1>1, Beginning
  <2>2. h[1 .. k] = Answer(h[1 .. (k - 1)], k, cs[k])
    BY <1>5, <2>1
  <2> QED
    BY <2>1, <2>2
<1>9. p[n] = h[D]
  BY <1>1
<1> QED
  BY <1>6, <1>7, <1>8, <1>9 DEF TalkRounds, n

(* A reply is the bytes of command c exactly if there are as many, and the *)
(* buffer starts with them.                                                *)
Fills(r, c, len) == r.byte = len /\ \A k \in 1 .. len : r.buf[k] = <<c, k>>

LEMMA ReplyIsOwn ==
  ASSUME NEW r \in Talks, NEW c \in Nat, NEW command, Length(command) \in Nat,
         Length(command) > 0
  PROVE  Reply(r) = Own(c, command) <=> Fills(r, c, Length(command))
<1>0. PICK L \in Nat : L = Length(command) /\ L > 0
  OBVIOUS
<1> DEFINE own == [k \in 1 .. L |-> [byte |-> <<c, k>>, upper |-> k < L]]
<1>1. Own(c, command) = own /\ DOMAIN own = 1 .. L
  BY <1>0 DEF Own
<1>2. PICK B \in Nat : B = r.byte
  BY DEF Talks
<1>3. 1 .. L # {} /\ L \in 1 .. L
  BY <1>0
<1> SUFFICES Reply(r) = own <=> B = L /\ \A k \in 1 .. L : r.buf[k] = <<c, k>>
  BY <1>0, <1>1, <1>2 DEF Fills
<1>4. CASE B = 0
  <2>1. Reply(r) = <<>>
    BY <1>2, <1>4 DEF Reply, Uninitialised, Undefined
  <2>2. DOMAIN <<>> = {}
    OBVIOUS
  <2>3. Reply(r) # own
    BY <1>1, <1>3, <2>1, <2>2
  <2> QED
    BY <1>0, <1>4, <2>3
<1>5. CASE B # 0
  <2> DEFINE reply == [k \in 1 .. B |-> [byte |-> r.buf[k], upper |-> k < B]]
  <2>1. Reply(r) = reply /\ DOMAIN reply = 1 .. B
    BY <1>2, <1>5 DEF Reply, Uninitialised
  <2>2. ASSUME reply = own PROVE B = L /\ \A k \in 1 .. L : r.buf[k] = <<c, k>>
    <3>1. 1 .. B = 1 .. L
      BY <1>1, <2>1, <2>2
    <3>2. B = L
      <4>1. B \in 1 .. B
        BY <1>5
      <4>2. B \in 1 .. L /\ L \in 1 .. B
        BY <1>3, <3>1, <4>1
      <4> QED
        BY <4>2
    <3>3. ASSUME NEW k \in 1 .. L PROVE r.buf[k] = <<c, k>>
      <4>1. reply[k].byte = r.buf[k]
        BY <3>2
      <4>2. own[k].byte = <<c, k>>
        OBVIOUS
      <4> QED
        BY <2>2, <4>1, <4>2
    <3> QED
      BY <3>2, <3>3
  <2>3. ASSUME B = L, \A k \in 1 .. L : r.buf[k] = <<c, k>> PROVE reply = own
    BY <2>3
  <2> QED
    BY <1>1, <1>2, <2>1, <2>2, <2>3
<1> QED
  BY <1>4, <1>5

(* The command numbers in the buffer are those of commands read.           *)
LEMMA BufferIsOlder ==
  ASSUME NEW new \in Buffers, NEW old \in Buffers, NEW c \in Nat, NEW from \in Nat, NEW n \in Nat,
         NEW at \in Nat, Written(new, old, c, at, from, n),
         \A k \in 1 .. MAXLINE : old[k][1] <= c
  PROVE  \A k \in 1 .. MAXLINE : new[k][1] <= c
<1>1. ASSUME NEW k \in 1 .. MAXLINE PROVE new[k][1] <= c
  <2>1. new[k] = IF at < k /\ k <= at + n THEN <<c, from + (k - at)>> ELSE old[k]
    BY DEF Written
  <2>2. CASE new[k] = <<c, from + (k - at)>>
    <3>1. new[k][1] = c
      BY <2>2
    <3> QED
      BY <3>1
  <2>3. CASE new[k] = old[k]
    BY <2>3
  <2> QED
    BY <2>1, <2>2, <2>3
<1> QED
  BY <1>1

LEMMA EchoIsOlder ==
  ASSUME NEW new \in Buffers, NEW old \in Buffers, NEW c \in Nat, NEW at \in Nat, NEW a \in Nat,
         NEW len \in Nat, Echoed(new, old, c, at, a, len),
         \A k \in 1 .. MAXLINE : old[k][1] <= c
  PROVE  \A k \in 1 .. MAXLINE : new[k][1] <= c
<1>1. ASSUME NEW k \in 1 .. MAXLINE PROVE new[k][1] <= c
  <2>1. new[k] = IF at + a < k /\ k <= at + len THEN <<c, k - at>> ELSE old[k]
    BY DEF Echoed
  <2>2. CASE new[k] = <<c, k - at>>
    <3>1. new[k][1] = c
      BY <2>2
    <3> QED
      BY <3>1
  <2>3. CASE new[k] = old[k]
    BY <2>3
  <2> QED
    BY <2>1, <2>2, <2>3
<1> QED
  BY <1>1

(* What a command is like that fits in the buffer.                         *)
Sound(command) ==
  /\ Typed(command)
  /\ command.letter = "E" =>
       /\ Length(command) \in 1 .. MAXLINE /\ command.pieces[1] \in 1 .. Length(command)
       /\ IF Split(command) THEN command.pieces[1] < Length(command)
          ELSE command.pieces[1] = Length(command)

LEMMA CommandsAreSound ==
  ASSUME NEW command \in Commands, MaxCommands >= 1
  PROVE  Sound(command)
<1>1. CASE command \notin ECommands
  <2>1. command \in FCommands \/ command \in [letter : {"C", "Q", "#"}, pieces : {<<1>>, <<2>>}]
    BY <1>1 DEF Commands
  <2>2. command.letter \in {"C", "F", "Q", "#"} /\ command.pieces \in {<<1>>, <<2>>}
    BY <2>1 DEF FCommands
  <2>3. Typed(command)
    <3>1. <<1>> \in Seq(Nat) /\ <<2>> \in Seq(Nat) /\ Len(<<1>>) >= 1 /\ Len(<<2>>) >= 1
      OBVIOUS
    <3> QED
      BY <2>2, <3>1 DEF Typed
  <2> QED
    BY <2>2, <2>3 DEF Sound
<1>2. CASE command \in ECommands
  <2>1. PICK pieces \in BoundedSeq(1 .. MaxPiece, MaxPieces) \ {<<>>, <<1>>} :
          command = [letter |-> "E", pieces |-> pieces]
    BY <1>2 DEF ECommands
  <2>2. MaxPiece \in Nat /\ MaxPieces \in Nat /\ MaxCommands \in Nat /\ MAXLINE \in Nat
        /\ MaxCommands * (MaxPieces * MaxPiece) <= MAXLINE
    BY AlgorithmsAssumption
  <2>3. command.letter = "E" /\ command.pieces = pieces /\ pieces # <<>>
    BY <2>1
  <2>4. pieces \in Seq(1 .. MaxPiece) /\ pieces \in Seq(Nat)
    <3>1. 1 .. MaxPiece \subseteq 1 .. MaxPiece /\ 1 .. MaxPiece \subseteq Nat
      BY <2>2
    <3> QED
      BY <2>1, <2>2, <3>1, BoundedIsSeq
  <2>5. PICK n \in Nat : n = Len(pieces) /\ n >= 1 /\ n <= MaxPieces
    <3>1. PICK m \in 0 .. MaxPieces : pieces \in [1 .. m -> 1 .. MaxPiece]
      <4>1. pieces \in UNION {[1 .. m -> 1 .. MaxPiece] : m \in 0 .. MaxPieces}
        BY <2>1 DEF BoundedSeq, SeqOf
      <4> QED
        BY <4>1
    <3>2. Len(pieces) = m
      BY <2>2, <3>1
    <3>3. Len(pieces) # 0
      BY <2>3, <2>4
    <3> QED
      BY <2>2, <3>1, <3>2, <3>3
  <2>6. PICK p : LengthRounds(p, pieces) /\ Length(command) = p[n]
    BY <2>3, <2>4, <2>5, LengthExists
  <2>7. PICK a \in Nat : a = pieces[1] /\ a >= 1
    BY <2>2, <2>4, <2>5
  <2>8. p[n] \in Nat /\ p[n] >= a + n - 1 /\ p[n] <= n * MaxPiece
    <3>1. n \in 1 .. Len(pieces)
      BY <2>5
    <3> QED
      BY <2>2, <2>3, <2>4, <2>6, <2>7, <3>1, LengthBounds
  <2>9. n = 1 => p[n] = a
    <3>1. p[0] = 0 /\ p[1] = p[1 - 1] + pieces[1]
      BY <2>5, <2>6 DEF LengthRounds
    <3> QED
      BY <2>7, <3>1
  <2>10. n * MaxPiece <= MAXLINE
    <3> DEFINE all == MaxPieces * MaxPiece
               more == MaxCommands - 1
    <3>1. n * MaxPiece <= all /\ all \in Nat
      BY <2>2, <2>5
    <3>2. more \in Nat /\ MaxCommands = 1 + more /\ MaxCommands * all <= MAXLINE
      BY <2>2
    <3> HIDE DEF all, more
    <3>3. (1 + more) * all = all + more * all /\ more * all \in Nat
      BY <3>1, <3>2
    <3> QED
      BY <2>2, <2>5, <3>1, <3>2, <3>3
  <2>11. Split(command) <=> n >= 2
    BY <2>3, <2>5 DEF Split
  <2>12. Typed(command)
    BY <2>3, <2>4, <2>5 DEF Typed
  <2>13. p[n] \in 1 .. MAXLINE /\ a \in 1 .. p[n] /\ (n >= 2 => a < p[n])
    <3> DEFINE L == p[n]
               x == n * MaxPiece
    <3>1. L \in Nat /\ L >= a + n - 1 /\ L <= x /\ x <= MAXLINE /\ x \in Int
      BY <2>2, <2>8, <2>10
    <3> HIDE DEF L, x
    <3>2. L >= 1 /\ L <= MAXLINE /\ a <= L /\ (n >= 2 => a < L)
      BY <2>2, <2>5, <2>7, <3>1
    <3> QED
      BY <2>2, <2>7, <3>1, <3>2 DEF L
  <2>14. n >= 2 \/ n = 1
    BY <2>5
  <2>15. command.pieces[1] = a
    BY <2>3, <2>7
  <2> QED
    BY <2>6, <2>9, <2>11, <2>12, <2>13, <2>14, <2>15 DEF Sound
<1> QED
  BY <1>1, <1>2

(* The commands answered, and those in pieces, up to one of them.          *)
Asks(cs, k) == k \in Heard(cs) /\ IsAnswered(cs[k])

UpToHere(cs, k) == {d \in InPieces(cs) : d <= k}

LEMMA AnsweredStep ==
  ASSUME NEW C, NEW cs \in Seq(C), NEW k \in 1 .. Len(cs)
  PROVE  /\ Cardinality(Answered(cs, k - 1)) \in Nat
         /\ Asks(cs, k) =>
              Cardinality(Answered(cs, k)) = Cardinality(Answered(cs, k - 1)) + 1
         /\ ~Asks(cs, k) => Answered(cs, k) = Answered(cs, k - 1)
<1>1. k \in Nat /\ Len(cs) \in Nat /\ DOMAIN cs = 1 .. Len(cs)
  OBVIOUS
<1>2. Heard(cs) \subseteq 1 .. Len(cs)
  BY <1>1 DEF Heard
<1>3. ASSUME NEW d \in Heard(cs) PROVE d \in Nat /\ (d <= k <=> d <= k - 1 \/ d = k)
                                       /\ ~(k <= k - 1)
  BY <1>1, <1>2
<1>4. Answered(cs, k - 1) \subseteq 1 .. Len(cs) /\ k \notin Answered(cs, k - 1)
  BY <1>1, <1>2, <1>3 DEF Answered
<1>5. IsFiniteSet(Answered(cs, k - 1))
  <2>1. IsFiniteSet(1 .. Len(cs))
    BY <1>1, FS_Interval
  <2> QED
    BY <1>4, <2>1, FS_Subset
<1>6. Asks(cs, k) => Answered(cs, k) = Answered(cs, k - 1) \cup {k}
  BY <1>2, <1>3 DEF Asks, Answered
<1>7. ~Asks(cs, k) => Answered(cs, k) = Answered(cs, k - 1)
  BY <1>2, <1>3 DEF Asks, Answered
<1>8. Cardinality(Answered(cs, k - 1)) \in Nat
  BY <1>5, FS_CardinalityType
<1>9. Cardinality(Answered(cs, k - 1) \cup {k}) = Cardinality(Answered(cs, k - 1)) + 1
  BY <1>4, <1>5, FS_AddElement
<1> QED
  BY <1>6, <1>7, <1>8, <1>9

LEMMA NothingAnswered ==
  ASSUME NEW C, NEW cs \in Seq(C)
  PROVE  Cardinality(Answered(cs, 0)) = 0 /\ UpToHere(cs, 0) = {}
<1>1. Heard(cs) \subseteq 1 .. Len(cs) /\ Len(cs) \in Nat
  BY DEF Heard
<1>2. \A d \in Heard(cs) : ~(d <= 0)
  BY <1>1
<1>3. Answered(cs, 0) = {} /\ UpToHere(cs, 0) = {}
  BY <1>2 DEF Answered, UpToHere, InPieces
<1> QED
  BY <1>3, FS_EmptySet

LEMMA PiecesStep ==
  ASSUME NEW C, NEW cs \in Seq(C), NEW k \in 1 .. Len(cs)
  PROVE  /\ k \in InPieces(cs) => UpToHere(cs, k) # {} /\ Max(UpToHere(cs, k)) = k
         /\ k \notin InPieces(cs) => UpToHere(cs, k) = UpToHere(cs, k - 1)
         /\ {d \in InPieces(cs) : d < k} = UpToHere(cs, k - 1)
<1>1. k \in Nat /\ Len(cs) \in Nat /\ DOMAIN cs = 1 .. Len(cs)
  OBVIOUS
<1>2. InPieces(cs) \subseteq 1 .. Len(cs)
  BY <1>1 DEF Heard, InPieces
<1>3. ASSUME NEW d \in InPieces(cs)
      PROVE  d \in Nat /\ (d <= k <=> d <= k - 1 \/ d = k) /\ (d < k <=> d <= k - 1)
  BY <1>1, <1>2
<1>4. ASSUME k \in InPieces(cs) PROVE UpToHere(cs, k) # {} /\ Max(UpToHere(cs, k)) = k
  <2> DEFINE S == UpToHere(cs, k)
  <2>1. k \in S
    BY <1>3, <1>4 DEF UpToHere
  <2>2. S \subseteq Int /\ \A y \in S : y <= k
    BY <1>3 DEF UpToHere
  <2> HIDE DEF S
  <2>3. Max(S) = k
    BY <2>1, <2>2, TheMax
  <2> QED
    BY <2>1, <2>3 DEF S
<1>5. k \notin InPieces(cs) => UpToHere(cs, k) = UpToHere(cs, k - 1)
  BY <1>3 DEF UpToHere
<1>6. {d \in InPieces(cs) : d < k} = UpToHere(cs, k - 1)
  BY <1>3 DEF UpToHere
<1> QED
  BY <1>4, <1>5, <1>6

(* A command is heard while the session is open.                           *)
LEMMA HeardIs ==
  ASSUME NEW C, NEW cs \in Seq(C), NEW k \in 1 .. Len(cs)
  PROVE  /\ k \in Heard(cs) <=> \A d \in 1 .. (k - 1) : ~IsLast(cs[d])
         /\ (\A d \in 1 .. k : ~IsLast(cs[d]))
              <=> k \in Heard(cs) /\ ~IsLast(cs[k])
<1>1. k \in Nat /\ DOMAIN cs = 1 .. Len(cs)
  OBVIOUS
<1>2. k \in Heard(cs) <=> \A d \in 1 .. (k - 1) : ~IsLast(cs[d])
  BY <1>1 DEF Heard
<1>3. \A d : d \in 1 .. k <=> d \in 1 .. (k - 1) \/ d = k
  BY <1>1
<1> QED
  BY <1>2, <1>3

(* What the commands up to the k-th leave behind.                          *)
PlaceKnown(r, cs, k) ==
  /\ UpToHere(cs, k) = {} => r.ptr = 0 /\ r.byte = 0
  /\ UpToHere(cs, k) # {} => r.ptr > 0 /\ r.byte = Length(cs[Max(UpToHere(cs, k))])

BufferKnown(r, k) == \A j \in 1 .. MAXLINE : r.buf[j][1] <= k

OwnIfFound(t, k, command, cs) ==
  Reply(t) = Own(k, command) <=> FindsItsPlace(cs, k)

LEMMA AnswerIsOwn ==
  ASSUME NEW C, NEW cs \in Seq(C), NEW k \in 1 .. Len(cs), k \in Heard(cs),
         NEW command, command = cs[k], Sound(command), command.letter = "E",
         NEW r \in Talks, r.open = TRUE, PlaceKnown(r, cs, k - 1), BufferKnown(r, k - 1),
         NEW t, t = Answer(r, k, command)
  PROVE  OwnIfFound(t, k, command, cs)
<1> SUFFICES Reply(t) = Own(k, command) <=> FindsItsPlace(cs, k)
  BY DEF OwnIfFound
<1> DEFINE before == UpToHere(cs, k - 1)
<1>1. k \in Nat /\ k > 0
  OBVIOUS
<1>2. PICK L \in 1 .. MAXLINE, a \in Nat :
        /\ L = Length(command) /\ a = command.pieces[1] /\ a \in 1 .. L
        /\ IF Split(command) THEN a < L ELSE a = L
  BY DEF Sound
<1>3. L \in Nat /\ L > 0 /\ MAXLINE \in Nat /\ L <= MAXLINE /\ a \in Nat /\ a > 0
  <2>1. MAXLINE \in Nat
    BY AlgorithmsAssumption
  <2>2. L \in Nat /\ L > 0 /\ L <= MAXLINE
    BY <1>2, <2>1
  <2> QED
    BY <1>2, <2>1, <2>2
<1>4. Typed(command)
  BY DEF Sound
<1>5. k \in InPieces(cs) <=> Split(command)
  <2>1. PICK pieces \in Seq(Nat) : pieces = command.pieces
    BY <1>4 DEF Typed
  <2>2. PICK n \in Nat : n = Len(pieces)
    OBVIOUS
  <2>3. n > 1 <=> n >= 2
    OBVIOUS
  <2>4. k \in InPieces(cs) <=> n > 1
    BY <2>1, <2>2 DEF InPieces
  <2>5. Split(command) <=> n >= 2
    BY <2>1, <2>2 DEF Split
  <2> QED
    BY <2>3, <2>4, <2>5
<1>6. {d \in InPieces(cs) : d < k} = before
  BY PiecesStep
<1>7. FindsItsPlace(cs, k) <=>
        IF Split(command) THEN before = {}
        ELSE before # {} /\ Length(cs[Max(before)]) = L
  BY <1>2, <1>5, <1>6 DEF FindsItsPlace
<1>10. t \in Talks => (Reply(t) = Own(k, command) <=> Fills(t, k, L))
  <2>1. Length(command) \in Nat /\ Length(command) > 0
    BY <1>2, <1>3
  <2>2. t \in Talks => (Reply(t) = Own(k, command) <=> Fills(t, k, Length(command)))
    BY <1>1, <2>1, ReplyIsOwn
  <2> QED
    BY <1>2, <2>2
<1>8. CASE Split(command)
  <2>0. /\ t \in Talks
        /\ \E b \in Buffers :
             /\ Written(b, r.buf, k, 0, 0, command.pieces[1])
             /\ EchoFrom(t, r, b, k, command.pieces[1], Length(command))
    BY <1>1, <1>4, <1>8, PiecesAreAnswered
  <2>1. PICK b \in Buffers : Written(b, r.buf, k, 0, 0, a) /\ EchoFrom(t, r, b, k, a, L)
    BY <1>2, <2>0
  <2>2. t \in Talks /\ t.byte = L
    BY <2>0, <2>1 DEF EchoFrom
  <2>3. PICK P \in Nat : P = r.ptr
    BY DEF Talks
  <2>4. ASSUME NEW j \in 1 .. L
        PROVE  /\ j \in Nat /\ j > 0 /\ j \in 1 .. MAXLINE
               /\ b[j] = IF j <= a THEN <<k, j>> ELSE r.buf[j]
               /\ t.buf[j] = IF P + a < j /\ j <= P + L THEN <<k, j - P>> ELSE b[j]
    <3>1. j \in Nat /\ j > 0 /\ j \in 1 .. MAXLINE /\ 0 + (j - 0) = j
      BY <1>3
    <3>2. b[j] = IF 0 < j /\ j <= 0 + a THEN <<k, 0 + (j - 0)>> ELSE r.buf[j]
      BY <2>1, <3>1 DEF Written
    <3>3. b[j] = IF j <= a THEN <<k, j>> ELSE r.buf[j]
      BY <1>3, <3>1, <3>2
    <3>4. t.buf[j] = IF P + a < j /\ j <= P + L THEN <<k, j - P>> ELSE b[j]
      BY <2>1, <2>3, <3>1 DEF Echoed, EchoFrom
    <3> QED
      BY <3>1, <3>3, <3>4
  <2>7. Reply(t) = Own(k, command) <=> t.byte = L /\ \A j \in 1 .. L : t.buf[j] = <<k, j>>
    BY <1>10, <2>2 DEF Fills
  <2>5. CASE before = {}
    <3>1. P = 0
      BY <2>3, <2>5 DEF PlaceKnown
    <3>2. ASSUME NEW j \in 1 .. L PROVE t.buf[j] = <<k, j>>
      <4>1. j \in Nat /\ j <= L /\ j - 0 = j
        BY <1>3
      <4>2. CASE j <= a
        BY <1>3, <2>4, <3>1, <4>1, <4>2
      <4>3. CASE ~(j <= a)
        <5>1. P + a < j /\ j <= P + L /\ j - P = j
          BY <1>3, <3>1, <4>1, <4>3
        <5> QED
          BY <2>4, <5>1
      <4> QED
        BY <4>2, <4>3
    <3> QED
      BY <1>7, <1>8, <2>2, <2>5, <2>7, <3>2, Zenon
  <2>6. CASE before # {}
    <3>1. P > 0
      BY <2>3, <2>6 DEF PlaceKnown
    <3>2. PICK j \in 1 .. L : j = a + 1
      BY <1>2, <1>3, <1>8
    <3>3. ~(P + a < j) /\ ~(j <= a) /\ j \in 1 .. MAXLINE
      BY <1>3, <3>1, <3>2
    <3>4. t.buf[j] = r.buf[j]
      BY <2>4, <3>3
    <3>5. r.buf[j][1] <= k - 1
      BY <3>3 DEF BufferKnown
    <3>6. r.buf[j] # <<k, j>>
      <4>1. <<k, j>>[1] = k
        OBVIOUS
      <4>2. ~(k <= k - 1)
        BY <1>1
      <4> QED
        BY <3>5, <4>1, <4>2
    <3> QED
      BY <1>7, <1>8, <2>6, <2>7, <3>4, <3>6, Zenon
  <2> QED
    BY <2>5, <2>6
<1>9. CASE ~Split(command)
  <2>1. Len(command.pieces) = 1
    <3>1. PICK pieces \in Seq(Nat) : pieces = command.pieces
      BY <1>4 DEF Typed
    <3>2. PICK n \in Nat : n = Len(pieces)
      OBVIOUS
    <3>3. n >= 1 /\ ~(n >= 2)
      BY <1>4, <1>9, <3>1, <3>2 DEF Split, Typed
    <3>4. n = 1
      BY <3>3
    <3>5. Len(command.pieces) = n
      BY <3>1, <3>2
    <3> QED
      BY <3>4, <3>5
  <2>2. t \in Talks /\ t.byte = r.byte /\ Written(t.buf, r.buf, k, 0, 0, a)
    <3>1. t \in Talks
      BY <1>1, <1>4, <2>1, WholeIsAnswered
    <3>2. SamePlace(t, r)
      BY <1>1, <1>4, <2>1, WholeIsAnswered
    <3>3. Written(t.buf, r.buf, k, 0, 0, command.pieces[1])
      BY <1>1, <1>4, <2>1, WholeIsAnswered
    <3> QED
      BY <1>2, <3>1, <3>2, <3>3 DEF SamePlace
  <2>3. ASSUME NEW j \in 1 .. L PROVE t.buf[j] = <<k, j>>
    <3>1. j \in Nat /\ j > 0 /\ j \in 1 .. MAXLINE /\ 0 + (j - 0) = j /\ j <= a
      BY <1>2, <1>3, <1>9
    <3>2. t.buf[j] = IF 0 < j /\ j <= 0 + a THEN <<k, 0 + (j - 0)>> ELSE r.buf[j]
      BY <2>2, <3>1 DEF Written
    <3> QED
      BY <1>3, <3>1, <3>2
  <2>4. Reply(t) = Own(k, command) <=> r.byte = L
    <3>1. Reply(t) = Own(k, command) <=> t.byte = L /\ \A j \in 1 .. L : t.buf[j] = <<k, j>>
      BY <1>10, <2>2 DEF Fills
    <3> QED
      BY <2>2, <2>3, <3>1, Zenon
  <2>5. r.byte = L <=> before # {} /\ Length(cs[Max(before)]) = L
    BY <1>3 DEF PlaceKnown
  <2> QED
    BY <1>7, <1>9, <2>4, <2>5
<1> QED
  BY <1>8, <1>9

StillOpen(r, cs, k) == r.open = TRUE <=> \A d \in 1 .. k : ~IsLast(cs[d])

LEMMA OlderBuffer ==
  ASSUME NEW r, r \in Talks, NEW k \in Nat, k > 0, BufferKnown(r, k - 1)
  PROVE  r.buf \in Buffers /\ \A j \in 1 .. MAXLINE : r.buf[j][1] <= k
<1>1. r.buf \in Buffers
  BY DEF Talks
<1>2. ASSUME NEW j \in 1 .. MAXLINE PROVE r.buf[j][1] <= k
  <2>1. r.buf[j] \in Nat \X Nat
    BY <1>1 DEF Buffers
  <2>2. PICK m \in Nat : m = r.buf[j][1]
    BY <2>1
  <2>3. m <= k - 1
    BY <2>2 DEF BufferKnown
  <2> QED
    BY <2>2, <2>3
<1> QED
  BY <1>1, <1>2

LEMMA RoundDone ==
  ASSUME NEW C, NEW cs \in Seq(C), NEW k \in 1 .. Len(cs),
         NEW command, command = cs[k], Sound(command),
         NEW r \in Talks, StillOpen(r, cs, k - 1), PlaceKnown(r, cs, k - 1),
         BufferKnown(r, k - 1), NEW t, t = Answer(r, k, command)
  PROVE  /\ t \in Talks /\ StillOpen(t, cs, k) /\ PlaceKnown(t, cs, k) /\ BufferKnown(t, k)
         /\ AddsAnswer(r, t, Asks(cs, k), command.letter = "E")
<1>1. k \in Nat /\ k > 0
  OBVIOUS
<1>2. Typed(command)
  BY DEF Sound
<1>3. PICK a \in Nat : a = command.pieces[1]
  <2>1. PICK pieces \in Seq(Nat) : pieces = command.pieces /\ Len(pieces) >= 1
    BY <1>2 DEF Typed
  <2>2. 1 \in 1 .. Len(pieces)
    BY <2>1
  <2> QED
    BY <2>1, <2>2
<1>4. r.open \in BOOLEAN
  BY DEF Talks
<1>5. r.buf \in Buffers /\ \A j \in 1 .. MAXLINE : r.buf[j][1] <= k
  BY <1>1, OlderBuffer
<1>6. /\ k \in Heard(cs) <=> r.open = TRUE
      /\ (\A d \in 1 .. k : ~IsLast(cs[d])) <=> r.open = TRUE /\ ~IsLast(command)
  BY HeardIs DEF StillOpen
<1>7. k \in InPieces(cs) <=> r.open = TRUE /\ command.letter = "E" /\ Split(command)
  <2>1. PICK pieces \in Seq(Nat) : pieces = command.pieces
    BY <1>2 DEF Typed
  <2>2. PICK n \in Nat : n = Len(pieces)
    OBVIOUS
  <2>3. n > 1 <=> n >= 2
    OBVIOUS
  <2>4. k \in InPieces(cs) <=> k \in Heard(cs) /\ command.letter = "E" /\ n > 1
    BY <2>1, <2>2 DEF InPieces
  <2>5. Split(command) <=> n >= 2
    BY <2>1, <2>2 DEF Split
  <2> QED
    BY <1>6, <2>3, <2>4, <2>5
<1>8. Asks(cs, k) <=> r.open = TRUE /\ IsAnswered(command)
  BY <1>6 DEF Asks
<1>13. command.letter = "E" => IsAnswered(command) /\ ~IsLast(command)
  BY DEF IsAnswered, IsLast
<1>9. CASE r.open = FALSE
  <2>1. t = r
    BY <1>9, ClosedStays
  <2>2. UpToHere(cs, k) = UpToHere(cs, k - 1)
    BY <1>7, <1>9, PiecesStep
  <2>3. StillOpen(t, cs, k)
    BY <1>6, <1>9, <2>1 DEF StillOpen
  <2>4. PlaceKnown(t, cs, k)
    BY <2>1, <2>2 DEF PlaceKnown
  <2>5. BufferKnown(t, k)
    BY <1>5, <2>1 DEF BufferKnown
  <2>6. AddsAnswer(r, t, Asks(cs, k), command.letter = "E")
    BY <1>8, <1>9, <2>1 DEF AddsAnswer
  <2> QED
    BY <2>1, <2>3, <2>4, <2>5, <2>6
<1>10. CASE r.open = TRUE /\ command.letter # "E"
  <2>1. /\ t \in Talks /\ SamePlace(t, r)
        /\ (t.open = TRUE) <=> ~IsLast(command)
        /\ \E b \in Buffers :
             Written(b, r.buf, k, 0, 0, command.pieces[1]) /\ Cut(t.buf, b)
        /\ AddsAnswer(r, t, IsAnswered(command), FALSE)
    BY <1>1, <1>2, <1>10, OtherIsAnswered
  <2>2. UpToHere(cs, k) = UpToHere(cs, k - 1)
    BY <1>7, <1>10, PiecesStep
  <2>3. StillOpen(t, cs, k)
    BY <1>6, <1>10, <2>1 DEF StillOpen
  <2>4. PlaceKnown(t, cs, k)
    BY <2>1, <2>2 DEF PlaceKnown, SamePlace
  <2>5. BufferKnown(t, k)
    <3>1. PICK b \in Buffers : Written(b, r.buf, k, 0, 0, a) /\ Cut(t.buf, b)
      BY <1>3, <2>1
    <3>2. 0 \in Nat /\ NUL[1] = 0
      BY DEF NUL
    <3>3. \A j \in 1 .. MAXLINE : b[j][1] <= k
      BY <1>1, <1>3, <1>5, <3>1, <3>2, BufferIsOlder
    <3> QED
      BY <1>1, <3>1, <3>2, <3>3 DEF BufferKnown, Cut
  <2>6. AddsAnswer(r, t, Asks(cs, k), command.letter = "E")
    <3>1. Asks(cs, k) <=> IsAnswered(command)
      BY <1>8, <1>10
    <3> QED
      BY <1>10, <2>1, <3>1 DEF AddsAnswer
  <2> QED
    BY <2>1, <2>3, <2>4, <2>5, <2>6
<1>11. CASE r.open = TRUE /\ command.letter = "E" /\ Split(command)
  <2>1. PICK L \in Nat : L = Length(command) /\ L > 0
    BY <1>11 DEF Sound
  <2>2. /\ t \in Talks /\ t.open = TRUE /\ AddsAnswer(r, t, TRUE, TRUE)
        /\ \E b \in Buffers :
             /\ Written(b, r.buf, k, 0, 0, command.pieces[1])
             /\ EchoFrom(t, r, b, k, command.pieces[1], Length(command))
    <3>1. r.open = TRUE /\ command.letter = "E" /\ Split(command)
      BY <1>11
    <3>2. t.open = TRUE /\ AddsAnswer(r, t, TRUE, TRUE)
      BY <1>1, <1>2, <3>1, PiecesAreAnswered
    <3>3. t \in Talks
      BY <1>1, <1>2, <3>1, PiecesAreAnswered
    <3>4. \E b \in Buffers :
             /\ Written(b, r.buf, k, 0, 0, command.pieces[1])
             /\ EchoFrom(t, r, b, k, command.pieces[1], Length(command))
      BY <1>1, <1>2, <3>1, PiecesAreAnswered
    <3> QED
      BY <3>2, <3>3, <3>4
  <2>3. PICK b \in Buffers : Written(b, r.buf, k, 0, 0, a) /\ EchoFrom(t, r, b, k, a, L)
    BY <1>3, <2>1, <2>2
  <2>4. PICK P \in Nat : P = r.ptr
    BY DEF Talks
  <2>5. UpToHere(cs, k) # {} /\ Max(UpToHere(cs, k)) = k
    BY <1>7, <1>11, PiecesStep
  <2>6. StillOpen(t, cs, k)
    BY <1>6, <1>11, <1>13, <2>2 DEF StillOpen
  <2>7. PlaceKnown(t, cs, k)
    <3>1. t.ptr = P + L /\ t.byte = L
      BY <2>3, <2>4 DEF EchoFrom
    <3>2. t.ptr > 0
      BY <2>1, <2>4, <3>1
    <3>3. t.byte = Length(cs[k])
      BY <2>1, <3>1
    <3> QED
      BY <2>5, <3>2, <3>3 DEF PlaceKnown
  <2>8. BufferKnown(t, k)
    <3>1. t.buf \in Buffers
      BY <2>2 DEF Talks
    <3>2. \A j \in 1 .. MAXLINE : b[j][1] <= k
      <4>1. 0 \in Nat
        OBVIOUS
      <4> QED
        BY <1>1, <1>3, <1>5, <2>3, <4>1, BufferIsOlder
    <3>3. Echoed(t.buf, b, k, P, a, L)
      BY <2>3, <2>4 DEF EchoFrom
    <3> QED
      BY <1>1, <3>1, <3>2, <3>3, EchoIsOlder DEF BufferKnown
  <2>9. AddsAnswer(r, t, Asks(cs, k), command.letter = "E")
    BY <1>8, <1>11, <1>13, <2>2 DEF AddsAnswer
  <2> QED
    BY <2>2, <2>6, <2>7, <2>8, <2>9
<1>12. CASE r.open = TRUE /\ command.letter = "E" /\ ~Split(command)
  <2>1. Len(command.pieces) = 1
    <3>1. PICK pieces \in Seq(Nat) : pieces = command.pieces
      BY <1>2 DEF Typed
    <3>2. PICK n \in Nat : n = Len(pieces)
      OBVIOUS
    <3>3. n >= 1 /\ ~(n >= 2)
      BY <1>2, <1>12, <3>1, <3>2 DEF Split, Typed
    <3>4. n = 1
      BY <3>3
    <3>5. Len(command.pieces) = n
      BY <3>1, <3>2
    <3> QED
      BY <3>4, <3>5
  <2>2. /\ t \in Talks /\ SamePlace(t, r) /\ t.open = TRUE
        /\ AddsAnswer(r, t, TRUE, TRUE)
        /\ Written(t.buf, r.buf, k, 0, 0, command.pieces[1])
    BY <1>1, <1>2, <1>12, <2>1, WholeIsAnswered
  <2>3. UpToHere(cs, k) = UpToHere(cs, k - 1)
    BY <1>7, <1>12, PiecesStep
  <2>4. StillOpen(t, cs, k)
    BY <1>6, <1>12, <1>13, <2>2 DEF StillOpen
  <2>5. PlaceKnown(t, cs, k)
    BY <2>2, <2>3 DEF PlaceKnown, SamePlace
  <2>6. BufferKnown(t, k)
    <3>1. t.buf \in Buffers
      BY <2>2 DEF Talks
    <3>2. Written(t.buf, r.buf, k, 0, 0, a)
      BY <1>3, <2>2
    <3>3. 0 \in Nat
      OBVIOUS
    <3> QED
      BY <1>1, <1>3, <1>5, <3>1, <3>2, <3>3, BufferIsOlder DEF BufferKnown
  <2>7. AddsAnswer(r, t, Asks(cs, k), command.letter = "E")
    BY <1>8, <1>12, <1>13, <2>2 DEF AddsAnswer
  <2> QED
    BY <2>2, <2>4, <2>5, <2>6, <2>7
<1> QED
  BY <1>4, <1>9, <1>10, <1>11, <1>12

(* The answers to the commands up to the k-th.                             *)
AnswersKnown(answers, cs, k) ==
  /\ Len(answers) = Cardinality(Answered(cs, k))
  /\ \A d \in Heard(cs) : d <= k /\ cs[d].letter = "E" =>
       /\ Cardinality(Answered(cs, d)) \in 1 .. Len(answers)
       /\ answers[Cardinality(Answered(cs, d))] = Own(d, cs[d]) <=> FindsItsPlace(cs, d)

LEMMA AnswersStep ==
  ASSUME NEW C, NEW cs \in Seq(C), NEW k \in 1 .. Len(cs),
         NEW old \in Seq(Replies), NEW new, AnswersKnown(old, cs, k - 1),
         Asks(cs, k) => \E x \in Replies :
           /\ new = Append(old, x)
           /\ cs[k].letter = "E" => (x = Own(k, cs[k]) <=> FindsItsPlace(cs, k)),
         ~Asks(cs, k) => new = old
  PROVE  AnswersKnown(new, cs, k)
<1>1. k \in Nat /\ Heard(cs) \subseteq 1 .. Len(cs) /\ Len(cs) \in Nat
  BY DEF Heard
<1>2. \A d \in Heard(cs) : d \in Nat /\ (d <= k <=> d <= k - 1 \/ d = k)
  BY <1>1
<1>3. PICK n \in Nat : n = Cardinality(Answered(cs, k - 1)) /\ n = Len(old)
  BY AnsweredStep DEF AnswersKnown
<1>4. ASSUME NEW d \in Heard(cs), d <= k - 1, cs[d].letter = "E"
      PROVE  /\ Cardinality(Answered(cs, d)) \in 1 .. n
             /\ old[Cardinality(Answered(cs, d))] = Own(d, cs[d]) <=> FindsItsPlace(cs, d)
  BY <1>3, <1>4 DEF AnswersKnown
<1>5. CASE Asks(cs, k)
  <2>1. PICK x \in Replies :
          /\ new = Append(old, x)
          /\ cs[k].letter = "E" => (x = Own(k, cs[k]) <=> FindsItsPlace(cs, k))
    BY <1>5
  <2>2. Len(new) = n + 1 /\ new[n + 1] = x /\ \A i \in 1 .. n : new[i] = old[i]
    BY <1>3, <2>1
  <2>3. Cardinality(Answered(cs, k)) = n + 1
    BY <1>3, <1>5, AnsweredStep
  <2>4. ASSUME NEW d \in Heard(cs), d <= k, cs[d].letter = "E"
        PROVE  /\ Cardinality(Answered(cs, d)) \in 1 .. (n + 1)
               /\ new[Cardinality(Answered(cs, d))] = Own(d, cs[d]) <=> FindsItsPlace(cs, d)
    <3>1. CASE d = k
      <4>1. n + 1 \in 1 .. (n + 1)
        BY <1>3
      <4>2. Cardinality(Answered(cs, d)) = n + 1
        BY <2>3, <3>1
      <4>3. new[Cardinality(Answered(cs, d))] = x
        BY <2>2, <4>2
      <4>4. x = Own(d, cs[d]) <=> FindsItsPlace(cs, d)
        BY <2>1, <2>4, <3>1
      <4> QED
        BY <4>1, <4>2, <4>3, <4>4
    <3>2. CASE d <= k - 1
      <4>1. PICK m \in 1 .. n : m = Cardinality(Answered(cs, d))
        BY <1>4, <2>4, <3>2
      <4>2. old[m] = Own(d, cs[d]) <=> FindsItsPlace(cs, d)
        BY <1>4, <2>4, <3>2, <4>1
      <4>3. m \in 1 .. (n + 1) /\ new[m] = old[m]
        BY <1>3, <2>2, <4>1
      <4> QED
        BY <4>1, <4>2, <4>3
    <3> QED
      BY <1>2, <2>4, <3>1, <3>2
  <2> QED
    BY <2>2, <2>3, <2>4 DEF AnswersKnown
<1>6. CASE ~Asks(cs, k)
  <2>1. new = old /\ Answered(cs, k) = Answered(cs, k - 1)
    BY <1>6, AnsweredStep
  <2>2. ASSUME NEW d \in Heard(cs), d <= k, cs[d].letter = "E"
        PROVE  d <= k - 1
    BY <1>2, <1>6, <2>2 DEF Asks, IsAnswered
  <2> QED
    BY <1>3, <1>4, <2>1, <2>2 DEF AnswersKnown
<1> QED
  BY <1>5, <1>6

TalkKnown(r, cs, k) ==
  /\ r \in Talks /\ StillOpen(r, cs, k) /\ PlaceKnown(r, cs, k) /\ BufferKnown(r, k)
  /\ AnswersKnown(r.answers, cs, k)

LEMMA TalkStarts ==
  ASSUME NEW C, NEW cs \in Seq(C), NEW r, r = Start(MAXLINE)
  PROVE  TalkKnown(r, cs, 0)
<1>1. /\ r \in Talks /\ r.open = TRUE /\ r.ptr = 0 /\ r.byte = 0 /\ r.answers = <<>>
      /\ \A k \in 1 .. MAXLINE : r.buf[k] = <<0, 0>>
  BY StartType
<1>2. StillOpen(r, cs, 0)
  BY <1>1 DEF StillOpen
<1>3. PlaceKnown(r, cs, 0)
  BY <1>1, NothingAnswered DEF PlaceKnown
<1>4. BufferKnown(r, 0)
  BY <1>1 DEF BufferKnown
<1>5. AnswersKnown(r.answers, cs, 0)
  <2>1. Heard(cs) \subseteq 1 .. Len(cs) /\ Len(cs) \in Nat
    BY DEF Heard
  <2>2. \A d \in Heard(cs) : ~(d <= 0)
    BY <2>1
  <2>3. Len(<<>>) = 0
    OBVIOUS
  <2> QED
    BY <1>1, <2>2, <2>3, NothingAnswered DEF AnswersKnown
<1> QED
  BY <1>1, <1>2, <1>3, <1>4, <1>5 DEF TalkKnown

LEMMA TalkStep ==
  ASSUME NEW C, NEW cs \in Seq(C), NEW k \in 1 .. Len(cs),
         NEW command, command = cs[k], Sound(command),
         NEW r, TalkKnown(r, cs, k - 1), NEW t, t = Answer(r, k, command)
  PROVE  TalkKnown(t, cs, k)
<1>1. /\ r \in Talks /\ StillOpen(r, cs, k - 1) /\ PlaceKnown(r, cs, k - 1)
      /\ BufferKnown(r, k - 1) /\ AnswersKnown(r.answers, cs, k - 1)
  BY DEF TalkKnown
<1>2. /\ t \in Talks /\ StillOpen(t, cs, k) /\ PlaceKnown(t, cs, k) /\ BufferKnown(t, k)
      /\ AddsAnswer(r, t, Asks(cs, k), command.letter = "E")
  BY <1>1, RoundDone
<1>3. Asks(cs, k) /\ command.letter = "E" =>
        (Reply(t) = Own(k, cs[k]) <=> FindsItsPlace(cs, k))
  <2> SUFFICES ASSUME Asks(cs, k), command.letter = "E"
               PROVE  Reply(t) = Own(k, command) <=> FindsItsPlace(cs, k)
    OBVIOUS
  <2>1. k \in Heard(cs) /\ r.open = TRUE
    BY <1>1, HeardIs DEF StillOpen, Asks
  <2>2. OwnIfFound(t, k, command, cs)
    BY <1>1, <2>1, AnswerIsOwn
  <2> QED
    BY <2>2 DEF OwnIfFound
<1>4. r.answers \in Seq(Replies)
  BY <1>1 DEF Talks
<1>5. Asks(cs, k) => \E x \in Replies :
        /\ t.answers = Append(r.answers, x)
        /\ cs[k].letter = "E" => (x = Own(k, cs[k]) <=> FindsItsPlace(cs, k))
  BY <1>2, <1>3 DEF AddsAnswer
<1>6. ~Asks(cs, k) => t.answers = r.answers
  BY <1>2 DEF AddsAnswer
<1>7. AnswersKnown(t.answers, cs, k)
  <2>1. PICK old, new : old = r.answers /\ new = t.answers
    OBVIOUS
  <2> QED
    BY <1>1, <1>4, <1>5, <1>6, <2>1, AnswersStep
<1> QED
  BY <1>2, <1>7 DEF TalkKnown

LEMMA ResponseRight ==
  ASSUME NEW cs \in Seq(Commands), Len(cs) > 0 => MaxCommands >= 1
  PROVE  AnswersKnown(response(cs, MAXLINE).answers, cs, Len(cs))
<1>1. CASE Len(cs) = 0
  <2>1. PICK D : D = {}
    OBVIOUS
  <2>2. cs \in Seq(D) /\ \A x \in D : Typed(x)
    BY <1>1, <2>1
  <2>3. PICK p : TalkRounds(p, cs) /\ response(cs, MAXLINE) = p[Len(cs)]
    BY <2>2, TalkExists
  <2>4. response(cs, MAXLINE) = Start(MAXLINE)
    BY <1>1, <2>3 DEF TalkRounds
  <2> QED
    BY <1>1, <2>4, TalkStarts DEF TalkKnown
<1>2. CASE Len(cs) # 0
  <2>1. PICK n \in Nat : n = Len(cs) /\ n > 0
    BY <1>2
  <2>2. \A x \in Commands : Sound(x) /\ Typed(x)
    BY <2>1, CommandsAreSound DEF Sound
  <2>3. PICK p : TalkRounds(p, cs) /\ response(cs, MAXLINE) = p[n]
    BY <2>1, <2>2, TalkExists
  <2> DEFINE P == {k \in 0 .. n : TalkKnown(p[k], cs, k)}
  <2>4. 0 \in P
    <3>1. PICK r : r = p[0]
      OBVIOUS
    <3>2. r = Start(MAXLINE)
      BY <2>3, <3>1 DEF TalkRounds
    <3>3. TalkKnown(r, cs, 0)
      BY <3>2, TalkStarts
    <3> QED
      BY <2>1, <3>1, <3>3
  <2>5. ASSUME NEW k \in 1 .. n, k - 1 \in P PROVE k \in P
    <3>1. PICK r, t, command : r = p[k - 1] /\ t = p[k] /\ command = cs[k]
      OBVIOUS
    <3>2. t = Answer(r, k, command) /\ TalkKnown(r, cs, k - 1)
      BY <2>1, <2>3, <2>5, <3>1 DEF TalkRounds
    <3>3. Sound(command) /\ k \in 1 .. Len(cs)
      BY <2>1, <2>2, <3>1
    <3>4. TalkKnown(t, cs, k)
      BY <3>1, <3>2, <3>3, TalkStep
    <3>5. k \in 0 .. n
      BY <2>1
    <3> QED
      BY <3>1, <3>4, <3>5
  <2>6. n \in P
    <3>1. 0 .. n \subseteq P
      <4> HIDE DEF P
      <4> QED
        BY <2>1, <2>4, <2>5, UpTo
    <3> QED
      BY <2>1, <3>1
  <2> QED
    BY <2>1, <2>3, <2>6 DEF TalkKnown
<1> QED
  BY <1>1, <1>2

(* UNIX_TL gets an answer, in order, for every E and C command and every F *)
(* command that can be served, up to a Q or an F command that ends the     *)
(* child (client.c:229, 273); it is the command's own bytes exactly for an *)
(* E command that finds ptr and byte as they should be.                    *)
THEOREM AnswersRight == AlgorithmsSpec => []EchoAnswers
<1>1. AnyInput => EchoAnswers
  <2> SUFFICES ASSUME AnyInput, program = "response" PROVE EchoAnswers
    BY DEF EchoAnswers
  <2>1. input \in BoundedSeq(Commands, MaxCommands) /\ MaxCommands \in Nat
    BY AlgorithmsAssumption DEF AnyInput
  <2>2. PICK cs \in Seq(Commands) : cs = input
    BY <2>1, BoundedIsSeq
  <2>3. Len(cs) > 0 => MaxCommands >= 1
    <3>1. input \in UNION {[1 .. m -> Commands] : m \in 0 .. MaxCommands}
      BY <2>1 DEF BoundedSeq, SeqOf
    <3>2. PICK m \in 0 .. MaxCommands : input \in [1 .. m -> Commands]
      BY <3>1
    <3>3. Len(cs) = m
      BY <2>1, <2>2, <3>2
    <3> QED
      BY <2>1, <3>2, <3>3
  <2>4. AnswersKnown(response(cs, MAXLINE).answers, cs, Len(cs))
    BY <2>2, <2>3, ResponseRight
  <2>5. ASSUME NEW d \in Heard(cs) PROVE d <= Len(cs)
    BY DEF Heard
  <2> QED
    BY <2>2, <2>4, <2>5 DEF EchoAnswers, AnswersKnown
<1>2. EchoAnswers /\ [Stay]_inputs => EchoAnswers'
  <2> SUFFICES ASSUME EchoAnswers, [Stay]_inputs PROVE EchoAnswers'
    OBVIOUS
  <2>1. program' = program /\ input' = input
    BY DEF Stay, inputs
  <2> QED
    BY <2>1 DEF EchoAnswers
<1> QED
  BY <1>1, <1>2, PTL DEF AlgorithmsSpec
=============================================================================
