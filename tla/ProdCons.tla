------------------------------ MODULE ProdCons ------------------------------
(***************************************************************************)
(* exercise6/unpv22e/mutex/prodcons6.c as changed for the course: several  *)
(* producers and now also several consumers.  Two mutexes: put.mutex       *)
(* guards the array and the next index and value, nready.mutex the number  *)
(* of items that are ready, the number taken, and nconsumer, a gate that   *)
(* lets one consumer at a time wait for an item.  A consumer that finds    *)
(* the gate closed unlocks and tries again at once.                        *)
(*                                                                         *)
(* Taking a mutex and what is done while it is held are separate actions;  *)
(* pthread_cond_wait gives the mutex up, sleeps, and takes it again.       *)
(***************************************************************************)
EXTENDS Integers, FiniteSets, Functions

CONSTANTS
  Producers,  \* the threads that run produce
  Consumers,  \* the threads that run consume
  NoThread,   \* "nobody holds the mutex"
  nitems      \* min(atoi(argv[1]), MAXNITEMS); a negative one acts as 0

Threads == Producers \cup Consumers

ASSUME ThreadAssumption ==
  /\ IsFiniteSet(Producers) /\ IsFiniteSet(Consumers)
  /\ Producers \cap Consumers = {}
  /\ NoThread \notin Threads
  /\ nitems \in Nat

VARIABLES
  putMutex,   \* the thread that holds put.mutex
  nput,       \* put.nput, the next index to store
  nval,       \* put.nval, the next value to store
  buff,       \* the array; only the first nitems cells are used
  readyMutex, \* the thread that holds nready.mutex
  nready,     \* nready.nready, the number of items ready for a consumer
  nget,       \* nready.nget, the number of items taken
  nconsumer,  \* nready.nconsumer, the consumers inside the gate
  count,      \* countp[] and countc[]
  pc,         \* where each thread is
  exited      \* main has joined every thread and called exit

put == <<putMutex, nput, nval, buff>>
ready == <<readyMutex, nready, nget, nconsumer>>
vars == <<put, ready, count, pc, exited>>

Goto(t, from, to) ==
  /\ pc[t] = from
  /\ pc' = [pc EXCEPT ![t] = to]

Index == 0 .. (nitems - 1)

Init ==
  /\ putMutex = NoThread /\ readyMutex = NoThread
  /\ nput = 0 /\ nval = 0
  /\ nready = 0 /\ nget = 0 /\ nconsumer = 0
  /\ buff = [k \in Index |-> 0]
  /\ count = [t \in Threads |-> 0]
  /\ pc = [t \in Threads |-> "new"]
  /\ exited = FALSE
-----------------------------------------------------------------------------
(* main: the producers are created before the consumers; countp[i] and     *)
(* countc[i] are 0 from Init on, which nobody can see.                     *)
Create(t) ==
  /\ t \in Consumers => \A p \in Producers : pc[p] # "new"
  /\ Goto(t, "new", IF t \in Producers THEN "lockPut" ELSE "lock")
  /\ UNCHANGED <<put, ready, count, exited>>

(* main has joined them all and has printed the counts.  Slip: only the    *)
(* producers are joined.                                                   *)
Exit_NoConsumers ==
  /\ ~exited
  /\ \A t \in Producers : pc[t] = "done"
  /\ exited' = TRUE
  /\ UNCHANGED <<put, ready, count, pc>>

Exit ==
  /\ ~exited
  /\ \A t \in Threads : pc[t] = "done"
  /\ exited' = TRUE
  /\ UNCHANGED <<put, ready, count, pc>>
-----------------------------------------------------------------------------
LockPut(p) ==
  /\ putMutex = NoThread
  /\ putMutex' = p
  /\ Goto(p, "lockPut", "put")
  /\ UNCHANGED <<nput, nval, buff, ready, count, exited>>

ArrayFull(p) ==
  /\ nput >= nitems
  /\ Goto(p, "put", "done")
  /\ putMutex' = NoThread
  /\ UNCHANGED <<nput, nval, buff, ready, count, exited>>

(* Slip: the value is not advanced with the index.                         *)
Put_SameValue(p) ==
  /\ nput < nitems
  /\ Goto(p, "put", "lockReady")
  /\ buff' = [buff EXCEPT ![nput] = nval]
  /\ nput' = nput + 1
  /\ putMutex' = NoThread
  /\ UNCHANGED <<nval, ready, count, exited>>

Put(p) ==
  /\ nput < nitems
  /\ Goto(p, "put", "lockReady")
  /\ buff' = [buff EXCEPT ![nput] = nval]
  /\ nput' = nput + 1
  /\ nval' = nval + 1
  /\ putMutex' = NoThread
  /\ UNCHANGED <<ready, count, exited>>

LockReady(p) ==
  /\ readyMutex = NoThread
  /\ readyMutex' = p
  /\ Goto(p, "lockReady", "post")
  /\ UNCHANGED <<put, nready, nget, nconsumer, count, exited>>

(* pthread_cond_signal wakes one of the sleeping consumers; with nobody    *)
(* asleep it does nothing.                                                 *)
Sleeping == {c \in Consumers : pc[c] = "asleep"}

(* Slip: the test comes after the increment.                               *)
Signal_IfOne(pcs) ==
  IF nready = 1 /\ Sleeping # {}
  THEN \E c \in Sleeping : pc' = [pcs EXCEPT ![c] = "relock"]
  ELSE pc' = pcs

Signal(pcs) ==
  IF nready = 0 /\ Sleeping # {}
  THEN \E c \in Sleeping : pc' = [pcs EXCEPT ![c] = "relock"]
  ELSE pc' = pcs

(* Slip: the increment belongs to the if.                                  *)
Post_OnlyFirst(p) ==
  /\ pc[p] = "post"
  /\ Signal([pc EXCEPT ![p] = "count"])
  /\ nready' = IF nready = 0 THEN 1 ELSE nready
  /\ readyMutex' = NoThread
  /\ UNCHANGED <<put, nget, nconsumer, count, exited>>

Post(p) ==
  /\ pc[p] = "post"
  /\ Signal([pc EXCEPT ![p] = "count"])
  /\ nready' = nready + 1
  /\ readyMutex' = NoThread
  /\ UNCHANGED <<put, nget, nconsumer, count, exited>>

CountPut(p) ==
  /\ Goto(p, "count", "lockPut")
  /\ count' = [count EXCEPT ![p] = @ + 1]
  /\ UNCHANGED <<put, ready, exited>>

Producer(p) ==
  \/ LockPut(p) \/ ArrayFull(p) \/ Put(p)
  \/ LockReady(p) \/ Post(p) \/ CountPut(p)
-----------------------------------------------------------------------------
LockGate(c) ==
  /\ readyMutex = NoThread
  /\ readyMutex' = c
  /\ Goto(c, "lock", "gate")
  /\ UNCHANGED <<put, nready, nget, nconsumer, count, exited>>

GateClosed(c) ==
  /\ nconsumer > 0
  /\ Goto(c, "gate", "lock")
  /\ readyMutex' = NoThread
  /\ UNCHANGED <<put, nready, nget, nconsumer, count, exited>>

AllTaken(c) ==
  /\ nconsumer <= 0
  /\ nget >= nitems
  /\ Goto(c, "gate", "done")
  /\ readyMutex' = NoThread
  /\ UNCHANGED <<put, nready, nget, nconsumer, count, exited>>

(* Slip: the gate lets one consumer in after the last item.                *)
EnterGate_OneMore(c) ==
  /\ nconsumer <= 0
  /\ nget <= nitems
  /\ Goto(c, "gate", "test")
  /\ nconsumer' = nconsumer + 1
  /\ UNCHANGED <<put, readyMutex, nready, nget, count, exited>>

EnterGate(c) ==
  /\ nconsumer <= 0
  /\ nget < nitems
  /\ Goto(c, "gate", "test")
  /\ nconsumer' = nconsumer + 1
  /\ UNCHANGED <<put, readyMutex, nready, nget, count, exited>>

CondWait(c) ==
  /\ nready = 0
  /\ Goto(c, "test", "asleep")
  /\ readyMutex' = NoThread
  /\ UNCHANGED <<put, nready, nget, nconsumer, count, exited>>

(* POSIX lets pthread_cond_wait return without a signal.                   *)
WakeUnsignalled(c) ==
  /\ Goto(c, "asleep", "relock")
  /\ UNCHANGED <<put, ready, count, exited>>

Relock(c) ==
  /\ readyMutex = NoThread
  /\ readyMutex' = c
  /\ Goto(c, "relock", "test")
  /\ UNCHANGED <<put, nready, nget, nconsumer, count, exited>>

Take(c) ==
  /\ nready # 0
  /\ Goto(c, "test", "count")
  /\ nready' = nready - 1
  /\ nget' = nget + 1
  /\ nconsumer' = nconsumer - 1
  /\ readyMutex' = NoThread
  /\ UNCHANGED <<put, count, exited>>

CountTake(c) ==
  /\ Goto(c, "count", "lock")
  /\ count' = [count EXCEPT ![c] = @ + 1]
  /\ UNCHANGED <<put, ready, exited>>

Consumer(c) ==
  \/ LockGate(c) \/ GateClosed(c) \/ AllTaken(c) \/ EnterGate(c)
  \/ CondWait(c) \/ Relock(c) \/ Take(c) \/ CountTake(c)
-----------------------------------------------------------------------------
(* exited: the process is gone                                             *)
Next ==
  \/ \E t \in Threads : Create(t)
  \/ Exit
  \/ \E p \in Producers : Producer(p)
  \/ \E c \in Consumers : Consumer(c) \/ WakeUnsignalled(c)

Spec == Init /\ [][Next]_vars

(* Every thread that can go on does.  A thread that tries for a mutex gets *)
(* it if it becomes free again and again, which the spinning of the other  *)
(* consumers makes it do: glibc's mutexes promise no order, but the        *)
(* scheduler preempts the spinning thread while it does not hold the mutex.*)
(* Nothing is assumed of unsignalled wake-ups.                             *)
Fairness ==
  /\ \A t \in Threads : WF_vars(Create(t))
  /\ WF_vars(Exit)
  /\ \A p \in Producers : /\ WF_vars(Producer(p))
                          /\ SF_vars(LockPut(p)) /\ SF_vars(LockReady(p))
  /\ \A c \in Consumers : /\ WF_vars(Consumer(c))
                          /\ SF_vars(LockGate(c)) /\ SF_vars(Relock(c))

FairSpec == Spec /\ Fairness
-----------------------------------------------------------------------------
ProducerAt == {"new", "lockPut", "put", "lockReady", "post", "count", "done"}
ConsumerAt == {"new", "lock", "gate", "test", "asleep", "relock", "count", "done"}

TypeOK ==
  /\ putMutex \in Producers \cup {NoThread}
  /\ readyMutex \in Threads \cup {NoThread}
  /\ nput \in 0 .. nitems
  /\ nval \in Nat
  /\ buff \in [Index -> Nat]
  /\ nready \in Nat /\ nget \in Nat /\ nconsumer \in Int
  /\ count \in [Threads -> Nat]
  /\ pc \in [Threads -> ProducerAt \cup ConsumerAt]
  /\ \A p \in Producers : pc[p] \in ProducerAt
  /\ \A c \in Consumers : pc[c] \in ConsumerAt
  /\ exited \in BOOLEAN

Posting == {p \in Producers : pc[p] \in {"lockReady", "post"}}
Inside == {c \in Consumers : pc[c] \in {"test", "asleep", "relock"}}

(* Every stored item is ready, taken, or about to be posted by the one     *)
(* producer that stored it, although the two mutexes are never held        *)
(* together.                                                               *)
Accounting == nready + nget + Cardinality(Posting) = nput

(* The gate lets one consumer in at a time, also while that consumer       *)
(* sleeps without the mutex, so the signal has one possible receiver.      *)
OneInside ==
  /\ nconsumer = Cardinality(Inside)
  /\ nconsumer <= 1

(* Nobody sleeps while an item is ready: signalling only when nready is 0  *)
(* loses no wake-up (prodcons6.c:81-83).                                   *)
NoLostWakeup == Sleeping # {} => nready = 0

(* A consumer only goes through the gate if an item is left for it: no     *)
(* consumer can be left asleep when all items have been taken.             *)
ItemForEachInside == nget + nconsumer <= nitems

(* The counts that main prints when it has joined all threads: each item   *)
(* is counted by one producer and by one consumer.                         *)
Total(S) == FoldFunctionOnSet(+, 0, count, S)
PrintedTotals ==
  exited => /\ Producers # {} => Total(Producers) = nitems
            /\ Consumers # {} => Total(Consumers) = nitems

(* The threads implement the hand-off of a fixed number of items.          *)
Hand == INSTANCE HandOff WITH
  Items <- nitems,
  stored <- [k \in 1 .. nput |-> buff[k - 1]],
  taken <- nget
IsHandOff == Hand!Spec

(* With at least one producer the program always comes to its end.         *)
MainExits == <>exited
=============================================================================
