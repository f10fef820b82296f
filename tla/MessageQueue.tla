---------------------------- MODULE MessageQueue ----------------------------
(***************************************************************************)
(* unpv22e/my_pxmsg_mmap: POSIX message queues in a mapped file.  Several  *)
(* processes open a queue by the same path, send and receive, ask to be    *)
(* notified, close, and unlink the path, so that it may lead to another    *)
(* file later.                                                             *)
(*                                                                         *)
(* The user-execute bit of a file says that its creator has not yet        *)
(* initialised it; opening takes several system calls, and each is an      *)
(* action.  What a call does under the mutex mqh_lock is one action, up to *)
(* pthread_cond_wait or to its end; processes are not killed in there.  A  *)
(* call on a descriptor with O_NONBLOCK that would block changes nothing.  *)
(***************************************************************************)
EXTENDS Naturals, Sequences, SequencesExt

CONSTANTS
  Proc,
  File,        \* bound of the model: the files that the path leads to in turn
  None,
  Flags,       \* of O_CREAT and O_EXCL: "none", "creat" or "excl" for both
  Prio,        \* priorities
  MaxMsg,      \* mq_maxmsg
  MAX_TRIES,   \* looks at the user-execute bit
  MaxSent,     \* bounds of the model: messages sent once the queue is open,
  MaxSentCold  \*   and if the processes have yet to open it

ASSUME QueueAssumption ==
  /\ None \notin Proc \cup File
  /\ Flags \subseteq {"none", "creat", "excl"}
  /\ Prio \subseteq Nat
  /\ MaxMsg \in Nat \ {0} /\ MAX_TRIES \in Nat \ {0} /\ MaxSent \in Nat
  /\ MaxSentCold \in 0 .. MaxSent

Slot == 1 .. MaxMsg     \* the msg_hdr's of a file, 0 is the end of a list
Message == [prio : Prio, id : 1 .. MaxSent]

VARIABLES
  name,     \* the file the path leads to
  state,    \* of each file: "unused", "created" (user-execute bit) or "ready"
  curmsgs, nwait, pid,   \* mq_curmsgs, mqh_nwait, mqh_pid of each file
  lists,    \* of each file: mqh_head, mqh_free and the msg_hdr's
  oflag,    \* what each process passes to mq_open
  pc,       \* where each process is
  fd,       \* the file it has opened
  tries,    \* i of mq_open
  held,     \* the message a blocked sender holds
  waiting,  \* the processes in pthread_cond_wait, not yet woken
  left,     \* bound: how many messages may still be sent, each named by its turn
  crowded   \* history: files on which two processes were blocked in one call

opening == <<name, state, oflag, tries, fd>>
header == <<curmsgs, nwait, pid, lists>>
vars == <<opening, header, pc, held, waiting, left, crowded>>

(* All messages are on the free list.                                      *)
NewLists ==
  [head |-> 0, free |-> 1,
   next |-> [s \in Slot |-> (s + 1) % (MaxMsg + 1)], msg |-> [s \in Slot |-> None]]

InitProcs ==
  /\ curmsgs = [f \in File |-> 0] /\ nwait = [f \in File |-> 0]
  /\ pid = [f \in File |-> None] /\ lists = [f \in File |-> NewLists]
  /\ tries = [p \in Proc |-> 0] /\ held = [p \in Proc |-> None]
  /\ waiting = {} /\ crowded = {}

(* Nothing is at the path, and every process is about to call mq_open.     *)
ColdInit ==
  /\ InitProcs
  /\ name = None
  /\ state = [f \in File |-> "unused"]
  /\ oflag \in [Proc -> Flags]
  /\ pc = [p \in Proc |-> IF oflag[p] = "none" THEN "exists" ELSE "create"]
  /\ fd = [p \in Proc |-> None]
  /\ left = MaxSentCold

(* All processes have opened the same new queue.                           *)
WarmInit ==
  /\ InitProcs
  /\ name \in File
  /\ state = [f \in File |-> IF f = name THEN "ready" ELSE "unused"]
  /\ oflag = [p \in Proc |-> "creat"]
  /\ pc = [p \in Proc |-> "open"]
  /\ fd = [p \in Proc |-> name]
  /\ left = MaxSent

Init == ColdInit \/ WarmInit

Goto(p, to) == pc' = [pc EXCEPT ![p] = to]
-----------------------------------------------------------------------------
Create(p) ==
  /\ pc[p] = "create"
  /\ name = None
  /\ \E f \in File :
       /\ state[f] = "unused"
       /\ name' = f
       /\ state' = [state EXCEPT ![f] = "created"]
       /\ fd' = [fd EXCEPT ![p] = f]
  /\ Goto(p, "init")
  /\ UNCHANGED <<oflag, tries, header, held, waiting, left, crowded>>

CreateFails(p) ==
  /\ pc[p] = "create"
  /\ name # None
  /\ Goto(p, IF oflag[p] = "excl" THEN "done" ELSE "exists")
  /\ UNCHANGED <<opening, header, held, waiting, left, crowded>>

(* From the size of the file to fchmod: nobody may look at it before.      *)
Initialise(p) ==
  /\ pc[p] = "init"
  /\ state' = [state EXCEPT ![fd[p]] = "ready"]
  /\ Goto(p, "open")
  /\ UNCHANGED <<name, oflag, tries, fd, header, held, waiting, left, crowded>>

(* One of its calls fails: err unlinks the path, whichever file it leads to*)
InitFails(p) ==
  /\ pc[p] = "init"
  /\ name' = None
  /\ Goto(p, "done")
  /\ UNCHANGED <<state, oflag, tries, fd, header, held, waiting, left, crowded>>

Missing(p) == IF oflag[p] = "none" THEN "done" ELSE "create"

Open(p) ==
  /\ pc[p] = "exists"
  /\ Goto(p, IF name = None THEN Missing(p) ELSE "stat")
  /\ fd' = [fd EXCEPT ![p] = name]
  /\ UNCHANGED <<name, state, oflag, tries, header, held, waiting, left, crowded>>

(* Slip: the bit is not looked at after the last sleep.                    *)
AfterStat_Lenient(p) ==
  CASE name = None -> Missing(p)
    [] name # None /\ (state[name] = "ready" \/ tries[p] + 1 = MAX_TRIES) -> "open"
    [] OTHER -> "stat"

AfterStat(p) ==
  CASE name = None -> Missing(p)
    [] name # None /\ state[name] = "ready" -> "open"
    [] name # None /\ state[name] # "ready" /\ tries[p] + 1 = MAX_TRIES -> "done"
    [] OTHER -> "stat"

(* stat(pathname): the file it finds need not be the one that is open.     *)
Stat(p) ==
  /\ pc[p] = "stat"
  /\ Goto(p, AfterStat(p))
  /\ tries' = [tries EXCEPT ![p] = IF AfterStat(p) = "stat" THEN @ + 1 ELSE 0]
  /\ UNCHANGED <<name, state, oflag, fd, header, held, waiting, left, crowded>>

Unlink ==
  /\ name # None
  /\ name' = None
  /\ UNCHANGED <<state, oflag, tries, fd, header, pc, held, waiting, left, crowded>>
-----------------------------------------------------------------------------
Blocked(f) == {p \in waiting : fd[p] = f}

(* pthread_cond_signal: any one of the processes that wait.                *)
Signal(f) ==
  IF Blocked(f) = {} THEN UNCHANGED waiting
  ELSE \E p \in Blocked(f) : waiting' = waiting \ {p}

(* A process enters the loop around pthread_cond_wait of a call.           *)
Block(p, call) ==
  /\ Goto(p, call)
  /\ waiting' = waiting \cup {p}
  /\ crowded' = IF \E r \in Proc : fd[r] = fd[p] /\ pc[r] = call
                THEN crowded \cup {fd[p]} ELSE crowded

(* The slots of a linked list, in the order in which they are linked.      *)
Linked(l, first, slots) ==
  /\ first = IF slots = <<>> THEN 0 ELSE slots[1]
  /\ \A k \in 1 .. Len(slots) :
       l.next[slots[k]] = IF k = Len(slots) THEN 0 ELSE slots[k + 1]

Chain(l, first) == CHOOSE slots \in BoundedSeq(Slot, MaxMsg) : Linked(l, first, slots)

(* How many messages a new one is put behind: the walk ends at the first   *)
(* one with a lower priority.  Slip: or with the same.                     *)
PrioAt(l, k) == l.msg[Chain(l, l.head)[k]].prio
Length(l) == Len(Chain(l, l.head))

Ahead_Higher(l, m) ==
  CHOOSE n \in 0 .. Length(l) :
    /\ \A k \in 1 .. n : PrioAt(l, k) > m.prio
    /\ n < Length(l) => PrioAt(l, n + 1) <= m.prio

Ahead(l, m) ==
  CHOOSE n \in 0 .. Length(l) :
    /\ \A k \in 1 .. n : PrioAt(l, k) >= m.prio
    /\ n < Length(l) => PrioAt(l, n + 1) < m.prio

(* The first free slot takes the message and is linked into the list.      *)
Insert(l, m) ==
  LET chain == Chain(l, l.head)
      ahead == Ahead(l, m)
      after == IF ahead = Len(chain) THEN 0 ELSE chain[ahead + 1]
      links == [l.next EXCEPT ![l.free] = after]
  IN  [msg |-> [l.msg EXCEPT ![l.free] = m],
       free |-> l.next[l.free],
       head |-> IF ahead = 0 THEN l.free ELSE l.head,
       next |-> IF ahead = 0 THEN links ELSE [links EXCEPT ![chain[ahead]] = l.free]]

(* The first message's slot becomes the first free one; what it still      *)
(* holds is never looked at.                                               *)
Unlist(l) ==
  [msg |-> [l.msg EXCEPT ![l.head] = None],
   free |-> l.head,
   head |-> l.next[l.head],
   next |-> [l.next EXCEPT ![l.head] = l.free]]

InUse(p) == pc[p] = "open" /\ state[fd[p]] = "ready"
Full(p) == curmsgs[fd[p]] >= MaxMsg
Empty(p) == curmsgs[fd[p]] = 0

(* The second half of mq_send.                                             *)
Put(p, m) ==
  /\ lists' = [lists EXCEPT ![fd[p]] = Insert(@, m)]
  /\ IF Empty(p) THEN Signal(fd[p]) ELSE UNCHANGED waiting
  /\ curmsgs' = [curmsgs EXCEPT ![fd[p]] = @ + 1]
  /\ Goto(p, "open")
  /\ UNCHANGED <<opening, nwait, crowded>>

(* The process that asked for it is notified of a message in the empty     *)
(* queue if no receiver waits; a registration is good for one message.     *)
NotifyFirst(p) ==
  pid' = IF Empty(p) /\ nwait[fd[p]] = 0 THEN [pid EXCEPT ![fd[p]] = None] ELSE pid

Send(p) ==
  /\ InUse(p) /\ ~Full(p)
  /\ left > 0
  /\ left' = left - 1
  /\ NotifyFirst(p)
  /\ \E priority \in Prio : Put(p, [prio |-> priority, id |-> left])
  /\ UNCHANGED held

SendBlocks(p) ==
  /\ InUse(p) /\ Full(p)
  /\ left > 0
  /\ left' = left - 1
  /\ \E priority \in Prio : held' = [held EXCEPT ![p] = [prio |-> priority, id |-> left]]
  /\ Block(p, "send")
  /\ UNCHANGED <<opening, header>>

SendResumes(p) ==
  /\ pc[p] = "send" /\ p \notin waiting /\ ~Full(p)
  /\ Put(p, held[p])
  /\ held' = [held EXCEPT ![p] = None]
  /\ UNCHANGED <<pid, left>>

(* Slip: senders are only woken when the queue has become empty.           *)
SignalsRoom_Empty(p) == curmsgs[fd[p]] = 1
SignalsRoom(p) == curmsgs[fd[p]] = MaxMsg

(* The second half of mq_receive.                                          *)
TakeFirst(p) ==
  /\ lists' = [lists EXCEPT ![fd[p]] = Unlist(@)]
  /\ IF SignalsRoom(p) THEN Signal(fd[p]) ELSE UNCHANGED waiting
  /\ curmsgs' = [curmsgs EXCEPT ![fd[p]] = @ - 1]
  /\ Goto(p, "open")
  /\ UNCHANGED <<opening, pid, held, left, crowded>>

Receive(p) ==
  /\ InUse(p) /\ ~Empty(p)
  /\ TakeFirst(p)
  /\ UNCHANGED nwait

ReceiveBlocks(p) ==
  /\ InUse(p) /\ Empty(p)
  /\ nwait' = [nwait EXCEPT ![fd[p]] = @ + 1]
  /\ Block(p, "receive")
  /\ UNCHANGED <<opening, curmsgs, pid, lists, held, left>>

ReceiveResumes(p) ==
  /\ pc[p] = "receive" /\ p \notin waiting /\ ~Empty(p)
  /\ TakeFirst(p)
  /\ nwait' = [nwait EXCEPT ![fd[p]] = @ - 1]

(* A process that was woken finds the queue full or empty again.           *)
WaitsOn(p) ==
  /\ \/ pc[p] = "send" /\ Full(p)
     \/ pc[p] = "receive" /\ Empty(p)
  /\ p \notin waiting
  /\ waiting' = waiting \cup {p}
  /\ UNCHANGED <<opening, header, pc, held, left, crowded>>

WakeUnsignalled(p) ==
  /\ p \in waiting
  /\ waiting' = waiting \ {p}
  /\ UNCHANGED <<opening, header, pc, held, left, crowded>>

(* mq_notify: EBUSY while the registered process exists.                   *)
Register(p) ==
  /\ InUse(p)
  /\ pid[fd[p]] # None => pc[pid[fd[p]]] = "dead"
  /\ pid' = [pid EXCEPT ![fd[p]] = p]
  /\ UNCHANGED <<opening, curmsgs, nwait, lists, pc, held, waiting, left, crowded>>

(* mq_notify with no notification; mq_close calls it first.                *)
Unregister(p) == pid' = [pid EXCEPT ![fd[p]] = IF @ = p THEN None ELSE @]

NotifyNone(p) ==
  /\ InUse(p)
  /\ Unregister(p)
  /\ UNCHANGED <<opening, curmsgs, nwait, lists, pc, held, waiting, left, crowded>>

Close(p) ==
  /\ InUse(p)
  /\ Unregister(p)
  /\ Goto(p, "done")
  /\ UNCHANGED <<opening, curmsgs, nwait, lists, held, waiting, left, crowded>>

(* A signal, or the use of a file that was never initialised.              *)
Die(p) ==
  /\ pc[p] \notin {"done", "dead"}
  /\ Goto(p, "dead")
  /\ waiting' = waiting \ {p}
  /\ held' = [held EXCEPT ![p] = None]
  /\ UNCHANGED <<opening, header, left, crowded>>

Step(p) ==
  \/ Create(p) \/ CreateFails(p) \/ Initialise(p) \/ InitFails(p) \/ Open(p) \/ Stat(p)
  \/ Send(p) \/ SendBlocks(p) \/ SendResumes(p)
  \/ Receive(p) \/ ReceiveBlocks(p) \/ ReceiveResumes(p) \/ WaitsOn(p)
  \/ Register(p) \/ NotifyNone(p) \/ Close(p)

Next == Unlink \/ \E p \in Proc : Step(p) \/ WakeUnsignalled(p) \/ Die(p)

Spec == Init /\ [][Next]_vars
-----------------------------------------------------------------------------
(* A process never gets a descriptor of a file that its creator has not    *)
(* initialised (mq_open.c:134-150), whoever creates, fails, dies or unlinks*)
(* in between, as long as the path still leads to that file: stat looks at *)
(* the path, not at the descriptor.                                        *)
OpenedIsReady ==
  \A p \in Proc :
    pc[p] \in {"open", "send", "receive"} /\ fd[p] = name => state[name] = "ready"

(* The linked list of each file holds the messages of a bounded queue that *)
(* is sorted by priority and first in first out within one                 *)
(* (mq_send.c:56-85, mq_receive.c:48-65).                                  *)
Contents(f) ==
  LET chain == Chain(lists[f], lists[f].head)
  IN  [k \in 1 .. Len(chain) |-> lists[f].msg[chain[k]]]

Queue(f) == INSTANCE PriorityQueue WITH Capacity <- MaxMsg, queue <- Contents(f)

IsPriorityQueue ==
  /\ \A f \in File : Queue(f)!Init
  /\ [][\A f \in File : Queue(f)!Next \/ UNCHANGED Contents(f)]_lists

(* The one condition variable serves senders and receivers, and is only    *)
(* signalled when the queue was empty or full (mq_send.c:83,               *)
(* mq_receive.c:63).  As long as no two processes are blocked in the same  *)
(* call that is enough: nobody is left waiting for what is already there.  *)
NoLostWakeup ==
  \A p \in waiting :
    fd[p] \notin crowded => IF pc[p] = "send" THEN Full(p) ELSE Empty(p)
=============================================================================
