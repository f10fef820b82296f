------------------------ MODULE MessageQueue_proofs ------------------------
(***************************************************************************)
(* Opening and waking up in my_pxmsg_mmap, and its linked lists, for any   *)
(* number of processes, any files, priorities, room and number of looks at *)
(* the user-execute bit.                                                   *)
(***************************************************************************)
EXTENDS MessageQueue, SequenceTheorems, WellFoundedInduction, TLAPS

Places == {"create", "exists", "init", "stat", "open", "send", "receive", "done", "dead"}

TypeInv ==
  /\ name \in File \cup {None}
  /\ state \in [File -> {"unused", "created", "ready"}]
  /\ fd \in [Proc -> File \cup {None}]
  /\ pc \in [Proc -> Places]
  /\ curmsgs \in [File -> 0 .. MaxMsg]
  /\ \A p \in Proc :
       pc[p] \in {"init", "stat", "open", "send", "receive"} => fd[p] \in File

(* A file that a process has opened, or that is at the path, was created.  *)
CreatedInv ==
  /\ name # None => state[name] # "unused"
  /\ \A p \in Proc : fd[p] # None => state[fd[p]] # "unused"

(* Where it is not crowded, one process at most is blocked in each call.   *)
Caller(p, f, call) == fd[p] = f /\ pc[p] = call

AloneInv ==
  \A f \in File \ crowded : \A call \in {"send", "receive"} : \A p, q \in Proc :
    Caller(p, f, call) /\ Caller(q, f, call) => p = q

WaitingInv == \A p \in waiting : p \in Proc /\ pc[p] \in {"send", "receive"}

OpenInv == TypeInv /\ CreatedInv /\ OpenedIsReady

WakeInv == AloneInv /\ WaitingInv /\ NoLostWakeup

IInv == OpenInv /\ WakeInv
-----------------------------------------------------------------------------
LEMMA InitIInv == Init => IInv
<1> SUFFICES ASSUME Init PROVE IInv
  OBVIOUS
<1> USE QueueAssumption
<1>1. /\ curmsgs = [f \in File |-> 0] /\ MaxMsg \in Nat \ {0}
      /\ waiting = {} /\ crowded = {}
  BY DEF Init, ColdInit, WarmInit, InitProcs
<1>2. TypeInv /\ CreatedInv /\ OpenedIsReady
  <2>1. CASE ColdInit
    <3>1. fd = [p \in Proc |-> None] /\ name = None
      BY <2>1 DEF ColdInit
    <3>2. pc \in [Proc -> {"create", "exists"}]
      BY <2>1 DEF ColdInit
    <3>3. state \in [File -> {"unused", "created", "ready"}]
      BY <2>1 DEF ColdInit
    <3> QED
      BY <1>1, <3>1, <3>2, <3>3 DEF TypeInv, CreatedInv, OpenedIsReady, Places
  <2>2. CASE WarmInit
    <3>1. /\ name \in File
          /\ fd = [p \in Proc |-> name] /\ pc = [p \in Proc |-> "open"]
          /\ state = [f \in File |-> IF f = name THEN "ready" ELSE "unused"]
      BY <2>2 DEF WarmInit
    <3>2. state \in [File -> {"unused", "created", "ready"}] /\ state[name] = "ready"
      BY <3>1
    <3> QED
      BY <1>1, <3>1, <3>2 DEF TypeInv, CreatedInv, OpenedIsReady, Places
  <2> QED
    BY <2>1, <2>2 DEF Init
<1>3. \A p \in Proc : pc[p] \notin {"send", "receive"}
  BY DEF Init, ColdInit, WarmInit
<1>4. AloneInv /\ WaitingInv /\ NoLostWakeup
  BY <1>1, <1>3 DEF AloneInv, WaitingInv, NoLostWakeup, Caller
<1> QED
  BY <1>2, <1>4 DEF IInv, OpenInv, WakeInv
-----------------------------------------------------------------------------
(* The calls on an open queue leave alone what mq_open works on, and keep  *)
(* a process in its place or move it between open and blocked.             *)
UseOf(p) ==
  \/ Send(p) \/ SendBlocks(p) \/ SendResumes(p)
  \/ Receive(p) \/ ReceiveBlocks(p) \/ ReceiveResumes(p) \/ WaitsOn(p)
  \/ Register(p) \/ NotifyNone(p) \/ Close(p) \/ WakeUnsignalled(p) \/ Die(p)

LEMMA UseKeeps ==
  ASSUME OpenInv, NEW p \in Proc, UseOf(p)
  PROVE  /\ UNCHANGED opening
         /\ curmsgs' \in [File -> 0 .. MaxMsg]
         /\ \E place \in Places :
              /\ pc' = [pc EXCEPT ![p] = place]
              /\ place \in {"open", "send", "receive"} =>
                   pc[p] \in {"open", "send", "receive"}
<1> USE QueueAssumption DEF OpenInv, TypeInv
<1>1. UNCHANGED opening
  BY DEF UseOf, Send, SendBlocks, SendResumes, Receive, ReceiveBlocks,
     ReceiveResumes, WaitsOn, Register, NotifyNone, Close, WakeUnsignalled, Die, Put, TakeFirst
<1>2. curmsgs' \in [File -> 0 .. MaxMsg]
  <2>1. CASE Send(p) \/ SendResumes(p)
    <3>1. /\ ~Full(p) /\ fd[p] \in File
          /\ curmsgs' = [curmsgs EXCEPT ![fd[p]] = @ + 1]
      BY <2>1 DEF Send, SendResumes, Put, InUse
    <3> QED
      BY <3>1 DEF Full
  <2>2. CASE Receive(p) \/ ReceiveResumes(p)
    <3>1. /\ ~Empty(p) /\ fd[p] \in File
          /\ curmsgs' = [curmsgs EXCEPT ![fd[p]] = @ - 1]
      BY <2>2 DEF Receive, ReceiveResumes, TakeFirst, InUse
    <3> QED
      BY <3>1 DEF Empty
  <2>3. CASE ~(Send(p) \/ SendResumes(p) \/ Receive(p) \/ ReceiveResumes(p))
    <3>1. curmsgs' = curmsgs
      BY <2>3 DEF UseOf, SendBlocks, ReceiveBlocks, WaitsOn, Register, NotifyNone, Close,
         WakeUnsignalled, Die, header
    <3> QED
      BY <3>1
  <2> QED
    BY <2>1, <2>2, <2>3
<1>3. \E place \in Places :
        /\ pc' = [pc EXCEPT ![p] = place]
        /\ place \in {"open", "send", "receive"} => pc[p] \in {"open", "send", "receive"}
  <2>1. CASE Send(p) \/ Receive(p) \/ SendResumes(p) \/ ReceiveResumes(p)
    <3>1. pc' = [pc EXCEPT ![p] = "open"] /\ pc[p] \in {"open", "send", "receive"}
      BY <2>1 DEF Send, Receive, SendResumes, ReceiveResumes, Put, TakeFirst, InUse, Goto
    <3> QED
      BY <3>1 DEF Places
  <2>2. CASE SendBlocks(p)
    <3>1. pc' = [pc EXCEPT ![p] = "send"] /\ pc[p] = "open"
      BY <2>2 DEF SendBlocks, Block, InUse, Goto
    <3> QED
      BY <3>1 DEF Places
  <2>3. CASE ReceiveBlocks(p)
    <3>1. pc' = [pc EXCEPT ![p] = "receive"] /\ pc[p] = "open"
      BY <2>3 DEF ReceiveBlocks, Block, InUse, Goto
    <3> QED
      BY <3>1 DEF Places
  <2>4. CASE WaitsOn(p) \/ Register(p) \/ NotifyNone(p) \/ WakeUnsignalled(p)
    <3>1. pc' = pc /\ pc = [pc EXCEPT ![p] = pc[p]]
      BY <2>4 DEF WaitsOn, Register, NotifyNone, WakeUnsignalled
    <3> QED
      BY <3>1
  <2>5. CASE Close(p)
    BY <2>5 DEF Close, Goto, Places
  <2>6. CASE Die(p)
    BY <2>6 DEF Die, Goto, Places
  <2> QED
    BY <2>1, <2>2, <2>3, <2>4, <2>5, <2>6 DEF UseOf
<1> QED
  BY <1>1, <1>2, <1>3

(* Opening a queue does not touch its messages.                            *)
OpenOf(p) ==
  Create(p) \/ CreateFails(p) \/ Initialise(p) \/ InitFails(p) \/ Open(p) \/ Stat(p)

LEMMA NextCases ==
  ASSUME [Next]_vars
  PROVE  \/ Unlink \/ UNCHANGED vars
         \/ \E p \in Proc : OpenOf(p) \/ UseOf(p)
BY DEF Next, Step, OpenOf, UseOf

LEMMA OpenStep ==
  ASSUME OpenInv, [Next]_vars
  PROVE  OpenInv'
<1> USE QueueAssumption DEF OpenInv, TypeInv, CreatedInv, OpenedIsReady, Places
<1>1. CASE Unlink
  BY <1>1 DEF Unlink, header
<1>2. CASE UNCHANGED vars
  BY <1>2 DEF vars, opening, header
<1>3. ASSUME NEW p \in Proc, UseOf(p) PROVE OpenInv'
  <2>1. UNCHANGED <<name, state, fd>>
    BY <1>3, UseKeeps DEF opening
  <2>2. PICK place \in Places :
          /\ pc' = [pc EXCEPT ![p] = place]
          /\ place \in {"open", "send", "receive"} =>
               pc[p] \in {"open", "send", "receive"}
    BY <1>3, UseKeeps
  <2>3. curmsgs' \in [File -> 0 .. MaxMsg]
    BY <1>3, UseKeeps
  <2>4. \A q \in Proc : q # p => pc'[q] = pc[q]
    BY <2>2
  <2>5. pc'[p] = place /\ (place \notin {"init", "stat"} \/ place = pc[p])
    <3>1. pc'[p] \notin {"init", "stat"} \/ pc'[p] = pc[p]
      BY <1>3, <2>2 DEF UseOf, Send, SendBlocks, SendResumes, Receive, ReceiveBlocks,
         ReceiveResumes, WaitsOn, Register, NotifyNone, Close, WakeUnsignalled, Die, Put,
         TakeFirst, Block, Goto
    <3> QED
      BY <2>2, <3>1
  <2> QED
    BY <2>1, <2>2, <2>3, <2>4, <2>5
<1>4. ASSUME NEW p \in Proc, Create(p) PROVE OpenInv'
  <2>1. PICK f \in File :
          /\ state[f] = "unused" /\ name' = f
          /\ state' = [state EXCEPT ![f] = "created"]
          /\ fd' = [fd EXCEPT ![p] = f]
    BY <1>4 DEF Create
  <2>2. pc' = [pc EXCEPT ![p] = "init"] /\ UNCHANGED curmsgs
    BY <1>4 DEF Create, Goto, header
  <2> QED
    BY <2>1, <2>2
<1>5. ASSUME NEW p \in Proc, CreateFails(p) PROVE OpenInv'
  BY <1>5 DEF CreateFails, Goto, opening, header
<1>6. ASSUME NEW p \in Proc, Initialise(p) PROVE OpenInv'
  BY <1>6 DEF Initialise, Goto, header
<1>7. ASSUME NEW p \in Proc, InitFails(p) PROVE OpenInv'
  BY <1>7 DEF InitFails, Goto, header
<1>8. ASSUME NEW p \in Proc, Open(p) PROVE OpenInv'
  BY <1>8 DEF Open, Missing, Goto, header
<1>9. ASSUME NEW p \in Proc, Stat(p) PROVE OpenInv'
  <2>1. /\ pc[p] = "stat" /\ pc' = [pc EXCEPT ![p] = AfterStat(p)]
        /\ UNCHANGED <<name, state, fd, curmsgs>>
    BY <1>9 DEF Stat, Goto, header
  <2>2. /\ AfterStat(p) \in {"done", "create", "open", "stat"}
        /\ AfterStat(p) = "open" => name # None /\ state[name] = "ready"
    BY DEF AfterStat, Missing
  <2> QED
    BY <2>1, <2>2
<1> QED
  BY <1>1, <1>2, <1>3, <1>4, <1>5, <1>6, <1>7, <1>8, <1>9, NextCases DEF OpenOf
-----------------------------------------------------------------------------
(* Blocking in a call that somebody is blocked in makes the file crowded.  *)
LEMMA BlockFacts ==
  ASSUME TypeInv, AloneInv, WaitingInv, NEW p \in Proc, pc[p] = "open",
         NEW call \in {"send", "receive"}, Block(p, call), UNCHANGED fd
  PROVE  AloneInv' /\ WaitingInv' /\ crowded \subseteq crowded'
<1>1. /\ pc' = [pc EXCEPT ![p] = call]
      /\ waiting' = waiting \cup {p}
      /\ crowded' = IF \E r \in Proc : fd[r] = fd[p] /\ pc[r] = call
                    THEN crowded \cup {fd[p]} ELSE crowded
  BY DEF Block, Goto
<1>2. AloneInv'
  BY <1>1 DEF AloneInv, Caller, TypeInv
<1>3. WaitingInv'
  BY <1>1 DEF WaitingInv, TypeInv
<1> QED
  BY <1>1, <1>2, <1>3

(* A step of p that blocks it in no call, and wakes or kills others at     *)
(* most, leaves who is alone as it was.                                    *)
LEMMA OthersStay ==
  ASSUME TypeInv, AloneInv, WaitingInv, NEW p \in Proc, NEW place,
         pc' = [pc EXCEPT ![p] = place],
         place = pc[p] \/ place \notin {"send", "receive"},
         UNCHANGED <<fd, crowded>>, waiting' \subseteq waiting \ {p}
  PROVE  AloneInv' /\ WaitingInv'
BY DEF AloneInv, WaitingInv, Caller, TypeInv

(* Whom a new message or new room can concern where it is not crowded: the *)
(* one process that waits for it, and nobody else waits then.              *)
LEMMA SignalFacts ==
  ASSUME TypeInv, WakeInv, NEW p \in Proc, fd[p] \in File,
         NEW f \in File \ crowded, f = fd[p],
         NEW call \in {"send", "receive"},
         \A q \in waiting : fd[q] = f => pc[q] = call,
         Signal(f)
  PROVE  \A q \in waiting' : fd[q] # f
<1>1. Blocked(f) = {q \in waiting : fd[q] = f}
  BY DEF Blocked
<1>2. \A q, r \in Blocked(f) : q = r
  BY <1>1 DEF WakeInv, AloneInv, WaitingInv, Caller
<1>3. CASE Blocked(f) = {}
  BY <1>1, <1>3 DEF Signal
<1>4. CASE Blocked(f) # {}
  <2>1. PICK r \in Blocked(f) : waiting' = waiting \ {r}
    BY <1>4 DEF Signal
  <2> QED
    BY <1>1, <1>2, <2>1
<1> QED
  BY <1>3, <1>4

(* A new message: whoever waits for one is woken, and nobody waits for     *)
(* room while there is some.                                               *)
LEMMA PutWakes ==
  ASSUME OpenInv, WakeInv, NEW p \in Proc, NEW m, Put(p, m), ~Full(p),
         fd[p] \in File, p \notin waiting
  PROVE  WakeInv'
<1> USE QueueAssumption DEF OpenInv
<1>1. /\ UNCHANGED <<fd, crowded>>
      /\ pc' = [pc EXCEPT ![p] = "open"]
      /\ curmsgs' = [curmsgs EXCEPT ![fd[p]] = @ + 1]
      /\ IF Empty(p) THEN Signal(fd[p]) ELSE UNCHANGED waiting
  BY DEF Put, Goto, opening
<1>2. waiting' \subseteq waiting \ {p}
  BY <1>1 DEF Signal
<1>3. AloneInv' /\ WaitingInv'
  BY <1>1, <1>2, OthersStay DEF WakeInv
<1>4. NoLostWakeup'
  <2> SUFFICES ASSUME NEW q \in waiting', fd[q] \notin crowded
               PROVE  (IF pc[q] = "send" THEN Full(q) ELSE Empty(q))'
    BY <1>1 DEF NoLostWakeup
  <2>1. q \in waiting /\ q \in Proc /\ q # p /\ pc'[q] = pc[q] /\ fd[q] \in File
    BY <1>1, <1>2 DEF WakeInv, WaitingInv, TypeInv
  <2>2. IF pc[q] = "send" THEN Full(q) ELSE Empty(q)
    BY <2>1 DEF WakeInv, NoLostWakeup
  <2>3. CASE fd[q] = fd[p]
    <3>1. \A r \in waiting : fd[r] = fd[p] => pc[r] = "receive" /\ Empty(p)
      BY <2>3 DEF WakeInv, NoLostWakeup, WaitingInv, Full, Empty
    <3>2. Signal(fd[p])
      BY <1>1, <2>1, <2>3, <3>1
    <3> QED
      BY <2>3, <3>1, <3>2, SignalFacts
  <2>4. CASE fd[q] # fd[p]
    BY <1>1, <2>1, <2>2, <2>4 DEF Full, Empty, TypeInv
  <2> QED
    BY <2>3, <2>4
<1> QED
  BY <1>3, <1>4 DEF WakeInv

(* New room: in a full queue whoever waits for it is woken, and nobody     *)
(* waits for a message while there is one.                                 *)
LEMMA TakeWakes ==
  ASSUME OpenInv, WakeInv, NEW p \in Proc, TakeFirst(p), ~Empty(p),
         fd[p] \in File, p \notin waiting
  PROVE  WakeInv'
<1> USE QueueAssumption DEF OpenInv
<1>1. /\ UNCHANGED <<fd, crowded>>
      /\ pc' = [pc EXCEPT ![p] = "open"]
      /\ curmsgs' = [curmsgs EXCEPT ![fd[p]] = @ - 1]
      /\ IF SignalsRoom(p) THEN Signal(fd[p]) ELSE UNCHANGED waiting
  BY DEF TakeFirst, Goto, opening
<1>2. waiting' \subseteq waiting \ {p}
  BY <1>1 DEF Signal
<1>3. AloneInv' /\ WaitingInv'
  BY <1>1, <1>2, OthersStay DEF WakeInv
<1>4. NoLostWakeup'
  <2> SUFFICES ASSUME NEW q \in waiting', fd[q] \notin crowded
               PROVE  (IF pc[q] = "send" THEN Full(q) ELSE Empty(q))'
    BY <1>1 DEF NoLostWakeup
  <2>1. q \in waiting /\ q \in Proc /\ q # p /\ pc'[q] = pc[q] /\ fd[q] \in File
    BY <1>1, <1>2 DEF WakeInv, WaitingInv, TypeInv
  <2>2. IF pc[q] = "send" THEN Full(q) ELSE Empty(q)
    BY <2>1 DEF WakeInv, NoLostWakeup
  <2>3. CASE fd[q] = fd[p]
    <3>1. \A r \in waiting : fd[r] = fd[p] => pc[r] = "send" /\ Full(p)
      BY <2>3 DEF WakeInv, NoLostWakeup, WaitingInv, Full, Empty
    <3>2. SignalsRoom(p)
      BY <2>1, <2>3, <3>1 DEF Full, SignalsRoom, TypeInv
    <3> QED
      BY <1>1, <2>3, <3>1, <3>2, SignalFacts
  <2>4. CASE fd[q] # fd[p]
    BY <1>1, <2>1, <2>2, <2>4 DEF Full, Empty, TypeInv
  <2> QED
    BY <2>3, <2>4
<1> QED
  BY <1>3, <1>4 DEF WakeInv

(* A step that leaves the queues alone and wakes nobody but p.             *)
LEMMA CalmStep ==
  ASSUME OpenInv, WakeInv, NEW p \in Proc, NEW place,
         pc' = [pc EXCEPT ![p] = place],
         place = pc[p] \/ place \notin {"send", "receive"},
         p \notin waiting' \/ place = pc[p],
         UNCHANGED <<fd, crowded, curmsgs>>, waiting' \subseteq waiting
  PROVE  WakeInv'
<1> USE DEF OpenInv
<1>1. AloneInv' /\ WaitingInv'
  BY DEF WakeInv, AloneInv, WaitingInv, Caller, TypeInv
<1>2. NoLostWakeup'
  BY DEF WakeInv, NoLostWakeup, WaitingInv, Full, Empty, TypeInv
<1> QED
  BY <1>1, <1>2 DEF WakeInv

LEMMA WakeStep ==
  ASSUME OpenInv, WakeInv, [Next]_vars
  PROVE  WakeInv'
<1> USE QueueAssumption DEF OpenInv
<1>0. \A p \in waiting : p \in Proc /\ pc[p] \in {"send", "receive"}
  BY DEF WakeInv, WaitingInv
<1>1. CASE Unlink \/ UNCHANGED vars
  <2>1. UNCHANGED <<pc, fd, curmsgs, waiting, crowded>>
    BY <1>1 DEF Unlink, vars, opening, header
  <2> QED
    BY <2>1 DEF WakeInv, AloneInv, WaitingInv, NoLostWakeup, Caller, Full, Empty
<1>2. ASSUME NEW p \in Proc, OpenOf(p) PROVE WakeInv'
  <2>1. PICK place \in Places :
          /\ pc' = [pc EXCEPT ![p] = place] /\ place \notin {"send", "receive"}
          /\ UNCHANGED <<curmsgs, waiting, crowded>>
          /\ \A q \in Proc : q # p => fd'[q] = fd[q]
          /\ p \notin waiting
    <3>1. pc[p] \notin {"send", "receive"} /\ UNCHANGED <<curmsgs, waiting, crowded>>
      BY <1>2 DEF OpenOf, Create, CreateFails, Initialise, InitFails, Open, Stat, header
    <3>2. \A q \in Proc : q # p => fd'[q] = fd[q]
      BY <1>2 DEF OpenOf, Create, CreateFails, Initialise, InitFails, Open, Stat,
         opening, TypeInv
    <3>3. \E place \in Places :
            pc' = [pc EXCEPT ![p] = place] /\ place \notin {"send", "receive"}
      BY <1>2 DEF OpenOf, Create, CreateFails, Initialise, InitFails, Open, Stat, Goto,
         AfterStat, Missing, Places
    <3> QED
      BY <1>0, <3>1, <3>2, <3>3
  <2>2. AloneInv' /\ WaitingInv'
    BY <2>1 DEF WakeInv, AloneInv, WaitingInv, Caller, TypeInv
  <2>3. NoLostWakeup'
    BY <1>0, <2>1 DEF WakeInv, NoLostWakeup, Full, Empty, TypeInv
  <2> QED
    BY <2>2, <2>3 DEF WakeInv
<1>3. ASSUME NEW p \in Proc, Send(p) PROVE WakeInv'
  <2>1. PICK priority \in Prio : Put(p, [prio |-> priority, id |-> left])
    BY <1>3 DEF Send
  <2>2. ~Full(p) /\ fd[p] \in File /\ p \notin waiting
    BY <1>0, <1>3 DEF Send, InUse, TypeInv
  <2> QED
    BY <2>1, <2>2, PutWakes
<1>4. ASSUME NEW p \in Proc, SendResumes(p) PROVE WakeInv'
  <2>1. Put(p, held[p]) /\ ~Full(p) /\ fd[p] \in File /\ p \notin waiting
    BY <1>4 DEF SendResumes, TypeInv
  <2> QED
    BY <2>1, PutWakes
<1>5. ASSUME NEW p \in Proc, Receive(p) \/ ReceiveResumes(p) PROVE WakeInv'
  <2>1. TakeFirst(p) /\ ~Empty(p) /\ fd[p] \in File /\ p \notin waiting
    BY <1>0, <1>5 DEF Receive, ReceiveResumes, InUse, TypeInv
  <2> QED
    BY <2>1, TakeWakes
<1>6. ASSUME NEW p \in Proc, NEW call \in {"send", "receive"},
             pc[p] = "open", Block(p, call), UNCHANGED <<fd, curmsgs>>,
             IF call = "send" THEN Full(p) ELSE Empty(p)
      PROVE  WakeInv'
  <2>1. AloneInv' /\ WaitingInv' /\ crowded \subseteq crowded'
    BY <1>6, BlockFacts DEF WakeInv
  <2>2. pc' = [pc EXCEPT ![p] = call] /\ waiting' = waiting \cup {p}
    BY <1>6 DEF Block, Goto
  <2>3. NoLostWakeup'
    BY <1>0, <1>6, <2>1, <2>2 DEF WakeInv, NoLostWakeup, Full, Empty, TypeInv
  <2> QED
    BY <2>1, <2>3 DEF WakeInv
<1>7. ASSUME NEW p \in Proc, SendBlocks(p) PROVE WakeInv'
  BY <1>6, <1>7 DEF SendBlocks, InUse, opening, header
<1>8. ASSUME NEW p \in Proc, ReceiveBlocks(p) PROVE WakeInv'
  BY <1>6, <1>8 DEF ReceiveBlocks, InUse, opening
<1>9. ASSUME NEW p \in Proc, WaitsOn(p) PROVE WakeInv'
  <2>1. /\ UNCHANGED <<pc, fd, curmsgs, crowded>> /\ waiting' = waiting \cup {p}
        /\ \/ pc[p] = "send" /\ Full(p)
           \/ pc[p] = "receive" /\ Empty(p)
    BY <1>9 DEF WaitsOn, opening, header
  <2>2. AloneInv' /\ WaitingInv'
    BY <2>1 DEF WakeInv, AloneInv, WaitingInv, Caller
  <2>3. NoLostWakeup'
    BY <2>1 DEF WakeInv, NoLostWakeup, Full, Empty
  <2> QED
    BY <2>2, <2>3 DEF WakeInv
<1>10. ASSUME NEW p \in Proc, Register(p) \/ NotifyNone(p) \/ WakeUnsignalled(p) PROVE WakeInv'
  <2>1. /\ UNCHANGED <<pc, fd, curmsgs, crowded>> /\ waiting' \subseteq waiting
    BY <1>10 DEF Register, NotifyNone, WakeUnsignalled, opening, header
  <2>2. pc' = [pc EXCEPT ![p] = pc[p]]
    BY <2>1 DEF TypeInv
  <2> QED
    BY <2>1, <2>2, CalmStep
<1>11. ASSUME NEW p \in Proc, Close(p) PROVE WakeInv'
  <2>1. /\ pc' = [pc EXCEPT ![p] = "done"] /\ p \notin waiting
        /\ UNCHANGED <<fd, curmsgs, crowded, waiting>>
    BY <1>0, <1>11 DEF Close, InUse, Goto, opening
  <2> QED
    BY <2>1, CalmStep
<1>12. ASSUME NEW p \in Proc, Die(p) PROVE WakeInv'
  <2>1. /\ pc' = [pc EXCEPT ![p] = "dead"] /\ waiting' = waiting \ {p}
        /\ UNCHANGED <<fd, curmsgs, crowded>>
    BY <1>12 DEF Die, Goto, opening, header
  <2> QED
    BY <2>1, CalmStep
<1> QED
  BY <1>1, <1>2, <1>3, <1>4, <1>5, <1>7, <1>8, <1>9, <1>10, <1>11, <1>12, NextCases
     DEF UseOf
-----------------------------------------------------------------------------
THEOREM Invariant == Spec => []IInv
<1>1. IInv /\ [Next]_vars => IInv'
  BY OpenStep, WakeStep DEF IInv
<1> QED
  BY InitIInv, <1>1, PTL DEF Spec

(* mq_open never returns a descriptor of a file at the path that its       *)
(* creator has not initialised: OpenedIsReady for every number of          *)
(* processes, whoever fails, dies or unlinks.                              *)
THEOREM NothingUninitialised == Spec => []OpenedIsReady
BY Invariant, PTL DEF IInv, OpenInv

(* With one blocked sender and one blocked receiver at most, the single    *)
(* condition variable loses no wake-up, for every room of the queue.       *)
THEOREM WakeUpsArrive == Spec => []NoLostWakeup
BY Invariant, PTL DEF IInv, WakeInv

(* A queue never holds more than mq_maxmsg messages, so that the free list *)
(* is not empty when mq_send takes its first slot.                         *)
THEOREM RoomIsKept == Spec => [](\A f \in File : curmsgs[f] \in 0 .. MaxMsg)
<1>1. IInv => \A f \in File : curmsgs[f] \in 0 .. MaxMsg
  BY DEF IInv, OpenInv, TypeInv
<1> QED
  BY Invariant, <1>1, PTL
-----------------------------------------------------------------------------
(* Induction over the natural numbers: if some are bad, one is the least.  *)
LEMMA LeastNumber ==
  ASSUME NEW Bad \in SUBSET Nat, Bad # {}
  PROVE  \E n \in Bad : \A m \in Bad : n <= m
<1> DEFINE Below == {p \in Nat \X Nat : p[1] < p[2]}
<1>1. IsWellFoundedOn(Below, Nat)
  BY NatLessThanWellFounded DEF OpToRel
<1>2. PICK n \in Bad : \A m \in Bad : ~ (<<m, n>> \in Below)
  <2> HIDE DEF Below
  <2> QED
    BY <1>1, WFMin
<1>3. ASSUME NEW m \in Bad, m < n PROVE FALSE
  <2>1. <<m, n>> \in Below
    BY <1>3
  <2> QED
    BY <1>2, <2>1
<1> QED
  BY <1>3

(* There is one way only to follow a linked list.                          *)
LEMMA SamePlaces ==
  ASSUME NEW l, NEW first, NEW c \in Seq(Slot), NEW d \in Seq(Slot),
         Linked(l, first, c), Linked(l, first, d), NEW i \in 1 .. Len(c)
  PROVE  i <= Len(d) /\ c[i] = d[i]
<1> DEFINE Bad == {k \in 1 .. Len(c) : ~ (k <= Len(d) /\ c[k] = d[k])}
<1> SUFFICES ASSUME Bad # {} PROVE FALSE
  OBVIOUS
<1>0. Len(c) \in Nat /\ Len(d) \in Nat /\ QueueAssumption
  BY QueueAssumption
<1>1. PICK k \in Bad : \A j \in Bad : k <= j
  <2>1. Bad \in SUBSET Nat
    BY <1>0
  <2> HIDE DEF Bad
  <2> QED
    BY <2>1, LeastNumber
<1>2. k \in 1 .. Len(c) /\ c[k] \in Slot /\ c[k] # 0 /\ c # <<>>
  BY <1>0 DEF Slot
<1>3. CASE k = 1
  <2>1. first = c[1]
    BY <1>2 DEF Linked
  <2>2. d # <<>> /\ first = d[1]
    BY <1>2, <1>3, <2>1 DEF Linked
  <2>3. 1 <= Len(d)
    <3>1. Len(d) # 0
      BY <2>2
    <3> QED
      BY <1>0, <3>1
  <2> QED
    BY <1>3, <2>1, <2>2, <2>3
<1>4. CASE k # 1
  <2>1. k - 1 \in 1 .. Len(c) /\ k - 1 < k /\ k - 1 # Len(c) /\ (k - 1) + 1 = k
    BY <1>0, <1>2, <1>4
  <2>2. k - 1 <= Len(d) /\ c[k - 1] = d[k - 1]
    BY <1>0, <1>1, <2>1
  <2>3. l.next[c[k - 1]] = c[k]
    BY <2>1 DEF Linked
  <2>4. k - 1 \in 1 .. Len(d)
    BY <1>0, <2>1, <2>2
  <2>5. l.next[d[k - 1]] = IF k - 1 = Len(d) THEN 0 ELSE d[k]
    BY <2>1, <2>4 DEF Linked
  <2>6. k - 1 # Len(d) /\ c[k] = d[k]
    BY <1>2, <2>2, <2>3, <2>5
  <2> QED
    BY <1>0, <1>1, <2>2, <2>4, <2>6
<1> QED
  BY <1>3, <1>4

LEMMA ChainIs ==
  ASSUME NEW l, NEW first, NEW c \in Seq(Slot), Linked(l, first, c), Len(c) <= MaxMsg
  PROVE  Chain(l, first) = c
<1>0. MaxMsg \in Nat /\ Len(c) \in 0 .. MaxMsg /\ c \in [1 .. Len(c) -> Slot]
  BY QueueAssumption
<1>1. c \in BoundedSeq(Slot, MaxMsg)
  BY <1>0 DEF BoundedSeq, SeqOf
<1>2. ASSUME NEW d \in BoundedSeq(Slot, MaxMsg) PROVE d \in Seq(Slot)
  BY <1>0 DEF BoundedSeq, SeqOf
<1>3. ASSUME NEW d \in BoundedSeq(Slot, MaxMsg), Linked(l, first, d) PROVE d = c
  <2>1. d \in Seq(Slot) /\ Len(c) \in Nat /\ Len(d) \in Nat
    BY <1>2
  <2>2. \A i \in 1 .. Len(c) : i <= Len(d) /\ c[i] = d[i]
    BY <1>3, <2>1, SamePlaces
  <2>3. \A i \in 1 .. Len(d) : i <= Len(c) /\ c[i] = d[i]
    BY <1>3, <2>1, SamePlaces
  <2>4. Len(c) = Len(d)
    <3>1. Len(c) > 0 => Len(c) <= Len(d)
      BY <2>1, <2>2
    <3>2. Len(d) > 0 => Len(d) <= Len(c)
      BY <2>1, <2>3
    <3> QED
      BY <2>1, <3>1, <3>2
  <2> QED
    BY <2>1, <2>2, <2>4
<1> QED
  BY <1>1, <1>3 DEF Chain

(* The two lists of a file with n messages: they share no slot, and the    *)
(* messages are sorted.                                                    *)
Lists(l, used, free, n) ==
  /\ l \in [msg : [Slot -> Message \cup {None}], free : 0 .. MaxMsg, head : 0 .. MaxMsg,
            next : [Slot -> 0 .. MaxMsg]]
  /\ used \in Seq(Slot) /\ free \in Seq(Slot)
  /\ Len(used) = n /\ Len(free) = MaxMsg - n /\ n \in 0 .. MaxMsg
  /\ Linked(l, l.head, used) /\ Linked(l, l.free, free)
  /\ \A j, k \in 1 .. n : used[j] = used[k] => j = k
  /\ \A j, k \in 1 .. MaxMsg - n : free[j] = free[k] => j = k
  /\ \A j \in 1 .. n : \A k \in 1 .. MaxMsg - n : used[j] # free[k]
  /\ \A j \in 1 .. n : l.msg[used[j]] \in Message
  /\ \A j, k \in 1 .. n : j <= k => l.msg[used[j]].prio >= l.msg[used[k]].prio

(* Where the walk of mq_send ends.                                         *)
LEMMA AheadIs ==
  ASSUME NEW l, NEW used, NEW free, NEW n, Lists(l, used, free, n), NEW m \in Message
  PROVE  /\ Chain(l, l.head) = used
         /\ Ahead(l, m) \in 0 .. n
         /\ \A k \in 1 .. Ahead(l, m) : l.msg[used[k]].prio >= m.prio
         /\ \A k \in (Ahead(l, m) + 1) .. n : l.msg[used[k]].prio < m.prio
<1>0. /\ MaxMsg \in Nat /\ n \in 0 .. MaxMsg /\ used \in Seq(Slot) /\ Len(used) = n
      /\ Linked(l, l.head, used)
  BY QueueAssumption DEF Lists
<1>1. Chain(l, l.head) = used
  BY <1>0, ChainIs
<1> DEFINE prio(k) == l.msg[used[k]].prio
<1>2. m.prio \in Nat /\ \A k \in 1 .. n : prio(k) \in Nat
  BY QueueAssumption DEF Lists, Message
<1>3. \A j, k \in 1 .. n : j <= k => prio(j) >= prio(k)
  BY DEF Lists
<1> HIDE DEF prio
<1> DEFINE Stops(a) == /\ \A k \in 1 .. a : prio(k) >= m.prio
                       /\ a < n => prio(a + 1) < m.prio
<1>4. \E a \in 0 .. n : Stops(a)
  <2> DEFINE Lower == {k \in 1 .. n : prio(k) < m.prio}
  <2>1. CASE Lower = {}
    <3>1. Stops(n)
      BY <1>0, <1>2, <2>1
    <3> QED
      BY <1>0, <3>1
  <2>2. CASE Lower # {}
    <3>1. PICK k \in Lower : \A j \in Lower : k <= j
      <4>1. Lower \in SUBSET Nat
        BY <1>0
      <4> HIDE DEF Lower
      <4> QED
        BY <2>2, <4>1, LeastNumber
    <3>2. k - 1 \in 0 .. n /\ (k - 1) + 1 = k /\ k \in 1 .. n /\ prio(k) < m.prio
      BY <1>0
    <3>3. \A j \in 1 .. (k - 1) : prio(j) >= m.prio
      BY <1>0, <1>2, <3>1, <3>2
    <3>4. Stops(k - 1)
      BY <3>2, <3>3
    <3> QED
      BY <3>2, <3>4
  <2> QED
    BY <2>1, <2>2
<1> DEFINE a == Ahead(l, m)
<1>5. a = CHOOSE b \in 0 .. n : Stops(b)
  BY <1>0, <1>1 DEF Ahead, PrioAt, Length, prio
<1> HIDE DEF Stops, a
<1>6. a \in 0 .. n /\ Stops(a)
  BY <1>4, <1>5
<1>7. \A k \in (a + 1) .. n : prio(k) < m.prio
  <2> SUFFICES ASSUME NEW k \in (a + 1) .. n PROVE prio(k) < m.prio
    OBVIOUS
  <2>1. a + 1 \in 1 .. n /\ k \in 1 .. n /\ a + 1 <= k /\ a < n
    BY <1>0, <1>6
  <2>2. prio(a + 1) >= prio(k) /\ prio(a + 1) < m.prio
    BY <1>3, <1>6, <2>1 DEF Stops
  <2> QED
    BY <1>2, <2>1, <2>2
<1>8. \A k \in 1 .. a : prio(k) >= m.prio
  BY <1>6 DEF Stops
<1> QED
  BY <1>1, <1>6, <1>7, <1>8 DEF a, prio

(* The facts of Lists, with functions in the place of the sequences.       *)
LEMMA ListFacts ==
  ASSUME NEW l, NEW used, NEW free, NEW n, NEW f, Lists(l, used, free, n),
         f = MaxMsg - n
  PROVE  /\ MaxMsg \in Nat /\ n \in Nat /\ f \in Nat /\ n + f = MaxMsg
         /\ Len(used) = n /\ Len(free) = f
         /\ used \in Seq(Slot) /\ free \in Seq(Slot)
         /\ l.msg \in [Slot -> Message \cup {None}] /\ l.next \in [Slot -> 0 .. MaxMsg]
         /\ l.head \in 0 .. MaxMsg /\ l.free \in 0 .. MaxMsg
         /\ \A k \in 1 .. n : used[k] \in Slot
         /\ \A k \in 1 .. f : free[k] \in Slot
         /\ \A j, k \in 1 .. n : used[j] = used[k] => j = k
         /\ \A j, k \in 1 .. f : free[j] = free[k] => j = k
         /\ \A j \in 1 .. n : \A k \in 1 .. f : used[j] # free[k]
         /\ l.head = IF n = 0 THEN 0 ELSE used[1]
         /\ l.free = IF f = 0 THEN 0 ELSE free[1]
         /\ \A k \in 1 .. n : l.next[used[k]] = IF k = n THEN 0 ELSE used[k + 1]
         /\ \A k \in 1 .. f : l.next[free[k]] = IF k = f THEN 0 ELSE free[k + 1]
         /\ \A k \in 1 .. n : l.msg[used[k]] \in Message
         /\ \A j, k \in 1 .. n : j <= k => l.msg[used[j]].prio >= l.msg[used[k]].prio
<1>1. /\ MaxMsg \in Nat /\ n \in 0 .. MaxMsg /\ Len(used) = n /\ Len(free) = f
      /\ used \in Seq(Slot) /\ free \in Seq(Slot)
  BY QueueAssumption DEF Lists
<1>2. n \in Nat /\ f \in Nat /\ n + f = MaxMsg
  BY <1>1
<1>3. /\ \A k \in 1 .. n : used[k] \in Slot
      /\ \A k \in 1 .. f : free[k] \in Slot
      /\ used = <<>> <=> n = 0
      /\ free = <<>> <=> f = 0
  BY <1>1
<1>4. /\ l.head = IF n = 0 THEN 0 ELSE used[1]
      /\ l.free = IF f = 0 THEN 0 ELSE free[1]
      /\ \A k \in 1 .. n : l.next[used[k]] = IF k = n THEN 0 ELSE used[k + 1]
      /\ \A k \in 1 .. f : l.next[free[k]] = IF k = f THEN 0 ELSE free[k + 1]
  BY <1>1, <1>3 DEF Lists, Linked
<1>5. /\ \A j, k \in 1 .. f : free[j] = free[k] => j = k
      /\ \A j \in 1 .. n : \A k \in 1 .. f : used[j] # free[k]
      /\ \A j, k \in 1 .. n : used[j] = used[k] => j = k
      /\ \A k \in 1 .. n : l.msg[used[k]] \in Message
      /\ \A j, k \in 1 .. n : j <= k => l.msg[used[j]].prio >= l.msg[used[k]].prio
  BY DEF Lists
<1>6. /\ l.msg \in [Slot -> Message \cup {None}] /\ l.next \in [Slot -> 0 .. MaxMsg]
      /\ l.head \in 0 .. MaxMsg /\ l.free \in 0 .. MaxMsg
  BY DEF Lists
<1> QED
  BY <1>1, <1>2, <1>3, <1>4, <1>5, <1>6

(* And back: what makes two sequences of slots the lists of a file.        *)
LEMMA ListsAre ==
  ASSUME NEW l, NEW used \in Seq(Slot), NEW free \in Seq(Slot), NEW n \in Nat, NEW f \in Nat,
         n + f = MaxMsg, Len(used) = n, Len(free) = f,
         l \in [msg : [Slot -> Message \cup {None}], free : 0 .. MaxMsg,
                head : 0 .. MaxMsg, next : [Slot -> 0 .. MaxMsg]],
         \A j, k \in 1 .. n : used[j] = used[k] => j = k,
         \A j, k \in 1 .. f : free[j] = free[k] => j = k,
         \A j \in 1 .. n : \A k \in 1 .. f : used[j] # free[k],
         l.head = IF n = 0 THEN 0 ELSE used[1],
         l.free = IF f = 0 THEN 0 ELSE free[1],
         \A k \in 1 .. n : l.next[used[k]] = IF k = n THEN 0 ELSE used[k + 1],
         \A k \in 1 .. f : l.next[free[k]] = IF k = f THEN 0 ELSE free[k + 1],
         \A k \in 1 .. n : l.msg[used[k]] \in Message,
         \A j, k \in 1 .. n : j <= k => l.msg[used[j]].prio >= l.msg[used[k]].prio
  PROVE  Lists(l, used, free, n)
<1>1. MaxMsg \in Nat /\ n \in 0 .. MaxMsg /\ f = MaxMsg - n
  BY QueueAssumption
<1>2. (used = <<>> <=> n = 0) /\ (free = <<>> <=> f = 0)
  OBVIOUS
<1>3. Linked(l, l.head, used) /\ Linked(l, l.free, free)
  BY <1>2 DEF Linked
<1> QED
  BY <1>1, <1>3 DEF Lists

(* What mq_send does to the two lists.                                    *)
InsertsWell(l, used, free, n, m) ==
  LET a == Ahead(l, m)
      used2 == [k \in 1 .. n + 1 |-> IF k <= a THEN used[k]
                                     ELSE IF k = a + 1 THEN l.free ELSE used[k - 1]]
  IN  /\ Lists(Insert(l, m), used2, Tail(free), n + 1)
      /\ \A k \in 1 .. n + 1 :
           Insert(l, m).msg[used2[k]] = IF k <= a THEN l.msg[used[k]]
                                        ELSE IF k = a + 1 THEN m
                                        ELSE l.msg[used[k - 1]]

(* A new message: the first free slot is linked behind as many.            *)
LEMMA InsertLists ==
  ASSUME NEW l, NEW used, NEW free, NEW n, Lists(l, used, free, n), n < MaxMsg,
         NEW m \in Message
  PROVE  InsertsWell(l, used, free, n, m)
<1> DEFINE a == Ahead(l, m)
           new == l.free
           l2 == Insert(l, m)
           f == MaxMsg - n
           free2 == Tail(free)
           after == IF a = n THEN 0 ELSE used[a + 1]
           links == [l.next EXCEPT ![new] = after]
           spot(k) == IF k <= a THEN used[k] ELSE IF k = a + 1 THEN new ELSE used[k - 1]
           used2 == [k \in 1 .. n + 1 |-> spot(k)]
<1>1. /\ Chain(l, l.head) = used /\ a \in 0 .. n
      /\ \A k \in 1 .. a : l.msg[used[k]].prio >= m.prio
      /\ \A k \in (a + 1) .. n : l.msg[used[k]].prio < m.prio
  BY AheadIs
<1>2. /\ MaxMsg \in Nat /\ n \in Nat /\ f \in Nat /\ n + f = MaxMsg
      /\ Len(used) = n /\ Len(free) = f
      /\ used \in Seq(Slot) /\ free \in Seq(Slot)
      /\ l.msg \in [Slot -> Message \cup {None}] /\ l.next \in [Slot -> 0 .. MaxMsg]
      /\ l.head \in 0 .. MaxMsg /\ l.free \in 0 .. MaxMsg
  BY ListFacts
<1>3. /\ \A k \in 1 .. n : used[k] \in Slot
      /\ \A k \in 1 .. f : free[k] \in Slot
      /\ \A j, k \in 1 .. n : used[j] = used[k] => j = k
      /\ \A j, k \in 1 .. f : free[j] = free[k] => j = k
      /\ \A j \in 1 .. n : \A k \in 1 .. f : used[j] # free[k]
      /\ l.head = IF n = 0 THEN 0 ELSE used[1]
      /\ l.free = IF f = 0 THEN 0 ELSE free[1]
  BY ListFacts
<1>4. /\ \A k \in 1 .. n : l.next[used[k]] = IF k = n THEN 0 ELSE used[k + 1]
      /\ \A k \in 1 .. f : l.next[free[k]] = IF k = f THEN 0 ELSE free[k + 1]
  BY ListFacts
<1>5. /\ \A k \in 1 .. n : l.msg[used[k]] \in Message
      /\ \A j, k \in 1 .. n : j <= k => l.msg[used[j]].prio >= l.msg[used[k]].prio
  BY ListFacts
<1>6. f >= 1 /\ free # <<>> /\ a \in Nat /\ a <= n
  <2>1. f >= 1 /\ a \in Nat /\ a <= n
    BY <1>1, <1>2
  <2> QED
    BY <1>2, <2>1
<1>7. /\ free2 \in Seq(Slot) /\ Len(free2) = f - 1
      /\ \A k \in 1 .. f - 1 : free2[k] = free[k + 1]
  BY <1>2, <1>6, HeadTailProperties
<1>8. /\ l2.msg = [l.msg EXCEPT ![new] = m]
      /\ l2.free = l.next[new]
      /\ l2.head = IF a = 0 THEN new ELSE l.head
      /\ l2.next = IF a = 0 THEN links ELSE [links EXCEPT ![used[a]] = new]
      /\ l2 = [msg |-> l2.msg, free |-> l2.free, head |-> l2.head, next |-> l2.next]
  BY <1>1, <1>2 DEF Insert
<1> HIDE DEF a, l2, f, free2
<1>9. /\ new = free[1] /\ new \in Slot
      /\ \A k \in 1 .. n : used[k] # new
      /\ \A k \in 1 .. f : k # 1 => free[k] # new
      /\ a > 0 => used[a] \in Slot
  <2>1. f # 0 /\ 1 \in 1 .. f /\ (a > 0 => a \in 1 .. n)
    BY <1>2, <1>6
  <2>2. new = free[1]
    BY <1>3, <2>1
  <2> HIDE DEF new
  <2> QED
    BY <1>3, <2>1, <2>2
<1> HIDE DEF new
<1>10. /\ used2 \in Seq(Slot) /\ Len(used2) = n + 1
       /\ \A k \in 1 .. n + 1 : used2[k] = spot(k)
  <2>1. ASSUME NEW k \in 1 .. n + 1 PROVE spot(k) \in Slot
    BY <1>2, <1>3, <1>6, <1>9
  <2> HIDE DEF spot
  <2>2. used2 \in [1 .. n + 1 -> Slot] /\ \A k \in 1 .. n + 1 : used2[k] = spot(k)
    BY <2>1
  <2> HIDE DEF used2
  <2>3. ASSUME NEW x \in Nat, used2 \in [1 .. x -> Slot] PROVE used2 \in Seq(Slot) /\ Len(used2) = x
    BY <2>3
  <2> QED
    BY <1>2, <2>2, <2>3
<1> HIDE DEF used2
<1>11. \A j, k \in 1 .. n + 1 : used2[j] = used2[k] => j = k
  <2> SUFFICES ASSUME NEW j \in 1 .. n + 1, NEW k \in 1 .. n + 1, spot(j) = spot(k)
               PROVE  j = k
    BY <1>10
  <2> QED
    BY <1>2, <1>3, <1>6, <1>9
<1>12. \A j, k \in 1 .. f - 1 : free2[j] = free2[k] => j = k
  BY <1>2, <1>3, <1>7
<1>13. \A k \in 1 .. f - 1 :
         free2[k] \in Slot /\ free2[k] # new /\ \A j \in 1 .. n : used[j] # free2[k]
  <2> SUFFICES ASSUME NEW k \in 1 .. f - 1
               PROVE  free2[k] \in Slot /\ free2[k] # new
                      /\ \A j \in 1 .. n : used[j] # free2[k]
    OBVIOUS
  <2>1. k + 1 \in 1 .. f /\ k + 1 # 1 /\ free2[k] = free[k + 1]
    BY <1>2, <1>7
  <2> QED
    BY <1>3, <1>9, <2>1
<1>14. \A j \in 1 .. n + 1 : \A k \in 1 .. f - 1 : used2[j] # free2[k]
  <2> SUFFICES ASSUME NEW j \in 1 .. n + 1, NEW k \in 1 .. f - 1
               PROVE  spot(j) # free2[k]
    BY <1>10
  <2> QED
    BY <1>2, <1>6, <1>13
<1>15. \A k \in 1 .. n + 1 : l2.msg[used2[k]] = IF k <= a THEN l.msg[used[k]]
                                                ELSE IF k = a + 1 THEN m
                                                ELSE l.msg[used[k - 1]]
  <2>1. /\ l2.msg[new] = m
        /\ \A k \in 1 .. n : l2.msg[used[k]] = l.msg[used[k]]
    BY <1>2, <1>3, <1>8, <1>9
  <2> SUFFICES ASSUME NEW k \in 1 .. n + 1
               PROVE  l2.msg[spot(k)] = IF k <= a THEN l.msg[used[k]]
                                        ELSE IF k = a + 1 THEN m
                                        ELSE l.msg[used[k - 1]]
    BY <1>10
  <2> QED
    BY <1>2, <1>6, <2>1
<1>16. /\ l2.next \in [Slot -> 0 .. MaxMsg]
       /\ l2.next[new] = after
       /\ a # 0 => l2.next[used[a]] = new
       /\ \A s \in Slot : s # new /\ (a # 0 => s # used[a]) => l2.next[s] = l.next[s]
  <2>1. after \in 0 .. MaxMsg /\ new \in 0 .. MaxMsg
    BY <1>2, <1>3, <1>6, <1>9 DEF Slot
  <2>2. a # 0 => used[a] \in Slot /\ used[a] # new
    BY <1>2, <1>3, <1>6, <1>9
  <2> HIDE DEF after
  <2>3. links \in [Slot -> 0 .. MaxMsg] /\ links[new] = after
        /\ \A s \in Slot : s # new => links[s] = l.next[s]
    BY <1>2, <1>9, <2>1
  <2> HIDE DEF links
  <2>4. CASE a = 0
    BY <1>8, <2>3, <2>4
  <2>5. CASE a # 0
    <3>1. l2.next = [links EXCEPT ![used[a]] = new]
      BY <1>8, <2>5
    <3> QED
      BY <1>9, <2>1, <2>2, <2>3, <2>5, <3>1
  <2> QED
    BY <2>4, <2>5
<1>17. l2.head = used2[1]
  <2>1. used2[1] = spot(1)
    <3>1. 1 \in 1 .. n + 1
      BY <1>2
    <3> HIDE DEF spot
    <3> QED
      BY <1>10, <3>1
  <2> QED
    BY <1>2, <1>3, <1>6, <1>8, <2>1
<1>18. \A k \in 1 .. n + 1 : l2.next[used2[k]] = IF k = n + 1 THEN 0 ELSE used2[k + 1]
  <2>1. ASSUME NEW k \in 1 .. n + 1
        PROVE  l2.next[spot(k)] = IF k = n + 1 THEN 0 ELSE spot(k + 1)
    <3>1. CASE k < a
      <4>1. k \in 1 .. n /\ a \in 1 .. n /\ k # a /\ k # n /\ k # n + 1 /\ spot(k) = used[k]
            /\ spot(k + 1) = used[k + 1] /\ a # 0
        BY <1>2, <1>6, <3>1
      <4>2. used[k] # used[a] /\ used[k] # new /\ used[k] \in Slot
        BY <1>3, <1>9, <4>1
      <4> QED
        BY <1>4, <1>16, <4>1, <4>2
    <3>2. CASE k = a
      <4>1. k # n + 1 /\ spot(k) = used[a] /\ spot(k + 1) = new /\ a # 0
        BY <1>2, <1>6, <3>2
      <4> QED
        BY <1>16, <4>1
    <3>3. CASE k = a + 1
      <4>1. spot(k) = new /\ (k = n + 1 <=> a = n) /\ (a # n => spot(k + 1) = used[a + 1])
        BY <1>2, <1>6, <3>3
      <4> QED
        BY <1>16, <4>1
    <3>4. CASE k > a + 1
      <4>1. /\ k - 1 \in 1 .. n /\ a # k - 1 /\ spot(k) = used[k - 1]
            /\ (k - 1 = n <=> k = n + 1)
            /\ (k # n + 1 => spot(k + 1) = used[(k - 1) + 1])
            /\ (a # 0 => a \in 1 .. n)
        <5>1. k \in Nat /\ k >= 1 /\ k <= n + 1 /\ n \in Nat /\ a \in Nat /\ a <= n
          BY <1>2, <1>6
        <5>2. /\ k - 1 \in 1 .. n /\ a # k - 1 /\ ~ (k <= a) /\ k # a + 1
              /\ ~ (k + 1 <= a) /\ k + 1 # a + 1 /\ (k + 1) - 1 = (k - 1) + 1
          BY <3>4, <5>1
        <5>3. (k - 1 = n <=> k = n + 1) /\ (a # 0 => a \in 1 .. n)
          BY <5>1
        <5> QED
          BY <5>2, <5>3
      <4>2. (a # 0 => used[k - 1] # used[a]) /\ used[k - 1] # new /\ used[k - 1] \in Slot
        BY <1>3, <1>9, <4>1
      <4>3. l2.next[used[k - 1]] = l.next[used[k - 1]]
        BY <1>16, <4>2
      <4> QED
        BY <1>4, <4>1, <4>3
    <3> QED
      BY <1>2, <1>6, <3>1, <3>2, <3>3, <3>4
  <2>2. ASSUME NEW k \in 1 .. n + 1
        PROVE  used2[k] = spot(k) /\ (k # n + 1 => used2[k + 1] = spot(k + 1))
    <3>1. k # n + 1 => k + 1 \in 1 .. n + 1
      BY <1>2
    <3> HIDE DEF spot
    <3> QED
      BY <1>10, <3>1
  <2> HIDE DEF spot
  <2> QED
    BY <2>1, <2>2
<1>19. /\ l2.free = IF f - 1 = 0 THEN 0 ELSE free2[1]
       /\ \A k \in 1 .. f - 1 : l2.next[free2[k]] = IF k = f - 1 THEN 0 ELSE free2[k + 1]
  <2>1. l2.free = IF 1 = f THEN 0 ELSE free[2]
    <3>1. 1 \in 1 .. f
      BY <1>2, <1>6
    <3> QED
      BY <1>4, <1>8, <1>9, <3>1
  <2>2. f # 1 => 1 \in 1 .. f - 1
    BY <1>2, <1>6
  <2>3. ASSUME NEW k \in 1 .. f - 1
        PROVE  l2.next[free2[k]] = IF k = f - 1 THEN 0 ELSE free2[k + 1]
    <3>1. a # 0 => a \in 1 .. n
      BY <1>2, <1>6
    <3>2. l2.next[free2[k]] = l.next[free2[k]]
      BY <1>13, <1>16, <3>1
    <3>3. k + 1 \in 1 .. f /\ (k = f - 1 <=> k + 1 = f) /\ (k # f - 1 => k + 1 \in 1 .. f - 1)
      BY <1>2
    <3> QED
      BY <1>4, <1>7, <3>2, <3>3
  <2> QED
    BY <1>2, <1>7, <2>1, <2>2, <2>3
<1>20. \A k \in 1 .. n + 1 : l2.msg[used2[k]] \in Message
  <2> SUFFICES ASSUME NEW k \in 1 .. n + 1
               PROVE  (IF k <= a THEN l.msg[used[k]]
                       ELSE IF k = a + 1 THEN m ELSE l.msg[used[k - 1]]) \in Message
    BY <1>15
  <2> QED
    BY <1>2, <1>5, <1>6
<1>21. \A j, k \in 1 .. n + 1 : j <= k => l2.msg[used2[j]].prio >= l2.msg[used2[k]].prio
  <2> DEFINE old(k) == l.msg[used[k]].prio
             now(k) == l2.msg[used2[k]].prio
  <2>1. \A x \in Message : x.prio \in Nat
    BY QueueAssumption DEF Message
  <2>2. \A k \in 1 .. n + 1 : now(k) = IF k <= a THEN old(k) ELSE IF k = a + 1 THEN m.prio
                                      ELSE old(k - 1)
    BY <1>15
  <2>3. /\ \A k \in 1 .. n : old(k) \in Nat
        /\ \A j, k \in 1 .. n : j <= k => old(j) >= old(k)
        /\ \A k \in 1 .. a : old(k) >= m.prio
        /\ \A k \in (a + 1) .. n : old(k) < m.prio
        /\ m.prio \in Nat
    BY <1>1, <1>5, <2>1 DEF a
  <2> HIDE DEF old, now
  <2> SUFFICES ASSUME NEW j \in 1 .. n + 1, NEW k \in 1 .. n + 1, j <= k
               PROVE  now(j) >= now(k)
    BY DEF now
  <2>4. CASE k <= a
    <3>1. j \in 1 .. n /\ k \in 1 .. n /\ now(j) = old(j) /\ now(k) = old(k)
      BY <1>2, <1>6, <2>2, <2>4
    <3> QED
      BY <2>3, <3>1
  <2>5. CASE k = a + 1
    <3>1. now(k) = m.prio
      BY <1>2, <1>6, <2>2, <2>5
    <3>2. CASE j = k
      BY <2>3, <3>1, <3>2
    <3>3. CASE j # k
      <4>1. j \in 1 .. a /\ now(j) = old(j)
        BY <1>2, <1>6, <2>2, <2>5, <3>3
      <4> QED
        BY <2>3, <3>1, <4>1
    <3> QED
      BY <3>2, <3>3
  <2>6. CASE k > a + 1
    <3>1. k - 1 \in (a + 1) .. n /\ k - 1 \in 1 .. n /\ now(k) = old(k - 1)
      BY <1>2, <1>6, <2>2, <2>6
    <3>2. CASE j <= a
      <4>1. j \in 1 .. n /\ j <= k - 1 /\ now(j) = old(j)
        BY <1>2, <1>6, <2>2, <2>6, <3>2
      <4> QED
        BY <2>3, <3>1, <4>1
    <3>3. CASE j = a + 1
      <4>1. now(j) = m.prio
        BY <1>2, <1>6, <2>2, <3>3
      <4>2. old(k - 1) < m.prio /\ old(k - 1) \in Nat
        BY <2>3, <3>1
      <4> QED
        BY <2>3, <3>1, <4>1, <4>2
    <3>4. CASE j > a + 1
      <4>1. j - 1 \in 1 .. n /\ j - 1 <= k - 1 /\ now(j) = old(j - 1)
        BY <1>2, <1>6, <2>2, <3>4
      <4> QED
        BY <2>3, <3>1, <4>1
    <3> QED
      BY <1>2, <1>6, <3>2, <3>3, <3>4
  <2> QED
    BY <1>2, <1>6, <2>4, <2>5, <2>6
<1>22. l2 \in [msg : [Slot -> Message \cup {None}], free : 0 .. MaxMsg, head : 0 .. MaxMsg,
               next : [Slot -> 0 .. MaxMsg]]
  <2>1. l2.msg \in [Slot -> Message \cup {None}] /\ l2.free \in 0 .. MaxMsg
        /\ l2.head \in 0 .. MaxMsg
    <3>1. new \in 0 .. MaxMsg
      BY <1>2 DEF new
    <3> QED
      BY <1>2, <1>8, <1>9, <3>1
  <2> QED
    BY <1>8, <1>16, <2>1
<1>23. n + 1 \in Nat /\ f - 1 \in Nat /\ (n + 1) + (f - 1) = MaxMsg /\ n + 1 # 0
  BY <1>2, <1>6
<1>24. Lists(l2, used2, free2, n + 1)
  <2> DEFINE x == n + 1
             y == f - 1
  <2>1. /\ x \in Nat /\ y \in Nat /\ x + y = MaxMsg /\ Len(used2) = x /\ Len(free2) = y
        /\ l2.head = IF x = 0 THEN 0 ELSE used2[1]
        /\ l2.free = IF y = 0 THEN 0 ELSE free2[1]
    BY <1>7, <1>10, <1>17, <1>19, <1>23
  <2>2. /\ \A j, k \in 1 .. x : used2[j] = used2[k] => j = k
        /\ \A j, k \in 1 .. y : free2[j] = free2[k] => j = k
        /\ \A j \in 1 .. x : \A k \in 1 .. y : used2[j] # free2[k]
        /\ \A k \in 1 .. x : l2.next[used2[k]] = IF k = x THEN 0 ELSE used2[k + 1]
        /\ \A k \in 1 .. y : l2.next[free2[k]] = IF k = y THEN 0 ELSE free2[k + 1]
        /\ \A k \in 1 .. x : l2.msg[used2[k]] \in Message
        /\ \A j, k \in 1 .. x : j <= k => l2.msg[used2[j]].prio >= l2.msg[used2[k]].prio
    BY <1>11, <1>12, <1>14, <1>18, <1>19, <1>20, <1>21
  <2>3. used2 \in Seq(Slot) /\ free2 \in Seq(Slot)
    BY <1>7, <1>10
  <2> HIDE DEF x, y
  <2>4. Lists(l2, used2, free2, x)
    BY <1>22, <2>1, <2>2, <2>3, ListsAre
  <2> QED
    BY <2>4 DEF x
<1> QED
  BY <1>15, <1>24 DEF used2, free2, l2, a, new, InsertsWell

(* What mq_receive does to the two lists.                                 *)
UnlistsWell(l, used, free, n) ==
  LET free2 == [k \in 1 .. MaxMsg - n + 1 |-> IF k = 1 THEN l.head ELSE free[k - 1]]
  IN  /\ Lists(Unlist(l), Tail(used), free2, n - 1)
      /\ \A k \in 1 .. n - 1 : Unlist(l).msg[Tail(used)[k]] = l.msg[used[k + 1]]

(* A message taken: its slot becomes the first free one.                   *)
LEMMA UnlistLists ==
  ASSUME NEW l, NEW used, NEW free, NEW n, Lists(l, used, free, n), n > 0
  PROVE  UnlistsWell(l, used, free, n)
<1> DEFINE old == l.head
           l2 == Unlist(l)
           f == MaxMsg - n
           used2 == Tail(used)
           spot(k) == IF k = 1 THEN old ELSE free[k - 1]
           free2 == [k \in 1 .. f + 1 |-> spot(k)]
<1>0. f = MaxMsg - n
  OBVIOUS
<1> HIDE DEF f
<1>1. /\ MaxMsg \in Nat /\ n \in Nat /\ f \in Nat /\ n + f = MaxMsg
      /\ Len(used) = n /\ Len(free) = f
      /\ used \in Seq(Slot) /\ free \in Seq(Slot)
      /\ l.msg \in [Slot -> Message \cup {None}] /\ l.next \in [Slot -> 0 .. MaxMsg]
      /\ l.head \in 0 .. MaxMsg /\ l.free \in 0 .. MaxMsg
  BY <1>0, ListFacts
<1>2. /\ \A k \in 1 .. n : used[k] \in Slot
      /\ \A k \in 1 .. f : free[k] \in Slot
      /\ \A j, k \in 1 .. n : used[j] = used[k] => j = k
      /\ \A j, k \in 1 .. f : free[j] = free[k] => j = k
      /\ \A j \in 1 .. n : \A k \in 1 .. f : used[j] # free[k]
      /\ l.head = IF n = 0 THEN 0 ELSE used[1]
      /\ l.free = IF f = 0 THEN 0 ELSE free[1]
  BY <1>0, ListFacts
<1>3. /\ \A k \in 1 .. n : l.next[used[k]] = IF k = n THEN 0 ELSE used[k + 1]
      /\ \A k \in 1 .. f : l.next[free[k]] = IF k = f THEN 0 ELSE free[k + 1]
  BY <1>0, ListFacts
<1>4. /\ \A k \in 1 .. n : l.msg[used[k]] \in Message
      /\ \A j, k \in 1 .. n : j <= k => l.msg[used[j]].prio >= l.msg[used[k]].prio
  BY <1>0, ListFacts
<1>5. used # <<>> /\ 1 \in 1 .. n /\ n >= 1
  BY <1>1
<1>6. /\ used2 \in Seq(Slot) /\ Len(used2) = n - 1
      /\ \A k \in 1 .. n - 1 : used2[k] = used[k + 1]
  BY <1>1, <1>5, HeadTailProperties
<1>7. /\ l2.msg = [l.msg EXCEPT ![old] = None]
      /\ l2.free = old
      /\ l2.head = l.next[old]
      /\ l2.next = [l.next EXCEPT ![old] = l.free]
      /\ l2 = [msg |-> l2.msg, free |-> l2.free, head |-> l2.head, next |-> l2.next]
  BY DEF Unlist
<1>8. old = used[1] /\ old \in Slot /\ \A k \in 1 .. f : free[k] # old
  <2>1. n # 0
    BY <1>5
  <2>2. old = used[1]
    BY <1>2, <2>1
  <2> HIDE DEF old
  <2> QED
    BY <1>2, <1>5, <2>2
<1>9. old \in 0 .. MaxMsg
  BY <1>1
<1> HIDE DEF l2, used2, old
<1>10. \A k \in 1 .. n - 1 : /\ used2[k] \in Slot /\ used2[k] # old
                             /\ k + 1 \in 1 .. n /\ used2[k] = used[k + 1]
  <2> SUFFICES ASSUME NEW k \in 1 .. n - 1
               PROVE  used2[k] \in Slot /\ used2[k] # old /\ k + 1 \in 1 .. n
                      /\ used2[k] = used[k + 1]
    OBVIOUS
  <2>1. k + 1 \in 1 .. n /\ k + 1 # 1 /\ used2[k] = used[k + 1]
    BY <1>1, <1>6
  <2> QED
    BY <1>2, <1>5, <1>8, <2>1
<1>11. /\ free2 \in Seq(Slot) /\ Len(free2) = f + 1
       /\ \A k \in 1 .. f + 1 : free2[k] = spot(k)
  <2>1. ASSUME NEW k \in 1 .. f + 1 PROVE spot(k) \in Slot
    <3>1. k # 1 => k - 1 \in 1 .. f
      BY <1>1
    <3> QED
      BY <1>2, <1>8, <3>1
  <2> HIDE DEF spot
  <2>2. free2 \in [1 .. f + 1 -> Slot] /\ \A k \in 1 .. f + 1 : free2[k] = spot(k)
    BY <2>1
  <2> HIDE DEF free2
  <2>3. ASSUME NEW x \in Nat, free2 \in [1 .. x -> Slot] PROVE free2 \in Seq(Slot) /\ Len(free2) = x
    BY <2>3
  <2> QED
    BY <1>1, <2>2, <2>3
<1> HIDE DEF free2
<1>12. \A k \in 1 .. f + 1 : k # 1 => k - 1 \in 1 .. f /\ spot(k) = free[k - 1]
  BY <1>1
<1>13. spot(1) = old
  OBVIOUS
<1>14. \A j, k \in 1 .. f + 1 : free2[j] = free2[k] => j = k
  <2> SUFFICES ASSUME NEW j \in 1 .. f + 1, NEW k \in 1 .. f + 1, spot(j) = spot(k)
               PROVE  j = k
    BY <1>11
  <2> QED
    BY <1>1, <1>2, <1>8
<1>15. \A j, k \in 1 .. n - 1 : used2[j] = used2[k] => j = k
  <2> SUFFICES ASSUME NEW j \in 1 .. n - 1, NEW k \in 1 .. n - 1, used2[j] = used2[k]
               PROVE  j = k
    OBVIOUS
  <2>1. j + 1 = k + 1
    BY <1>2, <1>10
  <2> QED
    BY <1>1, <2>1
<1>16. \A j \in 1 .. n - 1 : \A k \in 1 .. f + 1 : used2[j] # free2[k]
  <2> SUFFICES ASSUME NEW j \in 1 .. n - 1, NEW k \in 1 .. f + 1
               PROVE  used2[j] # spot(k)
    BY <1>11
  <2> HIDE DEF spot
  <2>1. CASE k = 1
    BY <1>10, <1>13, <2>1
  <2>2. CASE k # 1
    BY <1>2, <1>10, <1>12, <2>2
  <2> QED
    BY <2>1, <2>2
<1>17. \A k \in 1 .. n - 1 : l2.msg[used2[k]] = l.msg[used[k + 1]]
  BY <1>1, <1>7, <1>10
<1>18. /\ l2.next \in [Slot -> 0 .. MaxMsg] /\ l2.next[old] = l.free
       /\ \A s \in Slot : s # old => l2.next[s] = l.next[s]
  BY <1>1, <1>7, <1>8
<1>19. /\ l2.head = IF n - 1 = 0 THEN 0 ELSE used2[1]
       /\ \A k \in 1 .. n - 1 : l2.next[used2[k]] = IF k = n - 1 THEN 0 ELSE used2[k + 1]
  <2>1. l2.head = IF 1 = n THEN 0 ELSE used[2]
    BY <1>3, <1>5, <1>7, <1>8
  <2>2. 1 # n => 1 \in 1 .. n - 1
    BY <1>1, <1>5
  <2>3. ASSUME NEW k \in 1 .. n - 1
        PROVE  l2.next[used2[k]] = IF k = n - 1 THEN 0 ELSE used2[k + 1]
    <3>1. l2.next[used2[k]] = l.next[used[k + 1]]
      BY <1>10, <1>18
    <3>2. (k = n - 1 <=> k + 1 = n) /\ (k # n - 1 => k + 1 \in 1 .. n - 1)
      BY <1>1
    <3> QED
      BY <1>3, <1>6, <1>10, <3>1, <3>2
  <2>4. (n - 1 = 0 <=> 1 = n) /\ 1 + 1 = 2
    BY <1>1
  <2>5. l2.head = IF n - 1 = 0 THEN 0 ELSE used2[1]
    BY <1>6, <2>1, <2>2, <2>4
  <2> QED
    BY <2>3, <2>5
<1>20. /\ l2.free = free2[1]
       /\ \A k \in 1 .. f + 1 : l2.next[free2[k]] = IF k = f + 1 THEN 0 ELSE free2[k + 1]
  <2>1. 1 \in 1 .. f + 1
    BY <1>1
  <2>2. l2.free = free2[1]
    BY <1>7, <1>11, <1>13, <2>1
  <2>3. ASSUME NEW k \in 1 .. f + 1
        PROVE  l2.next[free2[k]] = IF k = f + 1 THEN 0 ELSE free2[k + 1]
    <3>1. /\ k # f + 1 => /\ k \in 1 .. f /\ k + 1 \in 1 .. f + 1 /\ k + 1 # 1
                          /\ (k + 1) - 1 = k
         /\ (k - 1) + 1 = k /\ (k - 1 = f <=> k = f + 1)
      BY <1>1
    <3>2. k # f + 1 => free2[k + 1] = free[k]
      BY <1>11, <1>12, <3>1
    <3> HIDE DEF spot
    <3>3. CASE k = 1
      <4>1. l2.next[free2[k]] = l.free
        BY <1>11, <1>13, <1>18, <3>3
      <4>2. f = 0 <=> k = f + 1
        BY <1>1, <3>3
      <4> QED
        BY <1>2, <3>2, <3>3, <4>1, <4>2
    <3>4. CASE k # 1
      <4>1. free2[k] = free[k - 1] /\ k - 1 \in 1 .. f
        BY <1>11, <1>12, <3>4
      <4>2. l2.next[free2[k]] = l.next[free[k - 1]]
        BY <1>2, <1>8, <1>18, <4>1
      <4>3. l.next[free[k - 1]] = IF k - 1 = f THEN 0 ELSE free[(k - 1) + 1]
        BY <1>3, <4>1
      <4> QED
        BY <3>1, <3>2, <4>2, <4>3
    <3> QED
      BY <3>3, <3>4
  <2> QED
    BY <2>2, <2>3
<1>21. /\ \A k \in 1 .. n - 1 : l2.msg[used2[k]] \in Message
       /\ \A j, k \in 1 .. n - 1 : j <= k => l2.msg[used2[j]].prio >= l2.msg[used2[k]].prio
  <2>1. \A k \in 1 .. n - 1 : l2.msg[used2[k]] \in Message
    BY <1>4, <1>10, <1>17
  <2>2. ASSUME NEW j \in 1 .. n - 1, NEW k \in 1 .. n - 1, j <= k
        PROVE  l2.msg[used2[j]].prio >= l2.msg[used2[k]].prio
    <3>1. j + 1 \in 1 .. n /\ k + 1 \in 1 .. n /\ j + 1 <= k + 1
      BY <1>1, <2>2
    <3> QED
      BY <1>4, <1>17, <3>1
  <2> QED
    BY <2>1, <2>2
<1>22. l2 \in [msg : [Slot -> Message \cup {None}], free : 0 .. MaxMsg, head : 0 .. MaxMsg,
               next : [Slot -> 0 .. MaxMsg]]
  <2>1. l2.msg \in [Slot -> Message \cup {None}] /\ l2.free \in 0 .. MaxMsg
        /\ l2.head \in 0 .. MaxMsg
    BY <1>1, <1>7, <1>8, <1>9
  <2> QED
    BY <1>7, <1>18, <2>1
<1>23. n - 1 \in Nat /\ f + 1 \in Nat /\ (n - 1) + (f + 1) = MaxMsg /\ f + 1 # 0
  BY <1>1, <1>5
<1>24. Lists(l2, used2, free2, n - 1)
  <2> DEFINE x == n - 1
             y == f + 1
  <2>1. /\ x \in Nat /\ y \in Nat /\ x + y = MaxMsg /\ Len(used2) = x /\ Len(free2) = y
        /\ l2.head = IF x = 0 THEN 0 ELSE used2[1]
        /\ l2.free = IF y = 0 THEN 0 ELSE free2[1]
    BY <1>6, <1>11, <1>19, <1>20, <1>23
  <2>2. /\ \A j, k \in 1 .. x : used2[j] = used2[k] => j = k
        /\ \A j, k \in 1 .. y : free2[j] = free2[k] => j = k
        /\ \A j \in 1 .. x : \A k \in 1 .. y : used2[j] # free2[k]
        /\ \A k \in 1 .. x : l2.next[used2[k]] = IF k = x THEN 0 ELSE used2[k + 1]
        /\ \A k \in 1 .. y : l2.next[free2[k]] = IF k = y THEN 0 ELSE free2[k + 1]
        /\ \A k \in 1 .. x : l2.msg[used2[k]] \in Message
        /\ \A j, k \in 1 .. x : j <= k => l2.msg[used2[j]].prio >= l2.msg[used2[k]].prio
    BY <1>14, <1>15, <1>16, <1>19, <1>20, <1>21
  <2>3. used2 \in Seq(Slot) /\ free2 \in Seq(Slot)
    BY <1>6, <1>11
  <2> HIDE DEF x, y
  <2>4. Lists(l2, used2, free2, x)
    BY <1>22, <2>1, <2>2, <2>3, ListsAre
  <2> QED
    BY <2>4 DEF x
<1> QED
  BY <1>17, <1>24 DEF used2, free2, l2, f, old, UnlistsWell

LEMMA NewListsAre == Lists(NewLists, <<>>, [k \in 1 .. MaxMsg |-> k], 0)
<1> DEFINE l == NewLists
           free == [k \in 1 .. MaxMsg |-> k]
<1>1. MaxMsg \in Nat /\ MaxMsg # 0 /\ Slot = 1 .. MaxMsg
  BY QueueAssumption DEF Slot
<1>2. /\ l.head = 0 /\ l.free = 1 /\ l.msg = [s \in Slot |-> None]
      /\ l.next = [s \in Slot |-> (s + 1) % (MaxMsg + 1)]
      /\ l = [head |-> l.head, free |-> l.free, next |-> l.next, msg |-> l.msg]
  BY DEF NewLists
<1>3. \A s \in Slot : (s + 1) % (MaxMsg + 1) = IF s = MaxMsg THEN 0 ELSE s + 1
  BY <1>1
<1> HIDE DEF l
<1>4. l.next \in [Slot -> 0 .. MaxMsg] /\ \A s \in Slot : l.next[s] = IF s = MaxMsg THEN 0 ELSE s + 1
  <2>1. \A s \in Slot : (s + 1) % (MaxMsg + 1) \in 0 .. MaxMsg
    BY <1>1, <1>3
  <2> QED
    BY <1>2, <1>3, <2>1
<1>5. l \in [msg : [Slot -> Message \cup {None}], free : 0 .. MaxMsg, head : 0 .. MaxMsg,
             next : [Slot -> 0 .. MaxMsg]]
  <2>1. l.msg \in [Slot -> Message \cup {None}] /\ l.free \in 0 .. MaxMsg /\ l.head \in 0 .. MaxMsg
    BY <1>1, <1>2
  <2> QED
    BY <1>2, <1>4, <2>1
<1>6. free \in Seq(Slot) /\ Len(free) = MaxMsg /\ \A k \in 1 .. MaxMsg : free[k] = k
  <2>1. free \in [1 .. MaxMsg -> Slot] /\ \A k \in 1 .. MaxMsg : free[k] = k
    BY <1>1
  <2> HIDE DEF free
  <2> QED
    BY <1>1, <2>1
<1> HIDE DEF free
<1>7. \A k \in 1 .. MaxMsg : l.next[free[k]] = IF k = MaxMsg THEN 0 ELSE free[k + 1]
  <2> SUFFICES ASSUME NEW k \in 1 .. MaxMsg
               PROVE  l.next[free[k]] = IF k = MaxMsg THEN 0 ELSE free[k + 1]
    OBVIOUS
  <2>1. k # MaxMsg => k + 1 \in 1 .. MaxMsg
    BY <1>1
  <2> QED
    BY <1>1, <1>4, <1>6, <2>1
<1>8. l.free = IF MaxMsg = 0 THEN 0 ELSE free[1]
  <2>1. 1 \in 1 .. MaxMsg
    BY <1>1
  <2> QED
    BY <1>1, <1>2, <1>6, <2>1
<1>9. Lists(l, <<>>, free, 0)
  <2> DEFINE used == <<>>
             n == 0
             f == MaxMsg
  <2>1. used \in Seq(Slot) /\ Len(used) = n /\ n \in Nat /\ f \in Nat /\ n + f = MaxMsg
    BY <1>1
  <2>2. /\ l.head = IF n = 0 THEN 0 ELSE used[1]
        /\ \A j, k \in 1 .. n : used[j] = used[k] => j = k
        /\ \A j \in 1 .. n : \A k \in 1 .. f : used[j] # free[k]
        /\ \A k \in 1 .. n : l.next[used[k]] = IF k = n THEN 0 ELSE used[k + 1]
        /\ \A k \in 1 .. n : l.msg[used[k]] \in Message
        /\ \A j, k \in 1 .. n : j <= k => l.msg[used[j]].prio >= l.msg[used[k]].prio
    BY <1>2
  <2>3. /\ Len(free) = f /\ \A j, k \in 1 .. f : free[j] = free[k] => j = k
        /\ l.free = IF f = 0 THEN 0 ELSE free[1]
        /\ \A k \in 1 .. f : l.next[free[k]] = IF k = f THEN 0 ELSE free[k + 1]
    BY <1>6, <1>7, <1>8
  <2> HIDE DEF used, n, f
  <2>4. Lists(l, used, free, n)
    <3>1. free \in Seq(Slot)
      BY <1>6
    <3> QED
      BY <1>5, <2>1, <2>2, <2>3, <3>1, ListsAre
  <2> QED
    BY <2>4 DEF used, n
<1> QED
  BY <1>9 DEF l, free

(* What the list of a file with n messages holds.                          *)
Held(l, used, n) == [k \in 1 .. n |-> l.msg[used[k]]]

LEMMA ContentsAre ==
  ASSUME NEW f, NEW used, NEW free, NEW n, Lists(lists[f], used, free, n)
  PROVE  /\ Contents(f) = Held(lists[f], used, n)
         /\ Contents(f) \in Seq(Message) /\ Len(Contents(f)) = n /\ n \in Nat
<1> DEFINE l == lists[f]
<1>1. n \in Nat /\ Len(used) = n /\ used \in Seq(Slot) /\ MaxMsg \in Nat /\ n <= MaxMsg
      /\ Linked(l, l.head, used)
  BY QueueAssumption DEF Lists
<1>2. Chain(l, l.head) = used
  BY <1>1, ChainIs
<1>3. Contents(f) = Held(l, used, n)
  BY <1>1, <1>2 DEF Contents, Held
<1>4. Held(l, used, n) \in [1 .. n -> Message]
  <2>1. \A k \in 1 .. n : l.msg[used[k]] \in Message
    BY DEF Lists
  <2> QED
    BY <2>1 DEF Held
<1> QED
  BY <1>1, <1>3, <1>4

(* Some messages, a new one and the rest, as one function.                 *)
Spliced(s, a, m) == SubSeq(s, 1, a) \o <<m>> \o SubSeq(s, a + 1, Len(s))
Opened(s, a, m) ==
  [k \in 1 .. Len(s) + 1 |-> IF k <= a THEN s[k] ELSE IF k = a + 1 THEN m ELSE s[k - 1]]

LEMMA Inserted ==
  ASSUME NEW S, NEW s \in Seq(S), NEW m \in S, NEW a \in 0 .. Len(s)
  PROVE  Spliced(s, a, m) = Opened(s, a, m)
<1> DEFINE n == Len(s)
           u == SubSeq(s, 1, a)
           v == <<m>>
           w == SubSeq(s, a + 1, n)
           t == (u \o v) \o w
<1>1. n \in Nat /\ a \in Nat /\ a <= n
  OBVIOUS
<1>2. u \in Seq(S) /\ Len(u) = a /\ \A k \in 1 .. a : u[k] = s[k]
  BY <1>1, SubSeqProperties
<1>3. w \in Seq(S) /\ Len(w) = n - a /\ \A k \in 1 .. n - a : w[k] = s[a + k]
  BY <1>1, SubSeqProperties
<1>4. v \in Seq(S) /\ Len(v) = 1 /\ v[1] = m
  OBVIOUS
<1> HIDE DEF n, u, v, w
<1> DEFINE x == u \o v
<1>5. /\ x \in Seq(S) /\ Len(x) = a + 1
      /\ \A k \in 1 .. a + 1 : x[k] = IF k <= a THEN u[k] ELSE v[k - a]
  <2> DEFINE b == 1
  <2>1. u \in Seq(S) /\ Len(u) = a /\ v \in Seq(S) /\ Len(v) = b /\ a \in Nat /\ b \in Nat
    BY <1>1, <1>2, <1>4
  <2> HIDE DEF b
  <2>2. /\ x \in Seq(S) /\ Len(x) = a + b
        /\ \A k \in 1 .. a + b : x[k] = IF k <= a THEN u[k] ELSE v[k - a]
    BY <2>1
  <2> QED
    BY <2>2 DEF b
<1> HIDE DEF x
<1>6. /\ x \o w \in Seq(S) /\ Len(x \o w) = n + 1
      /\ \A k \in 1 .. n + 1 : (x \o w)[k] = IF k <= a + 1 THEN x[k] ELSE w[k - (a + 1)]
  <2> DEFINE b == a + 1
             c == n - a
             y == x \o w
  <2>1. /\ b + c = n + 1 /\ b \in Nat /\ c \in Nat /\ Len(x) = b /\ Len(w) = c
        /\ x \in Seq(S) /\ w \in Seq(S)
    BY <1>1, <1>3, <1>5
  <2> HIDE DEF b, c
  <2>2. /\ y \in Seq(S) /\ Len(y) = b + c
        /\ \A k \in 1 .. b + c : y[k] = IF k <= b THEN x[k] ELSE w[k - b]
    BY <2>1
  <2> HIDE DEF y
  <2>3. /\ y \in Seq(S) /\ Len(y) = n + 1
        /\ \A k \in 1 .. n + 1 : y[k] = IF k <= b THEN x[k] ELSE w[k - b]
    BY <2>1, <2>2
  <2> QED
    BY <2>3 DEF y, b
<1>7. t = x \o w
  BY DEF x
<1> HIDE DEF t
<1>8. ASSUME NEW k \in 1 .. n + 1
      PROVE  t[k] = IF k <= a THEN s[k] ELSE IF k = a + 1 THEN m ELSE s[k - 1]
  <2>0. t[k] = IF k <= a + 1 THEN x[k] ELSE w[k - (a + 1)]
    BY <1>6, <1>7
  <2>1. CASE k <= a
    <3>1. k \in 1 .. a /\ k \in 1 .. a + 1 /\ k <= a + 1
      BY <1>1, <2>1
    <3> QED
      BY <1>2, <1>5, <2>0, <2>1, <3>1
  <2>2. CASE k = a + 1
    <3>1. k \in 1 .. a + 1 /\ ~ (k <= a) /\ k <= a + 1 /\ k - a = 1
      BY <1>1, <2>2
    <3>2. x[k] = v[k - a]
      BY <1>5, <3>1
    <3> QED
      BY <1>4, <2>0, <2>2, <3>1, <3>2
  <2>3. CASE k > a + 1
    <3>1. /\ ~ (k <= a) /\ k # a + 1 /\ ~ (k <= a + 1) /\ k - (a + 1) \in 1 .. n - a
          /\ a + (k - (a + 1)) = k - 1
      BY <1>1, <2>3
    <3>2. w[k - (a + 1)] = s[a + (k - (a + 1))]
      BY <1>3, <3>1
    <3> QED
      BY <2>0, <3>1, <3>2
  <2> QED
    BY <1>1, <2>1, <2>2, <2>3
<1>9. t \in Seq(S) /\ Len(t) = n + 1
  BY <1>6, <1>7
<1>10. t = [k \in 1 .. n + 1 |-> t[k]]
  BY <1>1, <1>9
<1> QED
  BY <1>8, <1>10 DEF t, u, v, w, n, Spliced, Opened

(* What is sent has an identity within the bound, and the two lists of     *)
(* every file are apart and complete.                                      *)
SentInv ==
  /\ left \in 0 .. MaxSent
  /\ held \in [Proc -> Message \cup {None}]
  /\ \A p \in Proc : pc[p] = "send" => held[p] \in Message

ListsInv ==
  /\ lists = [f \in File |-> lists[f]]
  /\ \A f \in File : \E used, free : Lists(lists[f], used, free, curmsgs[f])

LEMMA InitLists == Init => SentInv /\ ListsInv /\ \A f \in File : Queue(f)!Init
<1> SUFFICES ASSUME Init PROVE SentInv /\ ListsInv /\ \A f \in File : Queue(f)!Init
  OBVIOUS
<1>1. /\ lists = [f \in File |-> NewLists] /\ curmsgs = [f \in File |-> 0]
      /\ held = [p \in Proc |-> None] /\ left \in 0 .. MaxSent
      /\ \A p \in Proc : pc[p] # "send"
  BY QueueAssumption DEF Init, InitProcs, ColdInit, WarmInit
<1>2. ASSUME NEW f \in File
      PROVE  /\ \E used, free : Lists(lists[f], used, free, curmsgs[f])
             /\ Queue(f)!Init
  <2>1. lists[f] = NewLists /\ curmsgs[f] = 0
    BY <1>1
  <2> DEFINE free == [k \in 1 .. MaxMsg |-> k]
  <2>2. Lists(NewLists, <<>>, free, 0)
    BY NewListsAre
  <2> HIDE DEF free
  <2>3. Len(Contents(f)) = 0 /\ Contents(f) \in Seq(Message)
    BY <2>1, <2>2, ContentsAre
  <2>4. Contents(f) = <<>>
    BY <2>3
  <2> QED
    BY <2>1, <2>2, <2>4 DEF Queue!Init
<1> QED
  BY <1>1, <1>2 DEF SentInv, ListsInv

(* A step on the file of one process.                                      *)
StepsAs(f) == Queue(f)!Next \/ UNCHANGED Contents(f)

LEMMA PutLists ==
  ASSUME OpenInv, ListsInv, NEW p \in Proc, fd[p] \in File, ~Full(p),
         NEW m \in Message, Put(p, m)
  PROVE  ListsInv' /\ \A f \in File : StepsAs(f)
<1> DEFINE g == fd[p]
           l == lists[g]
           n == curmsgs[g]
           a == Ahead(l, m)
<1>1. /\ lists' = [lists EXCEPT ![g] = Insert(l, m)]
      /\ curmsgs' = [curmsgs EXCEPT ![g] = n + 1]
  BY DEF Put
<1>2. /\ lists'[g] = Insert(l, m)
      /\ \A f \in File : f # g => lists'[f] = lists[f]
      /\ lists' = [f \in File |-> lists'[f]]
  BY <1>1 DEF ListsInv
<1>3. curmsgs'[g] = n + 1 /\ \A f \in File : f # g => curmsgs'[f] = curmsgs[f]
  BY <1>1 DEF OpenInv, TypeInv
<1>4. PICK used, free : Lists(l, used, free, n)
  BY DEF ListsInv
<1>5. n \in Nat /\ MaxMsg \in Nat /\ n < MaxMsg
  BY QueueAssumption DEF Full, OpenInv, TypeInv
<1> DEFINE used2 == [k \in 1 .. n + 1 |-> IF k <= a THEN used[k]
                                          ELSE IF k = a + 1 THEN l.free ELSE used[k - 1]]
<1>6. /\ Lists(Insert(l, m), used2, Tail(free), n + 1)
      /\ \A k \in 1 .. n + 1 :
           Insert(l, m).msg[used2[k]] = IF k <= a THEN l.msg[used[k]]
                                        ELSE IF k = a + 1 THEN m
                                        ELSE l.msg[used[k - 1]]
  <2>1. Lists(l, used, free, n) /\ n < MaxMsg
    BY <1>4, <1>5
  <2> HIDE DEF l, n
  <2>2. InsertsWell(l, used, free, n, m)
    BY <2>1, InsertLists
  <2> QED
    BY <2>2 DEF InsertsWell
<1>7. /\ a \in 0 .. n
      /\ \A k \in 1 .. a : l.msg[used[k]].prio >= m.prio
      /\ \A k \in (a + 1) .. n : l.msg[used[k]].prio < m.prio
  BY <1>4, AheadIs
<1>8. /\ Contents(g) = Held(l, used, n)
      /\ Contents(g) \in Seq(Message) /\ Len(Contents(g)) = n
  BY <1>4, ContentsAre
<1> HIDE DEF used2, a
<1>9. Contents(g)' = Held(Insert(l, m), used2, n + 1)
  <2>1. ASSUME NEW x, NEW u, NEW v, NEW i, Lists(x, u, v, i)
        PROVE  /\ Chain(x, x.head) = u /\ Len(u) = i
    <3>1. u \in Seq(Slot) /\ Len(u) = i /\ i <= MaxMsg /\ Linked(x, x.head, u)
      BY <1>5, <2>1 DEF Lists
    <3> QED
      BY <3>1, ChainIs
  <2> DEFINE l2 == Insert(l, m)
  <2>2. Chain(l2, l2.head) = used2 /\ Len(used2) = n + 1
    BY <1>6, <2>1
  <2>3. Contents(g)' = LET chain == Chain(lists'[g], lists'[g].head)
                       IN  [k \in 1 .. Len(chain) |-> lists'[g].msg[chain[k]]]
    <3>1. fd' = fd
      BY DEF Put, opening
    <3> QED
      BY <3>1 DEF Contents
  <2> HIDE DEF l2
  <2> QED
    BY <1>2, <2>2, <2>3 DEF Held, l2
<1> DEFINE queue == Contents(g)
<1>10. queue' = [k \in 1 .. n + 1 |-> IF k <= a THEN queue[k]
                                      ELSE IF k = a + 1 THEN m ELSE queue[k - 1]]
  <2>1. ASSUME NEW k \in 1 .. n + 1
        PROVE  Insert(l, m).msg[used2[k]] = IF k <= a THEN Held(l, used, n)[k]
                                            ELSE IF k = a + 1 THEN m
                                            ELSE Held(l, used, n)[k - 1]
    <3>1. (k <= a => k \in 1 .. n) /\ (~ (k <= a) /\ k # a + 1 => k - 1 \in 1 .. n)
      BY <1>5, <1>7
    <3> QED
      BY <1>6, <3>1 DEF Held
  <2>2. Held(Insert(l, m), used2, n + 1)
          = [k \in 1 .. n + 1 |-> IF k <= a THEN Held(l, used, n)[k]
                                  ELSE IF k = a + 1 THEN m ELSE Held(l, used, n)[k - 1]]
    BY <2>1 DEF Held
  <2> QED
    BY <1>8, <1>9, <2>2
<1>11. Queue(g)!Put(m)
  <2>1. Len(queue) = n /\ queue \in Seq(Message) /\ a \in 0 .. Len(queue)
    BY <1>7, <1>8
  <2>2. queue' = SubSeq(queue, 1, a) \o <<m>> \o SubSeq(queue, a + 1, Len(queue))
    <3> DEFINE next == queue'
    <3>1. next = [k \in 1 .. n + 1 |-> IF k <= a THEN queue[k]
                                       ELSE IF k = a + 1 THEN m ELSE queue[k - 1]]
      BY <1>10
    <3> HIDE DEF queue, next, n
    <3>2. next = Opened(queue, a, m)
      BY <2>1, <3>1 DEF Opened
    <3>3. Spliced(queue, a, m) = Opened(queue, a, m)
      BY <2>1, Inserted
    <3>4. next = Spliced(queue, a, m)
      BY <3>2, <3>3
    <3> QED
      BY <3>4 DEF next, Spliced
  <2>3. /\ \A k \in 1 .. a : queue[k].prio >= m.prio
        /\ \A k \in (a + 1) .. Len(queue) : queue[k].prio < m.prio
    <3>1. \A k \in 1 .. n : queue[k] = l.msg[used[k]]
      BY <1>8 DEF Held
    <3>2. \A k \in (a + 1) .. n : k \in 1 .. n
      BY <1>5, <1>7
    <3>3. \A k \in 1 .. a : k \in 1 .. n
      BY <1>5, <1>7
    <3> HIDE DEF queue
    <3> QED
      BY <1>7, <2>1, <3>1, <3>2, <3>3
  <2>4. Len(queue) < MaxMsg
    BY <1>5, <2>1
  <2> HIDE DEF queue
  <2>5. /\ Len(queue) < MaxMsg
        /\ \E b \in 0 .. Len(queue) :
             /\ \A k \in 1 .. b : queue[k].prio >= m.prio
             /\ \A k \in (b + 1) .. Len(queue) : queue[k].prio < m.prio
             /\ queue' = SubSeq(queue, 1, b) \o <<m>> \o SubSeq(queue, b + 1, Len(queue))
    BY <2>1, <2>2, <2>3, <2>4
  <2> QED
    BY <2>5 DEF Queue!Put, queue
<1>12. \A f \in File : StepsAs(f)
  <2>1. StepsAs(g)
    BY <1>11 DEF StepsAs, Queue!Next
  <2>2. ASSUME NEW f \in File, f # g PROVE StepsAs(f)
    <3>1. Contents(f)' = Contents(f)
      BY <1>2, <2>2 DEF Contents
    <3> QED
      BY <3>1 DEF StepsAs
  <2> QED
    BY <2>1, <2>2
<1>13. ListsInv'
  <2>1. ASSUME NEW f \in File PROVE \E u, v : Lists(lists'[f], u, v, curmsgs'[f])
    <3>1. CASE f = g
      BY <1>2, <1>3, <1>6, <3>1
    <3>2. CASE f # g
      BY <1>2, <1>3, <3>2 DEF ListsInv
    <3> QED
      BY <3>1, <3>2
  <2>2. \A f \in File : \E u, v : Lists(lists'[f], u, v, curmsgs'[f])
    BY <2>1
  <2>3. (\A f \in File : \E u, v : Lists(lists[f], u, v, curmsgs[f]))'
    BY <2>2
  <2>4. lists' = [f \in File |-> lists'[f]]
    BY <1>2
  <2> QED
    BY <2>3, <2>4 DEF ListsInv
<1> QED
  BY <1>12, <1>13

LEMMA TakeLists ==
  ASSUME OpenInv, ListsInv, NEW p \in Proc, fd[p] \in File, ~Empty(p), TakeFirst(p)
  PROVE  ListsInv' /\ \A f \in File : StepsAs(f)
<1> DEFINE g == fd[p]
           l == lists[g]
           n == curmsgs[g]
<1>1. /\ lists' = [lists EXCEPT ![g] = Unlist(l)]
      /\ curmsgs' = [curmsgs EXCEPT ![g] = n - 1]
  BY DEF TakeFirst
<1>2. /\ lists'[g] = Unlist(l)
      /\ \A f \in File : f # g => lists'[f] = lists[f]
      /\ lists' = [f \in File |-> lists'[f]]
  BY <1>1 DEF ListsInv
<1>3. curmsgs'[g] = n - 1 /\ \A f \in File : f # g => curmsgs'[f] = curmsgs[f]
  BY <1>1 DEF OpenInv, TypeInv
<1>4. PICK used, free : Lists(l, used, free, n)
  BY DEF ListsInv
<1>5. n \in Nat /\ MaxMsg \in Nat /\ n > 0
  BY QueueAssumption DEF Empty, OpenInv, TypeInv
<1> DEFINE free2 == [k \in 1 .. MaxMsg - n + 1 |-> IF k = 1 THEN l.head ELSE free[k - 1]]
           used2 == Tail(used)
<1>6. /\ Lists(Unlist(l), used2, free2, n - 1)
      /\ \A k \in 1 .. n - 1 : Unlist(l).msg[used2[k]] = l.msg[used[k + 1]]
  <2>1. Lists(l, used, free, n) /\ n > 0
    BY <1>4, <1>5
  <2> HIDE DEF l, n
  <2>2. UnlistsWell(l, used, free, n)
    BY <2>1, UnlistLists
  <2> QED
    BY <2>2 DEF UnlistsWell
<1>7. /\ Contents(g) = Held(l, used, n)
      /\ Contents(g) \in Seq(Message) /\ Len(Contents(g)) = n
  BY <1>4, ContentsAre
<1> HIDE DEF used2, free2
<1>8. Contents(g)' = Held(Unlist(l), used2, n - 1)
  <2> DEFINE l2 == Unlist(l)
  <2>1. used2 \in Seq(Slot) /\ Len(used2) = n - 1 /\ n - 1 <= MaxMsg /\ Linked(l2, l2.head, used2)
    BY <1>5, <1>6 DEF Lists
  <2> HIDE DEF l2
  <2>2. Chain(l2, l2.head) = used2
    BY <2>1, ChainIs
  <2>3. Contents(g)' = LET chain == Chain(lists'[g], lists'[g].head)
                       IN  [k \in 1 .. Len(chain) |-> lists'[g].msg[chain[k]]]
    <3>1. fd' = fd
      BY DEF TakeFirst, opening
    <3> QED
      BY <3>1 DEF Contents
  <2> QED
    BY <1>2, <2>1, <2>2, <2>3 DEF Held, l2
<1> DEFINE queue == Contents(g)
<1>9. Queue(g)!Take
  <2>1. queue \in Seq(Message) /\ Len(queue) = n /\ queue # <<>>
    BY <1>5, <1>7
  <2>2. queue' = [k \in 1 .. n - 1 |-> queue[k + 1]]
    <3>1. ASSUME NEW k \in 1 .. n - 1 PROVE queue[k + 1] = l.msg[used[k + 1]]
      <4>1. k + 1 \in 1 .. n
        BY <1>5
      <4> QED
        BY <1>7, <4>1 DEF Held
    <3>2. queue' = [k \in 1 .. n - 1 |-> Unlist(l).msg[used2[k]]]
      BY <1>8 DEF Held
    <3> HIDE DEF queue
    <3> QED
      BY <1>6, <3>1, <3>2
  <2>3. queue' = Tail(queue)
    <3> HIDE DEF queue
    <3>1. Tail(queue) = [k \in 1 .. n - 1 |-> queue[k + 1]]
      <4>1. /\ Tail(queue) \in Seq(Message) /\ Len(Tail(queue)) = n - 1
            /\ \A k \in 1 .. n - 1 : Tail(queue)[k] = queue[k + 1]
        BY <2>1, HeadTailProperties
      <4>2. Tail(queue) = [k \in 1 .. n - 1 |-> Tail(queue)[k]]
        <5> DEFINE tail == Tail(queue)
                   i == n - 1
        <5>1. tail \in Seq(Message) /\ Len(tail) = i
          BY <4>1
        <5> HIDE DEF tail, i
        <5>2. tail = [k \in 1 .. i |-> tail[k]]
          BY <5>1
        <5> QED
          BY <5>2 DEF tail, i
      <4> QED
        BY <4>1, <4>2
    <3> QED
      BY <2>2, <3>1
  <2> HIDE DEF queue
  <2>4. queue # <<>> /\ queue' = Tail(queue)
    BY <2>1, <2>3
  <2> QED
    BY <2>4 DEF Queue!Take, queue
<1>10. \A f \in File : StepsAs(f)
  <2>1. StepsAs(g)
    BY <1>9 DEF StepsAs, Queue!Next
  <2>2. ASSUME NEW f \in File, f # g PROVE StepsAs(f)
    <3>1. Contents(f)' = Contents(f)
      BY <1>2, <2>2 DEF Contents
    <3> QED
      BY <3>1 DEF StepsAs
  <2> QED
    BY <2>1, <2>2
<1>11. ListsInv'
  <2>1. ASSUME NEW f \in File PROVE \E u, v : Lists(lists'[f], u, v, curmsgs'[f])
    <3>1. CASE f = g
      BY <1>2, <1>3, <1>6, <3>1
    <3>2. CASE f # g
      BY <1>2, <1>3, <3>2 DEF ListsInv
    <3> QED
      BY <3>1, <3>2
  <2>2. \A f \in File : \E u, v : Lists(lists'[f], u, v, curmsgs'[f])
    BY <2>1
  <2>3. (\A f \in File : \E u, v : Lists(lists[f], u, v, curmsgs[f]))'
    BY <2>2
  <2>4. lists' = [f \in File |-> lists'[f]]
    BY <1>2
  <2> QED
    BY <2>3, <2>4 DEF ListsInv
<1> QED
  BY <1>10, <1>11

LEMMA SentStep ==
  ASSUME OpenInv, SentInv, [Next]_vars
  PROVE  SentInv'
<1> USE QueueAssumption
<1>0. \A priority \in Prio : left > 0 => [prio |-> priority, id |-> left] \in Message
  BY DEF SentInv, Message
<1>1. CASE Unlink \/ UNCHANGED vars
  BY <1>1 DEF Unlink, vars, SentInv
<1>2. ASSUME NEW p \in Proc, OpenOf(p) PROVE SentInv'
  <2>1. /\ UNCHANGED <<left, held>> /\ pc \in [Proc -> Places]
        /\ \E place : pc' = [pc EXCEPT ![p] = place] /\ place # "send"
    BY <1>2 DEF OpenOf, Create, CreateFails, Initialise, InitFails, Open, Stat, Goto,
       AfterStat, Missing, OpenInv, TypeInv
  <2> QED
    BY <2>1 DEF SentInv
<1>3. ASSUME NEW p \in Proc, Send(p) PROVE SentInv'
  <2>1. left > 0 /\ left' = left - 1 /\ held' = held /\ pc' = [pc EXCEPT ![p] = "open"]
        /\ pc \in [Proc -> Places]
    BY <1>3 DEF Send, Put, Goto, OpenInv, TypeInv
  <2> QED
    BY <2>1 DEF SentInv
<1>4. ASSUME NEW p \in Proc, SendBlocks(p) PROVE SentInv'
  <2>1. PICK priority \in Prio :
          held' = [held EXCEPT ![p] = [prio |-> priority, id |-> left]]
    BY <1>4 DEF SendBlocks
  <2>2. left > 0 /\ left' = left - 1 /\ pc' = [pc EXCEPT ![p] = "send"] /\ pc \in [Proc -> Places]
    BY <1>4 DEF SendBlocks, Block, Goto, OpenInv, TypeInv
  <2>3. [prio |-> priority, id |-> left] \in Message
    BY <1>0, <2>2
  <2> QED
    BY <2>1, <2>2, <2>3 DEF SentInv
<1>5. ASSUME NEW p \in Proc, SendResumes(p) PROVE SentInv'
  <2>1. /\ left' = left /\ pc' = [pc EXCEPT ![p] = "open"] /\ pc \in [Proc -> Places]
        /\ held' = [held EXCEPT ![p] = None]
    BY <1>5 DEF SendResumes, Put, Goto, OpenInv, TypeInv
  <2> QED
    BY <2>1 DEF SentInv
<1>6. ASSUME NEW p \in Proc, Die(p) PROVE SentInv'
  <2>1. /\ left' = left /\ pc' = [pc EXCEPT ![p] = "dead"] /\ pc \in [Proc -> Places]
        /\ held' = [held EXCEPT ![p] = None]
    BY <1>6 DEF Die, Goto, OpenInv, TypeInv
  <2> QED
    BY <2>1 DEF SentInv
<1>7. ASSUME NEW p \in Proc,
             \/ Receive(p) \/ ReceiveBlocks(p) \/ ReceiveResumes(p) \/ WaitsOn(p)
             \/ Register(p) \/ NotifyNone(p) \/ Close(p) \/ WakeUnsignalled(p)
      PROVE  SentInv'
  <2>1. /\ UNCHANGED <<left, held>> /\ pc \in [Proc -> Places]
        /\ pc' = pc \/ \E place : pc' = [pc EXCEPT ![p] = place] /\ place # "send"
    BY <1>7 DEF Receive, ReceiveBlocks, ReceiveResumes, WaitsOn, Register, NotifyNone,
       Close, WakeUnsignalled, TakeFirst, Block, Goto, OpenInv, TypeInv
  <2> QED
    BY <2>1 DEF SentInv
<1> QED
  BY <1>1, <1>2, <1>3, <1>4, <1>5, <1>6, <1>7, NextCases DEF UseOf

LEMMA ListsStep ==
  ASSUME OpenInv, SentInv, ListsInv, [Next]_vars
  PROVE  ListsInv' /\ (lists' # lists => \A f \in File : StepsAs(f))
<1>1. ASSUME UNCHANGED <<lists, curmsgs>>
      PROVE  ListsInv' /\ (lists' # lists => \A f \in File : StepsAs(f))
  BY <1>1 DEF ListsInv
<1>2. CASE Unlink \/ UNCHANGED vars
  BY <1>1, <1>2 DEF Unlink, vars, header
<1>3. ASSUME NEW p \in Proc, OpenOf(p) PROVE UNCHANGED <<lists, curmsgs>>
  BY <1>3 DEF OpenOf, Create, CreateFails, Initialise, InitFails, Open, Stat, header
<1>4. ASSUME NEW p \in Proc,
             \/ SendBlocks(p) \/ ReceiveBlocks(p) \/ WaitsOn(p) \/ Register(p)
             \/ NotifyNone(p) \/ Close(p) \/ WakeUnsignalled(p) \/ Die(p)
      PROVE  UNCHANGED <<lists, curmsgs>>
  BY <1>4 DEF SendBlocks, ReceiveBlocks, WaitsOn, Register, NotifyNone, Close,
     WakeUnsignalled, Die, header
<1>5. ASSUME NEW p \in Proc, Send(p) PROVE ListsInv' /\ \A f \in File : StepsAs(f)
  <2>1. PICK priority \in Prio : Put(p, [prio |-> priority, id |-> left])
    BY <1>5 DEF Send
  <2>2. ~Full(p) /\ fd[p] \in File /\ left > 0
    BY <1>5 DEF Send, InUse, OpenInv, TypeInv
  <2>3. [prio |-> priority, id |-> left] \in Message
    BY <2>2, QueueAssumption DEF SentInv, Message
  <2> QED
    BY <2>1, <2>2, <2>3, PutLists
<1>6. ASSUME NEW p \in Proc, SendResumes(p) PROVE ListsInv' /\ \A f \in File : StepsAs(f)
  <2>1. Put(p, held[p]) /\ ~Full(p) /\ fd[p] \in File /\ held[p] \in Message
    BY <1>6 DEF SendResumes, OpenInv, TypeInv, SentInv
  <2> QED
    BY <2>1, PutLists
<1>7. ASSUME NEW p \in Proc, Receive(p) \/ ReceiveResumes(p)
      PROVE  ListsInv' /\ \A f \in File : StepsAs(f)
  <2>1. TakeFirst(p) /\ ~Empty(p) /\ fd[p] \in File
    BY <1>7 DEF Receive, ReceiveResumes, InUse, OpenInv, TypeInv
  <2> QED
    BY <2>1, TakeLists
<1> QED
  BY <1>1, <1>2, <1>3, <1>4, <1>5, <1>6, <1>7, NextCases DEF UseOf

(* The linked list of every file is a bounded priority queue, first in     *)
(* first out within a priority (mq_send.c:56-85, mq_receive.c:48-65), for  *)
(* any room, any priorities and whoever sends and receives: no slot is     *)
(* lost, in both lists or in a wrong place.                                *)
THEOREM ImplementsPriorityQueue == Spec => IsPriorityQueue
<1> DEFINE Inv == OpenInv /\ SentInv /\ ListsInv
<1>1. Init => Inv /\ \A f \in File : Queue(f)!Init
  BY InitIInv, InitLists DEF IInv
<1>2. Inv /\ [Next]_vars => Inv'
  BY OpenStep, SentStep, ListsStep
<1>3. Inv /\ [Next]_vars => [\A f \in File : Queue(f)!Next \/ UNCHANGED Contents(f)]_lists
  BY ListsStep DEF StepsAs
<1> QED
  BY <1>1, <1>2, <1>3, PTL DEF Spec, IsPriorityQueue
=============================================================================
