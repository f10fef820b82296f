------------------------ MODULE SharedCounter_proofs ------------------------
(***************************************************************************)
(* The lock excludes in every start, and the counter of a file that was    *)
(* there before the first start counts and numbers correctly, for any      *)
(* number of processes that start late, are killed, or find the path gone. *)
(***************************************************************************)
EXTENDS SharedCounter, TLAPS

(* A process in its critical section is the owner of its file's lock, and  *)
(* nobody else owns it.                                                    *)
LockInv ==
  /\ \A f \in Files : \A p \in owners[f] : fd[p] = f /\ pc[p] \in InSection
  /\ \A p \in Proc : pc[p] \in InSection => p \in owners[fd[p]]
  /\ \A f \in Files : \A p, q \in owners[f] : p = q

Opened == {"zero", "lock", "unlink"} \cup InSection

Loaded == InSection \ {"load"}

FdInv ==
  \A p \in Proc : /\ pc[p] \in Opened => fd[p] \in Files
                  /\ pc[p] \in Loaded => data[fd[p]] # NoData

(* Once its path is gone, the first file is never found again.             *)
FirstInv ==
  Exists =>
    /\ files >= 1
    /\ \A p \in Proc : /\ pc[p] = "create" => link # First
                       /\ pc[p] = "zero" => fd[p] # First

(* As long as no character was stored into it, the int in the first file   *)
(* is what the owner of the lock has loaded, and larger than every number  *)
(* that was printed.                                                       *)
CountInv ==
  Exists /\ First \notin touched =>
    /\ data[First] = Base + counted[First]
    /\ \A p \in Proc :
         /\ pc[p] = "store" /\ fd[p] = First => reg[p] = data[First]
         /\ fd[p] = First /\ ticket[p] # None => ticket[p] < data[First]
         /\ pc[p] = "print" /\ fd[p] = First =>
              /\ reg[p] < data[First]
              /\ \A q \in Proc : fd[q] = First /\ ticket[q] # None => ticket[q] < reg[p]

TicketInv ==
  \A p \in Proc : pc[p] \in {"stat", "create", "zero", "open"} => ticket[p] = None

IInv ==
  TypeOK /\ LockInv /\ FdInv /\ FirstInv /\ CountInv /\ TicketInv /\ FirstTickets
-----------------------------------------------------------------------------
LEMMA InitInv == Init => IInv
  <1> SUFFICES ASSUME Init PROVE IInv
    OBVIOUS
  <1> USE CounterAssumption DEF CounterAssumption, Files, First, NoFile, NoData, None
  <1>1. TypeOK
    BY DEF Init, TypeOK
  <1>2. LockInv /\ FdInv
    BY DEF Init, LockInv, FdInv, InSection, Opened, Loaded
  <1>3. FirstInv
    BY DEF Init, FirstInv
  <1>4. CountInv /\ FirstTickets
    BY DEF Init, CountInv, FirstTickets
  <1>5. TicketInv
    BY DEF Init, TicketInv
  <1> QED BY <1>1, <1>2, <1>3, <1>4, <1>5 DEF IInv

LEMMA WithByteNat ==
  ASSUME NEW int \in Nat, NEW k \in 0 .. 3
  PROVE  WithByte(int, k) \in Nat
  <1> USE CounterAssumption DEF CounterAssumption, WithByte, Weight
  <1>1. CASE k = 0
    BY <1>1
  <1>2. CASE k = 1
    BY <1>2
  <1>3. CASE k = 2
    BY <1>3
  <1>4. CASE k = 3
    BY <1>4
  <1> QED BY <1>1, <1>2, <1>3, <1>4

LEMMA TypeStep ==
  ASSUME IInv, [Next]_vars
  PROVE  TypeOK'
  <1> USE CounterAssumption DEF CounterAssumption, IInv, TypeOK
  <1>1. ASSUME NEW p \in Proc, Step(p) PROVE TypeOK'
    <2> USE <1>1 DEF Goto
    <2>1. CASE Stat(p)
      BY <2>1 DEF Stat
    <2>2. CASE Create(p)
      <3>1. link' \in Files /\ files' \in 0 .. MaxFiles
        BY <2>2 DEF Create, Files, First, NoFile
      <3>2. pc' \in [Proc -> {"stat", "create", "zero", "open", "lock", "unlink"}
                             \cup InSection \cup Ended]
        BY <2>2 DEF Create
      <3> QED BY <2>2, <3>1, <3>2 DEF Create
    <2>3. CASE WriteZero(p)
      BY <2>3 DEF WriteZero
    <2>4. CASE Open(p)
      BY <2>4 DEF Open
    <2>5. CASE OpenFails(p)
      BY <2>5 DEF OpenFails, Ended
    <2>6. CASE Lock(p)
      BY <2>6 DEF Lock, my_lock_wait, InSection
    <2>7. CASE LoadCount(p)
      <3>1. fd[p] \in Files
        BY <2>7 DEF LoadCount, FdInv, Opened, InSection
      <3> QED BY <2>7, <3>1 DEF LoadCount, InSection, NoData
    <2>8. CASE StoreCount(p)
      <3>1. fd[p] \in Files
        BY <2>8 DEF StoreCount, FdInv, Opened, InSection
      <3> QED BY <2>8, <3>1 DEF StoreCount, InSection
    <2>9. CASE PrintCount(p)
      BY <2>9 DEF PrintCount, InSection
    <2>10. CASE PutChar(p)
      <3>1. fd[p] \in Files
        BY <2>10 DEF PutChar, FdInv, Opened, InSection
      <3>2. data[fd[p]] \in Nat \cup {NoData}
        BY <3>1
      <3>3. data[fd[p]] \in Nat
        <4>1. pc[p] \in Loaded
          BY <2>10 DEF PutChar, Loaded, InSection
        <4> QED BY <3>2, <4>1 DEF FdInv
      <3>4. data[fd[p]] < 4 => WithByte(data[fd[p]], data[fd[p]]) \in Nat
        <4>1. data[fd[p]] < 4 => data[fd[p]] \in 0 .. 3
          BY <3>3
        <4> QED BY <4>1, WithByteNat
      <3> HIDE DEF WithByte
      <3>5. data' \in [Files -> Nat \cup {NoData}] /\ touched' \subseteq Files
        <4>1. CASE data[fd[p]] < 4
          BY <2>10, <3>1, <3>4, <4>1 DEF PutChar
        <4>2. CASE ~(data[fd[p]] < 4)
          BY <2>10, <4>2 DEF PutChar
        <4> QED BY <4>1, <4>2
      <3> QED BY <2>10, <3>5 DEF PutChar, InSection
    <2>11. CASE PutElsewhere(p) \/ Show(p)
      BY <2>11 DEF PutElsewhere, Show, InSection
    <2>12. CASE Unlock(p)
      <3>1. round' \in [Proc -> 0 .. NLoop]
        BY <2>12 DEF Unlock, LastSection
      <3>2. owners' \in [Files -> SUBSET Proc]
        BY <2>12 DEF Unlock, my_lock_release
      <3>3. pc' = [pc EXCEPT ![p] = "unlink"] \/ pc' = [pc EXCEPT ![p] = "lock"]
        BY <2>12 DEF Unlock
      <3> QED BY <2>12, <3>1, <3>2, <3>3 DEF Unlock
    <2>13. CASE Unlink(p)
      BY <2>13 DEF Unlink, Ended, NoFile
    <2>14. CASE BusError(p) \/ Fault(p)
      BY <2>14 DEF BusError, Fault, Die, Ended
    <2> QED
      BY <2>1, <2>2, <2>3, <2>4, <2>5, <2>6, <2>7, <2>8, <2>9, <2>10, <2>11,
         <2>12, <2>13, <2>14 DEF Step, Section
  <1>2. ASSUME NEW p \in Proc, Kill(p) PROVE TypeOK'
    BY <1>2 DEF Kill, Die, Ended
  <1>3. CASE UNCHANGED vars
    BY <1>3 DEF vars
  <1> QED BY <1>1, <1>2, <1>3 DEF Next

-----------------------------------------------------------------------------
(* What a step of p leaves of another process, and of the lock.            *)
LEMMA LockStep ==
  ASSUME IInv, [Next]_vars
  PROVE  LockInv'
  <1> USE DEF IInv, TypeOK
  <1>1. ASSUME NEW p \in Proc,
               UNCHANGED owners,
               pc[p] \notin InSection, pc'[p] \notin InSection,
               \A q \in Proc \ {p} : pc'[q] = pc[q] /\ fd'[q] = fd[q]
        PROVE  LockInv'
    BY <1>1 DEF LockInv
  <1>2. ASSUME NEW p \in Proc,
               UNCHANGED <<owners, fd>>,
               pc[p] \in InSection, pc'[p] \in InSection,
               \A q \in Proc \ {p} : pc'[q] = pc[q]
        PROVE  LockInv'
    BY <1>2 DEF LockInv
  <1>3. ASSUME NEW p \in Proc, Lock(p) PROVE LockInv'
    <2>1. /\ fd[p] \in Files /\ fd' = fd /\ owners[fd[p]] \subseteq {p}
          /\ owners' = [owners EXCEPT ![fd[p]] = {p}]
          /\ pc[p] \notin InSection /\ pc'[p] \in InSection
          /\ \A q \in Proc \ {p} : pc'[q] = pc[q]
      BY <1>3 DEF Lock, Goto, my_lock_wait, FdInv, Opened, InSection
    <2>2. \A q \in Proc \ {p} : pc[q] \in InSection => fd[q] # fd[p]
      BY <2>1 DEF LockInv
    <2> QED BY <2>1, <2>2 DEF LockInv
  <1>4. ASSUME NEW p \in Proc, Unlock(p) PROVE LockInv'
    <2>1. /\ fd[p] \in Files /\ fd' = fd
          /\ owners' = [owners EXCEPT ![fd[p]] = @ \ {p}]
          /\ pc[p] \in InSection /\ pc'[p] \notin InSection
          /\ \A q \in Proc \ {p} : pc'[q] = pc[q]
      BY <1>4 DEF Unlock, Goto, my_lock_release, FdInv, Opened, InSection
    <2> QED BY <2>1 DEF LockInv
  <1>5. ASSUME NEW p \in Proc, Die(p) PROVE LockInv'
    <2>1. /\ fd' = fd /\ owners' = [f \in Files |-> owners[f] \ {p}]
          /\ pc'[p] \notin InSection
          /\ \A q \in Proc \ {p} : pc'[q] = pc[q]
      BY <1>5 DEF Die, InSection
    <2>2. \A q \in Proc : pc'[q] \in InSection => q # p /\ q \in owners[fd[q]] /\ fd[q] \in Files
      BY <2>1 DEF LockInv, FdInv, Opened
    <2> QED BY <2>1, <2>2 DEF LockInv
  <1>6. ASSUME NEW p \in Proc,
               Stat(p) \/ Create(p) \/ WriteZero(p) \/ Open(p) \/ OpenFails(p) \/ Unlink(p)
        PROVE  LockInv'
    <2>1. /\ UNCHANGED owners
          /\ pc[p] \notin InSection /\ pc'[p] \notin InSection
          /\ \A q \in Proc \ {p} : pc'[q] = pc[q] /\ fd'[q] = fd[q]
      BY <1>6 DEF Stat, Create, WriteZero, Open, OpenFails, Unlink, Goto, InSection
    <2> QED BY <1>1, <2>1
  <1>7. ASSUME NEW p \in Proc,
               LoadCount(p) \/ StoreCount(p) \/ PrintCount(p) \/ PutChar(p) \/ PutElsewhere(p) \/ Show(p)
        PROVE  LockInv'
    <2>1. /\ UNCHANGED <<owners, fd>>
          /\ pc[p] \in InSection /\ pc'[p] \in InSection
          /\ \A q \in Proc \ {p} : pc'[q] = pc[q]
      BY <1>7 DEF LoadCount, StoreCount, PrintCount, PutChar, PutElsewhere, Show, Goto, InSection
    <2> QED BY <1>2, <2>1
  <1>8. CASE UNCHANGED vars
    BY <1>8 DEF vars, LockInv
  <1> QED
    BY <1>3, <1>4, <1>5, <1>6, <1>7, <1>8 DEF Next, Step, Section, BusError, Fault, Kill

-----------------------------------------------------------------------------
(* Data once written is not taken away.                                    *)
LEMMA DataStays ==
  ASSUME IInv, [Next]_vars, NEW f \in Files, data[f] # NoData
  PROVE  data'[f] # NoData
  <1> USE DEF IInv, TypeOK, NoData
  <1>1. ASSUME NEW p \in Proc, WriteZero(p) PROVE data'[f] # NoData
    BY <1>1 DEF WriteZero
  <1>2. ASSUME NEW p \in Proc, StoreCount(p) PROVE data'[f] # NoData
    BY <1>2 DEF StoreCount
  <1>3. ASSUME NEW p \in Proc, PutChar(p) PROVE data'[f] # NoData
    <2>1. \/ data' = data
          \/ data[fd[p]] < 4
             /\ data' = [data EXCEPT ![fd[p]] = WithByte(data[fd[p]], data[fd[p]])]
      BY <1>3 DEF PutChar
    <2>2. CASE f # fd[p]
      BY <2>1, <2>2
    <2>3. CASE f = fd[p]
      <3>1. data[f] \in Nat /\ (data[f] < 4 => data[f] \in 0 .. 3)
        OBVIOUS
      <3>2. data[f] < 4 => WithByte(data[f], data[f]) \in Nat
        BY <3>1, WithByteNat
      <3> HIDE DEF WithByte
      <3> QED BY <2>1, <2>3, <3>1, <3>2
    <2> QED BY <2>2, <2>3
  <1>4. CASE UNCHANGED data
    BY <1>4
  <1> QED
    BY <1>1, <1>2, <1>3, <1>4
       DEF Next, Step, Section, vars, Stat, Create, Open, OpenFails, Lock, LoadCount, PrintCount,
           PutElsewhere, Show, Unlock, Unlink, BusError, Fault, Kill, Die

LEMMA FdStep ==
  ASSUME IInv, [Next]_vars
  PROVE  FdInv'
  <1> USE DEF IInv, TypeOK, Opened, Loaded, InSection, Ended
  <1>1. ASSUME NEW q \in Proc, UNCHANGED <<pc[q], fd[q]>>
        PROVE  /\ pc'[q] \in Opened => fd'[q] \in Files
               /\ pc'[q] \in Loaded => data'[fd'[q]] # NoData
    <2>1. /\ pc[q] \in Opened => fd[q] \in Files
          /\ pc[q] \in Loaded => data[fd[q]] # NoData
      BY DEF FdInv
    <2>2. pc[q] \in Loaded => pc[q] \in Opened
      OBVIOUS
    <2> QED BY <1>1, <2>1, <2>2, DataStays
  <1>2. ASSUME NEW p \in Proc, Step(p) \/ Kill(p)
        PROVE  /\ \A q \in Proc \ {p} : UNCHANGED <<pc[q], fd[q]>>
               /\ pc'[p] \in Opened => fd'[p] \in Files
               /\ pc'[p] \in Loaded => data'[fd'[p]] # NoData
    <2> USE DEF Goto
    <2>1. CASE Create(p)
      <3>1. link' \in Files
        BY <2>1, CounterAssumption DEF Create, Files, First, NoFile, CounterAssumption
      <3> QED BY <2>1, <3>1 DEF Create
    <2>2. CASE Stat(p) \/ WriteZero(p) \/ OpenFails(p) \/ Unlink(p)
      BY <2>2 DEF Stat, WriteZero, OpenFails, Unlink, FdInv
    <2>3. CASE Open(p)
      BY <2>3 DEF Open
    <2>4. CASE Lock(p) \/ Unlock(p)
      BY <2>4 DEF Lock, Unlock, FdInv
    <2>5. CASE LoadCount(p)
      BY <2>5 DEF LoadCount, FdInv
    <2>6. CASE StoreCount(p) \/ PrintCount(p) \/ PutChar(p) \/ PutElsewhere(p) \/ Show(p)
      <3>1. /\ pc[p] \in Loaded /\ UNCHANGED fd
            /\ \A q \in Proc \ {p} : UNCHANGED pc[q]
        BY <2>6 DEF StoreCount, PrintCount, PutChar, PutElsewhere, Show
      <3>2. fd[p] \in Files /\ data[fd[p]] # NoData
        BY <3>1 DEF FdInv
      <3> QED BY <3>1, <3>2, DataStays
    <2>7. CASE Die(p)
      BY <2>7 DEF Die
    <2> QED
      BY <1>2, <2>1, <2>2, <2>3, <2>4, <2>5, <2>6, <2>7
         DEF Step, Section, BusError, Fault, Kill
  <1>3. CASE UNCHANGED vars
    BY <1>3 DEF vars, FdInv
  <1> QED BY <1>1, <1>2, <1>3 DEF Next, FdInv

LEMMA FirstStep ==
  ASSUME IInv, [Next]_vars
  PROVE  FirstInv'
  <1> USE DEF IInv, TypeOK, FirstInv, Files, First, NoFile
  <1>1. ASSUME NEW p \in Proc, Stat(p) PROVE FirstInv'
    BY <1>1 DEF Stat, Goto
  <1>2. ASSUME NEW p \in Proc, Create(p) PROVE FirstInv'
    BY <1>2 DEF Create, Goto
  <1>3. ASSUME NEW p \in Proc, Open(p) PROVE FirstInv'
    BY <1>3 DEF Open, Goto
  <1>4. ASSUME NEW p \in Proc, Unlink(p) PROVE FirstInv'
    BY <1>4 DEF Unlink, Goto
  <1>5. ASSUME NEW p \in Proc, WriteZero(p) \/ OpenFails(p) \/ Section(p) \/ Die(p)
        PROVE  FirstInv'
    <2>1. /\ UNCHANGED <<link, files, fd>>
          /\ \A q \in Proc : pc'[q] \in {"create", "zero"} => pc'[q] = pc[q]
      BY <1>5 DEF WriteZero, OpenFails, Section, Lock, LoadCount, StoreCount, PrintCount,
                  PutChar, PutElsewhere, Show, Unlock, Die, Goto
    <2> QED BY <2>1
  <1>6. CASE UNCHANGED vars
    BY <1>6 DEF vars
  <1> QED
    BY <1>1, <1>2, <1>3, <1>4, <1>5, <1>6 DEF Next, Step, BusError, Fault, Kill

-----------------------------------------------------------------------------
(* A counter that a character was stored into stays marked.                *)
LEMMA TouchedStays ==
  ASSUME [Next]_vars
  PROVE  touched \subseteq touched'
  <1>1. ASSUME NEW p \in Proc, PutChar(p) PROVE touched \subseteq touched'
    BY <1>1 DEF PutChar
  <1> QED
    BY <1>1 DEF Next, Step, Section, vars, Stat, Create, WriteZero, Open, OpenFails, Lock,
                LoadCount, StoreCount, PrintCount, PutElsewhere, Show, Unlock, Unlink,
                BusError, Fault, Kill, Die

(* CountInv and FirstTickets, as one statement about the first file.       *)
LEMMA CountStep ==
  ASSUME IInv, [Next]_vars
  PROVE  CountInv' /\ FirstTickets'
  <1> SUFFICES ASSUME Exists, First \notin touched' PROVE CountInv' /\ FirstTickets'
    BY DEF CountInv, FirstTickets
  <1>t. First \notin touched
    BY TouchedStays
  <1> USE <1>t, CounterAssumption DEF IInv, TypeOK, CounterAssumption, First, None
  <1>0. First \in Files
    BY DEF Files
  <1>1. ASSUME data'[First] = data[First], counted'[First] = counted[First], ticket' = ticket,
               \A p \in Proc :
                 /\ pc'[p] \in {"store", "print"} =>
                      pc'[p] = pc[p] /\ reg'[p] = reg[p] /\ fd'[p] = fd[p]
                 /\ ticket[p] # None => fd'[p] = fd[p]
        PROVE  CountInv' /\ FirstTickets'
    <2>1. data'[First] = Base + counted'[First]
      BY <1>1 DEF CountInv
    <2>2. ASSUME NEW p \in Proc
          PROVE  /\ pc'[p] = "store" /\ fd'[p] = First => reg'[p] = data'[First]
                 /\ fd'[p] = First /\ ticket'[p] # None => ticket'[p] < data'[First]
      BY <1>1 DEF CountInv
    <2>3. ASSUME NEW p \in Proc, pc'[p] = "print", fd'[p] = First
          PROVE  /\ reg'[p] < data'[First]
                 /\ \A q \in Proc : fd'[q] = First /\ ticket'[q] # None => ticket'[q] < reg'[p]
      <3>1. pc[p] = "print" /\ fd[p] = First /\ reg'[p] = reg[p]
        BY <1>1, <2>3
      <3> QED BY <1>1, <3>1 DEF CountInv
    <2>4. CountInv'
      BY <2>1, <2>2, <2>3 DEF CountInv
    <2>5. FirstTickets'
      BY <1>1 DEF FirstTickets
    <2> QED BY <2>4, <2>5
  <1>2. ASSUME NEW p \in Proc, LoadCount(p) PROVE CountInv' /\ FirstTickets'
    <2>1. /\ UNCHANGED <<data, counted, ticket, fd>>
          /\ pc'[p] = "store" /\ reg'[p] = data[fd[p]]
          /\ \A q \in Proc \ {p} : pc'[q] = pc[q] /\ reg'[q] = reg[q]
      BY <1>2 DEF LoadCount, Goto
    <2> QED BY <2>1 DEF CountInv, FirstTickets
  <1>3. ASSUME NEW p \in Proc, StoreCount(p) PROVE CountInv' /\ FirstTickets'
    <2>1. /\ UNCHANGED <<ticket, fd, reg>> /\ fd[p] \in Files
          /\ pc[p] = "store" /\ pc'[p] \in {"print", "put"}
          /\ data' = [data EXCEPT ![fd[p]] = reg[p] + 1]
          /\ counted' = [counted EXCEPT ![fd[p]] = @ + 1]
          /\ \A q \in Proc \ {p} : pc'[q] = pc[q]
      BY <1>3 DEF StoreCount, Goto, LastSection, FdInv, Opened, InSection
    <2>2. \A q \in Proc \ {p} : pc[q] \in InSection => fd[q] # fd[p]
      BY <2>1 DEF LockInv, InSection
    <2>3. CASE fd[p] # First
      BY <1>0, <2>1, <2>3 DEF CountInv, FirstTickets
    <2>4. CASE fd[p] = First
      <3>1. /\ reg[p] = data[First] /\ data'[First] = data[First] + 1
            /\ data[First] \in Int /\ data[First] = Base + counted[First]
            /\ counted'[First] = counted[First] + 1
        BY <1>0, <2>1, <2>4 DEF CountInv, NoData
      <3>2. \A q \in Proc : fd[q] = First /\ ticket[q] # None => ticket[q] < data[First]
        BY DEF CountInv
      <3>3. \A q \in Proc : fd[q] = First /\ ticket[q] # None => ticket[q] \in Int
        BY DEF None
      <3>4. \A q \in Proc \ {p} : pc'[q] \in {"store", "print"} => fd[q] # First
        BY <2>1, <2>2, <2>4 DEF InSection
      <3>6. CountInv'
        BY <2>1, <3>1, <3>2, <3>3, <3>4 DEF CountInv
      <3>7. FirstTickets'
        BY <2>1 DEF FirstTickets
      <3> QED BY <3>6, <3>7
    <2> QED BY <2>3, <2>4
  <1>4. ASSUME NEW p \in Proc, PrintCount(p) PROVE CountInv' /\ FirstTickets'
    <2>1. /\ UNCHANGED <<data, counted, fd, reg>>
          /\ pc[p] = "print" /\ pc'[p] = "unlock"
          /\ ticket' = [ticket EXCEPT ![p] = reg[p]]
          /\ \A q \in Proc \ {p} : pc'[q] = pc[q]
      BY <1>4 DEF PrintCount, Goto
    <2>2. \A q \in Proc \ {p} : pc[q] \in InSection => fd[q] # fd[p]
      BY <2>1 DEF LockInv, FdInv, Opened, InSection
    <2>3. fd[p] = First =>
            /\ reg[p] < data[First]
            /\ \A q \in Proc : fd[q] = First /\ ticket[q] # None => ticket[q] < reg[p]
      BY <2>1 DEF CountInv
    <2>4. reg[p] \in Nat /\ \A q \in Proc : ticket[q] \in Int
      BY DEF None
    <2>5. CountInv'
      BY <2>1, <2>2, <2>3, <2>4 DEF CountInv, InSection
    <2>6. FirstTickets'
      BY <2>1, <2>3, <2>4 DEF FirstTickets
    <2> QED BY <2>5, <2>6
  <1>5. ASSUME NEW p \in Proc, WriteZero(p) PROVE CountInv' /\ FirstTickets'
    <2>1. pc[p] = "zero" /\ fd[p] # First
      BY <1>5 DEF WriteZero, Goto, FirstInv
    <2>2. /\ data'[First] = data[First] /\ UNCHANGED <<counted, ticket, fd, reg>>
          /\ pc' = [pc EXCEPT ![p] = "lock"]
      BY <1>0, <1>5, <2>1 DEF WriteZero, Goto
    <2> QED BY <1>1, <2>2
  <1>6. ASSUME NEW p \in Proc, Create(p) \/ Open(p) PROVE CountInv' /\ FirstTickets'
    <2>1. /\ UNCHANGED <<data, counted, ticket, reg>>
          /\ pc' = [pc EXCEPT ![p] = "zero"] \/ pc' = [pc EXCEPT ![p] = "lock"]
          /\ \A q \in Proc \ {p} : fd'[q] = fd[q]
          /\ pc[p] \in {"create", "open"}
      BY <1>6 DEF Create, Open, Goto
    <2>2. ticket[p] = None
      BY <2>1 DEF TicketInv
    <2> QED BY <1>1, <2>1, <2>2
  <1>7. ASSUME NEW p \in Proc,
               \/ Stat(p) \/ OpenFails(p) \/ Lock(p) \/ Unlock(p) \/ Unlink(p) \/ Die(p)
               \/ PutElsewhere(p) \/ Show(p)
        PROVE  CountInv' /\ FirstTickets'
    <2>1. /\ UNCHANGED <<data, counted, ticket, fd, reg>>
          /\ \A q \in Proc \ {p} : pc'[q] = pc[q]
          /\ pc'[p] \notin {"store", "print"}
      BY <1>7 DEF Stat, OpenFails, Lock, Unlock, Unlink, Die, PutElsewhere, Show, Goto
    <2> QED BY <1>1, <2>1
  <1>8. ASSUME NEW p \in Proc, PutChar(p) PROVE CountInv' /\ FirstTickets'
    <2>1. data'[First] = data[First]
      <3>1. CASE data[fd[p]] < 4
        BY <1>0, <1>8, <3>1 DEF PutChar
      <3>2. CASE ~(data[fd[p]] < 4)
        BY <1>8, <3>2 DEF PutChar
      <3> QED BY <3>1, <3>2
    <2>2. /\ UNCHANGED <<counted, ticket, fd, reg>>
          /\ pc' = [pc EXCEPT ![p] = "show"]
      BY <1>8 DEF PutChar, Goto
    <2> QED BY <1>1, <2>1, <2>2
  <1>9. CASE UNCHANGED vars
    BY <1>9 DEF vars, CountInv, FirstTickets
  <1> QED
    BY <1>2, <1>3, <1>4, <1>5, <1>6, <1>7, <1>8, <1>9
       DEF Next, Step, Section, BusError, Fault, Kill

(* A process has no ticket before it has opened the file.                  *)
LEMMA TicketStep ==
  ASSUME IInv, [Next]_vars
  PROVE  TicketInv'
  <1> USE DEF IInv, TypeOK, TicketInv, Goto
  <1>1. ASSUME NEW p \in Proc, PrintCount(p) PROVE TicketInv'
    BY <1>1 DEF PrintCount
  <1>2. ASSUME NEW p \in Proc, Stat(p) \/ Create(p) \/ WriteZero(p) \/ Open(p) \/ OpenFails(p)
        PROVE  TicketInv'
    BY <1>2 DEF Stat, Create, WriteZero, Open, OpenFails
  <1>3. ASSUME NEW p \in Proc, Lock(p) \/ LoadCount(p) \/ StoreCount(p) \/ PutChar(p)
               \/ PutElsewhere(p) \/ Show(p) \/ Unlock(p) \/ Unlink(p) \/ Die(p)
        PROVE  TicketInv'
    BY <1>3 DEF Lock, LoadCount, StoreCount, PutChar, PutElsewhere, Show, Unlock, Unlink, Die
  <1>4. CASE UNCHANGED vars
    BY <1>4 DEF vars
  <1> QED
    BY <1>1, <1>2, <1>3, <1>4 DEF Next, Step, Section, BusError, Fault, Kill

-----------------------------------------------------------------------------
(* The inductive invariant of the processes, one lemma per part.           *)
THEOREM Invariance == Spec => []IInv
  <1>1. ASSUME IInv, [Next]_vars PROVE IInv'
    BY <1>1, TypeStep, LockStep, FdStep, FirstStep, CountStep, TicketStep DEF IInv
  <1> QED BY InitInv, <1>1, PTL DEF Spec

THEOREM TypeCorrect == Spec => []TypeOK
  BY Invariance, PTL DEF IInv

(* The lock excludes: no two processes are in the section of one file.     *)
THEOREM Exclusion == Spec => []MutualExclusion
  <1>1. IInv => MutualExclusion
    BY DEF IInv, MutualExclusion, LockInv, FdInv, Opened, InSection
  <1> QED BY <1>1, Invariance, PTL

(* On a file that was there, and until a character is stored into its      *)
(* counter, that is the old one plus the increments ...                    *)
THEOREM FirstIsCounted == Spec => []FirstCounts
  <1>1. IInv => FirstCounts
    BY DEF IInv, CountInv, FirstCounts
  <1> QED BY <1>1, Invariance, PTL

(* ... and the numbers its processes print are distinct.                   *)
THEOREM FirstIsNumbered == Spec => []FirstTickets
  BY Invariance, PTL DEF IInv
=============================================================================
