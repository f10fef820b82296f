------------------------ MODULE FifoConverter_proofs ------------------------
(***************************************************************************)
(* Instances of the FIFO program on the same names do not get into each    *)
(* other's way, for any number of them and any chunks.                     *)
(***************************************************************************)
EXTENDS FifoConverter, TLAPS

ParentPlaces ==
  {"mkfifo1", "mkfifo2", "fork", "fifo1", "fifo2", "read", "write",
   "wait", "print", "unlink1", "unlink2"} \cup Ended
ChildPlaces == {"none", "fifo1", "fifo2", "read", "write"} \cup Ended

PlacesInv ==
  /\ name \in [Fifos -> Inst \cup {None}]
  /\ ppc \in [Inst -> ParentPlaces] /\ cpc \in [Inst -> ChildPlaces]
  /\ at \in [Proc -> Inst \cup {None}]
  /\ fds \in [Proc -> SUBSET (Inst \X Fifos)]

(* From its first mkfifo to its first unlink the names lead to what the    *)
(* instance made itself; so they do as long as its child may open them,    *)
(* whatever has become of the parent.                                      *)
OwnsFirst(i) == name["fifo1"] = i
OwnsBoth(i) == name["fifo1"] = i /\ name["fifo2"] = i

NamesInv ==
  \A i \in Inst :
    /\ ppc[i] = "mkfifo2" => OwnsFirst(i)
    /\ ppc[i] \in {"fork", "fifo1", "fifo2", "read", "write", "wait", "print", "unlink1"}
         => OwnsBoth(i)
    /\ ppc[i] = "unlink2" => name["fifo2"] = i
    /\ cpc[i] \in {"fifo1", "fifo2"} => OwnsBoth(i)

(* Before the fork there is no child; after waitpid it has ended.          *)
ForkInv ==
  \A i \in Inst :
    /\ ppc[i] \in {"mkfifo1", "mkfifo2", "fork"} => cpc[i] = "none"
    /\ ppc[i] \in {"print", "unlink1", "unlink2", "done"} => cpc[i] \in Ended
    /\ ppc[i] = "failed" => cpc[i] \in Ended \cup {"none"}

(* Who waits in an open has not gone on.                                   *)
AtInv ==
  \A i \in Inst :
    /\ at[parent(i)] # None => ppc[i] \in Fifos
    /\ at[child(i)] # None => cpc[i] \in Fifos

IInv == PlacesInv /\ NamesInv /\ ForkInv /\ AtInv /\ OwnFifos
-----------------------------------------------------------------------------
LEMMA Processes ==
  /\ \A i \in Inst :
       /\ parent(i) \in Proc /\ parent(i)[1] = i /\ parent(i)[2] = "parent"
       /\ child(i) \in Proc /\ child(i)[1] = i /\ child(i)[2] = "child"
       /\ \A j \in Inst : parent(i) # child(j)
       /\ \A j \in Inst : parent(i) = parent(j) => i = j
       /\ \A j \in Inst : child(i) = child(j) => i = j
  /\ \A p \in Proc :
       /\ p[1] \in Inst /\ p[2] \in {"parent", "child"}
       /\ p[2] = "parent" => p = parent(p[1])
       /\ p[2] = "child" => p = child(p[1])
BY DEF parent, child, Proc

LEMMA InitIInv == Init => IInv
<1> SUFFICES ASSUME Init PROVE IInv
  OBVIOUS
<1>1. PlacesInv /\ NamesInv /\ ForkInv /\ OwnFifos
  BY FifoAssumption
     DEF Init, PlacesInv, NamesInv, ForkInv, OwnFifos, ParentPlaces, ChildPlaces, Fifos
<1>2. AtInv
  BY Processes DEF Init, AtInv
<1> QED
  BY <1>1, <1>2 DEF IInv

(* Steps that only move processes, and never to a place where they need    *)
(* names that they do not have already.                                    *)
LEMMA EndStep ==
  ASSUME IInv, NEW p \in Proc, NEW how \in {"done"} \cup Cut, End(p, how),
         UNCHANGED name, p[2] = "child" \/ how \in Cut,
         p[2] = "child" => cpc[p[1]] # "none"
  PROVE  IInv'
<1> USE DEF IInv, PlacesInv, ParentPlaces, ChildPlaces, Ended, Cut
<1>0. p[1] \in Inst /\ p[2] \in {"parent", "child"}
  BY Processes
<1>1. CASE p[2] = "parent"
  <2>1. /\ ppc' = [ppc EXCEPT ![p[1]] = how] /\ how \in Cut
        /\ UNCHANGED <<cpc, name>>
        /\ at' = [at EXCEPT ![p] = None] /\ fds' = [fds EXCEPT ![p] = {}]
    BY <1>1 DEF End, Goto
  <2>2. PlacesInv' /\ OwnFifos'
    BY <1>0, <2>1 DEF OwnFifos
  <2>3. NamesInv' /\ ForkInv'
    BY <1>0, <2>1 DEF NamesInv, ForkInv, OwnsFirst, OwnsBoth
  <2>4. AtInv'
    BY <1>0, <1>1, <2>1, Processes DEF AtInv
  <2> QED
    BY <2>2, <2>3, <2>4
<1>2. CASE p[2] = "child"
  <2>1. /\ cpc' = [cpc EXCEPT ![p[1]] = how] /\ UNCHANGED <<ppc, name>>
        /\ at' = [at EXCEPT ![p] = None] /\ fds' = [fds EXCEPT ![p] = {}]
    BY <1>2 DEF End, ChildGoto
  <2>2. PlacesInv' /\ OwnFifos'
    BY <1>0, <2>1 DEF OwnFifos
  <2>3. NamesInv' /\ ForkInv'
    BY <1>0, <1>2, <2>1 DEF NamesInv, ForkInv, OwnsFirst, OwnsBoth
  <2>4. AtInv'
    BY <1>0, <1>2, <2>1, Processes DEF AtInv
  <2> QED
    BY <2>2, <2>3, <2>4
<1> QED
  BY <1>0, <1>1, <1>2

(* A process finds its own FIFO at the name it opens.                      *)
LEMMA OpenFinds ==
  ASSUME IInv, NEW p \in Proc, Open(p)
  PROVE  /\ at' = [at EXCEPT ![p] = p[1]]
         /\ UNCHANGED <<name, ppc, cpc, fds>>
<1>1. p[1] \in Inst /\ p[2] \in {"parent", "child"}
  BY Processes
<1>2. pc(p) \in Fifos
  BY DEF Open
<1>3. name[pc(p)] = p[1]
  BY <1>1, <1>2 DEF pc, Fifos, IInv, NamesInv, OwnsBoth
<1> QED
  BY <1>1, <1>3, FifoAssumption DEF Open

LEMMA OpenStep ==
  ASSUME IInv, NEW p \in Proc, Open(p)
  PROVE  IInv'
<1>1. p[1] \in Inst
  BY Processes
<1>2. PlacesInv' /\ OwnFifos'
  BY <1>1, OpenFinds DEF IInv, PlacesInv, OwnFifos
<1>3. NamesInv' /\ ForkInv'
  BY OpenFinds DEF IInv, NamesInv, ForkInv, OwnsFirst, OwnsBoth
<1>4. AtInv'
  <2>1. pc(p) \in Fifos
    BY DEF Open
  <2>2. /\ p[2] = "parent" => ppc[p[1]] \in Fifos
        /\ p[2] = "child" => cpc[p[1]] \in Fifos
    BY <2>1 DEF pc
  <2>3. \A q \in Proc : q # p => at'[q] = at[q]
    BY OpenFinds DEF IInv, PlacesInv
  <2> QED
    BY <2>2, <2>3, OpenFinds, Processes DEF IInv, AtInv
<1> QED
  BY <1>2, <1>3, <1>4 DEF IInv

LEMMA MeetStep ==
  ASSUME IInv, NEW i \in Inst, NEW j \in Inst, Meet(i, j)
  PROVE  IInv' /\ i = j
<1> USE DEF IInv, PlacesInv
<1>1. /\ at[parent(i)] = i /\ at[child(j)] = i /\ i = j
      /\ ppc[i] = cpc[i]
  <2>1. at[parent(i)] # None /\ at[parent(i)] = at[child(j)] /\ ppc[i] = cpc[j]
    BY DEF Meet
  <2>2. at[parent(i)] = i /\ at[child(j)] = j
    BY <2>1, Processes DEF OwnFifos
  <2> QED
    BY <2>1, <2>2
<1>2. ppc[i] \in Fifos /\ cpc[i] \in Fifos
  BY <1>1, FifoAssumption DEF AtInv
<1>3. /\ ppc' = [ppc EXCEPT ![i] = ParentAfter(ppc[i])]
      /\ cpc' = [cpc EXCEPT ![i] = ChildAfter(cpc[i])]
      /\ ParentAfter(ppc[i]) \in {"fifo2", "read"}
      /\ ChildAfter(cpc[i]) \in {"fifo2", "read"}
      /\ UNCHANGED name
  BY <1>1 DEF Meet, Goto, ChildGoto, ParentAfter, ChildAfter, ChildOpens
<1>4. /\ at' = [at EXCEPT ![parent(i)] = None, ![child(i)] = None]
      /\ fds' = [fds EXCEPT ![parent(i)] = @ \cup {<<i, ppc[i]>>},
                            ![child(i)] = @ \cup {<<i, ppc[i]>>}]
  BY <1>1 DEF Meet
<1>5. PlacesInv'
  BY <1>2, <1>3, <1>4, Processes DEF ParentPlaces, ChildPlaces
<1>6. OwnFifos'
  BY <1>2, <1>4, Processes DEF OwnFifos
<1>7. AtInv'
  BY <1>3, <1>4, Processes DEF AtInv
<1>8. NamesInv' /\ ForkInv'
  BY <1>2, <1>3 DEF NamesInv, ForkInv, OwnsFirst, OwnsBoth, Fifos, Ended, Cut
<1> QED
  BY <1>1, <1>5, <1>6, <1>7, <1>8
-----------------------------------------------------------------------------
(* The two mkfifo: nobody needs a name that leads to nothing.              *)
LEMMA MakeStep ==
  ASSUME IInv, NEW i \in Inst,
         MakeFirst(i) \/ FirstExists(i) \/ MakeSecond(i) \/ SecondExists(i)
  PROVE  IInv'
<1> USE FifoAssumption DEF IInv, PlacesInv
<1>1. /\ UNCHANGED <<cpc, at, fds>> /\ ppc[i] \in {"mkfifo1", "mkfifo2"}
      /\ \E place \in {"mkfifo2", "fork", "failed"} : ppc' = [ppc EXCEPT ![i] = place]
      /\ name' \in [Fifos -> Inst \cup {None}]
  BY DEF MakeFirst, FirstExists, MakeSecond, SecondExists, Make, Unlink, Goto
<1>2. PlacesInv' /\ OwnFifos'
  BY <1>1 DEF OwnFifos, ParentPlaces, Ended, Cut
<1>3. AtInv'
  BY <1>1 DEF AtInv, Fifos
<1>4. ForkInv'
  BY <1>1 DEF ForkInv
<1>5. NamesInv'
  <2>1. CASE MakeFirst(i)
    BY <2>1 DEF MakeFirst, Make, Goto, NamesInv, OwnsFirst, OwnsBoth, Fifos
  <2>2. CASE FirstExists(i)
    BY <2>2 DEF FirstExists, Goto, NamesInv, OwnsFirst, OwnsBoth
  <2>3. CASE MakeSecond(i)
    BY <2>3 DEF MakeSecond, Make, Goto, NamesInv, OwnsFirst, OwnsBoth, Fifos
  <2>4. CASE SecondExists(i)
    <3>1. /\ name' = [f \in Fifos |-> IF f = "fifo1" THEN None ELSE name[f]]
          /\ ppc' = [ppc EXCEPT ![i] = "failed"] /\ UNCHANGED cpc
          /\ ppc[i] = "mkfifo2" /\ name["fifo1"] = i /\ cpc[i] = "none"
      BY <2>4 DEF SecondExists, Unlink, Goto, NamesInv, OwnsFirst, ForkInv
    <3> QED
      BY <3>1 DEF NamesInv, OwnsFirst, OwnsBoth, Fifos
  <2> QED
    BY <2>1, <2>2, <2>3, <2>4
<1> QED
  BY <1>2, <1>3, <1>4, <1>5

LEMMA ForkStep ==
  ASSUME IInv, NEW i \in Inst, Fork(i)
  PROVE  IInv'
<1> USE DEF IInv, PlacesInv
<1>1. /\ UNCHANGED <<name, at, fds>> /\ ppc[i] = "fork"
      /\ ppc' = [ppc EXCEPT ![i] = "fifo1"] /\ cpc' = [cpc EXCEPT ![i] = "fifo1"]
  BY DEF Fork, Goto, ChildGoto, ChildOpens
<1>2. PlacesInv' /\ OwnFifos'
  BY <1>1 DEF OwnFifos, ParentPlaces, ChildPlaces
<1>3. AtInv'
  BY <1>1 DEF AtInv, Fifos
<1>4. ForkInv' /\ NamesInv'
  BY <1>1 DEF ForkInv, NamesInv, OwnsFirst, OwnsBoth
<1> QED
  BY <1>2, <1>3, <1>4

(* Reading, writing, waiting for the child, printing.                      *)
LEMMA ParentStepOn ==
  ASSUME IInv, NEW i \in Inst,
         ReadInput(i) \/ WriteInput(i) \/ Wait(i) \/ PrintAnswer(i)
  PROVE  IInv'
<1> USE DEF IInv, PlacesInv
<1>1. /\ UNCHANGED <<name, cpc, at, fds>>
      /\ ppc[i] \in {"read", "write", "wait", "print"}
      /\ \E place \in {"write", "wait", "print", "unlink1"} :
           /\ ppc' = [ppc EXCEPT ![i] = place]
           /\ place = "print" => cpc[i] \in Ended
           /\ place = "unlink1" => ppc[i] = "print"
  BY DEF ReadInput, WriteInput, Wait, PrintAnswer, Goto, Written
<1>2. PlacesInv' /\ OwnFifos'
  BY <1>1 DEF OwnFifos, ParentPlaces
<1>3. AtInv'
  BY <1>1 DEF AtInv, Fifos
<1>4. ForkInv' /\ NamesInv'
  BY <1>1 DEF ForkInv, NamesInv, OwnsFirst, OwnsBoth
<1> QED
  BY <1>2, <1>3, <1>4

(* The instance still owns what it unlinks, and its child has ended.       *)
LEMMA UnlinkFinds ==
  ASSUME IInv, NEW i \in Inst
  PROVE  /\ UnlinkFirst(i) => ppc' = [ppc EXCEPT ![i] = "unlink2"] /\ name["fifo1"] = i
         /\ UnlinkSecond(i) => ppc' = [ppc EXCEPT ![i] = "done"] /\ name["fifo2"] = i
BY FifoAssumption
   DEF IInv, NamesInv, OwnsBoth, UnlinkFirst, UnlinkSecond, Goto

LEMMA UnlinkStep ==
  ASSUME IInv, NEW i \in Inst, UnlinkFirst(i) \/ UnlinkSecond(i)
  PROVE  IInv'
<1> USE FifoAssumption DEF IInv, PlacesInv
<1>1. /\ UNCHANGED <<cpc, at>> /\ ppc[i] \in {"unlink1", "unlink2"}
      /\ fds' \in [Proc -> SUBSET (Inst \X Fifos)]
      /\ \A p \in Proc : fds'[p] \subseteq fds[p]
      /\ name' \in [Fifos -> Inst \cup {None}]
  BY DEF UnlinkFirst, UnlinkSecond, Unlink
<1>2. PlacesInv' /\ OwnFifos'
  BY <1>1, UnlinkFinds DEF OwnFifos, ParentPlaces, Ended, Cut
<1>3. AtInv'
  BY <1>1, UnlinkFinds DEF AtInv, Fifos
<1>4. ForkInv'
  BY <1>1, UnlinkFinds DEF ForkInv
<1>5. NamesInv'
  <2>1. CASE UnlinkFirst(i)
    <3>1. /\ name' = [f \in Fifos |-> IF f = "fifo1" THEN None ELSE name[f]]
          /\ ppc' = [ppc EXCEPT ![i] = "unlink2"] /\ UNCHANGED cpc
          /\ OwnsBoth(i) /\ cpc[i] \in Ended
      BY <2>1, UnlinkFinds DEF UnlinkFirst, Unlink, NamesInv, ForkInv
    <3> QED
      BY <3>1 DEF NamesInv, OwnsFirst, OwnsBoth, Fifos, Ended, Cut
  <2>2. CASE UnlinkSecond(i)
    <3>1. /\ name' = [f \in Fifos |-> IF f = "fifo2" THEN None ELSE name[f]]
          /\ ppc' = [ppc EXCEPT ![i] = "done"] /\ UNCHANGED cpc
          /\ name["fifo2"] = i /\ cpc[i] \in Ended
      BY <2>2, UnlinkFinds DEF UnlinkSecond, Unlink, ForkInv
    <3> QED
      BY <3>1 DEF NamesInv, OwnsFirst, OwnsBoth, Fifos, Ended, Cut
  <2> QED
    BY <2>1, <2>2
<1> QED
  BY <1>2, <1>3, <1>4, <1>5

LEMMA ReadStep ==
  ASSUME IInv, NEW i \in Inst, ReadChunk(i)
  PROVE  IInv'
<1> USE DEF IInv, PlacesInv
<1>1. /\ UNCHANGED <<name, ppc, at, fds>> /\ cpc[i] = "read"
      /\ cpc' = [cpc EXCEPT ![i] = "write"]
  BY DEF ReadChunk, ChildGoto
<1>2. PlacesInv' /\ OwnFifos'
  BY <1>1 DEF OwnFifos, ChildPlaces
<1>3. AtInv'
  BY <1>1 DEF AtInv, Fifos
<1>4. ForkInv' /\ NamesInv'
  BY <1>1 DEF ForkInv, NamesInv, OwnsFirst, OwnsBoth, Ended, Cut
<1> QED
  BY <1>2, <1>3, <1>4

(* The ends of processes: all of them but those of ParentStepOn and        *)
(* UnlinkStep.                                                             *)
LEMMA Ends ==
  ASSUME IInv, NEW i \in Inst,
         \/ BrokenPipe(parent(i), "fifo1") \/ BrokenPipe(child(i), "fifo2")
         \/ EndOfFile(i) \/ WriteChunk(i)
         \/ \E p \in {parent(i), child(i)} : Refused(p) \/ Kill(p)
  PROVE  IInv'
<1>1. \E p \in Proc : \E how \in {"done"} \cup Cut :
        /\ End(p, how) /\ UNCHANGED name
        /\ p[2] = "child" \/ how \in Cut
        /\ p[2] = "child" => cpc[p[1]] # "none"
  BY Processes
     DEF BrokenPipe, EndOfFile, WriteChunk, Refused, Refusable, Kill, pc, Ended, Cut
<1> QED
  BY <1>1, EndStep

LEMMA Preserved == IInv /\ [Next]_vars => IInv'
<1> SUFFICES ASSUME IInv, [Next]_vars PROVE IInv'
  OBVIOUS
<1>1. CASE UNCHANGED vars
  BY <1>1 DEF vars, IInv, PlacesInv, NamesInv, ForkInv, AtInv, OwnFifos,
     OwnsFirst, OwnsBoth
<1>2. ASSUME NEW i \in Inst, ParentStep(i) PROVE IInv'
  BY <1>2, Processes, MakeStep, ForkStep, OpenStep, MeetStep, ParentStepOn, Ends,
     UnlinkStep DEF ParentStep
<1>3. ASSUME NEW i \in Inst, ChildStep(i) PROVE IInv'
  BY <1>3, Processes, OpenStep, ReadStep, Ends DEF ChildStep
<1> QED
  BY <1>1, <1>2, <1>3, Ends DEF Next

(* What the theorems below rest on is an invariant of the instances, in    *)
(* every order in which question-2.c's parents and children run.           *)
THEOREM Invariant == Spec => []IInv
BY InitIInv, Preserved, PTL DEF Spec

(* No process waits for, or has open, a FIFO of another instance, however  *)
(* many are started on the same names and whoever is killed.               *)
THEOREM OnlyOwnFifos == Spec => []OwnFifos
BY Invariant, PTL DEF IInv

(* An instance that has made both FIFOs never fails, unless it is killed   *)
(* or refused a system call: what it opens and unlinks is there.           *)
THEOREM WinnersGoOn == Spec => WinnerUndisturbed
<1>1. ASSUME IInv, [Next]_vars, NEW i \in Inst, ppc'[i] = "failed"
      PROVE  ppc[i] \in {"mkfifo1", "mkfifo2", "failed"}
  <2> USE DEF IInv, PlacesInv
  <2>1. ASSUME NEW p \in Proc, NEW how \in {"done"} \cup Cut, End(p, how)
        PROVE  ppc[i] = "failed"
    BY <1>1, <2>1, Processes DEF End, Goto, Cut
  <2>2. ASSUME NEW j \in Inst, Meet(j, j) PROVE ppc[i] = "failed"
    BY <1>1, <2>2 DEF Meet, Goto, ParentAfter
  <2>3. ASSUME NEW j \in Inst, ParentStep(j)
        PROVE  ppc[i] \in {"mkfifo1", "mkfifo2", "failed"}
    BY <1>1, <2>1, <2>2, <2>3, OpenFinds, MeetStep, UnlinkFinds, Processes
       DEF ParentStep, MakeFirst, MakeSecond, Make, FirstExists, SecondExists, Fork,
       ReadInput, WriteInput, Wait, PrintAnswer, BrokenPipe, Goto, Written, Cut
  <2>4. ASSUME NEW j \in Inst, ChildStep(j) PROVE ppc[i] = "failed"
    BY <1>1, <2>1, <2>4, OpenFinds, Processes
       DEF ChildStep, ReadChunk, EndOfFile, WriteChunk, BrokenPipe, Cut
  <2>5. ASSUME NEW j \in Inst, NEW p \in {parent(j), child(j)}, Refused(p) \/ Kill(p)
        PROVE  ppc[i] = "failed"
    BY <2>1, <2>5, Processes DEF Refused, Kill, Cut
  <2> QED
    BY <1>1, <2>3, <2>4, <2>5 DEF Next, vars
<1>2. IInv /\ [Next]_vars =>
        [\A i \in Inst : ppc'[i] = "failed" =>
           ppc[i] \in {"mkfifo1", "mkfifo2", "failed"}]_ppc
  BY <1>1
<1> QED
  BY <1>2, Invariant, PTL DEF Spec, WinnerUndisturbed
-----------------------------------------------------------------------------
(* A name leads only to the FIFO of an instance that has still to unlink   *)
(* it, or that was killed, or refused a system call, before it could.      *)
LeftInv ==
  \A i \in Inst :
    /\ name["fifo1"] = i => ppc[i] \notin {"mkfifo1", "unlink2", "done", "failed"}
    /\ name["fifo2"] = i => ppc[i] \notin {"mkfifo1", "mkfifo2", "done", "failed"}

(* Steps that leave the names alone, and parents where they owe an unlink. *)
LEMMA LeftStays ==
  ASSUME IInv, LeftInv, UNCHANGED name, NEW j \in Inst,
         \/ UNCHANGED ppc
         \/ \E place \in {"fifo1", "fifo2", "read", "write", "wait", "print", "unlink1"} \cup Cut :
              ppc' = [ppc EXCEPT ![j] = place]
  PROVE  LeftInv'
BY DEF LeftInv, IInv, PlacesInv, Cut

LEMMA LeftEnd ==
  ASSUME IInv, LeftInv, NEW p \in Proc, NEW how \in {"done"} \cup Cut, End(p, how),
         UNCHANGED name, p[2] = "child" \/ how \in Cut
  PROVE  LeftInv'
<1>1. p[1] \in Inst /\ p[2] \in {"parent", "child"}
  BY Processes
<1>2. UNCHANGED ppc \/ (how \in Cut /\ ppc' = [ppc EXCEPT ![p[1]] = how])
  <2>1. CASE p[2] = "parent"
    <3>1. how \in Cut
      BY <2>1
    <3> QED
      BY <2>1, <3>1 DEF End, Goto
  <2>2. CASE p[2] = "child"
    BY <2>2 DEF End
  <2> QED
    BY <1>1, <2>1, <2>2
<1> QED
  BY <1>1, <1>2, LeftStays

LEMMA LeftMake ==
  ASSUME IInv, LeftInv, NEW j \in Inst,
         MakeFirst(j) \/ FirstExists(j) \/ MakeSecond(j) \/ SecondExists(j)
  PROVE  LeftInv'
<1> USE FifoAssumption DEF IInv, PlacesInv, Fifos
<1>1. CASE MakeFirst(j)
  BY <1>1 DEF MakeFirst, Make, Goto, LeftInv
<1>2. CASE FirstExists(j)
  BY <1>2 DEF FirstExists, Goto, LeftInv
<1>3. CASE MakeSecond(j)
  BY <1>3 DEF MakeSecond, Make, Goto, LeftInv
<1>4. CASE SecondExists(j)
  BY <1>4 DEF SecondExists, Unlink, Goto, LeftInv
<1> QED
  BY <1>1, <1>2, <1>3, <1>4

LEMMA LeftUnlink ==
  ASSUME IInv, LeftInv, NEW j \in Inst, UnlinkFirst(j) \/ UnlinkSecond(j)
  PROVE  LeftInv'
<1> USE FifoAssumption DEF IInv, PlacesInv, Fifos
<1>1. CASE UnlinkFirst(j)
  <2>1. /\ ppc' = [ppc EXCEPT ![j] = "unlink2"]
        /\ name' = [f \in Fifos |-> IF f = "fifo1" THEN None ELSE name[f]]
        /\ ppc[j] = "unlink1"
    BY <1>1, UnlinkFinds DEF UnlinkFirst, Unlink
  <2> QED
    BY <2>1 DEF LeftInv
<1>2. CASE UnlinkSecond(j)
  <2>1. /\ ppc' = [ppc EXCEPT ![j] = "done"]
        /\ name' = [f \in Fifos |-> IF f = "fifo2" THEN None ELSE name[f]]
        /\ ppc[j] = "unlink2"
    BY <1>2, UnlinkFinds DEF UnlinkSecond, Unlink
  <2> QED
    BY <2>1 DEF LeftInv
<1> QED
  BY <1>1, <1>2

LEMMA LeftParent ==
  ASSUME IInv, LeftInv, NEW j \in Inst, ParentStep(j)
  PROVE  LeftInv'
<1>1. CASE MakeFirst(j) \/ FirstExists(j) \/ MakeSecond(j) \/ SecondExists(j)
  BY <1>1, LeftMake
<1>2. CASE Fork(j) \/ ReadInput(j) \/ WriteInput(j) \/ Wait(j) \/ PrintAnswer(j)
  BY <1>2, LeftStays DEF Fork, ReadInput, WriteInput, Wait, PrintAnswer, Goto, Written
<1>3. CASE Open(parent(j))
  BY <1>3, OpenFinds, Processes, LeftStays
<1>4. CASE \E k \in Inst : Meet(j, k)
  BY <1>4, LeftStays DEF Meet, Goto, ParentAfter
<1>5. CASE BrokenPipe(parent(j), "fifo1")
  BY <1>5, Processes, LeftEnd DEF BrokenPipe, Cut
<1>6. CASE UnlinkFirst(j) \/ UnlinkSecond(j)
  BY <1>6, LeftUnlink
<1> QED
  BY <1>1, <1>2, <1>3, <1>4, <1>5, <1>6 DEF ParentStep

LEMMA LeftChild ==
  ASSUME IInv, LeftInv, NEW j \in Inst,
         ChildStep(j) \/ \E p \in {parent(j), child(j)} : Refused(p) \/ Kill(p)
  PROVE  LeftInv'
<1>1. CASE Open(child(j))
  BY <1>1, OpenFinds, Processes, LeftStays
<1>2. CASE ReadChunk(j)
  BY <1>2, LeftStays DEF ReadChunk
<1>3. CASE \/ EndOfFile(j) \/ WriteChunk(j) \/ BrokenPipe(child(j), "fifo2")
           \/ \E p \in {parent(j), child(j)} : Refused(p) \/ Kill(p)
  BY <1>3, Processes, LeftEnd DEF EndOfFile, WriteChunk, BrokenPipe, Refused, Kill, Cut
<1> QED
  BY <1>1, <1>2, <1>3 DEF ChildStep

(* For any number of instances, what keeps a later one out is a FIFO whose *)
(* maker has still to unlink it, was killed, or was refused a system call  *)
(* after its second mkfifo (question-2.c:33 and after): each other FIFO    *)
(* was unlinked by the parent that made it, also by one that came too late *)
(* (question-2.c:28 and 60).                                               *)
THEOREM NamesAreFree == Spec => []NothingLeft
<1>1. Init => LeftInv
  BY FifoAssumption DEF Init, LeftInv, Fifos
<1>2. IInv /\ LeftInv /\ [Next]_vars => LeftInv'
  <2> SUFFICES ASSUME IInv, LeftInv, [Next]_vars PROVE LeftInv'
    OBVIOUS
  <2>1. CASE UNCHANGED vars
    BY <2>1 DEF vars, LeftInv
  <2> QED
    BY <2>1, LeftParent, LeftChild DEF Next
<1>3. IInv /\ LeftInv => NothingLeft
  BY DEF IInv, PlacesInv, LeftInv, NothingLeft, Fifos
<1> QED
  BY <1>1, <1>2, <1>3, Invariant, PTL DEF Spec
-----------------------------------------------------------------------------
(* A process has open what it reads and writes: the FIFOs of its instance. *)
DescInv ==
  \A i \in Inst :
    /\ ppc[i] \in {"fifo2", "read", "write", "wait", "print"}
         => <<i, "fifo1">> \in fds[parent(i)]
    /\ ppc[i] \in {"read", "write", "wait", "print"} => <<i, "fifo2">> \in fds[parent(i)]
    /\ cpc[i] \in {"fifo2", "read", "write"} => <<i, "fifo1">> \in fds[child(i)]
    /\ cpc[i] \in {"read", "write"} => <<i, "fifo2">> \in fds[child(i)]

(* Each FIFO is written once: it is empty until then.                      *)
EmptyInv ==
  \A i \in Inst :
    /\ ppc[i] \in {"mkfifo1", "mkfifo2", "fork", "fifo1", "fifo2", "read", "write"}
         => data[i]["fifo1"] = <<>>
    /\ cpc[i] \notin Ended => data[i]["fifo2"] = <<>>

DataInv ==
  /\ data \in [Inst -> [Fifos -> Chunks]]
  /\ input \in [Inst -> Chunks] /\ buf \in [Inst -> Chunks] /\ stdout \in [Inst -> Chunks]

LEMMA OwnFd ==
  ASSUME IInv, NEW p \in Proc, NEW f \in Fifos, <<p[1], f>> \in fds[p]
  PROVE  Fd(p, f) = p[1]
<1>1. p[1] \in Inst
  BY Processes
<1>2. \A m \in Inst : <<m, f>> \in fds[p] => m = p[1]
  BY DEF IInv, OwnFifos
<1> QED
  BY <1>1, <1>2 DEF Fd

LEMMA Descriptors ==
  ASSUME IInv, DescInv, NEW i \in Inst
  PROVE  /\ ppc[i] \in {"read", "write", "wait", "print"} =>
              Fd(parent(i), "fifo1") = i /\ Fd(parent(i), "fifo2") = i
         /\ cpc[i] \in {"read", "write"} =>
              Fd(child(i), "fifo1") = i /\ Fd(child(i), "fifo2") = i
<1>1. ASSUME NEW p \in Proc, p[1] = i, NEW f \in Fifos, <<i, f>> \in fds[p]
      PROVE  Fd(p, f) = i
  BY <1>1, OwnFd
<1>2. "fifo1" \in Fifos /\ "fifo2" \in Fifos
  BY DEF Fifos
<1>3. parent(i) \in Proc /\ parent(i)[1] = i /\ child(i) \in Proc /\ child(i)[1] = i
  BY Processes
<1> QED
  BY <1>1, <1>2, <1>3 DEF DescInv

LEMMA EmptyChunk == <<>> \in Chunks
<1>1. <<>> \in [1 .. 0 -> {"a", "A"}]
  OBVIOUS
<1> QED
  BY <1>1, FifoAssumption DEF Chunks

LEMMA ChunkOperations ==
  ASSUME NEW s \in Chunks
  PROVE  /\ <<>> \o s = s
         /\ s # <<>> => Convert(s) \in Chunks
<1>1. PICK n \in 0 .. MaxLines : s \in [1 .. n -> {"a", "A"}]
  BY DEF Chunks
<1>2. s \in Seq({"a", "A"})
  BY <1>1, FifoAssumption
<1>3. Convert(s) \in [1 .. n -> {"a", "A"}]
  BY <1>1 DEF Convert
<1> QED
  BY <1>2, <1>3 DEF Chunks

LEMMA DescStep == IInv /\ DescInv /\ [Next]_vars => DescInv'
<1> SUFFICES ASSUME IInv, DescInv, [Next]_vars PROVE DescInv'
  OBVIOUS
<1> USE DEF IInv, PlacesInv
<1>1. ASSUME NEW p \in Proc, NEW how \in {"done"} \cup Cut, End(p, how) PROVE DescInv'
  <2>1. p[1] \in Inst /\ p[2] \in {"parent", "child"}
    BY Processes
  <2>2. fds' = [fds EXCEPT ![p] = {}]
    BY <1>1 DEF End
  <2>3. CASE p = parent(p[1])
    <3>1. ppc' = [ppc EXCEPT ![p[1]] = how] /\ cpc' = cpc
      BY <1>1, <2>1, <2>3, Processes DEF End, Goto
    <3>2. /\ \A k \in Inst : k # p[1] => fds'[parent(k)] = fds[parent(k)]
          /\ \A k \in Inst : fds'[child(k)] = fds[child(k)]
      BY <2>1, <2>2, <2>3, Processes
    <3> QED
      BY <2>1, <3>1, <3>2 DEF DescInv, Cut
  <2>4. CASE p = child(p[1])
    <3>1. cpc' = [cpc EXCEPT ![p[1]] = how] /\ ppc' = ppc
      BY <1>1, <2>1, <2>4, Processes DEF End, ChildGoto
    <3>2. /\ \A k \in Inst : k # p[1] => fds'[child(k)] = fds[child(k)]
          /\ \A k \in Inst : fds'[parent(k)] = fds[parent(k)]
      BY <2>1, <2>2, <2>4, Processes
    <3> QED
      BY <2>1, <3>1, <3>2 DEF DescInv, Cut
  <2> QED
    BY <2>1, <2>3, <2>4, Processes
<1>2. ASSUME NEW p \in Proc, Open(p) PROVE DescInv'
  BY <1>2, OpenFinds DEF DescInv
<1>3. ASSUME NEW i \in Inst, NEW j \in Inst, Meet(i, j) PROVE DescInv'
  <2>1. i = j /\ at[parent(i)] = i /\ ppc[i] \in Fifos /\ cpc[i] = ppc[i]
    <3>1. i = j /\ at[parent(i)] # None
      BY <1>3, MeetStep DEF Meet
    <3>2. at[parent(i)] = i /\ ppc[i] \in Fifos
      BY <3>1, Processes DEF OwnFifos, AtInv
    <3> QED
      BY <1>3, <3>1, <3>2 DEF Meet
  <2>2. /\ ppc' = [ppc EXCEPT ![i] = ParentAfter(ppc[i])]
        /\ cpc' = [cpc EXCEPT ![i] = ChildAfter(cpc[i])]
        /\ fds' = [fds EXCEPT ![parent(i)] = @ \cup {<<i, ppc[i]>>},
                              ![child(i)] = @ \cup {<<i, ppc[i]>>}]
    BY <1>3, <2>1 DEF Meet, Goto, ChildGoto
  <2>3. /\ \A k \in Inst : fds[parent(k)] \subseteq fds'[parent(k)]
        /\ \A k \in Inst : fds[child(k)] \subseteq fds'[child(k)]
        /\ <<i, ppc[i]>> \in fds'[parent(i)] /\ <<i, ppc[i]>> \in fds'[child(i)]
    BY <2>2, Processes
  <2>4. ASSUME NEW k \in Inst, k # i PROVE ppc'[k] = ppc[k] /\ cpc'[k] = cpc[k]
    BY <2>2, <2>4
  <2>5. CASE ppc[i] = "fifo1"
    <3>1. ppc'[i] = "fifo2" /\ cpc'[i] = "fifo2"
      BY <2>1, <2>2, <2>5 DEF ParentAfter, ChildAfter, ChildOpens
    <3> QED
      BY <2>3, <2>4, <2>5, <3>1 DEF DescInv
  <2>6. CASE ppc[i] = "fifo2"
    <3>1. ppc'[i] = "read" /\ cpc'[i] = "read"
      BY <2>1, <2>2, <2>6 DEF ParentAfter, ChildAfter, ChildOpens
    <3>2. <<i, "fifo1">> \in fds[parent(i)] /\ <<i, "fifo1">> \in fds[child(i)]
      BY <2>1, <2>6 DEF DescInv
    <3> QED
      BY <2>3, <2>4, <2>6, <3>1, <3>2 DEF DescInv
  <2> QED
    BY <2>1, <2>5, <2>6 DEF Fifos
<1>4. ASSUME NEW i \in Inst,
             \/ MakeFirst(i) \/ FirstExists(i) \/ MakeSecond(i) \/ SecondExists(i)
             \/ Fork(i) \/ ReadInput(i) \/ WriteInput(i) \/ Wait(i) \/ PrintAnswer(i)
             \/ UnlinkSecond(i) \/ ReadChunk(i)
      PROVE  DescInv'
  <2>1. CASE MakeFirst(i) \/ FirstExists(i) \/ MakeSecond(i) \/ SecondExists(i)
    BY <2>1 DEF MakeFirst, FirstExists, MakeSecond, SecondExists, Make, Goto, DescInv
  <2>2. CASE Fork(i) \/ UnlinkSecond(i) \/ PrintAnswer(i)
    BY <2>2, UnlinkFinds
       DEF Fork, UnlinkSecond, PrintAnswer, Goto, ChildGoto, ChildOpens, DescInv
  <2>3. CASE ReadInput(i) \/ WriteInput(i) \/ Wait(i)
    BY <2>3 DEF ReadInput, WriteInput, Wait, Goto, Written, DescInv
  <2>4. CASE ReadChunk(i)
    BY <2>4 DEF ReadChunk, ChildGoto, DescInv
  <2> QED
    BY <1>4, <2>1, <2>2, <2>3, <2>4
<1>5. ASSUME NEW i \in Inst, UnlinkFirst(i) PROVE DescInv'
  <2>1. /\ ppc' = [ppc EXCEPT ![i] = "unlink2"] /\ cpc' = cpc
        /\ fds' = [fds EXCEPT ![parent(i)] = {}]
    BY <1>5, UnlinkFinds DEF UnlinkFirst
  <2>2. /\ \A k \in Inst : k # i => fds'[parent(k)] = fds[parent(k)]
        /\ \A k \in Inst : fds'[child(k)] = fds[child(k)]
    BY <2>1, Processes
  <2> QED
    BY <2>1, <2>2 DEF DescInv
<1>6. ASSUME NEW i \in Inst, ParentStep(i) PROVE DescInv'
  BY <1>1, <1>2, <1>3, <1>4, <1>5, <1>6, Processes DEF ParentStep, BrokenPipe, Cut
<1>7. ASSUME NEW i \in Inst,
             ChildStep(i) \/ \E p \in {parent(i), child(i)} : Refused(p) \/ Kill(p)
      PROVE  DescInv'
  BY <1>1, <1>2, <1>4, <1>7, Processes
     DEF ChildStep, BrokenPipe, EndOfFile, WriteChunk, Refused, Kill, Cut
<1>8. CASE UNCHANGED vars
  BY <1>8 DEF vars, DescInv
<1> QED
  BY <1>6, <1>7, <1>8 DEF Next

(* Writing fills what was empty, reading empties it.                       *)
LEMMA EmptyStep == IInv /\ DescInv /\ EmptyInv /\ DataInv /\ [Next]_vars => EmptyInv'
<1> SUFFICES ASSUME IInv, DescInv, EmptyInv, DataInv, [Next]_vars PROVE EmptyInv'
  OBVIOUS
<1> USE DEF IInv, PlacesInv
<1>1. ASSUME NEW p \in Proc, NEW how \in {"done"} \cup Cut, End(p, how), data' = data
      PROVE  EmptyInv'
  <2>1. p[1] \in Inst
    BY Processes
  <2> QED
    BY <1>1, <2>1 DEF End, Goto, ChildGoto, EmptyInv, Ended, Cut
<1>2. ASSUME NEW p \in Proc, Open(p) PROVE EmptyInv'
  BY <1>2, OpenFinds DEF Open, EmptyInv
<1>3. ASSUME NEW i \in Inst, NEW j \in Inst, Meet(i, j) PROVE EmptyInv'
  <2>1. i = j /\ ppc[i] \in Fifos /\ cpc[i] = ppc[i] /\ data' = data
    <3>1. i = j /\ at[parent(i)] # None
      BY <1>3, MeetStep DEF Meet
    <3> QED
      BY <1>3, <3>1 DEF Meet, AtInv
  <2> QED
    BY <1>3, <2>1 DEF Meet, Goto, ChildGoto, EmptyInv, Fifos, Ended, Cut
<1>4. ASSUME NEW i \in Inst,
             \/ MakeFirst(i) \/ FirstExists(i) \/ MakeSecond(i) \/ SecondExists(i)
             \/ Fork(i) \/ ReadInput(i) \/ Wait(i) \/ UnlinkFirst(i) \/ UnlinkSecond(i)
      PROVE  EmptyInv'
  <2>1. CASE MakeFirst(i) \/ FirstExists(i) \/ MakeSecond(i) \/ SecondExists(i)
    BY <2>1 DEF MakeFirst, FirstExists, MakeSecond, SecondExists, Make, Goto, EmptyInv
  <2>2. CASE Fork(i)
    BY <2>2 DEF Fork, Goto, ChildGoto, ForkInv, EmptyInv, Ended, Cut
  <2>3. CASE ReadInput(i) \/ Wait(i)
    BY <2>3 DEF ReadInput, Wait, Goto, EmptyInv
  <2>4. CASE UnlinkFirst(i) \/ UnlinkSecond(i)
    BY <2>4, UnlinkFinds DEF UnlinkFirst, UnlinkSecond, EmptyInv
  <2> QED
    BY <1>4, <2>1, <2>2, <2>3, <2>4
<1>5. ASSUME NEW i \in Inst, WriteInput(i) PROVE EmptyInv'
  <2>1. Fd(parent(i), "fifo1") = i /\ ppc' = [ppc EXCEPT ![i] = "wait"] /\ cpc' = cpc
    BY <1>5, Descriptors DEF WriteInput, Goto, Written
  <2>2. /\ \A k \in Inst : k # i => data'[k] = data[k]
        /\ data'[i]["fifo2"] = data[i]["fifo2"]
    BY <1>5, <2>1 DEF WriteInput, Fill, DataInv, Fifos
  <2> QED
    BY <2>1, <2>2 DEF EmptyInv
<1>6. ASSUME NEW i \in Inst, PrintAnswer(i) PROVE EmptyInv'
  <2>1. /\ Fd(parent(i), "fifo2") = i /\ ppc' = [ppc EXCEPT ![i] = "unlink1"]
        /\ cpc' = cpc /\ ppc[i] = "print"
    BY <1>6, Descriptors DEF PrintAnswer, Goto
  <2>2. /\ \A k \in Inst : k # i => data'[k] = data[k]
        /\ data'[i]["fifo2"] = <<>>
    BY <1>6, <2>1 DEF PrintAnswer, Fill, DataInv, Fifos
  <2> QED
    BY <2>1, <2>2 DEF EmptyInv
<1>7. ASSUME NEW i \in Inst, ReadChunk(i) PROVE EmptyInv'
  <2>1. /\ Fd(child(i), "fifo1") = i /\ cpc' = [cpc EXCEPT ![i] = "write"]
        /\ ppc' = ppc /\ cpc[i] = "read"
    BY <1>7, Descriptors DEF ReadChunk, ChildGoto
  <2>2. /\ \A k \in Inst : k # i => data'[k] = data[k]
        /\ data'[i]["fifo1"] = <<>> /\ data'[i]["fifo2"] = data[i]["fifo2"]
    BY <1>7, <2>1 DEF ReadChunk, Fill, DataInv, Fifos
  <2> QED
    BY <2>1, <2>2 DEF EmptyInv, Ended, Cut
<1>8. ASSUME NEW i \in Inst, WriteChunk(i) PROVE EmptyInv'
  <2>1. /\ Fd(child(i), "fifo2") = i /\ cpc' = [cpc EXCEPT ![i] = "done"] /\ ppc' = ppc
    BY <1>8, Descriptors, Processes DEF WriteChunk, End, ChildGoto
  <2>2. /\ \A k \in Inst : k # i => data'[k] = data[k]
        /\ data'[i]["fifo1"] = data[i]["fifo1"]
    BY <1>8, <2>1 DEF WriteChunk, Fill, DataInv, Fifos
  <2> QED
    BY <2>1, <2>2 DEF EmptyInv, Ended, Cut
<1>9. ASSUME NEW i \in Inst, ParentStep(i) PROVE EmptyInv'
  BY <1>1, <1>2, <1>3, <1>4, <1>5, <1>6, <1>9, Processes DEF ParentStep, BrokenPipe, Cut
<1>10. ASSUME NEW i \in Inst,
              ChildStep(i) \/ \E p \in {parent(i), child(i)} : Refused(p) \/ Kill(p)
       PROVE  EmptyInv'
  BY <1>1, <1>2, <1>7, <1>8, <1>10, Processes
     DEF ChildStep, BrokenPipe, EndOfFile, Refused, Kill, Cut
<1>11. CASE UNCHANGED vars
  BY <1>11 DEF vars, EmptyInv
<1> QED
  BY <1>9, <1>10, <1>11 DEF Next

LEMMA DataStep == IInv /\ DescInv /\ EmptyInv /\ DataInv /\ [Next]_vars => DataInv'
<1> SUFFICES ASSUME IInv, DescInv, EmptyInv, DataInv, [Next]_vars PROVE DataInv'
  OBVIOUS
<1>1. ASSUME UNCHANGED <<data, input, buf, stdout>> PROVE DataInv'
  BY <1>1 DEF DataInv
<1>2. ASSUME NEW p \in Proc, NEW f \in Fifos, NEW s \in Chunks, Fill(p, f, s)
      PROVE  data' \in [Inst -> [Fifos -> Chunks]]
  BY <1>2 DEF Fill, DataInv
<1>3. "fifo1" \in Fifos /\ "fifo2" \in Fifos
  BY DEF Fifos
<1>4. ASSUME NEW i \in Inst, WriteInput(i) PROVE DataInv'
  <2>1. Fd(parent(i), "fifo1") = i /\ data[i]["fifo1"] = <<>> /\ input[i] \in Chunks
    BY <1>4, Descriptors DEF WriteInput, EmptyInv, DataInv
  <2>2. Read(parent(i), "fifo1") \o input[i] \in Chunks
    BY <2>1, ChunkOperations DEF Read
  <2> QED
    BY <1>2, <1>3, <1>4, <2>2, Processes DEF WriteInput, DataInv
<1>5. ASSUME NEW i \in Inst, PrintAnswer(i) PROVE DataInv'
  <2>1. Fd(parent(i), "fifo2") = i
    BY <1>5, Descriptors DEF PrintAnswer
  <2>2. Read(parent(i), "fifo2") \in Chunks
    BY <1>3, <2>1 DEF Read, DataInv
  <2> QED
    BY <1>2, <1>3, <1>5, <2>2, EmptyChunk, Processes DEF PrintAnswer, DataInv
<1>6. ASSUME NEW i \in Inst, ReadChunk(i) PROVE DataInv'
  <2>1. Fd(child(i), "fifo1") = i
    BY <1>6, Descriptors DEF ReadChunk
  <2>2. Convert(Read(child(i), "fifo1")) \in Chunks
    BY <1>3, <1>6, <2>1, ChunkOperations DEF ReadChunk, Read, DataInv
  <2> QED
    BY <1>2, <1>3, <1>6, <2>2, EmptyChunk, Processes DEF ReadChunk, DataInv
<1>7. ASSUME NEW i \in Inst, WriteChunk(i) PROVE DataInv'
  <2>1. Fd(child(i), "fifo2") = i /\ data[i]["fifo2"] = <<>> /\ buf[i] \in Chunks
    BY <1>7, Descriptors DEF WriteChunk, EmptyInv, DataInv, Ended, Cut
  <2>2. Read(child(i), "fifo2") \o buf[i] \in Chunks
    BY <2>1, ChunkOperations DEF Read
  <2> QED
    BY <1>2, <1>3, <1>7, <2>2, Processes DEF WriteChunk, DataInv
<1>8. ASSUME NEW i \in Inst, ParentStep(i) PROVE DataInv'
  BY <1>1, <1>4, <1>5, <1>8 DEF ParentStep, MakeFirst, FirstExists, MakeSecond,
     SecondExists, Make, Fork, Open, Meet, ReadInput, BrokenPipe, Wait, UnlinkFirst,
     UnlinkSecond
<1>9. ASSUME NEW i \in Inst,
             ChildStep(i) \/ \E p \in {parent(i), child(i)} : Refused(p) \/ Kill(p)
      PROVE  DataInv'
  BY <1>1, <1>6, <1>7, <1>9 DEF ChildStep, Open, EndOfFile, BrokenPipe, Refused, Kill
<1>10. CASE UNCHANGED vars
  BY <1>1, <1>10 DEF vars
<1> QED
  BY <1>8, <1>9, <1>10 DEF Next

(* Types, and with them that a FIFO never holds more than the chunk that   *)
(* was written into it: nobody writes twice, whatever is killed            *)
(* (question-2.c:42-45, converter.c:20).                                   *)
THEOREM TypeCorrect == Spec => []TypeOK
<1> DEFINE All == IInv /\ DescInv /\ EmptyInv /\ DataInv
<1>1. Init => All
  BY InitIInv, EmptyChunk DEF Init, DescInv, EmptyInv, DataInv, Fifos, Ended, Cut
<1>2. All /\ [Next]_vars => All'
  BY Preserved, DescStep, EmptyStep, DataStep
<1>3. All => TypeOK
  BY DEF IInv, PlacesInv, DataInv, TypeOK, ParentPlaces, ChildPlaces
<1> QED
  BY <1>1, <1>2, <1>3, PTL DEF Spec
=============================================================================
