-------------------------- MODULE ForkServer_proofs --------------------------
(***************************************************************************)
(* Who holds which descriptor of the server, for every number of clients,  *)
(* every backlog and limit, and all five ways of the programs.             *)
(***************************************************************************)
EXTENDS ForkServer, TLAPS

(* Each queued connection is there once; it and one that is yet to come    *)
(* have nothing at the server.                                             *)
QueueInv ==
  /\ \A k, l \in 1 .. Len(queue) : queue[k] = queue[l] => k = l
  /\ \A c \in Clients : client[c] = "idle" => ~Queued(c)
  /\ \A c \in Clients : client[c] = "idle" \/ Queued(c) =>
        child[c] = "none" /\ ~HandingOver(c)

HoldersInv ==
  \A c \in Clients :
    holders[c] = (IF c \in Children THEN {c} ELSE {})
                 \cup (IF HandingOver(c) THEN {Master} ELSE {})

ForkInv == master \in {"shutdown", "fork"} => connfd \notin Children

ListenersInv ==
  listeners = {c \in Clients : child[c] = "born"}
              \cup (IF master = "gone" THEN {} ELSE {Master})

IInv == TypeOK /\ QueueInv /\ HoldersInv /\ ForkInv /\ ListenersInv
-----------------------------------------------------------------------------
ClientStates == {"idle", "open", "closed", "aborted", "reset", "refused"}

(* Closing the listening socket empties the queue or leaves it alone, and  *)
(* makes no connection one that is yet to come.                            *)
LEMMA StopListeningFacts ==
  ASSUME TypeOK, NEW p, StopListening(p)
  PROVE  /\ queue' = queue \/ queue' = <<>>
         /\ queue' \in Seq(Clients) /\ Len(queue') <= BACKLOG
         /\ client' \in [Clients -> ClientStates]
         /\ \A c \in Clients : client'[c] = "idle" => client[c] = "idle"
         /\ listeners' = listeners \ {p}
  <1>1. CASE listeners' = {}
    <2>1. queue' = <<>> /\ listeners' = listeners \ {p}
      BY <1>1 DEF StopListening
    <2>2. queue' \in Seq(Clients) /\ Len(queue') <= BACKLOG
      BY <2>1, ServerAssumption
    <2>3. client' = [c \in Clients |->
                       IF Queued(c) /\ client[c] = "open" THEN "reset" ELSE client[c]]
      BY <1>1 DEF StopListening
    <2>4. client \in [Clients -> ClientStates]
      BY DEF TypeOK, ClientStates
    <2>5. client' \in [Clients -> ClientStates]
      BY <2>3, <2>4 DEF ClientStates
    <2>6. \A c \in Clients : client'[c] = "idle" => client[c] = "idle"
      BY <2>3
    <2> QED BY <2>1, <2>2, <2>5, <2>6
  <1>2. CASE listeners' # {}
    BY <1>2 DEF TypeOK, StopListening, ClientStates
  <1> QED BY <1>1, <1>2

LEMMA InitInv == Init => IInv
  <1> SUFFICES ASSUME Init PROVE IInv
    OBVIOUS
  <1>1. TypeOK
    <2>1. caught \in BOOLEAN /\ pending \in BOOLEAN
      <3>1. Installs \in BOOLEAN
        BY DEF Installs
      <3> QED BY <3>1 DEF Init
    <2>2. queue \in Seq(Clients) /\ Len(queue) <= BACKLOG /\ starts \in 1 .. MaxStarts
      BY ServerAssumption DEF Init
    <2> QED BY <2>1, <2>2 DEF Init, Installs, TypeOK
  <1>2. \A c \in Clients : ~Queued(c) /\ ~HandingOver(c) /\ c \notin Children
    BY DEF Init, Queued, HandingOver, Children
  <1>3. QueueInv
    BY <1>2 DEF Init, QueueInv
  <1>4. HoldersInv /\ ForkInv /\ ListenersInv
    BY <1>2 DEF Init, HoldersInv, ForkInv, ListenersInv
  <1> QED BY <1>1, <1>3, <1>4 DEF IInv

LEMMA TypeStep ==
  ASSUME IInv, [Next]_vars
  PROVE  TypeOK'
  <1> USE ServerAssumption DEF IInv, TypeOK
  <1>1. CASE Accept
    BY <1>1 DEF Accept
  <1>2. CASE Fork
    BY <1>2 DEF Fork
  <1>3. ASSUME Exit PROVE TypeOK'
    BY <1>3, StopListeningFacts DEF Exit, ClientStates
  <1>4. CASE CloseConn
    BY <1>4 DEF CloseConn, MasterCloses
  <1>5. CASE Shutdown
    BY <1>5 DEF Shutdown
  <1>11. CASE Reap
    BY <1>11 DEF Reap
  <1>12. CASE Interrupt
    BY <1>3, <1>12 DEF Interrupt
  <1>6. CASE Start
    BY <1>6 DEF Start, Installs
  <1>7. ASSUME NEW c \in Clients, Connect(c) \/ Refuse(c) \/ Leave(c) PROVE TypeOK'
    <2>1. CASE Connect(c)
      BY <2>1 DEF Connect
    <2>2. CASE Refuse(c)
      BY <2>2 DEF Refuse
    <2>3. CASE Leave(c)
      BY <2>3 DEF Leave
    <2> QED BY <1>7, <2>1, <2>2, <2>3
  <1>8. ASSUME NEW c \in Clients, ChildStart(c) PROVE TypeOK'
    BY <1>8, StopListeningFacts DEF ChildStart, ClientStates
  <1>9. ASSUME NEW c \in Clients, ChildEnds(c) PROVE TypeOK'
    BY <1>9, StopListeningFacts DEF ChildEnds, ClientStates
  <1>10. CASE UNCHANGED vars
    BY <1>10 DEF vars
  <1> QED
    BY <1>1, <1>2, <1>3, <1>4, <1>5, <1>6, <1>7, <1>8, <1>9, <1>10, <1>11, <1>12
       DEF Next, MasterStep, Signal, ForkError, ShutdownError, SigChld,
           AcceptInterrupted, Kill, ReadError, ResponseReturns, ChildKilled

-----------------------------------------------------------------------------
LEMMA QueueStep ==
  ASSUME IInv, [Next]_vars
  PROVE  QueueInv'
  <1> USE ServerAssumption DEF IInv, TypeOK
  <1>1. CASE Accept
    <2>1. /\ queue # <<>> /\ queue \in Seq(Clients)
          /\ queue' = Tail(queue) /\ connfd' = Head(queue)
          /\ UNCHANGED <<client, child>>
      BY <1>1 DEF Accept
    <2>2. /\ Len(queue') = Len(queue) - 1
          /\ \A k \in 1 .. Len(queue') : queue'[k] = queue[k + 1] /\ k + 1 \in 1 .. Len(queue)
          /\ connfd' = queue[1] /\ 1 \in 1 .. Len(queue)
      BY <2>1
    <2>3. \A k, l \in 1 .. Len(queue') : queue'[k] = queue'[l] => k = l
      BY <2>2 DEF QueueInv
    <2>4. \A c \in Clients : Queued(c)' => Queued(c) /\ c # connfd'
      BY <2>2 DEF QueueInv, Queued
    <2>5. \A c \in Clients : client[c] = "idle" => c # connfd'
      BY <2>2 DEF QueueInv, Queued
    <2> QED BY <2>1, <2>3, <2>4, <2>5 DEF QueueInv, HandingOver
  <1>2. CASE Fork
    BY <1>2 DEF Fork, QueueInv, Queued, HandingOver
  <1>3. ASSUME Exit PROVE QueueInv'
    <2>1. /\ queue' = queue \/ queue' = <<>>
          /\ \A c \in Clients : client'[c] = "idle" => client[c] = "idle"
      BY <1>3, StopListeningFacts DEF Exit
    <2>2. \A c \in Clients : Queued(c)' => Queued(c)
      BY <2>1 DEF Queued
    <2>3. \A c \in Clients : ~HandingOver(c)' /\ (child[c] = "none" => child'[c] = "none")
      BY <1>3 DEF Exit, HandingOver
    <2> QED BY <2>1, <2>2, <2>3 DEF QueueInv
  <1>4. CASE CloseConn
    BY <1>4 DEF CloseConn, QueueInv, Queued, HandingOver
  <1>5. CASE Shutdown
    BY <1>5 DEF Shutdown, QueueInv, Queued, HandingOver
  <1>11. CASE Reap
    BY <1>11 DEF Reap, QueueInv, Queued, HandingOver
  <1>12. CASE UNCHANGED <<client, queue, master, connfd, child>>
    BY <1>12 DEF QueueInv, Queued, HandingOver
  <1>6. CASE Start
    BY <1>6 DEF Start, QueueInv, Queued, HandingOver
  <1>7. ASSUME NEW c \in Clients, Connect(c) PROVE QueueInv'
    <2>1. /\ Len(queue') = Len(queue) + 1
          /\ \A k \in 1 .. Len(queue) : queue'[k] = queue[k]
          /\ queue'[Len(queue) + 1] = c
      BY <1>7 DEF Connect
    <2>2. client[c] = "idle" /\ ~Queued(c) /\ child[c] = "none" /\ ~HandingOver(c)
      BY <1>7 DEF Connect, QueueInv
    <2>3. \A k, l \in 1 .. Len(queue') : queue'[k] = queue'[l] => k = l
      BY <2>1, <2>2 DEF QueueInv, Queued
    <2>4. \A d \in Clients : Queued(d)' => Queued(d) \/ d = c
      BY <2>1 DEF Queued
    <2>5. /\ client'[c] = "open"
          /\ \A d \in Clients : d # c => client'[d] = client[d]
          /\ child' = child /\ \A d \in Clients : HandingOver(d)' <=> HandingOver(d)
      BY <1>7 DEF Connect, HandingOver
    <2> QED BY <2>2, <2>3, <2>4, <2>5 DEF QueueInv
  <1>8. ASSUME NEW c \in Clients, Refuse(c) \/ Leave(c) PROVE QueueInv'
    <2>1. /\ UNCHANGED <<queue, child, master, connfd>>
          /\ \A d \in Clients : client'[d] = "idle" => client[d] = "idle"
      BY <1>8 DEF Refuse, Leave
    <2> QED BY <2>1 DEF QueueInv, Queued, HandingOver
  <1>9. ASSUME NEW c \in Clients, ChildStart(c) \/ (c \in Children /\ ChildEnds(c))
        PROVE  QueueInv'
    <2>1. /\ queue' = queue \/ queue' = <<>>
          /\ \A d \in Clients : client'[d] = "idle" => client[d] = "idle"
      BY <1>9, StopListeningFacts DEF ChildStart, ChildEnds
    <2>2. \A d \in Clients : Queued(d)' => Queued(d)
      BY <2>1 DEF Queued
    <2>3. \A d \in Clients : /\ HandingOver(d)' <=> HandingOver(d)
                             /\ child[d] = "none" => child'[d] = "none"
      BY <1>9 DEF ChildStart, ChildEnds, HandingOver, Children
    <2> QED BY <2>1, <2>2, <2>3 DEF QueueInv
  <1>10. CASE UNCHANGED vars
    BY <1>10, <1>12 DEF vars
  <1> QED
    BY <1>1, <1>2, <1>3, <1>4, <1>5, <1>6, <1>7, <1>8, <1>9, <1>10, <1>11, <1>12
       DEF Next, MasterStep, Signal, ForkError, ShutdownError, SigChld, AcceptInterrupted,
           Interrupt, Kill, ReadError, ResponseReturns, ChildKilled, Children

-----------------------------------------------------------------------------
LEMMA HoldersStep ==
  ASSUME IInv, [Next]_vars
  PROVE  HoldersInv' /\ ForkInv'
  <1> USE ServerAssumption DEF IInv, TypeOK
  <1>1. CASE Accept
    <2>1. /\ Head(queue) \in Clients /\ Queued(Head(queue))
          /\ master = "accept" /\ master' \in {"shutdown", "fork"}
          /\ connfd' = Head(queue)
          /\ holders' = [holders EXCEPT ![Head(queue)] = {Master}]
          /\ child' = child
      BY <1>1 DEF Accept, Queued
    <2>2. Head(queue) \notin Children
      BY <2>1 DEF QueueInv, Children
    <2>3. Children' = Children
      BY <2>1 DEF Children
    <2>4. \A c \in Clients : ~HandingOver(c) /\ (HandingOver(c)' <=> c = Head(queue))
      BY <2>1 DEF HandingOver
    <2>5. HoldersInv'
      BY <2>1, <2>2, <2>3, <2>4 DEF HoldersInv
    <2> QED BY <2>1, <2>2, <2>3, <2>5 DEF ForkInv
  <1>2. CASE Fork
    <2>1. /\ \A c \in Clients : HandingOver(c)' <=> HandingOver(c)
          /\ Children' = Children \cup {connfd}
          /\ HandingOver(connfd) /\ connfd \notin Children /\ connfd \in Clients
          /\ holders' = [holders EXCEPT ![connfd] = @ \cup {connfd}]
      BY <1>2 DEF Fork, HandingOver, Children, ForkInv
    <2> QED BY <1>2, <2>1 DEF HoldersInv, ForkInv, Fork
  <1>10. CASE Shutdown
    <2>1. /\ \A c \in Clients : HandingOver(c)' <=> HandingOver(c)
          /\ Children' = Children
          /\ master = "shutdown" /\ UNCHANGED <<holders, connfd>>
      BY <1>10 DEF Shutdown, HandingOver, Children
    <2> QED BY <2>1 DEF HoldersInv, ForkInv
  <1>3. ASSUME Exit PROVE HoldersInv' /\ ForkInv'
    <2>1. /\ \A c \in Clients : ~HandingOver(c)'
          /\ Children' = Children
          /\ master' = "gone"
          /\ holders' = [c \in Clients |-> holders[c] \ {Master}]
      BY <1>3 DEF Exit, HandingOver, Children
    <2> QED BY <2>1 DEF HoldersInv, ForkInv
  <1>4. CASE CloseConn
    <2>1. /\ \A c \in Clients : ~HandingOver(c)' /\ (HandingOver(c) <=> c = connfd)
          /\ Children' = Children
          /\ master' = "accept"
          /\ holders' = [holders EXCEPT ![connfd] = @ \ {Master}]
      BY <1>4 DEF CloseConn, MasterCloses, HandingOver, Children
    <2> QED BY <2>1 DEF HoldersInv, ForkInv
  <1>5. CASE Reap
    <2>1. /\ \A c \in Clients : HandingOver(c)' <=> HandingOver(c)
          /\ Children' = Children
          /\ UNCHANGED <<holders, master, connfd>>
      BY <1>5 DEF Reap, HandingOver, Children
    <2> QED BY <2>1 DEF HoldersInv, ForkInv
  <1>6. CASE Start
    <2>1. /\ \A c \in Clients : ~HandingOver(c)' /\ ~HandingOver(c)
          /\ Children' = Children
          /\ master' = "accept" /\ UNCHANGED holders
      BY <1>6 DEF Start, HandingOver, Children
    <2> QED BY <2>1 DEF HoldersInv, ForkInv
  <1>7. CASE UNCHANGED <<child, master, connfd, holders>>
    BY <1>7 DEF HoldersInv, ForkInv, HandingOver, Children
  <1>8. ASSUME NEW c \in Clients, ChildStart(c) PROVE HoldersInv' /\ ForkInv'
    <2>1. Children' = Children /\ UNCHANGED <<master, connfd, holders>>
      BY <1>8 DEF ChildStart, Children
    <2> QED BY <2>1 DEF HoldersInv, ForkInv, HandingOver
  <1>9. ASSUME NEW c \in Clients, c \in Children, ChildEnds(c) PROVE HoldersInv' /\ ForkInv'
    <2>1. /\ Children' = Children \ {c} /\ UNCHANGED <<master, connfd>>
          /\ holders' = [holders EXCEPT ![c] = @ \ {c}]
      BY <1>9 DEF ChildEnds, Children
    <2> QED BY <2>1 DEF HoldersInv, ForkInv, HandingOver
  <1> QED
    BY <1>1, <1>2, <1>3, <1>4, <1>5, <1>6, <1>7, <1>8, <1>9, <1>10
       DEF Next, vars, MasterStep, Signal, ForkError, ShutdownError, SigChld, AcceptInterrupted,
           Interrupt, Kill, ReadError, ResponseReturns, ChildKilled, Children,
           Connect, Refuse, Leave

LEMMA ListenersStep ==
  ASSUME IInv, [Next]_vars
  PROVE  ListenersInv'
  <1> USE ServerAssumption DEF IInv, TypeOK
  <1>1. CASE Accept
    BY <1>1 DEF Accept, ListenersInv
  <1>2. CASE Fork
    <2>1. child[connfd] # "born" /\ master = "fork"
      BY <1>2 DEF Fork, ForkInv, Children
    <2> QED BY <1>2, <2>1 DEF Fork, ListenersInv
  <1>3. ASSUME Exit PROVE ListenersInv'
    BY <1>3, StopListeningFacts DEF Exit, ListenersInv
  <1>4. CASE CloseConn
    BY <1>4 DEF CloseConn, ListenersInv
  <1>5. CASE Reap
    BY <1>5 DEF Reap, ListenersInv
  <1>10. CASE Shutdown
    BY <1>10 DEF Shutdown, ListenersInv
  <1>6. CASE Start
    BY <1>6 DEF Start, ListenersInv
  <1>7. CASE UNCHANGED <<child, master, listeners>>
    BY <1>7 DEF ListenersInv
  <1>8. ASSUME NEW c \in Clients, ChildStart(c) PROVE ListenersInv'
    BY <1>8, StopListeningFacts DEF ChildStart, ListenersInv
  <1>9. ASSUME NEW c \in Clients, c \in Children, ChildEnds(c) PROVE ListenersInv'
    BY <1>9, StopListeningFacts DEF ChildEnds, ListenersInv
  <1> QED
    BY <1>1, <1>2, <1>3, <1>4, <1>5, <1>6, <1>7, <1>8, <1>9, <1>10
       DEF Next, vars, MasterStep, Signal, ForkError, ShutdownError, SigChld, AcceptInterrupted,
           Interrupt, Kill, ReadError, ResponseReturns, ChildKilled, Children,
           Connect, Refuse, Leave

-----------------------------------------------------------------------------
(* The descriptor bookkeeping is an invariant of the five servers.        *)
THEOREM Invariance == Spec => []IInv
  <1>1. ASSUME IInv, [Next]_vars PROVE IInv'
    BY <1>1, TypeStep, QueueStep, HoldersStep, ListenersStep DEF IInv
  <1> QED BY InitInv, <1>1, PTL DEF Spec

THEOREM TypeCorrect == Spec => []TypeOK
  BY Invariance, PTL DEF IInv

(* A connection is open at the server exactly while its child lives or it  *)
(* is being handed over: ConnectionOwned for every number of clients.      *)
THEOREM Owned == Spec => []ConnectionOwned
  <1>1. IInv => ConnectionOwned
    BY DEF IInv, HoldersInv, ConnectionOwned
  <1> QED BY <1>1, Invariance, PTL

(* After the end of the master only children that have not yet closed it   *)
(* hold the listening socket.                                              *)
THEOREM Released == Spec => []PortReleased
  <1>1. IInv => PortReleased
    BY DEF IInv, ListenersInv, PortReleased
  <1> QED BY <1>1, Invariance, PTL
=============================================================================
