----------------------------- MODULE ForkServer -----------------------------
(***************************************************************************)
(* The concurrent servers: the master accepts a connection, forks a child  *)
(* that serves it, and closes its own descriptor.  They differ in the      *)
(* signals they handle, and one of them in what it does first:             *)
(*   "none"  exercise3/server.c and exercise4/echoserver.c: nothing        *)
(*   "reap"  exercise4/server.c: sig_chld waits for all ended children     *)
(*   "exit"  exercise5/q3-server.c: sig_chld does so and exits             *)
(*   "int"   break-exercise/client.c: sig_int returns                      *)
(*   "shut"  exercise5/q4-server.c: sig_int exits; the master shuts down   *)
(*           both directions of a connection before it forks               *)
(* The handlers are installed with SA_RESETHAND and without SA_RESTART.    *)
(*                                                                         *)
(* A connection is named by its client.  What is sent over it is in        *)
(* StreamEcho and Response; here a child ends when its read fails or it is *)
(* killed.  On an end of file a child of break-exercise returns, and the   *)
(* others go on reading (server.c:71-79), so they stay.                    *)
(***************************************************************************)
EXTENDS Naturals, Sequences, FiniteSets

CONSTANTS
  Clients,
  Master,       \* the master process
  Handlers,     \* the programs, see above
  BACKLOG,      \* LISTEN_BACKLOG: connections that wait to be accepted
  ProcLimit,    \* children, ended ones included, that fork allows
  MaxStarts,    \* bound of the model: how often the server is started
  CanBeKilled   \* TRUE: the master may be killed from outside

ASSUME ServerAssumption ==
  /\ IsFiniteSet(Clients) /\ Master \notin Clients
  /\ Handlers \subseteq {"none", "reap", "exit", "int", "shut"}
  /\ BACKLOG \in Nat \ {0} /\ ProcLimit \in Nat /\ MaxStarts \in Nat \ {0}
  /\ CanBeKilled \in BOOLEAN

VARIABLES
  handler,    \* which of the programs is run: its way with signals
  client,     \* "idle", "open", "closed", "aborted", "reset" or "refused"
  queue,      \* the connections that accept has not returned yet
  master,     \* it is at "accept", "shutdown", "fork", "close" or "gone"
  connfd,     \* the connection the master has just accepted
  child,      \* "none", "born", "serving", "zombie" or "reaped"
  holders,    \* per connection, the processes that have it open
  listeners,  \* the processes that have the listening socket open
  caught,     \* sig_chld, or the sig_int that returns, is installed
  pending,    \* a SIGCHLD is to be delivered to the master
  starts      \* history: how often the server was started

vars == <<handler, client, queue, master, connfd, child, holders, listeners,
          caught, pending, starts>>

Installs == handler \in {"reap", "exit", "int"}

Init ==
  /\ handler \in Handlers
  /\ client = [c \in Clients |-> "idle"]
  /\ queue = <<>>
  /\ master = "accept"
  /\ connfd \in Clients
  /\ child = [c \in Clients |-> "none"]
  /\ holders = [c \in Clients |-> {}]
  /\ listeners = {Master}
  /\ caught = Installs
  /\ pending = FALSE
  /\ starts = 1

Queued(c) == \E k \in 1 .. Len(queue) : queue[k] = c

Children == {c \in Clients : child[c] \in {"born", "serving"}}

Zombies == {c \in Clients : child[c] = "zombie"}
-----------------------------------------------------------------------------
(* The kernel completes a connection while the queue has room, and resets  *)
(* the queued ones when the last process closes the listening socket.      *)
Connect(c) ==
  /\ client[c] = "idle"
  /\ listeners # {}
  /\ Len(queue) < BACKLOG
  /\ client' = [client EXCEPT ![c] = "open"]
  /\ queue' = Append(queue, c)
  /\ UNCHANGED <<master, connfd, child, holders, listeners, caught, pending, starts, handler>>

Refuse(c) ==
  /\ client[c] = "idle"
  /\ listeners = {}
  /\ client' = [client EXCEPT ![c] = "refused"]
  /\ UNCHANGED <<queue, master, connfd, child, holders, listeners,
                  caught, pending, starts, handler>>

(* The client closes its end, or aborts with data unread.                  *)
Leave(c) ==
  /\ client[c] = "open"
  /\ \E how \in {"closed", "aborted"} : client' = [client EXCEPT ![c] = how]
  /\ UNCHANGED <<queue, master, connfd, child, holders, listeners,
                  caught, pending, starts, handler>>

StopListening(p) ==
  /\ listeners' = listeners \ {p}
  /\ IF listeners' = {}
     THEN /\ queue' = <<>>
          /\ client' = [c \in Clients |->
                          IF Queued(c) /\ client[c] = "open" THEN "reset" ELSE client[c]]
     ELSE UNCHANGED <<queue, client>>
-----------------------------------------------------------------------------
Accept ==
  /\ master = "accept"
  /\ queue # <<>>
  /\ connfd' = Head(queue)
  /\ queue' = Tail(queue)
  /\ holders' = [holders EXCEPT ![Head(queue)] = {Master}]
  /\ master' = IF handler = "shut" THEN "shutdown" ELSE "fork"
  /\ UNCHANGED <<client, child, listeners, caught, pending, starts, handler>>

(* handle_err, exit(0) in sig_chld, or a kill: the kernel closes what the  *)
(* master had open, and ended children are no longer waited for.           *)
Exit ==
  /\ master' = "gone"
  /\ holders' = [c \in Clients |-> holders[c] \ {Master}]
  /\ child' = [c \in Clients |-> IF child[c] = "zombie" THEN "reaped" ELSE child[c]]
  /\ pending' = FALSE
  /\ StopListening(Master)
  /\ UNCHANGED <<connfd, caught, starts, handler>>

Shutdown ==
  /\ master = "shutdown"
  /\ client[connfd] # "aborted"
  /\ master' = "fork"
  /\ UNCHANGED <<client, queue, connfd, child, holders, listeners,
                  caught, pending, starts, handler>>

(* ENOTCONN: the client has reset the connection already.                  *)
ShutdownError ==
  /\ master = "shutdown"
  /\ client[connfd] = "aborted"
  /\ Exit

(* fork gives the child all descriptors of the master.                     *)
Fork ==
  /\ master = "fork"
  /\ Cardinality(Children \cup Zombies) < ProcLimit
  /\ child' = [child EXCEPT ![connfd] = "born"]
  /\ holders' = [holders EXCEPT ![connfd] = @ \cup {connfd}]
  /\ listeners' = listeners \cup {connfd}
  /\ master' = "close"
  /\ UNCHANGED <<client, queue, connfd, caught, pending, starts, handler>>

ForkError ==
  /\ master = "fork"
  /\ Cardinality(Children \cup Zombies) >= ProcLimit
  /\ Exit

(* Slip: the master keeps the descriptor.                                  *)
MasterCloses_Nothing == {}
MasterCloses == {Master}

CloseConn ==
  /\ master = "close"
  /\ holders' = [holders EXCEPT ![connfd] = @ \ MasterCloses]
  /\ master' = "accept"
  /\ UNCHANGED <<client, queue, connfd, child, listeners, caught, pending, starts, handler>>
-----------------------------------------------------------------------------
(* sig_chld runs between two steps of the master.                          *)
Reap ==
  /\ child' = [c \in Clients |-> IF child[c] = "zombie" THEN "reaped" ELSE child[c]]
  /\ caught' = FALSE    \* SA_RESETHAND
  /\ pending' = FALSE
  /\ UNCHANGED <<client, queue, master, connfd, holders, listeners, starts, handler>>

SigChld ==
  /\ pending
  /\ \/ handler = "reap" /\ Reap
     \/ handler = "exit" /\ Exit

(* accept was waiting: it fails with EINTR after the handler has returned, *)
(* and the master takes that for an error.                                 *)
AcceptInterrupted ==
  /\ pending
  /\ handler = "reap"
  /\ master = "accept"
  /\ queue = <<>>
  /\ Exit

(* SIGINT while sig_int of break-exercise is installed: it returns, and a  *)
(* master that waited in accept then takes EINTR for an error.             *)
Interrupt ==
  /\ handler = "int" /\ caught
  /\ master # "gone"
  /\ \/ /\ caught' = FALSE
        /\ UNCHANGED <<client, queue, master, connfd, child, holders,
                       listeners, pending, starts, handler>>
     \/ master = "accept" /\ queue = <<>> /\ Exit

(* Any other signal from outside; a second SIGINT, and the first one of    *)
(* exercise5/q4-server.c, are among them.                                  *)
Kill == CanBeKilled /\ master # "gone" /\ Exit

(* bind succeeds once no process has a socket of this port.  Connections   *)
(* in TIME_WAIT, which keep it waiting too without SO_REUSEADDR            *)
(* (q3-server.c:44), are a timer of the kernel and left out.               *)
Start ==
  /\ master = "gone"
  /\ starts < MaxStarts
  /\ listeners = {} /\ \A c \in Clients : holders[c] = {}
  /\ master' = "accept"
  /\ listeners' = {Master}
  /\ caught' = Installs
  /\ starts' = starts + 1
  /\ UNCHANGED <<client, queue, connfd, child, holders, pending, handler>>
-----------------------------------------------------------------------------
(* Slip: the child keeps the listening socket.                             *)
ChildStart_Listens(c) ==
  /\ child[c] = "born"
  /\ child' = [child EXCEPT ![c] = "serving"]
  /\ UNCHANGED <<client, queue, master, connfd, holders, listeners,
                  caught, pending, starts, handler>>

ChildStart(c) ==
  /\ child[c] = "born"
  /\ child' = [child EXCEPT ![c] = "serving"]
  /\ StopListening(c)
  /\ UNCHANGED <<master, connfd, holders, caught, pending, starts, handler>>

(* A child of this master that ends is a zombie and raises SIGCHLD.        *)
ChildEnds(c) ==
  /\ child' = [child EXCEPT ![c] = IF master = "gone" THEN "reaped" ELSE "zombie"]
  /\ pending' = (pending \/ (master # "gone" /\ caught /\ handler # "int"))
  /\ holders' = [holders EXCEPT ![c] = @ \ {c}]
  /\ StopListening(c)
  /\ UNCHANGED <<master, connfd, caught, starts, handler>>

(* read fails with ECONNRESET and handle_err exits.                        *)
ReadError(c) ==
  /\ child[c] = "serving"
  /\ client[c] = "aborted"
  /\ ChildEnds(c)

(* Q, or the end of the file.                                              *)
ResponseReturns(c) ==
  /\ handler = "int"
  /\ child[c] = "serving"
  /\ client[c] \in {"open", "closed"}
  /\ ChildEnds(c)

ChildKilled(c) == c \in Children /\ ChildEnds(c)
-----------------------------------------------------------------------------
MasterStep == Accept \/ Shutdown \/ ShutdownError \/ Fork \/ ForkError \/ CloseConn

Signal == SigChld \/ AcceptInterrupted

Next ==
  \/ MasterStep \/ Signal \/ Interrupt \/ Kill \/ Start
  \/ \E c \in Clients :
        \/ Connect(c) \/ Refuse(c) \/ Leave(c)
        \/ ChildStart(c) \/ ReadError(c) \/ ResponseReturns(c) \/ ChildKilled(c)

Spec == Init /\ [][Next]_vars

(* A process that can go on does so, and a signal is delivered.            *)
Fairness ==
  /\ WF_vars(MasterStep)
  /\ WF_vars(Signal)
  /\ \A c \in Clients : WF_vars(ChildStart(c)) /\ WF_vars(ReadError(c))

FairSpec == Spec /\ Fairness
-----------------------------------------------------------------------------
TypeOK ==
  /\ handler \in Handlers
  /\ client \in [Clients -> {"idle", "open", "closed", "aborted", "reset", "refused"}]
  /\ queue \in Seq(Clients) /\ Len(queue) <= BACKLOG
  /\ master \in {"accept", "shutdown", "fork", "close", "gone"}
  /\ connfd \in Clients
  /\ child \in [Clients -> {"none", "born", "serving", "zombie", "reaped"}]
  /\ holders \in [Clients -> SUBSET (Clients \cup {Master})]
  /\ listeners \in SUBSET (Clients \cup {Master})
  /\ caught \in BOOLEAN /\ pending \in BOOLEAN
  /\ starts \in 1 .. MaxStarts

(* The server's end of a connection is open exactly as long as its child   *)
(* lives, but for the time the master needs to hand it over (server.c:     *)
(* 42-54): no other child and no later step of the master keeps it, so the *)
(* client of an ended child sees the end of the file, and a connection     *)
(* with a living child survives the end of the master.                     *)
HandingOver(c) == connfd = c /\ master \in {"shutdown", "fork", "close"}

ConnectionOwned ==
  \A c \in Clients : holders[c] # {} <=> c \in Children \/ HandingOver(c)

(* Once the master is gone only a child that has not yet come to its       *)
(* close(listenfd) (server.c:49) keeps the port open for connections that  *)
(* nobody will accept.                                                     *)
PortReleased ==
  master = "gone" /\ listeners # {} => \E c \in listeners : child[c] = "born"

(* A client that waits in the queue does not wait for ever: it is accepted *)
(* or reset, whatever becomes of the master (server.c:40-55).              *)
NobodyWaits == \A c \in Clients : Queued(c) ~> ~Queued(c)

(* "forking a new child process to serve each new client"                  *)
(* (exercise3/problems.txt:66-67): every client the server lets connect    *)
(* gets a child.                                                           *)
EachClientServed == \A c \in Clients : Queued(c) ~> child[c] # "none"
=============================================================================
