# TLA+ models of the network-programming course code

The repository holds the exercise code of one student: C programs for a course
on network programming (`src/network-programming-2013`), shell scripts for a
Linux course (`src/linux-fun-2012`), the LaTeX source of a thesis, and the
vendored sources of Stevens' books. There is no library and no test suite; what
the programs promise is in the exercise texts (`problems.txt`,
`question-3.txt`) beside them. The core of the code is the programs in which
several processes or threads meet: over a mapped file and a record lock, over
mutexes and a condition variable, over pipes and FIFOs, over TCP and UDP. These
programs are what most modules here are about. Of the vendored sources one
subsystem is modelled, the message queues of `my_pxmsg_mmap`, because it is a
complete concurrent data structure in itself; the rest of them is example code
of the text books.

Contents: 1 inventory, 2 modules and their correspondence to the code, 3 runs
and bounds, 4 what the programs get wrong, 5 fairness, 6 what is proved,
7 what is only model-checked, 8 preconditions and abstractions, 9 not modelled,
10 plan.

Paths below are relative to `src/network-programming-2013` unless they say
otherwise.

## 1. Inventory

| Component | Source | State | Operations | Hard behaviour |
|---|---|---|---|---|
| Turn-taking over a shared file | `exercise4/incr.c`, `exercise4/lock.c` | the file (exists, length), an int counter, a table of characters, the owner of the record lock | stat/open/initialise, lock, test for a full table and for the turn, nap, store, increment, unlock | start-up race, kill between store and increment, stale test after the nap, SIGBUS on a short file |
| Counter and table in shared memory | `exercise3/question-4.c`, `question-5.c`, `lock.c` | the path and the files it led to, their counters, the lock of each file | stat/create/initialise, open, lock, load, store, print, put a character, unlock, unlink | start-up race, unlink while others wait, load/store torn by a kill, stores into the counter itself |
| Producers and consumers | `exercise6/unpv22e/mutex/prodcons6.c` | array, indices, two mutexes, a condition variable, the gate `nconsumer`, counts per thread | produce, consume, main | lost wake-ups, spinning consumers, an announcement under another mutex than the store |
| Line doubler and echo over TCP | `exercise3/{client,server}.c`, `exercise4/client-url.c`, `exercise4/echoserver.c` and others | the byte stream in both directions, the buffers of client and child | `str_cli`/`cli_str`, `str_echo` | reads that return a part of a reply, or two replies |
| Forking servers | `exercise3/server.c`, `exercise4/server.c`, `exercise4/echoserver.c`, `exercise5/q3-server.c`, `exercise5/q4-server.c`, `break-exercise/client.c` | accept queue, children, descriptors held by each process, handlers of SIGCHLD and SIGINT | accept, shutdown, fork, close, signal handlers, end of a child, kill and restart | EINTR, one-shot handlers, zombies against the process limit, descriptors that outlive the master, clients that abort while they are queued |
| Line doubler over UDP | `exercise4/udp-client.c`, `udp-server.c` | datagrams under way, two buffers | send, two receives; receive, two sends | loss, doubling, reordering |
| Line doubler over a pipe | `exercise2/question-6.c`, `exercise3/question-1-pipe.c`, `doubler.c` | pipe, who holds which end, status of the child | fork, close, read/write loops, wait | a descriptor left open, a full pipe, a child that dies |
| Converter over FIFOs | `exercise3/question-2.c`, `converter.c` | two names, the FIFOs behind them, who waits in which open | mkfifo, fork, open, convert, wait, print, unlink | opens that must meet, instances on the same names, clean-up |
| Bulk transfer | `exercise4/client.c`, `exercise4/server.c` | count of writes, clock flag | write loop, `read_data` | division by a block size of zero, the last block |
| Pipeline of three programs | `exercise3/question-3.txt`, `reader.c`, `converter.c`, `doubler.c` | two FIFOs | one chunk passed on | opens that must meet |
| Dialogue with the UNIX_TL server | `break-exercise/client.c` | position in the dialogue, pointer into the command | `str_cli`, `response`, accept loop, SIGINT | one read per message, state kept between commands |
| Shutdown and accept queue | `exercise5/q4-client.c`, `q5-*.c` | the two directions of a connection | connect, shutdown, write | a write after a shutdown |
| Measurements | `exercise6/q1-client.c` and others | a size | search loops | off by one |
| Single processes, signals, fork and exec | `exercise1`, `exercise2` | file descriptors | copy loops, handlers, exec | zombies |
| Temperature scripts | `src/linux-fun-2012/week3` to `week5` | the extreme so far, its file and its day | running extremes over the readings | start values, the last day, `elif` on the minimum |
| Other scripts | `src/linux-fun-2012/week2`, `week3` | files | pipelines | |
| Message queues in a mapped file (vendored) | `exercise6/unpv22e/my_pxmsg_mmap` | the file with its user-execute bit; two linked lists of message headers, `mq_curmsgs`, `mqh_nwait`, `mqh_pid`; a mutex and a condition variable shared by processes | `mq_open`, `mq_send`, `mq_receive`, `mq_notify`, `mq_close`, `mq_unlink` | who initialises, processes that die while they do, an unlink in between, one condition variable for both sides |
| Vendored, the rest | `exercise5/unpv13e`, `exercise6/unpv22e` | | | third-party code, apart from the files the author changed |

How they interact. Programs of one exercise are started from the shell and meet
in operating-system objects with fixed names or ports: the lock file and the
data file, the FIFOs, the port of the server. `ForkServer` and `StreamEcho` are
two views of the same servers: the first has all processes and connections and
no bytes, the second one connection and all its bytes. A child of the first,
once it is `serving`, runs the server's side of the second; a child of
break-exercise runs `response`, a child of the bulk transfer `read_data`. Both
are functions of what their reads return, and are defined as such.

What makes each component correct:

- Turn-taking: mutual exclusion; the counted characters alternate; nothing that
  was counted is overwritten, whoever is killed; no store outside of the table;
  both processes end.
- Counter: mutual exclusion per file; no increment lost; no number printed
  twice; all processes use the same file; the table is not the counter.
- Producers and consumers: every item is handed over once and in order; no
  wake-up is lost; the printed totals are those of the items; the program ends.
- Echo and doubler: what is printed is the lines of the input, each whole and
  as often as it should be, before the next one is read; the client ends.
- Servers: every client that connects is served; a connection lives as long as
  its child; once the children of a dead master have closed what they inherited,
  no process keeps a restart from the port (section 8).
- Message queues: no process uses a file before it is initialised; messages
  leave by priority and, within one, in order; nobody waits for what is there.
- The pure parts: `response` answers a command with its own bytes; the transfer
  sends what its command line says and times it once; the scripts name the
  extremes they look for.
- Pipe and FIFOs: nothing lost or reordered; both sides end; nothing left over;
  instances do not disturb each other.

`PROJECT.json` lists every hazard at its source line with the properties that
would notice it, or with a note that says why none does.

## 2. Modules

| Module | Models | Composed from |
|---|---|---|
| `FcntlLock` | `exercise4/lock.c`: one fcntl write lock over a whole file | |
| `Alternation` | abstract: an append-only log in which neighbours differ | |
| `TurnTaking` | `exercise4/incr.c` | extends `FcntlLock`, implements `Alternation` |
| `MCTurnTaking` | values of the function constants for the run | extends `TurnTaking` |
| `HandOff` | abstract: numbers are stored in order and each is taken once | |
| `ProdCons` | `prodcons6.c` | implements `HandOff` |
| `StandardStreams` | the input, read in chunks, and the output of the doublers and echo clients | |
| `TcpStream` | external: one direction of a stream socket | |
| `LineEcho` | abstract: every line is printed `copies` times before the next is read | |
| `StreamEcho` | `str_cli`, `cli_str`, `str_echo` over one connection | extends `StandardStreams`, two streams of `TcpStream`, implements `LineEcho` |
| `UdpDoubler` | `udp-client.c`, `udp-server.c` and the network between | implements `LineEcho` |
| `ForkServer` | the masters of the concurrent servers, five kinds | |
| `PriorityQueue` | abstract: a bounded queue sorted by priority, first in first out within one | |
| `MessageQueue` | `my_pxmsg_mmap`: `mq_open` to `mq_unlink` | its list of each file implements `PriorityQueue` |
| `MCMessageQueue` | symmetry of processes and files for the run | extends `MessageQueue` |
| `Response` | `response` of `break-exercise/client.c` | |
| `Measurements` | the loops of `exercise4/{client,server}.c` and `exercise6/q1-client.c` | |
| `Temperatures` | the temperature scripts | |
| `Algorithms` | the inputs, and what the three modules above should compute | extends the three |
| `SharedCounter` | `question-4.c` (`NLoop = 0`) and `question-5.c` | |
| `PipeDoubler` | parent and child on a pipe | extends `StandardStreams` |
| `FifoConverter` | instances of `question-2.c` and their converters | |
| `*_proofs` | the theorems about the module named; those of `PipeDoubler` are in `StreamEcho_proofs` and those of `Algorithms` in `ProdCons_proofs`, with the lemmas they share | extend it and `TLAPS` |

The step of a model is one system call, or one access to memory that other
processes or threads can see; a process can be killed, or another one can run,
between any two steps. Operators keep the names of the C functions and
variables where they have one. Definitions whose name ends in an underscore and
a word (`LastIsMine_NextCell`, `my_lock_wait_NoWait`) are slips: what the operator of the
same name would be with a plausible mistake in the code. No specification uses
one; each property is shown to notice its slip.

**TurnTaking.** `counter` and `table` are the mapped memory, `exists` and
`flen` the file behind it, `i` each process's local variable (first the result
of `stat`, as in the code, then a loop index). `Stat`, `Open`, `ZeroCounter`,
`ZeroCell`, `Mmap` are incr.c:40-62; `Lock`, `ExitFull`, `NotFull`, `NotMyTurn`,
`LockAgain`, `MyTurn`, `Store`, `Incr`, `Unlock` are the loop. `BusError` is an
access to a page of which the file has no byte; `warm` remembers whether the
file was complete when the processes were started; `WriteBack` is the kernel
zeroing what lies behind the end of the file in its last page, the cells a third
process may store into.

**ProdCons.** Taking a mutex and what is done under it are two actions.
`CondWait` gives the mutex up and sleeps, a signal moves one sleeper to
`relock`, and `WakeUnsignalled` is the wake-up without a signal that POSIX
allows. The gate is `nconsumer`: a consumer that finds it closed unlocks and
tries again (`GateClosed`). `Create` stands for `pthread_create` in main, `Exit`
for the joins, the totals and the exit.

**StandardStreams, StreamEcho, UdpDoubler.** The clients read their input in
chunks (`input`, `line`, `ReadStdin`) and print chunks (`stdout`). Bytes are
pairs of a line number and a position, so that a lost, doubled or misplaced byte
can be told; `Junk` is what a buffer held before. The variable `copies` chooses
the program: 2 is the doubler, 1 the echo. `Arrive...` moves a piece of a
segment to the reader; the programs in the constant `Whole` get their segments
unsplit, but may still get several by one read. `split` remembers that a reply
arrived in pieces, for the property that needs it not to. In `UdpDoubler` the
network is a bag of datagrams per direction; a received datagram overwrites only
its own length of `recvline`, and the client prints the length it sent.

**ForkServer.** A connection is named by its client. `holders` and `listeners`
are the processes that have a descriptor of the connection, or of the listening
socket, open. The variable `handler`
(from the constant `Handlers`) is the program: no handler at all, a SIGCHLD
handler that reaps, one that reaps and exits, a SIGINT handler that returns
(`break-exercise`), and the shutdown experiment, which shuts a connection down
before it forks. The handlers are installed with `SA_RESETHAND` and without
`SA_RESTART`, so `caught` becomes false when the handler has run, and a signal
in `accept` lets it return `EINTR`, which the code takes for an error. A client
may abort: its child's read then fails, and if it is still queued or being
accepted the `shutdown` fails (`ShutdownError`).

**SharedCounter.** Files are numbered in the order in which they are created;
`link` is the one the path leads to. `owners[f]` is the set of lock owners (it
has at most one member; this is a theorem, not a type). `reg` is the register
between the load and the store of `(*ptr)++`. `touched` remembers the files into
whose counter a character was stored. A character put through
`pchar + *ptr` changes the counter's own bytes when `*ptr` is 1 to 3, and faults
beyond the page.

**PipeDoubler.** Its specification is `PipeSpec`, as it shares its input and
output with `StreamEcho`. The readers and writers of the pipe are sets of
processes, so that the end of file and `SIGPIPE` depend on every descriptor that
was closed or forgotten. Capacity is small, so that the parent blocks. The
variable `status` is what `waitpid` fills in: question-1-pipe.c reports it by
`pr_exit`, which tells a normal end with status 0 from one with status 1 and
from a signal; question-6.c passes `NULL` and reports nothing. fork, dup2,
execve (`ForkFails`, `ExecFails`) and a write of the doubler (`WriteFails`) may
be refused; the process that calls then exits with status 1.

**FifoConverter.** A FIFO is named by the instance that made it; a name leads to
a FIFO or to nothing. An open waits (`at`) until the other end is opened
(`Meet`). `Refused` is `err_quit` after any call that the system refuses, from
fork on: it exits and cleans nothing up.

**MessageQueue.** `lists[f]` is `mqh_head`, `mqh_free` and the `msg_next` links
over the slots of a file, `state[f]` its user-execute bit. The steps of `mq_open`
are single system calls (`Create`, `CreateFails`, `Initialise`, `InitFails`,
`Open`, `Stat`), so that others may unlink, create and die in between; what a
call does under `mqh_lock` up to its end or to `pthread_cond_wait` is one
action. A blocked call is resumed by `SendResumes`, `ReceiveResumes`, or goes
back to wait (`WaitsOn`). A process does not die inside the mutex: the mutex is
not robust, and everybody else would stop. `crowded` remembers the files on
which two processes were blocked in the same call.

**Response, Measurements, Temperatures.** A function of the code is a fold of
its loop body over what its reads return, or over the readings. In `Response`
byte k of command c is `<<c, k>>`, so that an answer shows from which command
each of its bytes comes; `Uninitialised` is `byte` before its first assignment,
and what is answered from it is `Undefined`. An F command without a path and a
port, or whose file is not there, ends the child before an answer, and one whose
transfer fails after it; which of these happens is in the command's `ends`, as
it depends on text, file system and peer. `nuls` is where `strtok` cuts the
buffer. The initial states of `Algorithms` are the inputs, and no step changes
them (`AlgorithmsSpec`).

## 3. Runs

All runs together take a few minutes. Deadlock is not checked where the
programs end or a server waits for clients that need not come; where a process
must get to its end this is a liveness property of a run.

| Run | Shows | Bounds |
|---|---|---|
| `turns` | the lock excludes and the counter overshoots by at most one per further process, from every start; on a complete file: `InTurns`, refinement of `Alternation`, and two processes with equal loop numbers both end (`BothFinish`) | up to 3 processes, two with the same character, loops 2, 2 and 1; 4 cells on pages of 2; no file, or one with every prefilled table; kills anywhere, SIGBUS |
| `prodcons` | the accounting, the gate, wake-ups, totals, the refinement of `HandOff`, main exits | 2 producers, 2 consumers, 3 items |
| `echo` | no byte lost or reordered (`NothingLost`), the next line is read after the entire reply when it is not split (`EntireReply`), refinement of `LineEcho` while replies are not split and lines are short enough, the echo client ends | echo and doubler, 3 lines of 1 to 4 bytes, `MAXLINE` 4 |
| `servers` | ownership of connections, release of the port, nobody waits in the queue for ever | all five kinds, 3 clients, backlog 2, process limit 2, kills, one restart |
| `counter` | the lock; the first file loses no increment and gives no number twice until a character is stored into its counter | 3 processes, 4 files, one round of `question-5.c`, kills, faults |
| `udp` | lines never mixed without doubled datagrams, `Outstanding`, the client ends unless a datagram is lost | 3 lines of 1 to 3 bytes, `MAXLINE` 3, any losses, one datagram doubled |
| `pipe` | nothing lost but at most the chunk in the hands of a child that dies, a normal end with status 0 is complete, the parent ends | 4 lines of 1 or 2 bytes, pipe of 3 bytes, buffer of 3; kills, refused calls |
| `fifo` | own FIFOs only, nothing left over by a parent that is neither killed nor refused a call, the winner is not disturbed and prints as many lines as it read | 2 instances, 0 to 2 lines, kills, refused calls |
| `mq` | the list is a priority queue, no descriptor of an uninitialised file, no lost wake-up | 3 processes, 2 files in turn, room for 2 messages, 2 priorities, 4 messages once the queue is open, 1 from a cold start, 2 looks at the bit; deaths, unlinks |
| `algorithms` | answers of `response`, writes and clock of the bulk transfer, the largest datagram, the extremes | every input: 3 commands of up to 3 pieces of 1 or 2 bytes, each outcome of an F command, `strtok` cutting at offset 2 or not (`Separators`); 12 bytes to send; 4 readings of 5 temperatures on 2 days |

Why the bounds are enough to be of interest. Two processes are what the
turn-taking exercise starts; the third process adds the overshoot and lets a
process store while two others initialise. A table of four cells has
the first cell (with the counter before it), middle cells and the last ones.
Pages of two separate the counter from cells the file may not have
yet. Two consumers have one in the gate and one that spins, and may overtake it;
three items let `nready` reach 2 and come back to 0. Lines of one byte up to the
buffer's size cover the comparisons with `MAXLINE`: up to half the buffer the
doubler is right, above it is not. Three clients on a backlog of two have one
that is being served, two in the queue, and one refused; two processes let fork
fail at the second child. Pipes hold less than the input, so that every process
blocks at least once. Room for two messages of two priorities has the first
and the last place a message can be put in, and the counts 0, 1 and full; a place
between two messages (`mq_send.c:67-76`) needs room for three and is covered by the
theorem `ImplementsPriorityQueue`; three processes have two on
one side of the condition variable; two files let the path change under a process
between its `open` and its `stat`. From a cold start one message is enough, since
what follows is the warm start. Three commands have one whose bytes an earlier one
placed, and one that must not find them; the five temperatures are the start
values of the scripts (0, 60, 70) and two between. `FirstSize` and `LastSize` are
50000 and 100000 in the code. In `counter` the number of files is one more than the
number of processes, so that nobody is held back by the bound `MaxFiles`; counter
values are those of bytes (`Char` 65 in the second byte gives more than 16640),
the page is a real one. The base of 3 lets the characters of the first file fall
behind its counter, while those of the files that follow fall into theirs.

Bounds of the models only: `MaxLines`, `MaxLen` (inputs), `MaxStarts` (restarts),
`MaxFiles`, `MaxDups`, `Capacity`, `Clients`, `Inst`, `File`, `MaxSent`, `MaxSentCold`,
and the constants of `Algorithms`. `SIZE`, `MAXLINE`, `BACKLOG`,
`Page`, `nitems`, `MaxMsg` and `MAX_TRIES` are constants of the programs with small
values.

## 4. Where the programs break their exercise text

Each of these runs checks one sentence of a text and TLC finds a behaviour of
the code that breaks it. They are listed with their quotations as findings in
`PROJECT.json`.

| Run | Property | What happens |
|---|---|---|
| `server_interrupted` | `EachClientServed` | accept returns EINTR and the master exits; who connects while a fresh child still listens is not served |
| `counter_tickets` | `AllTickets` | the slower creator zeroes a counter in use |

Other disagreements with the texts appear in the models as the conditions
under which a property of section 3 holds, or as actions that a property allows
for, without a run of their own:

- `exercise3/client.c:60`: one read may return both copies of a line, and the
  second read waits for ever (`exercise2/problems.txt:85-86` asks for each line
  twice); `EchoEnds` is about the echo client, and with one copy.
- `break-exercise/client.c:229` and `273`: an F command that is invalid, or whose file
  is not there, ends the child without an answer, and no later command is heard;
  `EchoAnswers` speaks of the commands up to it.
- `exercise3/question-1-pipe.c:64`: "normally exited" is also printed of a child that
  could not run the doubler or could not write; only status 0 means that the input
  was printed (`NormalIsComplete`).
- `exercise3/question-2.c:33`: when fork fails, or a later call, both FIFOs stay, and no
  later instance gets past `mkfifo`; `NothingLeft` excepts these parents and the
  killed ones.
- `break-exercise/client.c:201`: an E command that comes in one piece is answered
  with the length of an earlier one, and a second one in pieces is read to a
  stale place; `EchoAnswers` says exactly which are answered rightly.
- `break-exercise/client.c:169`: the first SIGINT in `accept` ends the server
  although `sig_int` returns (`Interrupt`).
- `exercise5/q4-server.c:57`: a client that resets its connection while it is
  queued ends the server for everybody (`ShutdownError`).
- `exercise4/client.c:54`: more bytes are sent than asked for unless the block
  size divides them (`FewestWrites`); a block size of zero divides by zero.
- `exercise6/q1-client.c:66`: the size printed as largest is one too many
  (`OneTooMany`).
- `week4/daily-max-redux.sh:18` and `daily-min-redux.sh:18`: a day whose extreme is
  the start value is not printed unless it is the last (`DailyExtremes`);
  `week5/max-temp.sh:25`: a first reading that is also the lowest is missed
  (`OnePass`).
- `my_pxmsg_mmap/mq_open.c:136`: `stat` looks at the path and not at the
  descriptor, so that a file that was unlinked and never initialised can be used
  once another creator has finished at the same path; `OpenedIsReady` asks that
  the path still leads to the file.
- `my_pxmsg_mmap/mq_send.c:83`: with two processes blocked in the same call
  wake-ups get lost (`crowded`). A receiver that is killed while it waits stays in
  `mqh_nwait`, so that nobody is notified any more; a sender that was blocked
  and finds the queue empty when it resumes does not notify either
  (`mq_send.c:34` is not looked at again).
- `exercise4/incr.c:49`: of two processes that create the table, the slower one
  clears characters that the faster has counted; `InTurns` is checked on a
  complete file only.
- `exercise4/client-url.c:72`: a reply in two pieces is not waited for;
  `EntireReply` and `IsLineEcho` hold while `split` is false.
- `exercise3/client.c:61`: with lines longer than half the buffer (`Fits`) the
  two copies are cut in the wrong place.
- `exercise3/server.c:71`: children that never end use up the processes
  (`ForkError`), and `exercise5/q3-server.c:108`: the end of a child
  ends the master (`SigChld`); the queued clients are reset then, which
  `NobodyWaits` counts as an answer.
- `exercise3/question-4.c:67`: a late starter gets another file; `FirstCounts` and
  `FirstTickets` speak of the first file.
- `exercise3/question-5.c:61`: the character is stored into the counter
  (`PutChar`); both properties hold until then (`touched`).
- `exercise4/udp-client.c:55`: a doubled datagram answers the next line, a lost one
  is waited for without end; `IsLineEcho` and `EndsUnlessLost` exclude them.
- `exercise2/question-6.c:60`: lines read from the pipe at once come out as one
  chunk, twice; `DoubledInOrder` is about chunks.
- `exercise3/converter.c:18` calls `tolower` where the text asks for upper case;
  `Completes` compares the number of lines only.

## 5. Fairness

- A process or thread that can take a step takes one in the end (weak fairness
  of its step): the scheduler's promise. Nothing is assumed of kills, restarts,
  clients that leave, loss, doubling, or wake-ups without a signal.
- `TurnTaking`: strong fairness of the two lock requests. The lock is free
  again and again while the others nap with it released (the nap is a `usleep`
  between unlock and the next lock), and an unlock wakes the waiters.
- `ProdCons`: strong fairness of taking a mutex. Consumers that find the gate
  closed spin through the mutex; POSIX does not promise that a mutex is fair, but
  the spinning thread is preempted, also while it does not hold the mutex, and
  each waiter has such a chance infinitely often. Without the assumption
  `MainExits` fails, and that is a property of the code: it may starve the one
  consumer that could make progress. Weak fairness of `Create` and `Exit` is
  main's.
- `StreamEcho`: weak fairness of the arrival of segments, because TCP
  retransmits as long as the connection lives. `UdpDoubler` assumes nothing of
  the network: a datagram that is not lost can be received.
- `ForkServer`: weak fairness of the master's own step and of the delivery of a
  pending signal, and of each child's start and read error.
- `PipeDoubler`, `FifoConverter`: weak fairness of each process.

## 6. What is proved

The theorems hold for every value of the constants that the named assumptions
allow (`NoneAssumption`, `TurnAssumption`, `ThreadAssumption`,
`ServerAssumption`, `QueueAssumption`, `InputAssumption`, `EchoAssumption`,
`PipeAssumption`, `UdpAssumption`, `AlgorithmsAssumption` and those of `SharedCounter`
and `FifoConverter`): finite sets of processes, natural sizes, values that differ from
the markers, and for `response` a buffer that holds the commands, without which `ptr`
leaves it. TLC evaluates each of them in the runs.

What needs an induction over data is proved by a smallest counterexample: a set of
natural numbers has a least member, a set of finite sets a smallest one
(`LeastNumber`, `MinimalSubset`, from the theorems on well-founded relations). The folds
of the library choose a function that satisfies an equation; that there is one is a
lemma (`FoldExists`), and from it come the values after every round, the sequences
`p` with `p[k]` made from `p[k - 1]` on which the inductions then go.

**TurnTaking_proofs.** The inductive invariant of every start is `TypeOK`,
`MutualExclusion` and `CounterBound`. The last one is needed even for the type
of the counter: the test for a full table is made before a nap and not again, so
only the number of processes that have passed it bounds the counter. For a
complete file (`warm`) it is joined by `WarmInv`: the file is complete and
stays so; the counted cells hold characters of processes; they are in turns; and
a process that found its turn still has it when it stores (`Fits`), because
it holds the lock. From this follow `TurnsAreKept`, `NothingUncounted` (no step
changes a counted character or takes the counter back) and
`TableIsLog` (each step appends to the log or leaves it); from the first
part, for all starts, `OneInside`, `CounterIsBounded` and `TwoStoreInTable` (with at
most two processes, the number of the exercise, no store is behind the table: a
third one's overshoot would be).

**ProdCons_proofs.** The inductive invariant joins to the properties of the run
two facts: `Owners` (who holds a mutex is where the code holds it, and nobody
else is) and `Values` (the array holds what was announced). `Accounting`
carries the main argument: stored = ready + taken + announced by the one
producer on its way, so that `nready` is zero exactly when the sleeper's signal
is still to come. `NoWakeupLost`, `ItemToCome`, `AccountingHolds`, `TypeCorrect`
follow, and `ImplementsHandOff` maps every step to a `Produce`, a `Consume` or a
stutter. For `TotalsAreRight` the sums over the threads are folds over a finite set,
of which one thread's count changes at a time; `CountInv` joins that the items
stored, or taken, are those that the threads have counted and those they have yet to
count (`Counted`), and that a thread only ends when none are left to it (`Ends`).

The loops of `Algorithms`, in the same module for the lemmas on folds.
`PrintsOneMore`: the sizes that `q1-client.c` tries grow by one up to one that
fails, or the last. `TransfersRight`: the clock of the server runs from the
first read that brings data and is printed once, however often the end of the
file is read. `ExtremesRight`: after each file a script knows the first one with
the extreme; a daily script knows that of the current day (`KnowsDay`), and what
it has printed are the lines of the days before. `AnswersRight`: after k
commands `ptr` is 0 and `byte` uninitialised, or `ptr` is positive and `byte`
the length of the last command that came in pieces (`PlaceKnown`); no byte in
the buffer belongs to a later command (`BufferKnown`); there is an answer for
each command that gets one, up to the Q or the F command that ends the session
(`Heard`), and those of E commands are right exactly where `EchoAnswers` says
(`AnswersKnown`). A command in pieces that is not the first leaves a hole behind
its first piece, and the byte in it is an older one: that is why `BufferKnown`
is needed. The NULs of `strtok` belong to no command and leave it true.

**ForkServer_proofs.** Joined invariant: a client in the queue is there once and
has no child (`QueueInv`); a connection is held by its child, and by the master
only between accept and close (`HoldersInv`); the connection in the master's
hands is not served twice (`ForkInv`); the listening socket is held by the master
and by children that have just been forked (`ListenersInv`). `Owned` and
`Released` follow for every number of clients, every backlog, process limit and
set of handlers.

**SharedCounter_proofs.** A file has at most one lock owner, and who is in the
critical section is one (`LockInv`); a process that waits or works has mapped a
file that was created (`FdInv`); the first file is never truncated or
initialised again once it is there (`FirstInv`); until a character is
stored into it, its counter is its base plus the increments, and a process that
holds the lock has loaded the present value into `reg` (`CountInv`); a ticket is
less than the counter (`TicketInv`); a file stays `touched` once it is
(`TouchedStays`). `Exclusion`, `FirstIsCounted` and
`FirstIsNumbered` follow.

**MessageQueue_proofs.** `OpenInv` joins to `OpenedIsReady` the places and
ranges of the variables (`TypeInv`) and `CreatedInv`: a file at the path, or in
a process's hands, was created, so that `Create` never meets it again. The
counts stay in range (`RoomIsKept`), however senders and receivers are woken.
`WakeInv`: on a file that is not crowded at most one process is blocked in each
call (`AloneInv`), only blocked processes wait (`WaitingInv`), and they wait
only while the queue is full, or empty: the step that changes that signals, and
nobody else can take the signal. From these follow `NothingUninitialised` and
`WakeUpsArrive`. For `ImplementsPriorityQueue` the two lists of each file are
described by two sequences of slots, those of the messages and the free ones:
they share no slot, together they are all slots, the links lead along them, and
the messages are sorted. `mq_send` takes the first free slot and puts it in
where its walk ends, `mq_receive` takes the first message's slot and puts it
before the free ones. There is only one way to follow a list, so what the
recursive functions of the refinement mapping yield is the sequence of the
messages.

**FifoConverter_proofs.** From its first `mkfifo` to its first `unlink` the
names lead to what the instance made itself, and so they do as long as its child
may open them, whatever has become of the parent (`NamesInv`); before the fork
there is no child, after `waitpid` it has ended (`ForkInv`); who waits in an
open has not gone on (`AtInv`). From this follow `OnlyOwnFifos` and
`WinnersGoOn`, for every number of instances. A name leads only to the FIFO of a
parent that has still to unlink it or was killed or refused a system call
(`LeftInv`), whence `NamesAreFree`. A process has open what it reads and writes
(`DescInv`), and a FIFO is empty until its one write (`EmptyInv`): without that,
the contents would not stay within one chunk, so that `TypeCorrect` is more than
bookkeeping here.

**UdpDoubler_proofs.** The types, that a chunk has been printed for every reply
(`PrintedInv`) and that nothing is under way before the first line (`QuietInv`) are
joined to `Outstanding`, which is nearly inductive by itself: a reply is taken from the
count on the left and from that on the right. From it, every reply is one to
the current line, fills the buffer with it, and is recognised as that line in
`LineEcho` (`OnlyWhatIsWaitedFor`, `ImplementsLineEcho`).

**StreamEcho_proofs.** `TypeInv` gives `TypeCorrect`, whatever the network
cuts. While no write is cut and the copies fit (`WholeInv`), the line is at one
place on its way to the server; the segments on their way back are copies of
it; what has arrived is some number of copies, one after the other; and the
line's own weight (all its copies), those that the server has still to write, those
on their way and those that have arrived are together no more than the client still
waits for. So a read takes at least one copy and never a part of one, which gives
`ReceivedEntirely` and, with the number of chunks printed (`PrintedInv`),
`ImplementsLineEcho` for every number of copies. `NoByteLost` holds however the network
cuts: the bytes of both directions that are unread, in a buffer or printed are, one
behind the other, those of the input. Its lemmas say how a concatenation of
sequences changes at either end.

With these lemmas the doublers over a pipe: the types, with who has which end
open (`PipeTypes`); chunks are printed in pairs, up to the one being printed
(`PairsInv`); the child finds the end of the file only when the parent has sent
all (`EndInv`); and what is printed (one of each pair), in the child's hands and
in the pipe is the input up to the parent's line, but for the chunk that a child
which dies had in its hands (`InHands`). A child ends with status 0 only at the
end of the file, and that is what `status` says (`pr_exit`). `PipeInOrder` and
`PipeComplete` follow for any room in the pipe and any reads.

Temporal steps use only `PTL`; every other step is a first-order fact with its
definitions named.

## 7. What is only model-checked

- Liveness (`BothFinish`, `MainExits`, `EchoEnds`,
  `EndsUnlessLost`, `NobodyWaits`, `ParentEnds`, `Completes`) and whatever involves
  ENABLED: out of the prover's reach.
- `StoresInTable`, `CountedIsKept`, `OneInside` of `ProdCons`, `RoomIsKept` and the
  type invariants of the modules with proofs are the other way round: they are
  proved, and no run lists them.
- The violations of section 4 are counterexamples and need no proof.
- `UdpDoubler` states its types in its inductive invariant, `PipeDoubler` in `PipeTypes`,
  both in the modules of their proofs only.

Every other property of the passing runs is a theorem.

## 8. Preconditions and abstractions

- `BothFinish` needs equal loop numbers and different characters, and that
  nobody is killed. Otherwise the remaining process naps and tests for ever; the
  programs have no means to notice it.
- `MainExits` is checked with producers. With items and no producer the consumer
  in the gate waits for ever.
- `Completes` asks for a chunk that is not empty. With an empty standard
  input the parent waits for its child while it holds the write end from which
  the child waits for the end of file.
- Lines end with a newline and fit into the buffer; a longer line reaches the
  programs as several reads, that is, as several lines. `converter.c:17` runs past
  its buffer when there is no newline; that is undefined and left out.
- The open of a FIFO is a meeting of one reader and one writer. A third process
  that opens the same end at the same time would also be let through by the
  kernel; `OwnFifos` shows that no third process ever opens it.
- Calls the system refuses: fork in `ForkServer`, `PipeDoubler` and `FifoConverter`;
  dup2, execve and a write to the standard output in the last two; opens, waitpid,
  close and unlink in `FifoConverter`. A `mkfifo` that fails for another reason
  than a name in its way ends the parent in the same way. A read that
  fails is an end of the file in all these programs; that is left out, as is
  a `waitpid` of `PipeDoubler` that fails.
- `NothingLeft` and `Completes` except instances of which a process is killed or
  refused a system call: what the code does then is in the model, but no text says
  what should become of the FIFOs or of the chunk.
- A restart in `ForkServer` (`Start`) succeeds as soon as no process holds a socket of the
  port. `exercise5/q3-server.c:44` binds without `SO_REUSEADDR`, so connections in
  `TIME_WAIT` would also make it fail for a while: the kernel's timer is left out, and
  `PortReleased` is about processes.
- `(*iptr)++` of `incr.c:90` is one action in `TurnTaking` (`Incr`): it is done under the
  lock, and a kill inside it is one before it. Only the zero of a second first starter
  (incr.c:50), which takes no lock, could fall between its load and its store, and would
  then have no effect: the counter is what it would be without that zero, within
  `CounterBound` too. `SharedCounter` has load and store apart.
- Reads of the standard input, writes to the standard output and to a socket are
  complete: the inputs are lines from a terminal or a file, and the socket's
  buffer is larger than a line.
- A call on a message queue with `O_NONBLOCK` that would block returns and changes
  nothing; so do calls with a message that is too long or a buffer that is too
  short, and `mq_open` with attributes out of range fails like any other failure
  of its initialisation. `mq_notify` delivers a signal that no process here waits
  for.
- In `Response` pieces are at most as long as the rest of the buffer; with more
  commands in pieces than the buffer holds `ptr` leaves it, which is undefined;
  `AlgorithmsAssumption` excludes it.
  Reads from and writes to the peer do not fail. The size that F answers is read from
  a variable that is gone; the transfer that follows goes over a connection of its own,
  and is in the model only as an F command that ends the child or does not.
  NULs that `strtok` writes behind the bytes read, into what an earlier command left, are
  covered by `Separators` like the others; behind the buffer they are left out.
- In `Measurements` numbers are as on the command line, within int.
- Sockets are set up without errors; names are resolved. What these calls do is
  printing a message and exiting before anything is shared.
- A connection is closed in `ForkServer` (`Leave`); there is no end of file in
  `StreamEcho`, whose client stops reading when its input is at an end.
- Memory is sequentially consistent: the accesses of `incr.c` and `question-*.c`
  after the start are ordered by the lock, those at the start by system calls.
- The int counters do not overflow within the numbers of processes and rounds
  the programs are started with; torn counters come from the characters stored
  into them, which `SharedCounter` has byte by byte.

## 9. Not modelled

- Vendored sources of the text books apart from `my_pxmsg_mmap`. They are about
  63,000 of the repository's 67,700 lines: wrappers of system calls, and some
  hundred example programs and their variants, each complete in a page and
  mostly without state of its own. The author's code has about 3,500 lines. A
  model of each example would say more about the books than about this
  repository, so the share of all lines that is modelled stays small.
- The thesis (LaTeX), and scripts that are a pipeline of standard tools: no
  program, or pure input and output.
- `exercise5` accept-queue experiment, `exercise6` capacities of pipes and
  sockets: single processes that measure a limit of the kernel; and the client of
  the shutdown experiment, whose outcome is the kernel's answer.
- The daytime programs: text-book code with another port; one connection after
  the other, no shared state.
- `exercise1` copy programs and SIGINT handlers, the fork and exec programs of
  `exercise2`, the doubler without a pipe: the same loops as in `PipeDoubler`
  without the second process, or no shared state.
- The pipeline of reader, converter and doubler: passes on one chunk, over opens
  that meet as those of `FifoConverter`.
- The dialogue of `str_cli` in `break-exercise` with a server that is not part of
  the repository, and the bytes of the file transfer.
- `mq_getattr` and `mq_setattr`: the first only reads, the second switches
  `O_NONBLOCK` (section 8).

## 10. Plan

Order of the work: first the components in which independent processes share
state (turn-taking, producers and consumers, servers, counter), then those in
which they exchange messages (echo, doubler), then names and descriptors (pipe,
FIFOs), then message queues, and the functions without concurrency: sections 2
to 6, done. What would come next:

1. `Pipeline`: reader, converter and doubler on two FIFOs, started in any order.
   The meeting of opens is to be taken out of `FifoConverter` as a module of its
   own that both use.
2. The other shared structures of `unpv22e` that have states of their own: the
   semaphores `my_pxsem_mmap` and `my_pxsem_fifo`, which open in the same way as
   the message queues, with the opening of `MessageQueue` as a common module.
3. Three consumers in `ProdCons`, two rounds in `SharedCounter`.
