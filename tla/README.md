# A verification project for COMP8005

The repository holds three course projects in C and C++: a TCP port forwarder with
its test programs, a set of echo servers built on threads, `select` and `epoll`, and
two programs that factor a number with threads and with processes.  This directory
holds TLA+ models of them, TLC configurations that check the models on small
instances, and TLAPS proofs for every size.

Paths below are relative to `src/`.  Short names: *proxy* is
`Port Forwarder/Proxy/proxy_v3.cpp`; *servers* is the directory
`Multi-thread servers, Select and E-poll`; *factoring* is the directory
`Division Multiple Threads-Processes`; *report* is
`Port Forwarder/MarioEnriquezFinalAssignmentReport.pdf`.

## 1. Inventory

| Component | State it keeps | Operations | Status |
|---|---|---|---|
| Port forwarder, loop of one port (proxy 67-250) | descriptors, `fd_sockets[]` indexed by descriptor, the batch of `epoll_wait`, `fw_new`, `fw_socket` | accept, blocking connect, hang-up, close, SIGINT | modelled |
| `forwarding()` (proxy 292-314) | `buf`, `bp`, `bytes_to_read`, `total_sent` | `recv`/`send` until nothing is left | modelled |
| Fork chain and forwarding table (proxy 81-139, 273-290) | list of ports, `i`, `pid`, `portNo` of each process | one process per line of the table, each of which listens | modelled; the file is a sequence of lines that parse or do not |
| Log of the forwarder (proxy 316-326) | a file | append | not modelled |
| Factoring with threads (`factor_threads_vf.c`) | `q[]`, `count`, `dest[]`, one lock | fill a batch, test candidates, join, print | modelled |
| Factoring with processes (`factor_processes_vf2.c`) | pipes `p` and `r`, `dest[]`, `i` | fork, write candidates, test, collect, print | modelled |
| Echo servers with epoll (`epoll.c`, `epollv2.c`) | epoll set of each process | accept, hang-up, `EchoProcess()`, SIGINT | modelled |
| Echo servers with select (`select.c`, `selectv2.c`) | `active_fd_set` of each process | accept, `EchoProcess()`, SIGINT | partly: no failing `accept`, no `FD_SETSIZE` |
| Echo servers with threads (`threaded.c`, two versions) | `mssg`, `client`, a thread per client | accept, `EchoProcess()` | partly: no failing `accept`, no `mssg` and `client` |
| Load clients (`client.c`, `client.cpp`) | iterations left, client number | fork, connect, write, read, end mark, close | modelled |
| Simple echo pair (`tcp_clnt.c`, `tcp_svr.c`) | bytes received so far | send, receive loop, close | partly: no failing `accept` |
| Reports, logs, captures, binaries | - | - | nothing to model |

**How they interact.**  A load client connects to an echo server, directly or through
the port forwarder; the forwarder opens a second connection per client and copies
bytes between the two.  The processes of the forwarder share nothing once they are
forked.  The processes of `epollv2.c` and `selectv2.c` share one listening socket, whose
accept queue any of them may empty.  The factoring threads share the queue, the result
and a lock; the factoring processes share two pipes.

**What is hard, and what makes each part right.**

* *Forwarder loop.*  Everything is looked up by descriptor number, numbers are reused
  at once, the table is never cleared, and a batch of events may be older than the
  descriptor it names.  Right means: bytes and closes never cross between
  connections, a connection has both sockets or neither, no socket is leaked, one end
  takes down one connection, nobody is starved.
* *`forwarding()`.*  Bytes arrive while it runs and a non-blocking `send` may take less
  than offered.  Right means: what the far end gets is what was received.
* *Forwarder between its test programs.*  Four programs and two connections; every
  message may be read in parts, ends close and reset at any moment, and each program
  counts on single calls of `recv` doing the right thing.  Right means: what a client
  sends comes back, and every program comes to its end.
* *Fork chain.*  The youngest process forks, every older one is stopped by the pid
  it was left with; a number is set on both sides of each fork and corrected once at
  the end.  Right means: every line of the table has one process, whichever fork fails.
* *Factoring with threads.*  `count` is read without the lock and acted upon with it.
  Right means: every candidate is tested once, the result is sorted and complete, the
  program ends.
* *Factoring with processes.*  Five processes on two bounded pipes, end of stream by
  counting zeros.  Right means: no divisor is lost, doubled or read too late, nobody
  waits for ever.
* *Echo servers.*  A worker serves one client until its end mark; several processes
  race for one connection; a client may be killed, a message may come in two parts
  and a process be interrupted at any time.  Right means: every client is answered once
  per message, is never closed early, and is served in the end.

## 2. Modules

| Module | What it is |
|---|---|
| `Proxy` | one process of the forwarder: kernel, peers, `main()`'s loop, `forwarding()` with data counted in units |
| `Sessions` | abstract specification: whole sessions, first come first served, one connect at a time, never revived |
| `ProxySessions` | the mapping from `Proxy` to `Sessions` |
| `ProxyBatch` | `Proxy` with a history variable: the connections made since the last `epoll_wait` |
| `ProxyProofs` | theorems about `Proxy`: the table, no socket is leaked, one connection at a time |
| `ProxyBatchProofs` | the refinement of `Sessions`, and what stale events can do |
| `ForwardedEcho`, `ForwardedEchoProofs` | `Proxy` with the repository's own clients and servers as its peers |
| `Forwarding`, `ForwardingProofs` | one direction of one connection, byte by byte, with the contents of `buf` |
| `ForkChain`, `ForkChainProofs` | the fork loops of the forwarder, the load clients and the v2 servers |
| `EchoService` | abstract specification of an echo server: every request answered once, nobody leaves with one open |
| `Factoring` | abstract specification of both factoring programs |
| `FactorThreads`, `FactorThreadsProofs` | the program with threads |
| `FactorProcesses`, `FactorProcessesProofs` | the program with processes |
| `EchoServers`, `EchoServersProofs` | epoll, select and thread servers with the load clients |
| `MC*` | constants of the TLC runs |

Definitions named *variant* in a comment are wrong versions of the definition that
follows them.  Nothing uses them; they are there to show that the properties notice
the mistake they stand for.

### Proxy

`fds` is the descriptor table of the process (descriptors are numbered from the first
one free once the port listens), `fd_sockets` the program's table, `events` the part of
the batch still to be handled, `cur` and `total_sent` the state of a running
`forwarding()`.  `peer[s]` says what the far end of socket `s` has done and `rcv[s]` how
much unread data the kernel holds.  One action stands for one turn of the loop up to
its next observable point: `EpollWait`, `HangUp`, `CallForwarding`, one action per way
out of the accept branch (`AcceptFails`, `NoSocket`, `NoHost`, `Accept` up to the
blocking `connect`, then `Connected` or `ConnectFails`), and inside `forwarding()` one
`recv` with its `send` per step (`RecvSend`), or one of its ends (`ReturnMore`,
`ReturnClose`, `SigPipe`).  Events are handled in any order, since epoll promises none.
The peers act between any two steps.  A hang-up event is what it was when the batch
was made, even if the descriptor has a new owner: that is the point of the model.
`Terminate` is the end of the process; the kernel closes all it had.

A socket whose peer reset the connection is `reset` until a call returned the error
and `broken` from then on; `send` on a broken socket raises SIGPIPE, which the program
neither blocks nor handles.

### ForwardedEcho

`Proxy` lets its peers do anything; here they are programs.  `pair` is chosen in the
initial state: `"load"` is `client.cpp` with the second version of `threaded.c`,
`"simple"` is `tcp_clnt.c` with `tcp_svr.c`.  A message is `M` units, sent in one call; the
programs send and read `M` at a time (`BUFLEN`), a thread of the server reads up to one
more (`ReadLen`).
`out[s]` are the units its sender has handed to TCP, which delivers them to the
forwarder one by one, so that any `recv` may find a part; a FIN comes behind the data,
a reset drops what is on the way.  `in[s]` are the units the forwarder has sent and
the program has not read, `got[s]` those it has read.  The steps of the forwarder are
those of `Proxy` (`Forwarder`), with what they mean to the far ends; the peers' steps of
`Proxy` happen only as `Deliver`, `DeliverFin`, `DeliverReset` and with the programs' own
closes.

Each program does what its loop does: `LoadRecv` counts one `recv` as an answer
whatever it returns; `LoadClose` resets, because of SO_LINGER 0, and no end mark was
sent.  The `read` and the `send` of a thread are two steps (`ThreadRead`, `ThreadEcho`), and
`hand[c]` is what it holds between them, while the forwarder may send more and close.
A thread takes the first byte it reads for a flag.  A message that arrives alone begins
with its flag; once a client's messages have come in parts (`split`), what is read may begin
with anything: with text, or with a `1` of the user, or with the flag of an earlier part
that `forwarding()` sends again (finding 2).  So the thread then either reads on as if there
were a flag or takes it for the end (`ThreadMisreads`).  On an empty read it ends
(`ThreadEnds`).  `hit` are the far ends that have sent to a connection the forwarder closed,
or have seen it closed: one more `send` and SIGPIPE ends the program.  For a thread that is
the whole server (`ThreadSigPipe`): its listener and its connections are closed by the
kernel, one after the other (`ServerDies`), and from then on a `connect` of the forwarder
fails and ends that too.

The simple programs wait for one `recv` of the whole message and spin for ever after a part
or an end (`SimpleSpins`, `SvrSpins`).  `tcp_clnt` connects first and then waits at its prompt
for the user (`Typed`).  `NoThread` is a `pthread_create` that fails: it returns a positive
number, and `threaded.c` 82 looks for a negative one.  `split` and `cut` are
history variables: whose messages were read in parts, and whose connection the
forwarder closed although both ends were up.  Bytes replaced inside `forwarding()` are
the matter of `Forwarding`; here units are counted.

### Forwarding

Byte number *i* of the stream is the number *i*; `got` is what the far end received.
`buf` is new in every call, and 0 is a byte of it that no `recv` of the call has written.
`BufAfter` and `FromStart` keep what the code does: `recv` writes at `bp`, `send` reads
from `buf`.  `clean` is a history variable: no call so far needed a second `recv` or
had a short `send`.

### ForkChain

`procs` holds the processes of one program in the order of their birth, each with its
`i`, the pid `fork()` left it (`"zero"`, `"positive"`, or `"minus"` for a fork that failed),
its number `no` (`portNo` of the forwarder, `client_no` of a load client) and where it is.
`kind` says which program it is: the three have the same loop, with other bounds and
another number.  `Fork` is one pass with a fork, `ForkFails` one whose fork returned -1,
`PassBy` one in a process that may not fork, `Leave` the end of the loop with the
correction of the number.  Then a process of the forwarder binds the port of its line
(`Listen`, `Refused`), and the others start their work.  `GetForwardTable` stops at
the first line that does not parse.  The `i` of the load clients is uninitialised and
may be any member of `JunkI`.

### FactorThreads and FactorProcesses

In `FactorThreads` the unlocked `while (count < MAX_QUEUE)` (`Check`), taking the lock
(`Lock`), the test with the recording of a divisor (`Test`) and `count++` with the
unlock (`Advance`) are separate steps.  `q` is the last variable of the program's data and
the memory after it is zero, so `q[MAX_QUEUE]` reads as the end marker; the model says
so in `Candidate`.  In `FactorProcesses` a pipe is a bounded sequence, a write to a
full one and a read from an empty one wait.  The uninitialised `i` is `junk`, any
member of `InitI`.

### EchoServers

`server` is chosen in the initial state, so that one run covers `epoll.c`, `epollv2.c`,
`select.c` and `threaded.c`.  `up` are the processes that have not been interrupted,
`socks[p]` the sockets process `p` has open, `batch[p]` what `epoll_wait` or `select` returned
and is not handled yet, `serving[w]` the client in whose `EchoProcess()` worker `w` is.
A message is its first byte: `"1"`, or `"0"` for the end mark.  A client of `MayPart` may
have a message arrive in two parts, the second of which begins with some other byte,
`"x"`; the worker takes it for an end.  The select servers have a blocking listener, so
`Accept` simply waits on an empty queue; the epoll servers get `EAGAIN` (`AcceptAgain`)
and close a hung-up socket without reading it (`HangUp`).  A `read` that returns nothing
is tried again at once and changes nothing, so a worker whose client was killed stays
where it is for ever, as the code does.  `client.c` closes with SO_LINGER 0, right after it
wrote its end mark: the reset discards what is not sent or not acknowledged yet, so
`CloseClient` and `Fail` keep any beginning of the unread messages (`Kept`), at least the one a
process has been told of.  A client whose end mark was lost is `"cut"`; a worker that is
already in its `EchoProcess()` reads from it for ever.  `Interrupt` is SIGINT to one process: its
sockets are closed, and the listener with the last process; a client then gets an
empty read, a SIGPIPE (`ClientSigPipe`) or a refused `connect`.

### EchoService

What a load client may expect of a server, with nothing in between.  `stage` is where a
client is: it asks (`"idle"`), waits for its answer (`"asked"`), has it on the way or in its
socket (`"answered"`), and leaves when `todo`, the answers it has still to get, is 0.  A
client may be `"lost"`, and then nothing is said of it; `EchoServers` and `ForwardedEcho` say
when that is, and it is never because of what the server or the forwarder does on its
own.  In `EchoServers` it is lost when it is killed or refused or a process is
interrupted, and a client whose messages come in parts is left out; `echoes` tells asked
from answered.  In `ForwardedEcho` everybody is lost at the first thing that counts as
`Disturbed`; before it, a waiting client is answered once the server has read all the
client sent.  There `left` is counted down before the answer and in `EchoServers` after
it, so the two `Todo` differ.

## 3. What the runs check

Unless said otherwise runs end without an error.  `CHECK_DEADLOCK FALSE` is set
everywhere: the number of connections, clients or processes is finite and the
factoring programs end, so each model really comes to a stop.

| Run | Instance | What it shows |
|---|---|---|
| `proxy_safety` | 2 connections, 4 descriptors, buffer 2, 1 unit per socket | `Wiring` (the table sends every open descriptor's data to its own connection), `Accounted` (no socket leaked, both or neither), `OneAtATime`, `SettledOwnEnd` (only a connection made in the same batch can be hit by an event that is not its own), the inductive `IInv`, and the refinement `ServesSessions` |
| `proxy_live` | 3 clients, 2 pairs of descriptors, buffer 1, fair | `NoneIgnored`, `QueuedIsAccepted`, also after the descriptors had run out |
| `forwarded_echo` | 2 clients on one pair of descriptors, messages of 2 units, 2 and 1 of them, one client may be killed, fair | the inductive `EchoInv`, `RoundTrip`, `WholeAnswers`, `ServerSurvives`, `ForwarderSurvives`, the refinement `ServesEcho`, `LoadClientsEnd`, `ThreadsEnd`, `SimpleClientsEnd` |
| `forwarded_own_end` | 2 clients of the simple pair, 2 pairs of descriptors, nobody killed | **violated**, finding 1 |
| `forwarding` | 5 bytes, buffers of 2 | `CleanIsFaithful`, `NothingInvented` |
| `forwarding_faithful` | 3 bytes | **violated**, finding 2 |
| `threads` | 5 threads, N = 12, queue of 5, fair | `ExactSoFar`, `IInv`, `Terminates`, refinement of `Factoring` |
| `threads_in_queue` | 2 threads, N = 6, queue of 4 | **violated**, finding 3 |
| `processes` | 3 children, N = 6, p holds 3, r holds 8, `i` is 0 or 1, fair | the inductive `IInv` (no divisor is lost or doubled), `ZerosComeLast`, `PrintsDivisors`, `Terminates`, refinement of `Factoring` |
| `echo_servers` | 3 clients with a message each, one may be killed, one writes in parts; an end mark may be lost with the reset; 1 or 2 processes, one may be interrupted; fair | `IInv`, `Attended`, `AnsweredOnce`, the refinement `ServesEcho`, `QueuedIsAccepted`, `EveryoneServed`, `EveryoneEnds`, `ThreadsAreIndependent` |
| `fork_chain` | tables of 0 to 5 lines, with bad lines and a port named twice, one port in use, up to 3 clients, 6 server processes, `i` is -1, 0 or 2 | `DistinctNumbers`, `AsManyAsAsked`, `PortsCovered`, `IInv` |
| `echo_selectv2` | 2 clients with 1 or 2 messages, 2 processes, fair | **violated**, finding 4 |

**Why the bounds are enough.**  The forwarder's errors need one connection to end and
another to get its descriptors, or two connections open at the same time; two
connections on two pairs give both.  Two units of buffer against one unit per socket
let data arrive between two `recv` calls of one `forwarding()`.  Three clients on two
pairs (`proxy_live`) and two clients on one pair (`forwarded_echo`) add exhaustion: an
`accept` that finds no descriptor, is tried again and succeeds.  (An `accept` that takes
the last one and a `socket` that gets none is `NoSocket`, which may happen in every
run, since the system may be out of descriptors too.)

In `forwarded_echo` a message is two units, the fewest that can come in parts, and one
client sends two messages: then a part can be taken for the next message, an answer be
counted too early, and a thread that holds one message find the other behind it when the
forwarder has closed, which is how SIGPIPE ends the server (`ThreadSigPipe` is reached, and
`ServerSurvives` says when it is not).  The other client may be in the backlog or with its
thread at that moment, and connects before or after it.  In `Forwarding` five bytes on buffers of two give full,
partial and short calls in every order.  Twelve candidates in a queue of five are three
batches, the last one short.  `processes` has the smallest `r` that is
enough: the four divisors, a zero per child and the parent's own.  Three clients on two
processes let one process lose a race while it holds a client and a third client is
waiting.  Five lines are what the repository's table has; the chain meets its first,
inner and last process with three.

**Liveness.**  `proxy_live` and `forwarded_echo` state their liveness properties for one
connection (`Watched`).  In `proxy_live` the clients are interchangeable but for what
their peers are let do: those of the watched connection do all they may, of the others
only one client sends and ends (`OnlySome`).  This leaves out behaviours of the peers,
none of the process, and so no case in which the process is fair; the peers of
`proxy_live` have no fairness and owe nothing.

**Fairness.**  `Proxy` assumes weak fairness of the process alone: it is scheduled, and
`connect` returns.  `ForwardedEcho` assumes it of the forwarder, and of everything else
together (`Others`): TCP delivers, the clients and servers run; no more is needed, since
only finitely much of it can happen without a step of the forwarder.  A user who types is
not among it (`Typed`): `SimpleClientsEnd` says what follows if nobody leaves a client at its
prompt for ever.  The factoring programs
assume that every thread or process is scheduled.  `EchoServers` assumes it of every
process, thread and client, since the load clients do run their loop to the end.
Being killed, being interrupted, starting a client and a call that fails are never
required.  `Forwarding` and `ForkChain` are checked for safety only.

## 4. Findings

1. *A stale event closes a stranger's connection* (proxy 237).  Events are handled by
   descriptor number.  If an earlier event of the batch closed the pair and a later one
   accepts a client, the new connection gets the same numbers, and a third event of the
   batch, meant for the old connection, finds nothing to read and closes the new one.
   `forwarded_own_end` shows it with the repository's own `tcp_clnt` and `tcp_svr`: both
   close after an exchange, so two FINs and the next client are in one batch.
   `SettledOwnEnd` says, and `ProxyBatchProofs` proves, that only connections made in the
   same batch are exposed; `OneAtATime`, that it is always one whole connection.
   The load clients are spared: their server closes only after the forwarder did, and
   they only when nothing is under way, so a connection of theirs has one event at most
   (`WholeAnswers`, checked, and proved in `ForwardedEchoProofs` for any number of clients
   and descriptors).
2. *Bytes replaced* (proxy 303).  `recv` moves `bp`, `send` does not: if a second `recv` in one
   call finds data, the first bytes of the buffer are sent a second time in its place.
   The result of `send` is not looked at either, so what a slow receiver's socket does
   not take is dropped; `CleanIsFaithful` says precisely when neither happens.
3. *Read behind the queue* (`factor_threads_vf.c` 135).  Threads that saw `count` below
   `MAX_QUEUE` wait for the lock and read `q[MAX_QUEUE]`.  With this data layout the word
   is zero and the thread returns, which is why the results are right all the same.
4. *`selectv2.c` forgets its clients* (line 106).  The listener blocks.  All processes wake up
   for one connection, and those that do not get it stay in `accept`.

Seen while modelling, part of the model, and without a run of their own:

* a `connect` that fails closes the socket and then hands it to `epoll_ctl`, whose error
  ends the process with all its connections (proxy 211-217, `ConnectFails`); so does a
  host name that is not found (206, `NoHost`);
* a message that came in parts can make the threaded server close early and the next
  `send` raise SIGPIPE in the forwarder, which is why `ForwarderSurvives` excepts it;
* it can also raise SIGPIPE in the server: an answer in two parts counts as two, so
  `client.cpp` is a message ahead; if its connection is closed while the thread is between
  `read` and `send` and another message is there already, the thread sends twice to a closed
  connection.  The server ends with all its threads, and at the next client the
  forwarder's `connect` fails and ends it as well (`ThreadSigPipe`, `ConnectFails`);
* the end mark of `client.c` may be lost with the reset of its close (115-121, 152, 208): a
  process of the epoll and select servers then reads for ever from a client that is done, as
  it does from a killed one, and its other clients wait (`Lost`, `Stuck`);
* a `tcp_clnt` at its prompt holds the only loop of `tcp_svr` (`tcp_clnt.c` 93);
* a thread that cannot be started leaves its client waiting (`threaded.c` 82, `NoThread`);
* a killed `tcp_clnt` leaves `tcp_svr` spinning with everybody else in the backlog (`SvrSpins`);
* the closing line of the log names the last accepted client (proxy 243);
* with another value than 0 in the uninitialised `i`, elements that were never set
  are printed before the divisors (`junk`), and a load client starts another number of
  processes than it was asked for (`JunkI`);
* the factoring processes would block on each other if `r` held fewer messages than
  there are divisors (`factor_processes_vf2.c` 120); a pipe of 64 KiB holds some 1300, and
  `dest` only 1024, so the program does not get there.

## 5. What is proved

Every proof is for all values of the constants that satisfy the named `ASSUME` of the
module; there are no other assumptions.

**`ProxyProofs`.**  `Wiring` is not inductive: it says nothing of the entries of closed
descriptors, and those decide what a stale event does.  `IInv` adds `Paired`
(descriptors are in use two by two, `2k-1` for the client and `2k` for the server, because
they are opened in one step of the loop, the lowest free ones are taken, and they are
closed together) and `TableSet` (an entry is unset or names its descriptor and its
neighbour; entries of open descriptors and of pending events are set).  The proof has a
lemma per action; `LowestPair` shows that the two lowest free descriptors are
neighbours, `CloseBothKeeps` that a close takes a whole pair.  From it follow
`TypeCorrect`, `NeverCrossed` (`[]Wiring`) and `PartnersAreStable`.

`AInv` keeps the books: no socket has two descriptors (`Single`),
nobody is in the accept queue twice (`QueuedOnce`) or there and accepted (`NotBoth`), and
what the kernel holds for the process is queued or open (`Kept`).  `CloseBothCloses` says
what a close does in terms of sockets: one connection, both of its sockets, or nothing
at all.  `NothingLeaked` and `OneConnectionAtATime` follow.

**`ProxyBatchProofs`.**  With `IInv`, the two sockets of a session are open together, so its
stage can be read off one of them (`NoneHalf`).  Each action of the loop then is one of
`Sessions`, or changes no stage: `ImplementsSessions`.  For stale events, `HInv` says that
an event of a descriptor that still has the connection it had at `epoll_wait` has a
reason that lasts (`EventsDue`: the far end is over or there is something to read), that
a descriptor has one event (`OneEvent`), and that a running `forwarding()` was called for
such a reason or has already found data (`CallDue`).  Nothing but the call itself reads
the socket, so `ReturnClose` of a connection that is not fresh means its own end:
`OnlyFreshAreHit`.

**`ForwardingProofs`.**  `IInv` says what lies before `bp` in `buf`: bytes that were
received.  From it follow `SendsOnlyReceived`, and `CleanCallsAreFaithful`: as long as each
call needed one `recv` and no `send` was short, the far end has exactly the bytes received.

**`FactorThreadsProofs`.**  `TestedUpTo` is the last candidate whose test is over, and the
invariant says that `dest` holds exactly the divisors up to it, in order; the lock is
held by the thread between test and `count++`; a thread that is done saw the end of
the batch.  `NoneLeft` turns the last fact into "the batch is finished" at the join.
`ExactAndSorted`, `PrintsAllDivisors` and `Refinement` (every step finds a new divisor,
shows the complete result, or changes nothing of `Factoring`) follow.

**`FactorProcessesProofs`.**  `InOnePlace` counts a divisor in five places; the lemmas
`TimesAppend` and `TimesTail` say how the count in a pipe changes when a message enters or
leaves it.  To keep it one needs to know that a child that got its zero writes no more
and when the parent may stop: `Zeros` accounts for the zeros of both pipes and says that
a zero is the last message once everything was written, `Phases` says how far the
parent's loops are.  `AllThrough` turns the number of zeros read into "every child is
through", from which `NoneLostOrDoubled`, `ZerosEndTheReading`, `AllDivisorsPrinted` and
`Refinement` follow, for every N, every set of children and every capacity of the pipes.

**`ForwardedEchoProofs`.**  The programs only do what `Proxy` lets its peers do (`IsProxy`), so
`IInv` and `AInv` hold here too.  `EchoInv` adds what is true of the whole, each part of
it needed for another:

* `Places` ties the state of a program to its socket: a client is idle until it has
  connected, it is finished exactly when its end is closed, a server's connection is
  in the backlog once and before anybody serves it, and the server's side is never
  gone without the client's.
* `Wires` ties the far end to what the forwarder sees of it: an ended socket is one
  whose far end closed, a FIN is under way exactly for a closed end that still looks up,
  nothing is under way to or from a socket that is not.
* `NoneMade` and `RoundTrip` are the accounts.  `NoneMade` holds always and for both
  pairs; the exact balance only while nobody has closed, since a reset drops what is
  under way.  `Balanced` says of a step how each side of the account changes; it is shown
  for every action, and `Balance` does the sum once.
* `OneAtOnce` is why `ServerSurvives` holds: a client whose messages came whole sends the
  next one only when it has its answer, so it has one on the way at most; the one
  that a thread holds (`hand`) is it.  Then nothing more is on the way when the thread sends
  to a connection that is gone, and it will not read, nor send, again.
  `One` is its part for a client, `Still` says that a step leaves the client and its
  thread alone, and `OneStays` that this is enough.
* `Turns`, `OwnBatch` and `OwnCall` hold while nothing disturbs the load programs.  A
  client that sends has all its answers, one that waits lacks one, and it is the first
  to close.  Hence data never waits on both sides of a connection (`OneSide`), a
  connection has one event at most, for a reason that lasts, and none while
  `forwarding()` runs for it.  This is what makes stale events harmless: when a
  connection is taken down, no event of its descriptors is left for the next owner
  (`CloseAlone`), and a call of `forwarding()` that finds nothing was made for an end
  (`ReturnCloseAlone`).
* `Served` and `NoReset` do the same for the simple pair, where stale events do close
  connections: who closes has read a message, there is only one, so nothing is ever
  sent to a closed end.

There is a lemma per action (`...Keeps`); a close, a read and a write each have their own
lemmas (`CloseFarDoes`, `ReadDoes`, `WriteDoes`), which the programs' calls share.  From
`EchoInvariant` follow `NothingLostOnTheWay`, `EveryMessageAnswered`, `ThreadsSurvive` (a
thread brings SIGPIPE on the server only for a client with a message in parts) and
`ForwarderIsSpared`, for any number of clients, messages and descriptors, and any length
of a message.

`ForwardedService` is the refinement of `EchoService`, for a step between two states that
nothing disturbs (`Calm`).  A client's `send`, `recv` and `close` are `Ask`, `Get` and `Leave`, the
thread's echo is `Answer`, and the forwarder and the network do not show.  Two of them
need the accounts: a `recv` can only be a `Get` because the units it finds had been read
by the server (`RecvGets`, from `RoundTrip` and `Turns`), and an echo to a waiting client
is the whole of what it asked (`ThreadAnswers`).  That a disturbed system stays so is
`StaysDisturbed`.

**`ForkChainProofs`.**  Only the youngest process may fork, and the number of a process is
one behind until the next `fork` or `Leave` makes up for it (`InPlace`).  From this,
`NumbersAreDistinct`, `AlwaysInTable`, `NoneMissing`; with `Holds` (who listens, listens on
its own port alone, and who was refused found it in use), `EveryPortOnce`.

**`EchoServersProofs`.**  `Spread` says that everybody is once in the queue, on one socket of
one process, or nowhere; `Workers`, that events and workers belong to open sockets, one
each; `Conversation`, what may be unread for a client in each of its states, also when
messages came in parts.  `OneWorkerEach`, `OneEchoEach` and `NobodyDropped` follow for any
number of clients, processes and messages, and for all five servers, `selectv2.c`
included: its fault is one of liveness.  So does `ImplementsService`, the refinement of
`EchoService`: with `Conversation`, a worker that reads the request of a waiting client finds
no echo of it under way, so its `Echo` is an `Answer`; the other steps of the servers do not
show.

**Only model-checked.**  All liveness properties, which with `ENABLED` are out of the
prover's reach.  Every safety property that a passing run checks is a theorem.

## 6. Not modelled

* the log of the forwarder and the time logs: wording, times and files.  With them
  `mssg` and `client` of `threaded.c`, which nothing else reads although the threads race
  for them, and the closing line that names a stranger;
* `accept` of `select.c`, `threaded.c` and `tcp_svr.c` returning -1: the first two go on with
  -1 as a descriptor (`FD_SET` then writes outside its set, which has no outcome to choose
  from), the last ends;
* `accept` of the epoll servers without a descriptor left: the loop tries again as long as the
  connection waits, until a client of that process is closed;
* limits the instances stay below: descriptors above the forwarder's 2048 entries or
  above `FD_SETSIZE`, more than 1024 divisors, `listen`'s backlog of 128;
* how long a blocking `connect` of the forwarder takes: it returns, in the end;
* what becomes of a client that ends its sending side and still waits: none of the
  repository's clients does (proxy 308 would close the pair);
* what the factoring children do after a `fork` failed and the parent returned.

## 7. Plan

What would add most, in this order:

1. `Forwarding` in both directions, so that the contents of the bytes and the closing of
   the pair are in one model;
2. `EchoService` with fairness, so that `EveryoneServed` and `LoadClientsEnd` follow from one
   promise.
