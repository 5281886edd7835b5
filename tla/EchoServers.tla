----------------------------- MODULE EchoServers -----------------------------
(***************************************************************************)
(* The echo servers of "Multi-thread servers, Select and E-poll" with the  *)
(* load clients that drive them.  A server is one or several processes on  *)
(* one listening socket: epoll.c and epollv2.c (non-blocking sockets),     *)
(* select.c and selectv2.c (blocking sockets), or threaded.c (one process  *)
(* that starts a thread per client).  All of them run EchoProcess() on a   *)
(* client from its first message to its end mark.                          *)
(*                                                                         *)
(* A message is its first byte: "1" asks for an echo, "0" is the end mark. *)
(* TCP may deliver it in two parts; "x" is a second part, which begins     *)
(* with text.  The log files are left out.                                 *)
(***************************************************************************)
EXTENDS Naturals, Sequences, FiniteSets

CONSTANTS
  Client,      \* the processes client.c forks
  Proc,        \* the processes a server may have
  Servers,     \* the servers to look at: [kind, procs]
  Iterations,  \* numbers of messages a client may be asked to send
  MayFail,     \* clients that may be killed
  MayPart,     \* clients whose messages may arrive in two parts
  MayStop,     \* processes that may be interrupted
  None

Kind == {"epoll", "select", "thread"}

ASSUME EchoAssumption ==
  /\ Servers \subseteq [kind : Kind, procs : SUBSET Proc]
  /\ \A s \in Servers : s.kind = "thread" => \E p \in Proc : s.procs = {p}
  /\ Iterations \subseteq Nat
  /\ MayFail \subseteq Client /\ MayPart \subseteq Client /\ MayStop \subseteq Proc
  /\ Client \cap Proc = {} /\ None \notin Client

VARIABLES
  server,   \* which server runs
  up,       \* its processes that still run
  queue,    \* the listener's completed connections
  socks,    \* clients whose socket each process has open
  batch,    \* events (epoll) or descriptors (select) still to be handled
  serving,  \* the client each process, or each client's thread, echoes to
  inb,      \* messages of each client the server has not read
  echoes,   \* echoes each client has not read
  left,     \* iterations each client has to go
  cst       \* where each client is

net     == <<queue, inb, echoes>>
clients == <<left, cst>>
procs   == <<socks, batch, serving>>
vars    == <<server, up, net, clients, procs>>

Event == [of : Client \cup {None}, hup : BOOLEAN]   \* of None: the listener

TypeOK ==
  /\ server \in Servers
  /\ up \subseteq server.procs
  /\ queue \in Seq(Client)
  /\ socks \in [Proc -> SUBSET Client]
  /\ batch \in [Proc -> SUBSET Event]
  /\ serving \in [Proc \cup Client -> Client \cup {None}]
  /\ inb \in [Client -> Seq({"1", "0", "x"})]
  /\ echoes \in [Client -> 0 .. 1]
  /\ left \in [Client -> Nat]
  /\ cst \in [Client -> {"new", "refused", "send", "wait", "ended", "done", "cut", "piped", "failed"}]

Init ==
  /\ server \in Servers
  /\ up = server.procs
  /\ queue = <<>>
  /\ socks = [p \in Proc |-> {}]
  /\ batch = [p \in Proc |-> {}]
  /\ serving = [w \in Proc \cup Client |-> None]
  /\ inb = [c \in Client |-> <<>>]
  /\ echoes = [c \in Client |-> 0]
  /\ left \in [Client -> Iterations]
  /\ cst = [c \in Client |-> "new"]

-----------------------------------------------------------------------------
(* client.c: connect, then write and read once per iteration, then the end  *)
(* mark.  SO_LINGER 0 makes close() a reset.                                *)

Queued(c) == \E i \in DOMAIN queue : queue[i] = c
Holders(c) == {p \in Proc : c \in socks[p]}

\* The server has closed this connection.
Closed(c) == ~Queued(c) /\ Holders(c) = {}

\* With nobody on the port, connect() fails and the client exits.
Connect(c) ==
  /\ cst[c] = "new"
  /\ IF up = {} THEN cst' = [cst EXCEPT ![c] = "refused"] /\ UNCHANGED queue
               ELSE cst' = [cst EXCEPT ![c] = "send"] /\ queue' = Append(queue, c)
  /\ UNCHANGED <<server, up, inb, echoes, left, procs>>

\* How a message with this flag may arrive; on a closed connection, not at all.
Arrives(c, flag) ==
  \E parts \in {<<flag>>} \cup (IF c \in MayPart THEN {<<flag, "x">>} ELSE {}) :
    inb' = IF Closed(c) THEN inb ELSE [inb EXCEPT ![c] = @ \o parts]

Write(c) ==
  /\ cst[c] = "send"
  /\ left[c] > 0
  /\ Arrives(c, "1")
  /\ cst' = [cst EXCEPT ![c] = "wait"]
  /\ UNCHANGED <<server, up, queue, echoes, left, procs>>

\* One read() per message, whatever it returns.
Read(c) ==
  /\ cst[c] = "wait"
  /\ echoes[c] > 0 \/ Closed(c)
  /\ echoes' = [echoes EXCEPT ![c] = 0]
  /\ left' = [left EXCEPT ![c] = @ - 1]
  /\ cst' = [cst EXCEPT ![c] = "send"]
  /\ UNCHANGED <<server, up, queue, inb, procs>>

WriteEnd(c) ==
  /\ cst[c] = "send"
  /\ left[c] = 0
  /\ Arrives(c, "0")
  /\ cst' = [cst EXCEPT ![c] = "ended"]
  /\ UNCHANGED <<server, up, queue, echoes, left, procs>>

\* A write() to a connection that was reset raises SIGPIPE.
ClientSigPipe(c) ==
  /\ cst[c] = "send"
  /\ Closed(c)
  /\ cst' = [cst EXCEPT ![c] = "piped"]
  /\ UNCHANGED <<server, up, net, left, procs>>

\* A process has been told of data of this client, which therefore has arrived.
Told(c) == \E p \in Proc : \E e \in batch[p] : e.of = c /\ ~e.hup

\* What a reset leaves of the unread messages: those that have arrived, at least
\* the one a process was told of.  The others, never sent or never acknowledged,
\* are discarded.
Kept(c) == (IF Told(c) THEN 1 ELSE 0) .. Len(inb[c])

Keep(c, n) == inb' = [inb EXCEPT ![c] = SubSeq(@, 1, n)]

\* close() right after the end mark, which may be lost with it: "cut".
CloseClient(c) ==
  \E n \in Kept(c) :
    /\ cst[c] = "ended"
    /\ Keep(c, n)
    /\ cst' = [cst EXCEPT ![c] = IF n = Len(inb[c]) THEN "done" ELSE "cut"]
    /\ UNCHANGED <<server, up, queue, echoes, left, procs>>

\* The client is killed; its socket is reset too.
Fail(c) ==
  \E n \in Kept(c) :
    /\ c \in MayFail
    /\ cst[c] \in {"send", "wait"}
    /\ Keep(c, n)
    /\ cst' = [cst EXCEPT ![c] = "failed"]
    /\ UNCHANGED <<server, up, queue, echoes, left, procs>>

ClientStep(c) ==
  \/ Connect(c) \/ Write(c) \/ Read(c) \/ WriteEnd(c) \/ CloseClient(c)
  \/ ClientSigPipe(c)

HungUp(c) == cst[c] \in {"done", "cut", "piped", "failed"}

-----------------------------------------------------------------------------
(* main() of the epoll and select servers.                                  *)

\* Variant: the listener registered edge-triggered, one event per arrival.
ListenerEdge == IF Len(queue) = 1 THEN {[of |-> None, hup |-> FALSE]} ELSE {}

ListenerReady == IF queue # <<>> THEN {[of |-> None, hup |-> FALSE]} ELSE {}

\* Idle: at epoll_wait() or select().
Idle(p) == p \in up /\ serving[p] = None /\ batch[p] = {}

EpollWait(p) ==
  LET ready == ListenerReady \cup
        {[of |-> c, hup |-> HungUp(c)] :
            c \in {d \in socks[p] : HungUp(d) \/ inb[d] # <<>>}}
  IN  /\ server.kind = "epoll"
      /\ Idle(p)
      /\ ready # {}
      /\ batch' = [batch EXCEPT ![p] = ready]
      /\ UNCHANGED <<server, up, net, clients, socks, serving>>

\* select() tells readable from not, and nothing else.
Select(p) ==
  LET ready == ListenerReady \cup
        {[of |-> c, hup |-> FALSE] :
            c \in {d \in socks[p] : HungUp(d) \/ inb[d] # <<>>}}
  IN  /\ server.kind = "select"
      /\ Idle(p)
      /\ ready # {}
      /\ batch' = [batch EXCEPT ![p] = ready]
      /\ UNCHANGED <<server, up, net, clients, socks, serving>>

\* select.c sweeps the descriptors upwards, and the listener is the lowest.
Turn(p, e) ==
  /\ serving[p] = None
  /\ e \in batch[p]
  /\ server.kind = "select" =>
       (e.of # None => \A f \in batch[p] : f.of # None)

\* accept() takes a connection.  On an empty queue the select server, whose
\* listener blocks, stays in accept() until there is one.
Accept(p) ==
  \E e \in batch[p] :
    /\ Turn(p, e)
    /\ e.of = None
    /\ queue # <<>>
    /\ socks' = [socks EXCEPT ![p] = @ \cup {Head(queue)}]
    /\ queue' = Tail(queue)
    /\ batch' = [batch EXCEPT ![p] = @ \ {e}]
    /\ UNCHANGED <<server, up, inb, echoes, clients, serving>>

\* Another process was faster: EAGAIN.
AcceptAgain(p) ==
  \E e \in batch[p] :
    /\ server.kind = "epoll"
    /\ Turn(p, e)
    /\ e.of = None
    /\ queue = <<>>
    /\ batch' = [batch EXCEPT ![p] = @ \ {e}]
    /\ UNCHANGED <<server, up, net, clients, socks, serving>>

\* EPOLLHUP or EPOLLERR: the socket is closed, whatever is unread in it.
HangUp(p) ==
  \E e \in batch[p] :
    /\ Turn(p, e)
    /\ e.hup
    /\ socks' = [socks EXCEPT ![p] = @ \ {e.of}]
    /\ inb' = [inb EXCEPT ![e.of] = <<>>]
    /\ batch' = [batch EXCEPT ![p] = @ \ {e}]
    /\ UNCHANGED <<server, up, queue, echoes, clients, serving>>

\* The call of EchoProcess(), from which the process returns at the end mark.
Serve(p) ==
  \E e \in batch[p] :
    /\ Turn(p, e)
    /\ e.of # None
    /\ ~e.hup
    /\ serving' = [serving EXCEPT ![p] = e.of]
    /\ batch' = [batch EXCEPT ![p] = @ \ {e}]
    /\ UNCHANGED <<server, up, net, clients, socks>>

-----------------------------------------------------------------------------
(* main() of threaded.c: a blocking accept() and a thread per client.       *)

\* Variant: the thread is joined instead of detached.
StartThreadJoin(p) ==
  /\ server.kind = "thread"
  /\ p \in up
  /\ queue # <<>>
  /\ \A c \in Client : serving[c] = None
  /\ socks' = [socks EXCEPT ![p] = @ \cup {Head(queue)}]
  /\ serving' = [serving EXCEPT ![Head(queue)] = Head(queue)]
  /\ queue' = Tail(queue)
  /\ UNCHANGED <<server, up, inb, echoes, clients, batch>>

StartThread(p) ==
  /\ server.kind = "thread"
  /\ p \in up
  /\ queue # <<>>
  /\ socks' = [socks EXCEPT ![p] = @ \cup {Head(queue)}]
  /\ serving' = [serving EXCEPT ![Head(queue)] = Head(queue)]
  /\ queue' = Tail(queue)
  /\ UNCHANGED <<server, up, inb, echoes, clients, batch>>

-----------------------------------------------------------------------------
(* EchoProcess() in worker w, a process or a thread: one read() at a time.   *)
(* A read() that returns nothing (EAGAIN, end of file or an error) is tried  *)
(* again at once; it changes nothing.                                       *)

Reading(w) == serving[w] # None /\ inb[serving[w]] # <<>>

Take(c) == inb' = [inb EXCEPT ![c] = Tail(@)]

\* Variant: the message stays in the socket (a read() that only looks).
EchoAgain(w) ==
  LET c == serving[w] IN
  /\ Reading(w)
  /\ Head(inb[c]) = "1"
  /\ echoes' = [echoes EXCEPT ![c] = IF HungUp(c) THEN @ ELSE @ + 1]
  /\ UNCHANGED <<server, up, queue, inb, clients, procs>>

\* An echo to a client that is gone is lost.
Echo(w) ==
  LET c == serving[w] IN
  /\ Reading(w)
  /\ Head(inb[c]) = "1"
  /\ Take(c)
  /\ echoes' = [echoes EXCEPT ![c] = IF HungUp(c) THEN @ ELSE @ + 1]
  /\ UNCHANGED <<server, up, queue, clients, procs>>

\* Variant: the message is sent back before its flag is looked at.
EndMarkEchoed(w) ==
  LET c == serving[w] IN
  /\ Reading(w)
  /\ Head(inb[c]) = "0"
  /\ Take(c)
  /\ echoes' = [echoes EXCEPT ![c] = IF HungUp(c) THEN @ ELSE @ + 1]
  /\ socks' = [p \in Proc |-> socks[p] \ {c}]
  /\ serving' = [serving EXCEPT ![w] = None]
  /\ UNCHANGED <<server, up, queue, clients, batch>>

\* Variant: a read() without data ends the connection as well.
EndMarkOrNothing(w) ==
  LET c == serving[w] IN
  /\ c # None
  /\ inb[c] # <<>> => Head(inb[c]) = "0"
  /\ inb' = [inb EXCEPT ![c] = <<>>]
  /\ socks' = [p \in Proc |-> socks[p] \ {c}]
  /\ serving' = [serving EXCEPT ![w] = None]
  /\ UNCHANGED <<server, up, queue, echoes, clients, batch>>

\* Variant: the socket is closed and the loop goes on.
EndMarkGoesOn(w) ==
  LET c == serving[w] IN
  /\ Reading(w)
  /\ Head(inb[c]) = "0"
  /\ Take(c)
  /\ socks' = [p \in Proc |-> socks[p] \ {c}]
  /\ UNCHANGED <<server, up, queue, echoes, clients, batch, serving>>

\* What does not begin with "1" ends the connection: the end mark, and also the
\* second part of a message.  The rest, if any, is not read.
EndMark(w) ==
  LET c == serving[w] IN
  /\ Reading(w)
  /\ Head(inb[c]) # "1"
  /\ inb' = [inb EXCEPT ![c] = <<>>]
  /\ socks' = [p \in Proc |-> socks[p] \ {c}]
  /\ serving' = [serving EXCEPT ![w] = None]
  /\ UNCHANGED <<server, up, queue, echoes, clients, batch>>

ProcStep(p) ==
  \/ EpollWait(p) \/ Select(p)
  \/ Accept(p) \/ AcceptAgain(p) \/ HangUp(p) \/ Serve(p)
  \/ StartThread(p)
  \/ Echo(p) \/ EndMark(p)

ThreadStep(c) == Echo(c) \/ EndMark(c)

\* SIGINT: close_connection(), or the end of the process by default.  The kernel
\* closes its sockets, and with the last process the listener and its queue.
Interrupt(p) ==
  LET lost == socks[p] \cup IF up = {p} THEN {c \in Client : Queued(c)} ELSE {} IN
  /\ p \in up \cap MayStop
  /\ up' = up \ {p}
  /\ socks' = [socks EXCEPT ![p] = {}]
  /\ batch' = [batch EXCEPT ![p] = {}]
  /\ serving' = [w \in Proc \cup Client |->
                   IF w = p \/ server.kind = "thread" THEN None ELSE serving[w]]
  /\ queue' = IF up = {p} THEN <<>> ELSE queue
  /\ inb' = [c \in Client |-> IF c \in lost THEN <<>> ELSE inb[c]]
  /\ UNCHANGED <<server, echoes, clients>>

Next ==
  \/ \E c \in Client : ClientStep(c) \/ Fail(c) \/ ThreadStep(c)
  \/ \E p \in Proc : ProcStep(p) \/ Interrupt(p)

Spec == Init /\ [][Next]_vars

\* Every process and thread is scheduled; nobody has to be killed
\* and nothing interrupted.
FairSpec ==
  /\ Spec
  /\ \A c \in Client : WF_vars(ClientStep(c)) /\ WF_vars(ThreadStep(c))
  /\ \A p \in Proc : WF_vars(ProcStep(p))

-----------------------------------------------------------------------------
(* Properties.                                                              *)

Whole == Client \ MayPart
AllUp == up = server.procs

\* What makes the properties below inductive.  Everybody is in one place: once in the
\* queue, or on a socket of one running process, or nowhere, with nothing unread.
Spread ==
  /\ \A i, j \in DOMAIN queue : queue[i] = queue[j] => i = j
  /\ \A p, q \in Proc : socks[p] \cap socks[q] # {} => p = q
  /\ \A p \in Proc \ up : socks[p] = {} /\ batch[p] = {} /\ serving[p] = None
  /\ \A c \in Client : Queued(c) => Holders(c) = {}
  /\ \A c \in Client : Closed(c) => inb[c] = <<>>
  /\ \A c \in Client : cst[c] \in {"new", "refused"} => Closed(c)
  /\ \A c \in Whole : AllUp /\ Closed(c) => cst[c] \notin {"send", "wait"}

\* A process has at most one event of each of its sockets, and none of the one it
\* serves; what was hung up stays so.  Threads serve their own client.
Workers ==
  /\ \A p \in Proc : \A e \in batch[p] :
       /\ e.hup => e.of # None /\ HungUp(e.of)
       /\ e.of # None => e.of \in socks[p] /\ e.of # serving[p]
       /\ \A f \in batch[p] : e.of = f.of => e = f
  /\ \A p \in Proc : serving[p] # None => serving[p] \in socks[p]
  /\ \A c \in Client : serving[c] # None =>
       serving[c] = c /\ Holders(c) # {} /\ server.kind = "thread"
  /\ server.kind = "thread" => \A p \in Proc : batch[p] = {} /\ serving[p] = None

\* What a client's socket may hold: what is left of a message, or also a new one.
Rest == {<<>>, <<"x">>}
Flagged(flag) == {<<flag>>, <<flag, "x">>, <<"x", flag>>, <<"x", flag, "x">>}

Conversation ==
  \A c \in Client :
    /\ cst[c] \in {"new", "refused", "send"} => inb[c] \in Rest /\ echoes[c] = 0
    /\ cst[c] = "wait" =>
         /\ left[c] > 0
         /\ \/ inb[c] \in Flagged("1") /\ echoes[c] = 0
            \/ inb[c] \in Rest /\ echoes[c] = 1
            \/ Closed(c) /\ echoes[c] = 0
    /\ cst[c] = "ended" => inb[c] \in Rest \cup Flagged("0") /\ echoes[c] = 0
    /\ cst[c] \in {"done", "cut"} => echoes[c] = 0
    /\ c \in Whole => \A i \in DOMAIN inb[c] : inb[c][i] # "x"

\* All of it holds in every state (EchoServersProofs): sockets, workers and conversations
\* of the servers and client.c stay in order.
IInv == TypeOK /\ Spread /\ Workers /\ Conversation

\* A client the server still owes something is in the accept queue or has its
\* socket open in exactly one of the processes that share the listener; unless a
\* process is interrupted, nobody closes on it before its end mark, also when the
\* messages of others come in parts (epoll.c:119-148, select.c:93-117).
Attended ==
  \A c \in Whole : AllUp /\ cst[c] \in {"send", "wait", "ended"} =>
    \/ Queued(c) /\ Holders(c) = {}
    \/ ~Queued(c) /\ Cardinality(Holders(c)) = 1
    \/ cst[c] = "ended" /\ inb[c] = <<>> /\ Closed(c)

\* A waiting client has either its request unread or its echo under way, never
\* both and never neither; the end mark is not echoed (client.c:186-208,
\* epoll.c:176-209).
AnsweredOnce ==
  \A c \in Whole :
    /\ AllUp /\ cst[c] = "wait" => Len(inb[c]) + echoes[c] = 1
    /\ cst[c] \in {"send", "ended", "done", "cut"} => echoes[c] = 0

\* No worker serves a socket its process does not have, no client is served by two
\* workers at a time, and an ended process leaves nothing behind.
OwnClient ==
  /\ \A p \in Proc : serving[p] # None => serving[p] \in socks[p]
  /\ \A v, w \in Proc \cup Client :
       serving[v] # None /\ serving[v] = serving[w] => v = w
  /\ \A c \in Client : Holders(c) \subseteq up

\* A process reads from a client that was killed, or whose end mark was lost, and
\* that it knows no hang-up of; that read() never returns anything.
Lost(p) ==
  \E c \in Client :
    serving[p] = c /\ cst[c] \in {"failed", "cut"} /\ inb[c] = <<>>

\* The processes that could see to a client are all lost: the one that has its
\* socket, or every one that could accept it.
Stuck(c) ==
  \/ \E p \in Holders(c) : Lost(p)
  \/ Queued(c) /\ \A p \in up : Lost(p)

\* Every client that connected is accepted, as long as one process is left that does
\* not read for ever from a client that is gone, or nobody is left at all.
QueuedIsAccepted ==
  \A c \in Client : Queued(c) ~> (~Queued(c) \/ \A p \in up : Lost(p))

\* Every client whose messages arrive whole gets all its echoes and closes ("The
\* server has no problem handling its load", Assignment_Report.pdf p. 7), unless a
\* process is interrupted or its own process is lost to another client: nobody is
\* held up by a client that another process is lost to, and no process is lost to
\* a client whose end mark it gets.
EveryoneServed ==
  \A c \in Whole :
    <>(cst[c] \in {"done", "cut", "failed"}) \/ <>Stuck(c) \/ <>~AllUp

Ended(c) == cst[c] \in {"done", "cut", "piped", "refused"}

\* Nor does a client wait for ever because its messages came in parts or its process
\* was interrupted: the close ends its read() (client.c:191, epoll.c:193-209).
EveryoneEnds ==
  \A c \in Client : <>(Ended(c) \/ cst[c] = "failed") \/ <>Stuck(c)

\* With a thread per client, a client that is killed or whose end mark is lost costs the
\* others nothing.
ThreadsAreIndependent ==
  server.kind = "thread" => \A c \in Client : <>(Ended(c) \/ cst[c] = "failed")

\* How far a client is with EchoService: lost when it is killed or refused, or a
\* process is interrupted.
Stage ==
  [c \in Whole |->
     IF ~AllUp \/ cst[c] \in {"failed", "refused"} THEN "lost"
     ELSE IF cst[c] \in {"new", "send"} THEN "idle"
     ELSE IF cst[c] = "wait" THEN IF echoes[c] = 0 THEN "asked" ELSE "answered"
     ELSE "left"]

Todo == [c \in Whole |-> IF Stage[c] = "lost" THEN 0 ELSE left[c]]

Service == INSTANCE EchoService WITH Client <- Whole, Iterations <- Iterations,
                                     stage <- Stage, todo <- Todo

\* Every server answers each request of a client once, after it came, also when
\* processes race for the client and the messages of others come in parts, and the
\* client leaves with all its answers (client.c:183-205, epoll.c:176-209).
ServesEcho == Service!Spec
=============================================================================
