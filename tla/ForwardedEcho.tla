---------------------------- MODULE ForwardedEcho ----------------------------
(***************************************************************************)
(* The forwarder (Proxy) between the test programs of the repository:      *)
(*                                                                         *)
(*   "load"    Clients/client.cpp and Test_Server/threaded.c               *)
(*   "simple"  Clients/tcp_clnt.c and Test_Server/tcp_svr.c                *)
(*                                                                         *)
(* Proxy leaves its peers free; here they are the four programs.  A        *)
(* message is M units, sent in one call, and TCP delivers it unit by unit, *)
(* so it may be read in parts.  "Far end" is the program on the other side *)
(* of a socket of the forwarder: the client of <<c, "cli">>, the server's  *)
(* connection of <<c, "srv">>.                                             *)
(***************************************************************************)
EXTENDS Proxy

CONSTANTS
  Pairs,       \* the pairs of programs to look at
  M,           \* units of a message (BUFLEN bytes in all four programs)
  iterations,  \* messages each load client sends
  Killable     \* clients somebody may kill

ASSUME EchoAssumption ==
  /\ Pairs \subseteq {"load", "simple"}
  /\ M \in Nat /\ M > 1
  /\ iterations \in [Conn -> Nat \ {0}]
  /\ Killable \subseteq Conn

\* What a thread of the server reads at most: BUFLEN + 1 bytes.
ReadLen == M + 1

VARIABLES
  pair,     \* which programs run
  client,   \* where each client is
  left,     \* messages it still has to send
  server,   \* who serves each connection: a thread, or tcp_svr's only loop
  hand,     \* units each thread has read and not echoed yet
  backlog,  \* connections to the server that it has not accepted
  out,      \* units the far end of a socket sent that have not arrived
  in,       \* units the forwarder sent on a socket that are not read
  got,      \* units the far end has read
  closing,  \* far ends that closed and whose FIN has not arrived
  dead,     \* sockets of the forwarder whose far end is closed
  unwanted, \* dead sockets the forwarder has sent on: a reset will arrive
  hit,      \* far ends that know of the forwarder's close: SIGPIPE comes next
  split,    \* clients of which some message was read in parts
  cut       \* clients whose pair was closed although no peer ended (history)

ends  == <<client, left, server, hand, backlog>>
wire  == <<out, in, got, closing, dead, unwanted, hit>>
evars == <<pair, ends, wire, split, cut>>
all   == <<vars, evars>>

Cli(c) == <<c, "cli">>
Srv(c) == <<c, "srv">>
Gone(s) == peer[s] = "gone"

Talking == {"sending", "waiting"}
Finished == {"closed", "killed"}

\* Messages a client has to send in all, and units of those it has sent.
Start(c) == IF pair = "load" THEN iterations[c] ELSE 1
Sent(c) == M * (Start(c) - left[c])

\* Units of a client's messages on the way there, and of their echoes on the way
\* back or with the client.
There(c) == out[Cli(c)] + rcv[Cli(c)] + in[Srv(c)]
Back(c) == hand[c] + out[Srv(c)] + rcv[Srv(c)] + in[Cli(c)] + got[Cli(c)]

\* A thread raised SIGPIPE, which ends the server with all its threads.
ServerDown == \E c \in Conn : server[c] = "piped"

EchoTypeOK ==
  /\ pair \in Pairs
  /\ client \in [Conn -> {"idle", "spinning"} \cup Talking \cup Finished]
  /\ left \in [Conn -> Nat]
  /\ server \in [Conn -> {"none", "running", "echoing", "spinning", "orphan", "ended",
                        "piped"}]
  /\ hand \in [Conn -> 0 .. ReadLen]
  /\ backlog \in Seq(Conn)
  /\ out \in [Sock -> Nat]
  /\ in \in [Sock -> Nat]
  /\ got \in [Sock -> Nat]
  /\ \A S \in {closing, dead, unwanted, hit} : S \subseteq Sock
  /\ closing \cup unwanted \subseteq dead
  /\ split \subseteq Conn
  /\ cut \subseteq Conn

EchoInit ==
  /\ Init
  /\ pair \in Pairs
  /\ client = [c \in Conn |-> "idle"]
  /\ left = [c \in Conn |-> Start(c)]
  /\ server = [c \in Conn |-> "none"]
  /\ hand = [c \in Conn |-> 0]
  /\ backlog = <<>>
  /\ out = [s \in Sock |-> 0]
  /\ in = [s \in Sock |-> 0]
  /\ got = [s \in Sock |-> 0]
  /\ closing = {} /\ dead = {} /\ unwanted = {} /\ hit = {}
  /\ split = {} /\ cut = {}

-----------------------------------------------------------------------------
(* TCP between the forwarder and the far ends.                              *)

Deliver(s) ==
  /\ out[s] > 0
  /\ PeerSend(s)
  /\ out' = [out EXCEPT ![s] = @ - 1]
  /\ UNCHANGED <<pair, ends, in, got, closing, dead, unwanted, hit, split, cut>>

DeliverFin(s) ==
  /\ s \in closing
  /\ out[s] = 0
  /\ PeerFin(s)
  /\ closing' = closing \ {s}
  /\ UNCHANGED <<pair, ends, out, in, got, dead, unwanted, hit, split, cut>>

DeliverReset(s) ==
  /\ s \in unwanted \ closing
  /\ PeerReset(s)
  /\ unwanted' = unwanted \ {s}
  /\ UNCHANGED <<pair, ends, out, in, got, closing, dead, hit, split, cut>>

Network == \E s \in Sock : Deliver(s) \/ DeliverFin(s) \/ DeliverReset(s)

\* Variant: a read() is taken to fill its buffer.
TakenAll(s, n) == n

\* What a read of at most n finds at the far end of s.
Taken(s, n) == IF in[s] < n THEN in[s] ELSE n

Read(s, n) ==
  /\ got' = [got EXCEPT ![s] = @ + n]
  /\ in' = [in EXCEPT ![s] = @ - n]

\* A message was not read as one: n units, the first of them not a beginning.
Parted(s, n) == n # M \/ got[s] % M # 0
NoteSplit(c, parted) == split' = IF parted THEN split \cup {c} ELSE split

\* Variant: BUFLEN bytes are echoed whatever was read.
WriteWhole(s, n) ==
  /\ out' = IF Gone(s) THEN out ELSE [out EXCEPT ![s] = @ + M]
  /\ hit' = IF Gone(s) THEN hit \cup {s} ELSE hit

\* send() of n units: lost when the forwarder has closed its side.
Write(s, n) ==
  /\ out' = IF Gone(s) THEN out ELSE [out EXCEPT ![s] = @ + n]
  /\ hit' = IF Gone(s) THEN hit \cup {s} ELSE hit

\* The far end closes: a reset when data is unread or the socket says so (it
\* drops what is not sent yet), and a FIN behind the data otherwise.
CloseFar(s, reset) ==
  /\ dead' = dead \cup {s}
  /\ in' = [in EXCEPT ![s] = 0]
  /\ IF Gone(s) THEN UNCHANGED <<vars, out, closing>>
     ELSE IF reset
       THEN PeerReset(s) /\ out' = [out EXCEPT ![s] = 0] /\ UNCHANGED closing
       ELSE closing' = closing \cup {s} /\ UNCHANGED <<vars, out>>

-----------------------------------------------------------------------------
(* The forwarder, and what its steps mean to the far ends.                  *)

Sends == total_sent' > total_sent /\ To # None

\* connect() finds nobody on the server's port once the server has ended.
Forwarder ==
  /\ Process
  /\ ServerDown => ~Connected
  /\ in' = [s \in Sock |-> IF Sends /\ s = To /\ s \notin dead
                           THEN in[s] + Received ELSE in[s]]
  /\ out' = [s \in Sock |-> IF peer'[s] = "gone" THEN 0 ELSE out[s]]
  /\ closing' = {s \in closing : peer'[s] # "gone"}
  /\ unwanted' = {s \in unwanted \cup (IF Sends THEN {To} \cap dead ELSE {}) :
                    peer'[s] \in {"up", "fin"}}
  /\ backlog' = IF pc = "connect" /\ pc' = "loop"
                THEN Append(backlog, fds[fw_new][1]) ELSE backlog
  /\ cut' = cut \cup {c \in Conn : /\ Open(c) /\ ~Open(c)' /\ Running'
                                   /\ ~Ended(Cli(c)) /\ ~Ended(Srv(c))}
  /\ UNCHANGED <<pair, client, left, server, hand, got, dead, hit, split>>

Stop ==
  /\ Interrupt
  /\ out' = [s \in Sock |-> 0]
  /\ closing' = {} /\ unwanted' = {}
  /\ UNCHANGED <<pair, ends, in, got, dead, hit, split, cut>>

-----------------------------------------------------------------------------
(* The clients.                                                             *)

Connect(c) ==
  /\ client[c] = "idle"
  /\ ClientConnect(c)
  /\ client' = [client EXCEPT ![c] = "sending"]
  /\ UNCHANGED <<pair, left, server, hand, backlog, wire, split, cut>>

Send(c) ==
  /\ client[c] = "sending"
  /\ left[c] > 0
  /\ Write(Cli(c), M)
  /\ client' = [client EXCEPT ![c] = "waiting"]
  /\ left' = [left EXCEPT ![c] = @ - 1]
  /\ UNCHANGED <<vars, pair, server, hand, backlog, in, got, closing, dead, unwanted, split,
                 cut>>

\* The second send() to a closed connection raises SIGPIPE in the client.
ClientSigPipe(c) ==
  /\ client[c] = "sending"
  /\ left[c] > 0
  /\ Cli(c) \in hit
  /\ client' = [client EXCEPT ![c] = "killed"]
  /\ CloseFar(Cli(c), TRUE)
  /\ UNCHANGED <<pair, left, server, hand, backlog, got, unwanted, hit, split, cut>>

\* Variant: the socket does not block.
LoadRecvAtOnce(c) ==
  /\ pair = "load"
  /\ client[c] = "waiting"
  /\ Read(Cli(c), Taken(Cli(c), M))
  /\ client' = [client EXCEPT ![c] = "sending"]
  /\ UNCHANGED <<vars, pair, left, server, hand, backlog, out, closing, dead, unwanted, hit,
                 split, cut>>

\* client.cpp: one recv() per message, whatever it returns.
LoadRecv(c) ==
  LET s == Cli(c)
      n == Taken(s, M)
  IN  /\ pair = "load"
      /\ client[c] = "waiting"
      /\ n > 0 \/ Gone(s)
      /\ Read(s, n)
      /\ hit' = IF n = 0 THEN hit \cup {s} ELSE hit
      /\ NoteSplit(c, n > 0 /\ Parted(s, n))
      /\ client' = [client EXCEPT ![c] = "sending"]
      /\ UNCHANGED <<vars, pair, left, server, hand, backlog, out, closing, dead, unwanted,
                     cut>>

\* client.cpp writes no bytes where client.c sends its end mark, and closes with
\* SO_LINGER 0.
LoadClose(c) ==
  /\ pair = "load"
  /\ client[c] = "sending"
  /\ left[c] = 0
  /\ CloseFar(Cli(c), TRUE)
  /\ client' = [client EXCEPT ![c] = "closed"]
  /\ UNCHANGED <<pair, left, server, hand, backlog, got, unwanted, hit, split, cut>>

\* tcp_clnt.c: the loop ends when one recv() returns the whole message.
SimpleRecv(c) ==
  LET s == Cli(c) IN
  /\ pair = "simple"
  /\ client[c] = "waiting"
  /\ Taken(s, M) = M
  /\ got' = [got EXCEPT ![s] = @ + M]
  /\ CloseFar(s, FALSE)
  /\ client' = [client EXCEPT ![c] = "closed"]
  /\ UNCHANGED <<pair, left, server, hand, backlog, unwanted, hit, split, cut>>

\* After a part, an end or an error no recv() can return BUFLEN any more.
SimpleSpins(c) ==
  LET s == Cli(c)
      n == Taken(s, M)
  IN  /\ pair = "simple"
      /\ client[c] = "waiting"
      /\ n < M
      /\ n > 0 \/ Gone(s)
      /\ Read(s, n)
      /\ NoteSplit(c, n > 0)
      /\ client' = [client EXCEPT ![c] = "spinning"]
      /\ UNCHANGED <<vars, pair, left, server, hand, backlog, out, closing, dead, unwanted,
                     hit, cut>>

\* tcp_clnt.c has connected and waits for the user to type the message.
Typed(c) == pair = "simple" /\ Send(c)

ClientStep(c) ==
  \/ pair = "load" /\ Send(c)
  \/ ClientSigPipe(c)
  \/ LoadRecv(c) \/ LoadClose(c)
  \/ SimpleRecv(c) \/ SimpleSpins(c)

\* Somebody kills a client.  A spinning one has read all there was.
Kill(c) ==
  /\ c \in Killable
  /\ client[c] \in Talking \cup {"spinning"}
  /\ CloseFar(Cli(c), pair = "load" \/ (in[Cli(c)] > 0 /\ client[c] # "spinning"))
  /\ client' = [client EXCEPT ![c] = "killed"]
  /\ UNCHANGED <<pair, left, server, hand, backlog, got, unwanted, hit, split, cut>>

-----------------------------------------------------------------------------
(* The servers.                                                             *)

\* tcp_svr.c comes back to accept() when it is done with a connection.
SvrFree == pair = "simple" => \A c \in Conn : server[c] \notin {"running", "spinning"}

Serves(how) ==
  /\ backlog # <<>>
  /\ server' = [server EXCEPT ![Head(backlog)] = how]
  /\ backlog' = Tail(backlog)
  /\ UNCHANGED <<vars, pair, client, left, hand, wire, split, cut>>

Accepted == SvrFree /\ Serves("running")

\* pthread_create() returns a positive number and not -1 when it fails: main() goes
\* on as if there were a thread.
NoThread == pair = "load" /\ Serves("orphan")

Thread(c, where) == pair = "load" /\ ~ServerDown /\ server[c] = where

\* A message that arrives alone begins with its flag, and the thread echoes what it
\* read.  Once a message has come in parts, what is read next may begin with anything:
\* with text, or with a flag, which the forwarder sends again for a later part.
ThreadRead(c) ==
  LET s == Srv(c)
      n == Taken(s, ReadLen)
  IN  /\ Thread(c, "running")
      /\ n > 0
      /\ Read(s, n)
      /\ hand' = [hand EXCEPT ![c] = n]
      /\ NoteSplit(c, Parted(s, n))
      /\ server' = [server EXCEPT ![c] = "echoing"]
      /\ UNCHANGED <<vars, pair, client, left, backlog, out, closing, dead, unwanted, hit,
                     cut>>

\* The first byte read is no flag: the thread takes it for the end.
ThreadMisreads(c) ==
  LET s == Srv(c)
      n == Taken(s, ReadLen)
  IN  /\ Thread(c, "running")
      /\ n > 0
      /\ c \in split
      /\ got' = [got EXCEPT ![s] = @ + n]
      /\ CloseFar(s, in[s] > n)
      /\ server' = [server EXCEPT ![c] = "ended"]
      /\ UNCHANGED <<pair, client, left, hand, backlog, unwanted, hit, split, cut>>

ThreadEcho(c) ==
  /\ Thread(c, "echoing")
  /\ Write(Srv(c), hand[c])
  /\ hand' = [hand EXCEPT ![c] = 0]
  /\ server' = [server EXCEPT ![c] = "running"]
  /\ UNCHANGED <<vars, pair, client, left, backlog, in, got, closing, dead, unwanted, split,
                 cut>>

\* The second send() to a closed connection: SIGPIPE is neither blocked nor handled.
\* The kernel closes the listener first.
ThreadSigPipe(c) ==
  /\ Thread(c, "echoing")
  /\ Srv(c) \in hit
  /\ CloseFar(Srv(c), TRUE)
  /\ hand' = [hand EXCEPT ![c] = 0]
  /\ server' = [server EXCEPT ![c] = "piped"]
  /\ backlog' = <<>>
  /\ UNCHANGED <<pair, client, left, got, unwanted, hit, split, cut>>

\* Then it closes the other connections, those nobody accepted with a reset.
ServerDies(c) ==
  /\ ServerDown
  /\ Srv(c) \notin dead
  /\ peer[Srv(c)] # "absent"
  /\ CloseFar(Srv(c), in[Srv(c)] > 0 \/ server[c] = "none")
  /\ hand' = [hand EXCEPT ![c] = 0]
  /\ server' = [server EXCEPT ![c] = "ended"]
  /\ UNCHANGED <<pair, client, left, backlog, got, unwanted, hit, split, cut>>

\* Variant: the first version of threaded.c, which reads again.
ThreadReadsOn(c) ==
  /\ Thread(c, "running")
  /\ in[Srv(c)] = 0
  /\ Gone(Srv(c))
  /\ UNCHANGED all

\* read() returns 0 or -1: the second version ends the thread.
ThreadEnds(c) ==
  /\ Thread(c, "running")
  /\ in[Srv(c)] = 0
  /\ Gone(Srv(c))
  /\ CloseFar(Srv(c), FALSE)
  /\ server' = [server EXCEPT ![c] = "ended"]
  /\ UNCHANGED <<pair, client, left, hand, backlog, got, unwanted, hit, split, cut>>

\* tcp_svr.c: the message in one recv(), the echo, close().
SvrEcho(c) ==
  LET s == Srv(c) IN
  /\ pair = "simple"
  /\ server[c] = "running"
  /\ Taken(s, M) = M
  /\ got' = [got EXCEPT ![s] = @ + M]
  /\ dead' = dead \cup {s}
  /\ in' = [in EXCEPT ![s] = 0]
  /\ Write(s, M)
  /\ closing' = IF Gone(s) THEN closing ELSE closing \cup {s}
  /\ server' = [server EXCEPT ![c] = "ended"]
  /\ UNCHANGED <<vars, pair, client, left, hand, backlog, unwanted, split, cut>>

SvrSpins(c) ==
  LET s == Srv(c)
      n == Taken(s, M)
  IN  /\ pair = "simple"
      /\ server[c] = "running"
      /\ n < M
      /\ n > 0 \/ Gone(s)
      /\ Read(s, n)
      /\ NoteSplit(c, n > 0)
      /\ server' = [server EXCEPT ![c] = "spinning"]
      /\ UNCHANGED <<vars, pair, client, left, hand, backlog, out, closing, dead, unwanted, hit,
                     cut>>

ServerStep(c) ==
  \/ ThreadRead(c) \/ ThreadEcho(c) \/ ThreadMisreads(c) \/ ThreadEnds(c)
  \/ ThreadSigPipe(c) \/ ServerDies(c)
  \/ SvrEcho(c) \/ SvrSpins(c)

-----------------------------------------------------------------------------
\* What the programs and TCP do when they are let: only finitely much of it without
\* a step of the forwarder.
Others ==
  Network \/ Accepted \/ \E c \in Conn : ClientStep(c) \/ ServerStep(c)

EchoNext ==
  \/ Forwarder \/ Others
  \/ Stop \/ NoThread
  \/ \E c \in Conn : Connect(c) \/ Kill(c) \/ Typed(c)

EchoSpec == EchoInit /\ [][EchoNext]_all

\* The forwarder is scheduled, and so is something of the rest.  Nobody has to start
\* a client, to type its message, to kill one or to interrupt the forwarder.
EchoFairSpec == EchoSpec /\ WF_all(Forwarder) /\ WF_all(Others)

-----------------------------------------------------------------------------
(* Properties.                                                              *)

\* Nothing but the programs' own doing: no message came in parts, nobody killed a
\* client, no thread is missing and the forwarder was not stopped.
Disturbed ==
  \/ split # {}
  \/ \E c \in Conn : client[c] = "killed" \/ server[c] = "orphan"
  \/ ~Running

\* The whole way round, client - forwarder - server - forwarder - client: while
\* no one has closed, every unit a load client has sent is still under way, has
\* been echoed and is under way back, or is with the client, also when messages
\* come in parts (client.cpp:188-191, proxy_v3.cpp:299-303, threaded.c:125-134).
Whole(c) == {Cli(c), Srv(c)} \cap dead = {} /\ peer[Cli(c)] = "up" /\ ~Gone(Srv(c))

RoundTrip ==
  pair = "load" =>
    \A c \in Conn :
      /\ There(c) + Back(c) <= Sent(c)
      /\ got[Srv(c)] + There(c) <= Sent(c)
      /\ Whole(c) => There(c) + Back(c) = Sent(c) /\ got[Srv(c)] = Back(c)

\* Left to themselves client.cpp and threaded.c get every message back, over every
\* interleaving, although recv() is called once per message and its result never
\* looked at (client.cpp:191), and the forwarder takes no connection down early.
WholeAnswers ==
  pair = "load" /\ ~Disturbed =>
    /\ cut = {}
    /\ \A c \in Conn : client[c] = "closed" => got[Cli(c)] = iterations[c] * M

\* A thread sends twice on a connection the forwarder has closed, which ends the
\* whole server with SIGPIPE, only for a client of which a message came in parts:
\* whoever is killed or stopped, the forwarder may close between the read() and the
\* send() of a thread, but then there is nothing more for it to read
\* (threaded.c:125-134).
ServerSurvives ==
  \A c \in Conn :
    server[c] = "piped" \/ (server[c] = "echoing" /\ Srv(c) \in hit) => c \in split

\* Nor do the programs raise SIGPIPE in the forwarder, which would end the service
\* of the port, unless a message came in parts, a client was killed, a thread is
\* missing or the forwarder was stopped (proxy_v3.cpp:303).
ForwarderSurvives == [][SigPipe => Disturbed]_all

\* Every load client gets to its end, also if the forwarder stops or its messages
\* come in parts, unless the server has no thread for it, or for another one whose
\* descriptors it needs (client.cpp:191).
LoadClientsEnd ==
  \A c \in Watched :
    pair = "load" /\ client[c] # "idle" ~>
      client[c] \in Finished \/ \E d \in Conn : server[d] = "orphan"

\* Every thread ends although client.cpp never sends the end mark: its reset goes
\* through the forwarder and the second version looks at an empty read
\* (threaded.c:155-169, proxy_v3.cpp:162-169).
ThreadsEnd ==
  \A c \in Watched :
    pair = "load" /\ server[c] = "running" ~> server[c] \in {"ended", "piped"}

\* As long as no user leaves a tcp_clnt.c at its prompt, which holds up the one loop of
\* tcp_svr.c, every one gets its answer, unless something disturbed one of them or the
\* forwarder closed a connection whose ends were up (tcp_clnt.c:82-96,
\* tcp_svr.c:79-103).
SimpleClientsEnd ==
  (\A d \in Conn : []<>(client[d] # "sending")) =>
    \A c \in Watched :
      pair = "simple" /\ client[c] # "idle" ~> client[c] = "closed" \/ Disturbed \/ cut # {}

\* How far a load client is with EchoService, whose server is behind the forwarder:
\* lost when something disturbs the programs.  The simple pair is not looked at.
Stage ==
  [c \in Conn |->
     IF pair = "simple" \/ Disturbed THEN "lost"
     ELSE IF client[c] = "waiting"
       THEN IF got[Srv(c)] = Sent(c) /\ hand[c] = 0 THEN "answered" ELSE "asked"
     ELSE IF client[c] \in {"idle", "sending"} THEN "idle"
     ELSE "left"]

\* The answer a client waits for is still to come.
Todo ==
  [c \in Conn |->
     IF Stage[c] = "lost" THEN 0
     ELSE IF client[c] = "waiting" THEN left[c] + 1
     ELSE left[c]]

Service == INSTANCE EchoService WITH Client <- Conn, Iterations <- Nat,
                                     stage <- Stage, todo <- Todo

\* The forwarder does not show: through it the load clients have the service they
\* have of a server of their own, answer by answer (proxy_v3.cpp:156-247, 292-314,
\* client.cpp:186-196, threaded.c:121-137).
ServesEcho == Service!Spec

-----------------------------------------------------------------------------
(* What makes the properties above inductive (ForwardedEchoProofs).         *)

\* Where the programs are and what has become of their sockets.
Places ==
  /\ \A c \in Conn :
       /\ client[c] = "idle" <=> peer[Cli(c)] = "absent"
       /\ client[c] = "idle" => left[c] = Start(c) /\ peer[Srv(c)] = "absent"
       /\ client[c] = "spinning" => pair = "simple"
       /\ left[c] <= Start(c)
       /\ Cli(c) \in dead <=> client[c] \in Finished
       /\ Srv(c) \in dead <=> server[c] \in {"ended", "piped"}
       /\ Srv(c) \in hit =>
            server[c] \in {"ended", "piped"} \/ (server[c] # "spinning" /\ pair = "load")
       /\ hand[c] > 0 <=> server[c] = "echoing"
       /\ server[c] \in {"echoing", "piped"} => pair = "load"
       /\ Gone(Srv(c)) => Gone(Cli(c))
       /\ peer[Srv(c)] = "absent" => server[c] = "none"
  /\ \A i \in DOMAIN backlog :
       /\ server[backlog[i]] = "none" /\ peer[Srv(backlog[i])] # "absent"
       /\ \A j \in DOMAIN backlog : backlog[i] = backlog[j] => i = j
  /\ ServerDown => backlog = <<>>

\* A far end that is not closed is up or gone; the FIN of a closed one is on its
\* way or has arrived; a socket that was never connected has seen nothing.
Wires ==
  \A s \in Sock :
    /\ Ended(s) => s \in dead
    /\ s \in closing <=> s \in dead /\ peer[s] = "up"
    /\ out[s] > 0 => peer[s] = "up"
    /\ s \in dead => in[s] = 0
    /\ s \in hit => Gone(s)
    /\ s \in unwanted => peer[s] \in {"up", "fin"}
    /\ peer[s] = "absent" =>
         out[s] = 0 /\ rcv[s] = 0 /\ in[s] = 0 /\ got[s] = 0 /\ s \notin dead

\* No unit is made on the way, in either pair.
NoneMade ==
  \A c \in Conn : There(c) + Back(c) <= Sent(c) /\ got[Srv(c)] + There(c) <= Sent(c)

\* A load client whose messages came whole has at most one of them on the way there,
\* none when a thread is about to echo one, and none any more when the thread has sent
\* to a closed connection.
OneAtOnce ==
  pair = "load" =>
    \A c \in Conn \ split :
      /\ client[c] = "sending" => got[Cli(c)] = Sent(c) \/ Gone(Cli(c))
      /\ client[c] = "waiting" => got[Cli(c)] + M = Sent(c) \/ Gone(Cli(c))
      /\ There(c) <= M
      /\ hand[c] > 0 \/ Srv(c) \in hit => There(c) = 0

\* The load programs alone: a client that sends has all its answers, one that waits
\* lacks one, and its end is the first of the connection.
Turns ==
  \A c \in Conn :
    /\ client[c] = "sending" => got[Cli(c)] = Sent(c) /\ ~Gone(Cli(c))
    /\ client[c] = "waiting" =>
         /\ got[Cli(c)] + M = Sent(c) /\ ~Gone(Cli(c))
         /\ got[Srv(c)] + M = Sent(c) \/ got[Srv(c)] = Sent(c)
    /\ client[c] = "closed" => got[Cli(c)] = Sent(c) /\ left[c] = 0
    /\ server[c] \in {"ended", "piped"} => Gone(Srv(c))

\* Their events never outlive a connection: it has at most one, with a reason, and
\* none while forwarding() runs for it.
Due(f) == Ended(fds[f]) \/ rcv[fds[f]] > 0
SameConn(f, g) == fds[f][1] = fds[g][1]

OwnBatch ==
  \A e \in events : e.fd \in Fd =>
    /\ fds[e.fd] # None /\ Due(e.fd) /\ (e.hup => Ended(fds[e.fd]))
    /\ \A g \in events : g.fd \in Fd /\ SameConn(e.fd, g.fd) => e = g

OwnCall ==
  pc = "forwarding" =>
    /\ fds[cur] # None
    /\ Due(cur) \/ total_sent > 0
    /\ \A e \in events : e.fd \in Fd => ~SameConn(e.fd, cur)

\* The simple programs alone: nothing is sent to who has closed, so nothing is reset.
NoReset ==
  /\ unwanted = {}
  /\ \A s \in Sock : ~HungUp(s)

\* Who has closed in the simple pair has read a message.
Served ==
  pair = "simple" =>
    \A c \in Conn : /\ client[c] = "closed" => got[Cli(c)] >= M
                    /\ server[c] = "ended" => got[Srv(c)] >= M

Alone ==
  ~Disturbed =>
    /\ pair = "load" => cut = {} /\ Turns /\ OwnBatch /\ OwnCall
    /\ pair = "simple" => NoReset

EchoInv ==
  /\ EchoTypeOK /\ Places /\ Wires /\ NoneMade /\ RoundTrip
  /\ OneAtOnce /\ ServerSurvives /\ Served /\ Alone
=============================================================================
