------------------------------- MODULE Proxy -------------------------------
(***************************************************************************)
(* One process of the TCP port forwarder (Port Forwarder/Proxy/            *)
(* proxy_v3.cpp): the epoll loop that accepts the clients of one port,     *)
(* opens a second connection to the target machine for each of them, and   *)
(* copies data between the two sockets until one side ends.                *)
(*                                                                         *)
(* The module keeps the control of main() and forwarding(): descriptors,   *)
(* the table fd_sockets indexed by descriptor, the batch epoll_wait        *)
(* returned, the blocking connect and the receive loop.  Data is a number  *)
(* of units waiting in a socket; what the bytes are is Forwarding.tla.     *)
(* The kernel and the two peers are the environment.                       *)
(***************************************************************************)
EXTENDS Naturals, Sequences

CONSTANTS
  Conn,      \* the client connections made to the port, each from its own host
  NFd,       \* descriptors the process can still open once it listens
  BUFLEN,    \* size of forwarding()'s buffer, in units of data
  RcvBuf,    \* (bound) units of data the kernel holds unread in one socket
  Watched,   \* connections the liveness properties are stated for
  None       \* no socket / a field never written

ASSUME ConstantsAssumption ==
  /\ NFd \in Nat
  /\ BUFLEN \in Nat \ {0}
  /\ RcvBuf \in Nat \ {0}
  /\ None \notin Conn \X {"cli", "srv"}
  /\ None \notin Conn
  /\ None \notin Nat
  /\ Watched \subseteq Conn

Fd       == 1 .. NFd                 \* numbered from the first one free
Listener == 0                        \* fw_server
Sock     == Conn \X {"cli", "srv"}   \* the two sockets of a connection

VARIABLES
  queue,       \* completed connections accept() has not returned yet
  fds,         \* the process's descriptors: the socket each one is open on
  peer,        \* what the far end of each socket has done
  rcv,         \* units received on each socket and not read yet
  fd_sockets,  \* struct fd_sock fd_sockets[], never cleared
  fw_new, fw_socket,
  events,      \* the part of the batch that is not handled yet
  cur,         \* events[i].data.fd while forwarding() runs
  total_sent,  \* forwarding()'s count; bytes_to_read is BUFLEN - total_sent
  pc           \* where the process is, or how it ended

kernel  == <<queue, fds, peer, rcv>>
table   == <<fd_sockets, fw_new, fw_socket>>
call    == <<cur, total_sent>>
process == <<table, events, call, pc>>
vars    == <<kernel, process>>

Stopped == {"interrupted", "failed", "killed"}
Running == pc \notin Stopped

\* "reset": a reset whose error no call has returned yet.  "broken": the error
\* was returned, or the reset followed a FIN; the next send raises SIGPIPE.
PeerState == {"absent", "up", "fin", "reset", "broken", "gone"}

Entry == [src : Fd \cup {None}, dst : Fd \cup {None}, src_ip : Conn \cup {None}]

TypeOK ==
  /\ queue \in Seq(Conn)
  /\ fds \in [Fd -> Sock \cup {None}]
  /\ peer \in [Sock -> PeerState]
  /\ rcv \in [Sock -> Nat]
  /\ fd_sockets \in [Fd -> Entry]
  /\ fw_new \in Fd \cup {None}
  /\ fw_socket \in Fd \cup {None}
  /\ events \subseteq [fd : Fd \cup {Listener}, hup : BOOLEAN]
  /\ cur \in Fd \cup {None}
  /\ total_sent \in 0 .. BUFLEN
  /\ pc \in {"loop", "connect", "forwarding"} \cup Stopped

Init ==
  /\ queue = <<>>
  /\ fds = [f \in Fd |-> None]
  /\ peer = [s \in Sock |-> "absent"]
  /\ rcv = [s \in Sock |-> 0]
  /\ fd_sockets = [f \in Fd |-> [src |-> None, dst |-> None, src_ip |-> None]]
  /\ fw_new = None
  /\ fw_socket = None
  /\ events = {}
  /\ cur = None
  /\ total_sent = 0
  /\ pc = "loop"

-----------------------------------------------------------------------------
(* The peers: the clients, and the target machine behind each connection.   *)

ClientConnect(c) ==
  /\ Running
  /\ peer[<<c, "cli">>] = "absent"
  /\ peer' = [peer EXCEPT ![<<c, "cli">>] = "up"]
  /\ queue' = Append(queue, c)
  /\ UNCHANGED <<fds, rcv, process>>

PeerSend(s) ==
  /\ peer[s] = "up"
  /\ rcv[s] < RcvBuf
  /\ rcv' = [rcv EXCEPT ![s] = @ + 1]
  /\ UNCHANGED <<queue, fds, peer, process>>

PeerFin(s) ==
  /\ peer[s] = "up"
  /\ peer' = [peer EXCEPT ![s] = "fin"]
  /\ UNCHANGED <<queue, fds, rcv, process>>

\* SO_LINGER 0 at the test client, or the answer to data sent to a closed peer.
PeerReset(s) ==
  /\ peer[s] \in {"up", "fin"}
  /\ peer' = [peer EXCEPT ![s] = IF @ = "up" THEN "reset" ELSE "broken"]
  /\ UNCHANGED <<queue, fds, rcv, process>>

Peers ==
  \/ \E c \in Conn : ClientConnect(c)
  \/ \E s \in Sock : PeerSend(s) \/ PeerFin(s) \/ PeerReset(s)

-----------------------------------------------------------------------------
(* The kernel calls the process makes.                                      *)

Free == {f \in Fd : fds[f] = None}

\* open(), accept() and socket() return the lowest free descriptor.
Lowest(S) == CHOOSE f \in S : \A g \in S : f <= g

HungUp(s) == peer[s] \in {"reset", "broken"}
ReadableByData(s) == rcv[s] > 0              \* variant: a FIN is no event
Readable(s) == rcv[s] > 0 \/ peer[s] = "fin"

ListenerEvent == [fd |-> Listener, hup |-> FALSE]

\* Variant: the sockets are also registered for EPOLLOUT.
ConnEventsWritable == {[fd |-> f, hup |-> HungUp(fds[f])] : f \in Fd \ Free}

\* Level-triggered readiness.  Closing a descriptor takes it out of the set.
ConnEvents ==
  {[fd |-> f, hup |-> HungUp(fds[f])] :
      f \in {g \in Fd \ Free : HungUp(fds[g]) \/ Readable(fds[g])}}

\* Variant: the listener is looked at only when no connection has an event.
ListenLast == IF queue = <<>> \/ ConnEvents # {} THEN {} ELSE {ListenerEvent}

ListenEvents == IF queue = <<>> THEN {} ELSE {ListenerEvent}

Ready == ConnEvents \cup ListenEvents

\* Variant: only the descriptor of the event is closed.
CloseOne(fd) ==
  LET s == fds[fd] IN
  /\ fds' = [fds EXCEPT ![fd] = None]
  /\ peer' = [t \in Sock |-> IF t = s THEN "gone" ELSE peer[t]]
  /\ rcv' = [t \in Sock |-> IF t = s THEN 0 ELSE rcv[t]]
  /\ UNCHANGED queue

\* close(src); close(dst) of the table entry of fd.
CloseBoth(fd) ==
  LET both == {fd_sockets[fd].src, fd_sockets[fd].dst} \cap Fd
      dead == {fds[f] : f \in both}
  IN  /\ fds' = [f \in Fd |-> IF f \in both THEN None ELSE fds[f]]
      /\ peer' = [s \in Sock |-> IF s \in dead THEN "gone" ELSE peer[s]]
      /\ rcv' = [s \in Sock |-> IF s \in dead THEN 0 ELSE rcv[s]]
      /\ UNCHANGED queue

\* The process ends: the kernel closes everything it had open.
Terminate(how) ==
  /\ pc' = how
  /\ queue' = <<>>
  /\ fds' = [f \in Fd |-> None]
  /\ peer' = [s \in Sock |-> IF peer[s] = "absent" THEN "absent" ELSE "gone"]
  /\ rcv' = [s \in Sock |-> 0]
  /\ events' = {}
  /\ UNCHANGED <<table, call>>

-----------------------------------------------------------------------------
(* main(): the while loop and the for loop over the batch.                  *)

EpollWait ==
  /\ pc = "loop"
  /\ events = {}
  /\ Ready # {}
  /\ events' = Ready
  /\ UNCHANGED <<kernel, table, call, pc>>

HangUp(e) ==
  /\ pc = "loop"
  /\ e \in events
  /\ e.hup
  /\ CloseBoth(e.fd)
  /\ events' = events \ {e}
  /\ UNCHANGED <<table, call, pc>>

\* accept() finds no connection (EAGAIN) or no descriptor (EMFILE): continue.
AcceptFails ==
  /\ pc = "loop"
  /\ ListenerEvent \in events
  /\ queue = <<>> \/ Free = {}
  /\ events' = events \ {ListenerEvent}
  /\ UNCHANGED <<kernel, table, call, pc>>

\* accept() succeeds and socket() fails, for want of a descriptor in the process
\* or of a resource in the system: ErrorMessage exits.
NoSocket ==
  /\ pc = "loop"
  /\ ListenerEvent \in events
  /\ queue # <<>>
  /\ Free # {}
  /\ Terminate("failed")

\* gethostbyname() finds nothing: host is NULL and host->h_addr ends the process.
NoHost ==
  /\ pc = "loop"
  /\ ListenerEvent \in events
  /\ queue # <<>>
  /\ \E f, g \in Free : f # g
  /\ Terminate("killed")

\* accept(), epoll_ctl() and socket(), up to the call of the blocking connect().
Accept ==
  /\ pc = "loop"
  /\ ListenerEvent \in events
  /\ queue # <<>>
  /\ \E f, g \in Free : f # g
  /\ fw_new' = Lowest(Free)
  /\ fw_socket' = Lowest(Free \ {fw_new'})
  /\ fds' = [fds EXCEPT ![fw_new'] = <<Head(queue), "cli">>,
                        ![fw_socket'] = <<Head(queue), "srv">>]
  /\ queue' = Tail(queue)
  /\ events' = events \ {ListenerEvent}
  /\ pc' = "connect"
  /\ UNCHANGED <<peer, rcv, fd_sockets, call>>

\* connect() succeeds: fw_socket joins the epoll set and the table is filled.
Connected ==
  LET c == fds[fw_new][1] IN
  /\ pc = "connect"
  /\ peer' = [peer EXCEPT ![<<c, "srv">>] = "up"]
  /\ fd_sockets' =
       [fd_sockets EXCEPT
          ![fw_new] = [src |-> fw_new, dst |-> fw_socket, src_ip |-> c],
          ![fw_socket] = [src |-> fw_socket, dst |-> fw_new, src_ip |-> None]]
  /\ pc' = "loop"
  /\ UNCHANGED <<queue, fds, rcv, fw_new, fw_socket, events, call>>

\* connect() fails: fw_socket is closed, epoll_ctl() on it fails with EBADF and
\* ErrorMessage ends the process.
ConnectFails ==
  /\ pc = "connect"
  /\ Terminate("failed")

\* A readable socket: the call of forwarding(fd_sockets[fd]).
CallForwarding(e) ==
  /\ pc = "loop"
  /\ e \in events \ {ListenerEvent}
  /\ ~e.hup
  /\ cur' = e.fd
  /\ total_sent' = 0
  /\ events' = events \ {e}
  /\ pc' = "forwarding"
  /\ UNCHANGED <<kernel, table>>

-----------------------------------------------------------------------------
(* forwarding(): one recv() and one send() at a time.                       *)

From == fds[fd_sockets[cur].src]
To   == fds[fd_sockets[cur].dst]

\* What recv() takes at once; 0 stands for every result <= 0.
Received ==
  LET room == BUFLEN - total_sent
  IN  IF From = None THEN 0
      ELSE IF rcv[From] < room THEN rcv[From] ELSE room

\* Back in the for loop; forwarding()'s own variables are gone.
Return == pc' = "loop" /\ cur' = None /\ total_sent' = 0

RecvSend ==
  /\ pc = "forwarding"
  /\ Received > 0
  /\ rcv' = [rcv EXCEPT ![From] = @ - Received]
  /\ total_sent' = total_sent + Received
  /\ To # None => peer[To] # "broken"
  /\ peer' = [s \in Sock |-> IF s = To /\ peer[s] = "reset" THEN "broken"
                                                         ELSE peer[s]]
  /\ UNCHANGED <<queue, fds, table, events, cur, pc>>

\* send() to a broken socket raises SIGPIPE, which is neither blocked nor handled.
SigPipe ==
  /\ pc = "forwarding"
  /\ Received > 0
  /\ To # None
  /\ peer[To] = "broken"
  /\ Terminate("killed")

\* recv() returns nothing after something was forwarded: forwarding() is 1.
ReturnMore ==
  /\ pc = "forwarding"
  /\ Received = 0
  /\ total_sent > 0
  /\ peer' = [s \in Sock |-> IF s = From /\ rcv[s] = 0 /\ peer[s] = "reset"
                               THEN "broken" ELSE peer[s]]
  /\ Return
  /\ UNCHANGED <<queue, fds, rcv, table, events>>

\* recv() returns nothing at once (end of file, error or EAGAIN): forwarding()
\* is 0 and main() closes the pair.
ReturnClose ==
  /\ pc = "forwarding"
  /\ Received = 0
  /\ total_sent = 0
  /\ CloseBoth(cur)
  /\ Return
  /\ UNCHANGED <<table, events>>

-----------------------------------------------------------------------------
\* close_connection(), the SIGINT handler.
Interrupt ==
  /\ Running
  /\ Terminate("interrupted")

Process ==
  \/ EpollWait
  \/ \E e \in events : HangUp(e) \/ CallForwarding(e)
  \/ AcceptFails \/ NoSocket \/ NoHost \/ Accept
  \/ Connected \/ ConnectFails
  \/ RecvSend \/ SigPipe \/ ReturnMore \/ ReturnClose

Next == Peers \/ Process \/ Interrupt

Spec == Init /\ [][Next]_vars

\* The process is scheduled, and connect() returns; the peers owe nothing.
FairSpec == Spec /\ WF_vars(Process)
-----------------------------------------------------------------------------
(* Properties.                                                              *)

OpenSocks == {fds[f] : f \in Fd \ Free}
Open(c) == {<<c, "cli">>, <<c, "srv">>} \subseteq OpenSocks
Queued(c) == \E i \in DOMAIN queue : queue[i] = c
Ended(s) == peer[s] \in {"fin", "reset", "broken"}

\* Wherever the loop handles an event of an open descriptor, the table sends it
\* to the right place: the entry of the descriptor names the descriptor itself
\* as source and, as destination, one that is open on the other socket of the
\* SAME connection, although entries are never cleared (proxy_v3.cpp:222-225).
Wiring ==
  pc # "connect" =>
    \A f \in Fd \ Free :
      LET d == fd_sockets[f].dst IN
      /\ fd_sockets[f].src = f
      /\ d \in Fd \ Free
      /\ fds[d][1] = fds[f][1]
      /\ fds[d][2] # fds[f][2]

\* What makes Wiring and StablePartner inductive.  Descriptors are opened and closed
\* two at a time, and the lowest free ones are taken, so a connection always has
\* the pair 2k-1, 2k: the client's socket on the odd one, the server's next to it.
Partner(f) == IF f % 2 = 1 THEN f + 1 ELSE f - 1

Paired ==
  \A f \in Fd : f % 2 = 1 =>
    \/ /\ fds[f] = None
       /\ f + 1 \in Fd => fds[f + 1] = None
    \/ /\ f + 1 \in Fd
       /\ \E c \in Conn : fds[f] = <<c, "cli">> /\ fds[f + 1] = <<c, "srv">>

Set(f) == fd_sockets[f].src = f /\ fd_sockets[f].dst = Partner(f) /\ Partner(f) \in Fd

\* An entry of the table is unset or names its descriptor and the partner; the
\* entries of all open descriptors and of all pending events are set.
TableSet ==
  /\ \A f \in Fd : Set(f) \/ (fd_sockets[f].src = None /\ fd_sockets[f].dst = None)
  /\ \A f \in Fd : fds[f] # None =>
       Set(f) \/ (pc = "connect" /\ f \in {fw_new, fw_socket})
  /\ \A e \in events : e.fd \in Fd => Set(e.fd)
  /\ \A e \in events : e.fd \notin Fd => ~e.hup
  /\ pc = "forwarding" => cur \in Fd /\ Set(cur)
  /\ pc = "connect" =>
       /\ fw_new \in Fd /\ fw_new % 2 = 1 /\ fds[fw_new] # None
       /\ fw_socket = fw_new + 1 /\ fw_socket \in Fd

IInv == TypeOK /\ Paired /\ TableSet

\* No descriptor and no socket is leaked: a socket the kernel holds for the
\* process is still in the accept queue or open on exactly one descriptor, and
\* a connection has both of its sockets open or neither (lines 164-168, 237-240).
Accounted ==
  Running =>
    /\ \A c \in Conn : <<c, "cli">> \in OpenSocks <=> <<c, "srv">> \in OpenSocks
    /\ \A f, g \in Fd \ Free : fds[f] = fds[g] => f = g
    /\ \A s \in Sock : (peer[s] \notin {"absent", "gone"}) <=>
         \/ s \in OpenSocks /\ (s[2] = "srv" => pc # "connect" \/ s # fds[fw_socket])
         \/ s[2] = "cli" /\ Queued(s[1])

\* The partner of a descriptor never changes once it is set.  This is why an
\* event that outlives its connection can only ever hit ONE whole connection:
\* pairs are closed together and reopened on the lowest free descriptors.
StablePartner ==
  [][\A f \in Fd : fd_sockets[f].dst # None =>
        fd_sockets'[f].dst = fd_sockets[f].dst]_vars

\* While the process keeps running, one step of the loop takes down at most one
\* connection, and then both of its sockets.
OneAtATime ==
  [][Running' =>
       \/ OpenSocks \subseteq OpenSocks'
       \/ \E c \in Conn : OpenSocks \ OpenSocks' = {<<c, "cli">>, <<c, "srv">>}]_vars

\* No socket is ignored for ever: one whose peer has ended is eventually closed,
\* and one that is full of data is eventually read or closed, whatever the other
\* connections do and in whatever order their events come (lines 156-246).
NoneIgnored ==
  \A s \in Watched \X {"cli", "srv"} :
    s \in OpenSocks /\ (Ended(s) \/ rcv[s] = RcvBuf) ~>
      s \notin OpenSocks \/ (~Ended(s) /\ rcv[s] < RcvBuf)

\* Every descriptor is held by a connection of which neither end is over.
AllHeld == Free = {} /\ \A c \in Conn : Open(c) => ~Ended(<<c, "cli">>) /\ ~Ended(<<c, "srv">>)

\* A client that got through to the port is eventually accepted, busy connections and
\* descriptors that run out notwithstanding, unless those that hold the descriptors
\* keep them for good or the process ends (lines 161-179).
QueuedIsAccepted == \A c \in Watched : Queued(c) ~> ~Queued(c) \/ AllHeld

(* What a document says of the forwarder, and the code does not do.         *)

\* "Port forwarder maintains the server and clients" when another side ends
\* (report, tests 5-7): a running process takes a connection down only after
\* one of that connection's own peers has ended.
OwnEnd ==
  [][\A c \in Conn : Open(c) /\ Running' /\ ~Open(c)' =>
        Ended(<<c, "cli">>) \/ Ended(<<c, "srv">>)]_vars
=============================================================================
