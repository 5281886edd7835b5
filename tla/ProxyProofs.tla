---------------------------- MODULE ProxyProofs ----------------------------
(***************************************************************************)
(* Proxy for any number of connections and descriptors and any buffers:    *)
(* IInv is inductive, so data and closes never cross between connections   *)
(* (Wiring) and a descriptor keeps its partner (StablePartner).  Its books *)
(* are kept: no socket is leaked (Accounted), and a step of the loop takes *)
(* down at most one connection, with both its sockets (OneAtATime).        *)
(***************************************************************************)
EXTENDS Proxy, SequenceTheorems, WellFoundedInduction, TLAPS

USE ConstantsAssumption DEF table, call, process, kernel, vars

-----------------------------------------------------------------------------
(* Descriptors.                                                             *)

LEMMA Minimum ==
  ASSUME NEW T, T \subseteq Nat, T # {}
  PROVE  \E x \in T : \A y \in T : x <= y
<1> DEFINE R == OpToRel(<, Nat)
<1>1. IsWellFoundedOn(R, Nat)
  BY NatLessThanWellFounded
<1>2. \A x, y \in Nat : y < x => <<y, x>> \in R
  BY DEF OpToRel
<1> HIDE DEF R
<1>3. PICK x \in T : \A y \in T : ~ (<<y, x>> \in R)
  BY <1>1, WFMin, Zenon
<1>4. x \in Nat /\ \A y \in T : y \in Nat
  OBVIOUS
<1>5. \A y \in T : x <= y
  <2> TAKE y \in T
  <2>1. ~ (y < x)
    BY <1>2, <1>3, <1>4
  <2> QED BY <1>4, <2>1
<1> QED BY <1>5

LEMMA LowestIsLeast ==
  ASSUME NEW S, S \subseteq Nat, S # {}
  PROVE  Lowest(S) \in S /\ \A g \in S : Lowest(S) <= g
BY Minimum DEF Lowest

LEMMA Parity ==
  ASSUME NEW f \in Nat
  PROVE  /\ f % 2 \in {0, 1}
         /\ f % 2 = 1 => (f + 1) % 2 = 0
         /\ f % 2 = 0 /\ f > 0 => f - 1 \in Nat /\ (f - 1) % 2 = 1
OBVIOUS

LEMMA FdNat == Fd \subseteq Nat /\ \A f \in Nat : f \in Fd <=> 1 <= f /\ f <= NFd
BY DEF Fd

LEMMA FreeFd == Free \subseteq Fd /\ Free \subseteq Nat
BY FdNat DEF Free

\* The tuple of a socket is never None.
LEMMA SockNotNone == \A c \in Conn : /\ <<c, "cli">> \in Sock /\ <<c, "cli">> # None
                                     /\ <<c, "srv">> \in Sock /\ <<c, "srv">> # None
BY DEF Sock

\* The two descriptors accept() and socket() return are partners.
LEMMA LowestPair ==
  ASSUME TypeOK, Paired, \E f, g \in Free : f # g
  PROVE  LET m == Lowest(Free) IN
         /\ m \in Free /\ m % 2 = 1
         /\ m + 1 \in Free
         /\ Lowest(Free \ {m}) = m + 1
<1> DEFINE m == Lowest(Free)
<1>1. m \in Free /\ \A g \in Free : m <= g
  BY FreeFd, LowestIsLeast
<1>2. m \in Fd /\ m \in Nat /\ 1 <= m /\ m <= NFd /\ fds[m] = None
  BY <1>1, FreeFd, FdNat DEF Free
<1> HIDE DEF m
<1>3. m % 2 = 1
  <2> SUFFICES ASSUME m % 2 # 1 PROVE FALSE
    OBVIOUS
  <2>1. m % 2 = 0 /\ m - 1 \in Nat /\ (m - 1) % 2 = 1
    BY <1>2, Parity
  <2>2. 1 <= m - 1
    BY <1>2, <2>1
  <2>3. m - 1 \in Fd /\ m - 1 \notin Free
    BY <1>1, <1>2, <2>1, <2>2, FdNat
  <2>4. fds[m - 1] # None
    BY <2>3 DEF Free
  <2>5. (m - 1) + 1 = m
    BY <1>2
  <2>6. fds[m] # None
    BY <2>1, <2>3, <2>4, <2>5, SockNotNone DEF Paired
  <2> QED BY <1>2, <2>6
<1>4. m + 1 \in Free
  <2>1. PICK g \in Free : g # m
    OBVIOUS
  <2>2. g \in Nat /\ g <= NFd /\ m <= g
    BY <1>1, <2>1, FreeFd, FdNat
  <2>3. m + 1 \in Fd
    BY <1>2, <2>1, <2>2, FdNat
  <2>4. fds[m + 1] = None
    BY <1>2, <1>3, <2>3, SockNotNone DEF Paired
  <2> QED BY <2>3, <2>4 DEF Free
<1>5. Lowest(Free \ {m}) = m + 1
  <2>1. m + 1 \in Free \ {m} /\ Free \ {m} \subseteq Nat
    BY <1>2, <1>4, FreeFd
  <2>2. /\ Lowest(Free \ {m}) \in Free \ {m}
        /\ Lowest(Free \ {m}) <= m + 1
    BY <2>1, LowestIsLeast
  <2>3. /\ Lowest(Free \ {m}) \in Nat
        /\ m <= Lowest(Free \ {m}) /\ m # Lowest(Free \ {m})
    BY <1>1, <2>1, <2>2
  <2> QED BY <1>2, <2>2, <2>3
<1> QED BY <1>1, <1>3, <1>4, <1>5 DEF m

-----------------------------------------------------------------------------
(* What the parts of the invariant depend on, and what closing a pair does. *)

Core == <<fds, fd_sockets, fw_new, fw_socket, events, cur, pc>>

LEMMA CoreUnchanged ==
  ASSUME Paired, TableSet, UNCHANGED Core
  PROVE  Paired' /\ TableSet'
BY DEF Core, Paired, TableSet, Set

LEMMA CloseBothKeeps ==
  ASSUME TypeOK, Paired, NEW fd \in Fd, Set(fd), CloseBoth(fd)
  PROVE  /\ Paired'
         /\ fds' \in [Fd -> Sock \cup {None}]
         /\ peer' \in [Sock -> PeerState]
         /\ rcv' \in [Sock -> Nat]
         /\ queue' = queue
         /\ \A f \in Fd : fds'[f] # None => fds[f] # None
<1> DEFINE both == {fd, Partner(fd)}
<1>1. {fd_sockets[fd].src, fd_sockets[fd].dst} \cap Fd = both
  BY DEF Set
<1>2. fds' = [f \in Fd |-> IF f \in both THEN None ELSE fds[f]]
  BY <1>1 DEF CloseBoth
<1>3. \A f \in Fd : f % 2 = 1 => (f \in both <=> f + 1 \in both)
  <2> SUFFICES ASSUME NEW f \in Fd, f % 2 = 1 PROVE f \in both <=> f + 1 \in both
    OBVIOUS
  <2>1. f \in Nat /\ fd \in Nat /\ 1 <= fd
    BY FdNat
  <2>2. CASE fd % 2 = 1
    <3>1. Partner(fd) = fd + 1 /\ (fd + 1) % 2 = 0
      BY <2>1, <2>2, Parity DEF Partner
    <3>2. f # fd + 1 /\ f + 1 # fd
      <4>1. (f + 1) % 2 = 0
        BY <2>1, Parity
      <4> QED BY <2>2, <3>1, <4>1
    <3> QED BY <2>1, <3>1, <3>2
  <2>3. CASE fd % 2 = 0
    <3>1. Partner(fd) = fd - 1 /\ (fd - 1) % 2 = 1 /\ fd - 1 \in Nat
      BY <2>1, <2>3, Parity DEF Partner
    <3>2. f # fd /\ f + 1 # fd - 1
      <4>1. (f + 1) % 2 = 0
        BY <2>1, Parity
      <4> QED BY <2>3, <3>1, <4>1
    <3> QED BY <2>1, <3>1, <3>2
  <2> QED BY <2>1, <2>2, <2>3, Parity
<1> HIDE DEF both
<1>4. Paired'
  <2> SUFFICES ASSUME NEW f \in Fd, f % 2 = 1
               PROVE  \/ fds'[f] = None /\ (f + 1 \in Fd => fds'[f + 1] = None)
                      \/ /\ f + 1 \in Fd
                         /\ \E c \in Conn : fds'[f] = <<c, "cli">> /\ fds'[f + 1] = <<c, "srv">>
    BY DEF Paired
  <2>1. CASE f \in both
    BY <1>2, <1>3, <2>1
  <2>2. CASE f \notin both
    BY <1>2, <1>3, <2>2 DEF Paired
  <2> QED BY <2>1, <2>2
<1>5. fds' \in [Fd -> Sock \cup {None}] /\ \A f \in Fd : fds'[f] # None => fds[f] # None
  BY <1>2 DEF TypeOK
<1>6. peer' \in [Sock -> PeerState] /\ rcv' \in [Sock -> Nat] /\ queue' = queue
  BY DEF CloseBoth, TypeOK, PeerState
<1> QED BY <1>4, <1>5, <1>6

LEMMA TerminateKeeps ==
  ASSUME IInv, NEW how \in Stopped, Terminate(how)
  PROVE  IInv'
<1>1. TypeOK'
  BY DEF IInv, TypeOK, Terminate, PeerState, Stopped
<1>2. \A f \in Fd : fds'[f] = None
  BY DEF Terminate
<1>3. Paired'
  BY <1>2 DEF Paired
<1>4. TableSet'
  BY <1>2 DEF IInv, TableSet, Terminate, Set, Stopped
<1> QED BY <1>1, <1>3, <1>4 DEF IInv

LEMMA InitIInv == Init => IInv
<1> SUFFICES ASSUME Init PROVE IInv
  OBVIOUS
<1>1. TypeOK
  BY DEF Init, TypeOK, PeerState, Entry
<1>2. Paired /\ TableSet
  BY DEF Init, Paired, TableSet
<1> QED BY <1>1, <1>2 DEF IInv

-----------------------------------------------------------------------------
(* The actions, one lemma for each kind.                                    *)

LEMMA PeersKeep == IInv /\ Peers => IInv'
<1> SUFFICES ASSUME IInv, Peers PROVE IInv'
  OBVIOUS
<1>0. TypeOK /\ Paired /\ TableSet
  BY DEF IInv
<1>1. UNCHANGED Core
  BY DEF Peers, ClientConnect, PeerSend, PeerFin, PeerReset, Core
<1>2. ASSUME NEW c \in Conn, ClientConnect(c) PROVE TypeOK'
  <2>1. queue' \in Seq(Conn)
    BY <1>0, <1>2, AppendProperties DEF ClientConnect, TypeOK
  <2> QED BY <1>0, <1>2, <2>1 DEF ClientConnect, TypeOK, PeerState
<1>3. ASSUME NEW s \in Sock, PeerSend(s) PROVE TypeOK'
  BY <1>0, <1>3 DEF PeerSend, TypeOK
<1>4. ASSUME NEW s \in Sock, PeerFin(s) \/ PeerReset(s) PROVE TypeOK'
  BY <1>0, <1>4 DEF PeerFin, PeerReset, TypeOK, PeerState
<1>5. TypeOK'
  BY <1>2, <1>3, <1>4 DEF Peers
<1> QED BY <1>0, <1>1, <1>5, CoreUnchanged DEF IInv

LEMMA EpollWaitKeeps == IInv /\ EpollWait => IInv'
<1> SUFFICES ASSUME IInv, EpollWait PROVE IInv'
  OBVIOUS
<1>0. TypeOK /\ Paired /\ TableSet
  BY DEF IInv
<1>1. \A e \in Ready : /\ e \in [fd : Fd \cup {Listener}, hup : BOOLEAN]
                       /\ e.fd \in Fd => fds[e.fd] # None
                       /\ e.fd \notin Fd => ~e.hup
  <2> TAKE e \in Ready
  <2>1. CASE e = ListenerEvent
    BY <2>1 DEF ListenerEvent, Listener, Fd
  <2>2. CASE e # ListenerEvent
    <3>1. PICK f \in Fd \ Free : e = [fd |-> f, hup |-> HungUp(fds[f])]
      BY <2>2 DEF Ready, ConnEvents, ListenEvents
    <3>2. HungUp(fds[f]) \in BOOLEAN
      BY DEF HungUp
    <3> HIDE DEF HungUp
    <3> QED BY <3>1, <3>2 DEF Free
  <2> QED BY <2>1, <2>2
<1>2. TypeOK'
  BY <1>0, <1>1 DEF EpollWait, TypeOK
<1>3. Paired'
  BY <1>0 DEF EpollWait, Paired
<1>4. TableSet'
  BY <1>0, <1>1 DEF EpollWait, TableSet, Set
<1> QED BY <1>2, <1>3, <1>4 DEF IInv

LEMMA HangUpKeeps ==
  ASSUME IInv, NEW e \in events, HangUp(e)
  PROVE  IInv'
<1>0. TypeOK /\ Paired /\ TableSet
  BY DEF IInv
<1>1. e.fd \in Fd /\ Set(e.fd)
  BY <1>0 DEF HangUp, TableSet
<1>2. CloseBoth(e.fd) /\ events' = events \ {e} /\ pc = "loop"
      /\ UNCHANGED <<fd_sockets, fw_new, fw_socket, cur, total_sent, pc>>
  BY DEF HangUp
<1>3. /\ Paired'
      /\ fds' \in [Fd -> Sock \cup {None}]
      /\ peer' \in [Sock -> PeerState]
      /\ rcv' \in [Sock -> Nat]
      /\ queue' = queue
      /\ \A f \in Fd : fds'[f] # None => fds[f] # None
  BY <1>0, <1>1, <1>2, CloseBothKeeps
<1>4. TypeOK'
  BY <1>0, <1>2, <1>3 DEF TypeOK
<1>5. TableSet'
  BY <1>0, <1>2, <1>3 DEF TableSet, Set
<1> QED BY <1>3, <1>4, <1>5 DEF IInv

LEMMA AcceptFailsKeeps == IInv /\ AcceptFails => IInv'
BY DEF AcceptFails, IInv, TypeOK, Paired, TableSet, Set

LEMMA AcceptKeeps == IInv /\ Accept => IInv'
<1> SUFFICES ASSUME IInv, Accept PROVE IInv'
  OBVIOUS
<1>0. TypeOK /\ Paired /\ TableSet
  BY DEF IInv
<1> DEFINE m == Lowest(Free)
           c == Head(queue)
<1>1. /\ m \in Free /\ m % 2 = 1
      /\ m + 1 \in Free
      /\ Lowest(Free \ {m}) = m + 1
  BY <1>0, LowestPair DEF Accept
<1>2. fw_new' = m /\ fw_socket' = m + 1
  BY <1>1 DEF Accept
<1> HIDE DEF m
<1>3. /\ m \in Fd /\ m + 1 \in Fd /\ m \in Nat
      /\ fds[m] = None /\ fds[m + 1] = None
  BY <1>1, FdNat DEF Free
<1>4. c \in Conn /\ queue' \in Seq(Conn)
  <2>1. queue \in Seq(Conn) /\ queue # <<>> /\ queue' = Tail(queue)
    BY <1>0 DEF Accept, TypeOK
  <2> QED BY <2>1, HeadTailProperties
<1> HIDE DEF c
<1>5. fds' = [fds EXCEPT ![m] = <<c, "cli">>, ![m + 1] = <<c, "srv">>]
  BY <1>2 DEF Accept, c
<1>6. /\ fds' \in [Fd -> Sock \cup {None}]
      /\ fds'[m] = <<c, "cli">> /\ fds'[m + 1] = <<c, "srv">>
      /\ \A f \in Fd : f # m /\ f # m + 1 => fds'[f] = fds[f]
  <2>1. fds \in [Fd -> Sock \cup {None}]
    BY <1>0 DEF TypeOK
  <2>2. <<c, "cli">> \in Sock /\ <<c, "srv">> \in Sock
    BY <1>4 DEF Sock
  <2>3. m # m + 1
    BY <1>3
  <2> QED BY <1>3, <1>5, <2>1, <2>2, <2>3
<1>7. TypeOK'
  BY <1>0, <1>2, <1>3, <1>4, <1>6 DEF Accept, TypeOK
<1>8. Paired'
  <2> SUFFICES ASSUME NEW f \in Fd, f % 2 = 1
               PROVE  \/ fds'[f] = None /\ (f + 1 \in Fd => fds'[f + 1] = None)
                      \/ /\ f + 1 \in Fd
                         /\ \E x \in Conn : fds'[f] = <<x, "cli">> /\ fds'[f + 1] = <<x, "srv">>
    BY DEF Paired
  <2>1. CASE f = m
    BY <1>3, <1>4, <1>6, <2>1
  <2>2. CASE f # m
    <3>1. f # m + 1 /\ f + 1 # m /\ f + 1 # m + 1
      BY <1>1, <1>3, <2>2, FdNat, Parity
    <3> QED BY <1>0, <1>6, <3>1, <2>2 DEF Paired
  <2> QED BY <2>1, <2>2
<1>9. TableSet'
  <2>1. fd_sockets' = fd_sockets /\ pc' = "connect" /\ events' \subseteq events
    BY DEF Accept
  <2>2. /\ \A f \in Fd : Set(f)' = Set(f)
        /\ \A f \in Fd : fds'[f] # None => Set(f) \/ f \in {m, m + 1}
    BY <1>0, <1>6, <2>1 DEF TableSet, Set, Accept
  <2>3. fds'[fw_new'] # None
    BY <1>2, <1>4, <1>6, SockNotNone
  <2> QED BY <1>0, <1>1, <1>2, <1>3, <2>1, <2>2, <2>3 DEF TableSet, Set
<1> QED BY <1>7, <1>8, <1>9 DEF IInv

LEMMA ConnectedKeeps == IInv /\ Connected => IInv'
<1> SUFFICES ASSUME IInv, Connected PROVE IInv'
  OBVIOUS
<1>0. TypeOK /\ Paired /\ TableSet
  BY DEF IInv
<1>1. /\ fw_new \in Fd /\ fw_new % 2 = 1 /\ fw_new \in Nat
      /\ fw_socket = fw_new + 1 /\ fw_socket \in Fd
      /\ fw_socket % 2 = 0 /\ fw_new # fw_socket
  <2>1. /\ fw_new \in Fd /\ fw_new % 2 = 1
        /\ fw_socket = fw_new + 1 /\ fw_socket \in Fd
    BY <1>0 DEF Connected, TableSet
  <2> QED BY <2>1, FdNat, Parity
<1>2. PICK c \in Conn : fds[fw_new] = <<c, "cli">> /\ fds[fw_socket] = <<c, "srv">>
  BY <1>0, <1>1, SockNotNone DEF Connected, TableSet, Paired
<1>3. fds[fw_new][1] = c
  BY <1>2
<1>4. peer' \in [Sock -> PeerState]
  BY <1>0, <1>3 DEF Connected, TypeOK, PeerState, Sock
<1>5. /\ fd_sockets' \in [Fd -> Entry]
      /\ fd_sockets'[fw_new] = [src |-> fw_new, dst |-> fw_socket, src_ip |-> c]
      /\ fd_sockets'[fw_socket] = [src |-> fw_socket, dst |-> fw_new, src_ip |-> None]
      /\ \A f \in Fd : f # fw_new /\ f # fw_socket => fd_sockets'[f] = fd_sockets[f]
  BY <1>0, <1>1, <1>3 DEF Connected, TypeOK, Entry
<1>6. TypeOK'
  BY <1>0, <1>4, <1>5 DEF Connected, TypeOK
<1>7. Paired'
  BY <1>0 DEF Connected, Paired
<1>8. TableSet'
  <2>1. \A f \in {fw_new, fw_socket} : Set(f)'
    BY <1>1, <1>5 DEF Set, Partner
  <2>2. \A f \in Fd : Set(f) => Set(f)'
    BY <1>5, <2>1 DEF Set
  <2>3. \A f \in Fd : f # fw_new /\ f # fw_socket => fd_sockets'[f] = fd_sockets[f]
    BY <1>5
  <2>4. pc = "connect" /\ pc' = "loop" /\ events' = events /\ fds' = fds
    BY DEF Connected
  <2>5. \A f \in Fd : \/ Set(f)'
                      \/ fd_sockets'[f].src = None /\ fd_sockets'[f].dst = None
    BY <1>0, <2>1, <2>2, <2>3 DEF TableSet
  <2>6. \A f \in Fd : fds'[f] # None => Set(f)'
    BY <1>0, <2>1, <2>2, <2>4 DEF TableSet
  <2>7. \A e \in events' : (e.fd \in Fd => Set(e.fd)') /\ (e.fd \notin Fd => ~e.hup)
    BY <1>0, <2>2, <2>4 DEF TableSet
  <2> QED BY <2>4, <2>5, <2>6, <2>7 DEF TableSet, Set
<1> QED BY <1>6, <1>7, <1>8 DEF IInv

LEMMA CallForwardingKeeps ==
  ASSUME IInv, NEW e \in events, CallForwarding(e)
  PROVE  IInv'
<1>0. TypeOK /\ Paired /\ TableSet
  BY DEF IInv
<1>1. e.fd \in Fd
  <2>1. e \in [fd : Fd \cup {Listener}, hup : BOOLEAN] /\ ~e.hup /\ e # ListenerEvent
    BY <1>0 DEF CallForwarding, TypeOK
  <2> QED BY <2>1 DEF ListenerEvent
<1>2. TypeOK'
  BY <1>0, <1>1 DEF CallForwarding, TypeOK
<1>3. Paired'
  BY <1>0 DEF CallForwarding, Paired
<1>4. TableSet'
  BY <1>0, <1>1 DEF CallForwarding, TableSet, Set
<1> QED BY <1>2, <1>3, <1>4 DEF IInv

\* forwarding() reads the socket of cur, if it is still open.
LEMMA ReceivedType ==
  ASSUME IInv, pc = "forwarding"
  PROVE  /\ cur \in Fd /\ Set(cur)
         /\ From \in Sock \cup {None}
         /\ Received \in 0 .. BUFLEN - total_sent
         /\ Received > 0 => From \in Sock /\ Received <= rcv[From]
<1>1. cur \in Fd /\ Set(cur) /\ fd_sockets[cur].src = cur
  BY DEF IInv, TableSet, Set
<1>2. From \in Sock \cup {None}
  BY <1>1 DEF IInv, TypeOK, From
<1>3. total_sent \in 0 .. BUFLEN /\ (From # None => rcv[From] \in Nat)
  BY <1>2 DEF IInv, TypeOK
<1> QED BY <1>1, <1>2, <1>3 DEF Received

LEMMA RecvSendKeeps == IInv /\ RecvSend => IInv'
<1> SUFFICES ASSUME IInv, RecvSend PROVE IInv'
  OBVIOUS
<1>0. TypeOK /\ Paired /\ TableSet
  BY DEF IInv
<1>1. /\ Received \in 1 .. BUFLEN - total_sent
      /\ From \in Sock /\ Received <= rcv[From]
  BY ReceivedType DEF RecvSend
<1>2. rcv' \in [Sock -> Nat] /\ total_sent' \in 0 .. BUFLEN
  BY <1>0, <1>1 DEF RecvSend, TypeOK
<1>3. peer' \in [Sock -> PeerState]
  BY <1>0 DEF RecvSend, TypeOK, PeerState
<1>4. TypeOK'
  BY <1>0, <1>2, <1>3 DEF RecvSend, TypeOK
<1>5. UNCHANGED Core
  BY DEF RecvSend, Core
<1> QED BY <1>0, <1>4, <1>5, CoreUnchanged DEF IInv

LEMMA ReturnMoreKeeps == IInv /\ ReturnMore => IInv'
<1> SUFFICES ASSUME IInv, ReturnMore PROVE IInv'
  OBVIOUS
<1>0. TypeOK /\ Paired /\ TableSet
  BY DEF IInv
<1>1. peer' \in [Sock -> PeerState]
  BY <1>0 DEF ReturnMore, TypeOK, PeerState
<1>2. TypeOK'
  BY <1>0, <1>1 DEF ReturnMore, Return, TypeOK
<1>3. Paired' /\ TableSet'
  BY <1>0 DEF ReturnMore, Return, Paired, TableSet, Set
<1> QED BY <1>2, <1>3 DEF IInv

LEMMA ReturnCloseKeeps == IInv /\ ReturnClose => IInv'
<1> SUFFICES ASSUME IInv, ReturnClose PROVE IInv'
  OBVIOUS
<1>0. TypeOK /\ Paired /\ TableSet
  BY DEF IInv
<1>1. cur \in Fd /\ Set(cur)
  BY ReceivedType DEF ReturnClose
<1>2. CloseBoth(cur) /\ pc = "forwarding" /\ Return
      /\ UNCHANGED <<fd_sockets, fw_new, fw_socket, events>>
  BY DEF ReturnClose
<1>3. /\ Paired'
      /\ fds' \in [Fd -> Sock \cup {None}]
      /\ peer' \in [Sock -> PeerState]
      /\ rcv' \in [Sock -> Nat]
      /\ queue' = queue
      /\ \A f \in Fd : fds'[f] # None => fds[f] # None
  BY <1>0, <1>1, <1>2, CloseBothKeeps
<1>4. TypeOK'
  BY <1>0, <1>2, <1>3 DEF Return, TypeOK
<1>5. TableSet'
  BY <1>0, <1>2, <1>3 DEF Return, TableSet, Set
<1> QED BY <1>3, <1>4, <1>5 DEF IInv

-----------------------------------------------------------------------------
(* Results.                                                                 *)

LEMMA StepIInv == IInv /\ [Next]_vars => IInv'
<1> SUFFICES ASSUME IInv, [Next]_vars PROVE IInv'
  OBVIOUS
<1>1. CASE NoSocket \/ NoHost \/ ConnectFails \/ SigPipe \/ Interrupt
  BY <1>1, TerminateKeeps DEF NoSocket, NoHost, ConnectFails, SigPipe, Interrupt, Stopped
<1>2. CASE UNCHANGED vars
  BY <1>2 DEF IInv, TypeOK, Paired, TableSet, Set
<1> QED
  BY <1>1, <1>2, PeersKeep, EpollWaitKeeps, HangUpKeeps, AcceptFailsKeeps, AcceptKeeps,
     ConnectedKeeps, CallForwardingKeeps, RecvSendKeeps, ReturnMoreKeeps,
     ReturnCloseKeeps
  DEF Next, Process

THEOREM Invariant == Spec => []IInv
<1> QED BY InitIInv, StepIInv, PTL DEF Spec

\* The types, for any number of connections and descriptors.
THEOREM TypeCorrect == Spec => []TypeOK
<1>1. IInv => TypeOK
  BY DEF IInv
<1> QED BY <1>1, Invariant, PTL

LEMMA IInvWiring == IInv => Wiring
<1> SUFFICES ASSUME IInv, pc # "connect", NEW f \in Fd \ Free
             PROVE  LET d == fd_sockets[f].dst IN
                    /\ fd_sockets[f].src = f
                    /\ d \in Fd \ Free
                    /\ fds[d][1] = fds[f][1]
                    /\ fds[d][2] # fds[f][2]
  BY DEF Wiring
<1>1. f \in Fd /\ f \in Nat /\ fds[f] # None
  BY FdNat DEF Free
<1>2. fd_sockets[f].src = f /\ fd_sockets[f].dst = Partner(f) /\ Partner(f) \in Fd
  BY <1>1 DEF IInv, TableSet, Set
<1>3. CASE f % 2 = 1
  <2>1. Partner(f) = f + 1
    BY <1>3 DEF Partner
  <2>2. PICK c \in Conn : fds[f] = <<c, "cli">> /\ fds[f + 1] = <<c, "srv">>
    BY <1>1, <1>3 DEF IInv, Paired
  <2> QED BY <1>2, <2>1, <2>2, SockNotNone DEF Free
<1>4. CASE f % 2 # 1
  <2>1. Partner(f) = f - 1 /\ (f - 1) % 2 = 1 /\ (f - 1) + 1 = f
    BY <1>1, <1>4, FdNat, Parity DEF Partner
  <2>2. PICK c \in Conn : fds[f - 1] = <<c, "cli">> /\ fds[f] = <<c, "srv">>
    BY <1>1, <1>2, <2>1 DEF IInv, Paired
  <2>3. f - 1 \in Fd \ Free
    BY <1>2, <2>1, <2>2, SockNotNone DEF Free
  <2> QED BY <1>2, <2>1, <2>2, <2>3
<1> QED BY <1>3, <1>4

\* Data read from a socket goes to the other socket of the same connection, and
\* a pair that is closed is one connection.
THEOREM NeverCrossed == Spec => []Wiring
<1> QED BY Invariant, IInvWiring, PTL

\* A descriptor keeps its partner for the life of the process.
THEOREM PartnersAreStable == Spec => StablePartner
<1>1. IInv /\ IInv' =>
        \A f \in Fd : fd_sockets[f].dst # None =>
           \/ fd_sockets'[f].dst = fd_sockets[f].dst
           \/ fd_sockets'[f].dst = None
  BY DEF IInv, TableSet, Set
<1>2. IInv /\ IInv' /\ [Next]_vars =>
        \A f \in Fd : fd_sockets[f].dst # None => fd_sockets'[f].dst # None
  <2> SUFFICES ASSUME IInv, IInv', [Next]_vars, NEW f \in Fd, fd_sockets[f].dst # None
               PROVE  fd_sockets'[f].dst # None
    OBVIOUS
  <2>1. CASE Connected
    <3>1. fw_new \in Fd /\ fw_socket \in Fd /\ None \notin Fd
      BY <2>1, FdNat DEF Connected, IInv, TableSet
    <3>2. fd_sockets \in [Fd -> Entry]
      BY DEF IInv, TypeOK
    <3> QED BY <2>1, <3>1, <3>2 DEF Connected, Entry
  <2>2. CASE ~Connected
    <3>1. UNCHANGED fd_sockets
      BY <2>2 DEF Next, Peers, ClientConnect, PeerSend, PeerFin, PeerReset, Process,
         EpollWait, HangUp, CallForwarding, AcceptFails, NoSocket, NoHost, Accept,
         ConnectFails, RecvSend, SigPipe, ReturnMore, ReturnClose, Interrupt,
         Terminate
    <3> QED BY <3>1
  <2> QED BY <2>1, <2>2
<1>3. IInv /\ IInv' /\ [Next]_vars =>
        [\A f \in Fd : fd_sockets[f].dst # None =>
           fd_sockets'[f].dst = fd_sockets[f].dst]_vars
  BY <1>1, <1>2
<1> QED BY <1>3, Invariant, PTL DEF Spec, StablePartner

-----------------------------------------------------------------------------
(* The books: no socket is leaked, and a step takes down one connection.    *)

OpenOn(s) == \E f \in Fd : fds[f] = s
Live(s) == peer[s] \notin {"absent", "gone"}
Connecting(s) == pc = "connect" /\ s = fds[fw_socket]

\* No socket has two descriptors, and nobody is in the accept queue twice or there
\* and accepted.
Single == \A f, g \in Fd : fds[f] # None /\ fds[f] = fds[g] => f = g
QueuedOnce == \A i, j \in DOMAIN queue : queue[i] = queue[j] => i = j
NotBoth == \A c \in Conn : Queued(c) => ~OpenOn(<<c, "cli">>)

\* What the kernel holds for the process is queued or open.
Kept ==
  \A s \in Sock : Live(s) <=>
    \/ OpenOn(s) /\ (s[2] = "srv" => ~Connecting(s))
    \/ s[2] = "cli" /\ Queued(s[1])

AInv == Running => Single /\ QueuedOnce /\ NotBoth /\ Kept

-----------------------------------------------------------------------------
(* Pairs of sockets.                                                        *)

\* Who is on a descriptor, and who is on its partner.
LEMMA OnPair ==
  ASSUME Paired, NEW f \in Fd, fds[f] # None
  PROVE  \E c \in Conn :
           \/ /\ f % 2 = 1 /\ f + 1 \in Fd
              /\ fds[f] = <<c, "cli">> /\ fds[f + 1] = <<c, "srv">>
           \/ /\ f % 2 = 0 /\ f - 1 \in Fd
              /\ fds[f - 1] = <<c, "cli">> /\ fds[f] = <<c, "srv">>
<1>1. f \in Nat /\ 1 <= f /\ f <= NFd
  BY FdNat
<1>2. CASE f % 2 = 1
  BY <1>2 DEF Paired
<1>3. CASE f % 2 = 0
  <2>1. f - 1 \in Nat /\ (f - 1) % 2 = 1 /\ (f - 1) + 1 = f
    BY <1>1, <1>3, Parity
  <2>2. f - 1 \in Fd
    BY <1>1, <2>1, FdNat
  <2>3. PICK c \in Conn : fds[f - 1] = <<c, "cli">> /\ fds[f] = <<c, "srv">>
    BY <2>1, <2>2 DEF Paired
  <2> QED BY <1>3, <2>2, <2>3
<1> QED BY <1>1, <1>2, <1>3, Parity

LEMMA BothOrNeither ==
  ASSUME Paired, NEW c \in Conn
  PROVE  OpenOn(<<c, "cli">>) <=> OpenOn(<<c, "srv">>)
<1>1. ASSUME NEW f \in Fd, fds[f] = <<c, "cli">> PROVE OpenOn(<<c, "srv">>)
  <2>1. PICK x \in Conn :
           \/ /\ f % 2 = 1 /\ f + 1 \in Fd
              /\ fds[f] = <<x, "cli">> /\ fds[f + 1] = <<x, "srv">>
           \/ /\ f % 2 = 0 /\ f - 1 \in Fd
              /\ fds[f - 1] = <<x, "cli">> /\ fds[f] = <<x, "srv">>
    BY <1>1, OnPair, SockNotNone
  <2> QED BY <1>1, <2>1 DEF OpenOn
<1>2. ASSUME NEW f \in Fd, fds[f] = <<c, "srv">> PROVE OpenOn(<<c, "cli">>)
  <2>1. PICK x \in Conn :
           \/ /\ f % 2 = 1 /\ f + 1 \in Fd
              /\ fds[f] = <<x, "cli">> /\ fds[f + 1] = <<x, "srv">>
           \/ /\ f % 2 = 0 /\ f - 1 \in Fd
              /\ fds[f - 1] = <<x, "cli">> /\ fds[f] = <<x, "srv">>
    BY <1>2, OnPair, SockNotNone
  <2> QED BY <1>2, <2>1 DEF OpenOn
<1> QED BY <1>1, <1>2 DEF OpenOn

LEMMA OpenSocksOn == \A s \in Sock : s \in OpenSocks <=> OpenOn(s)
BY DEF OpenSocks, OpenOn, Free, Sock

\* What a close takes away: nothing, or the two sockets of one connection.
LEMMA CloseBothCloses ==
  ASSUME IInv, Single, NEW fd \in Fd, Set(fd), CloseBoth(fd)
  PROVE  \E D \in SUBSET Sock :
           /\ D = {} \/ \E c \in Conn : D = {<<c, "cli">>, <<c, "srv">>}
           /\ \A s \in D : OpenOn(s)
           /\ \A s \in Sock : OpenOn(s)' <=> OpenOn(s) /\ s \notin D
           /\ \A s \in Sock : peer'[s] = IF s \in D THEN "gone" ELSE peer[s]
           /\ \A s \in Sock : rcv'[s] = IF s \in D THEN 0 ELSE rcv[s]
           /\ fds[fd] # None => fds[fd] \in D
           /\ \A f \in Fd : fds'[f] = None \/ fds'[f] = fds[f]
<1> DEFINE p == Partner(fd)
           D == {fds[fd], fds[p]} \ {None}
<1>0. Paired /\ fds \in [Fd -> Sock \cup {None}] /\ p \in Fd
  BY DEF IInv, TypeOK, Set
<1>1. {fd_sockets[fd].src, fd_sockets[fd].dst} \cap Fd = {fd, p}
  BY DEF Set
<1>2. /\ fds' = [f \in Fd |-> IF f \in {fd, p} THEN None ELSE fds[f]]
      /\ peer' = [s \in Sock |-> IF s \in {fds[f] : f \in {fd, p}} THEN "gone" ELSE peer[s]]
      /\ rcv' = [s \in Sock |-> IF s \in {fds[f] : f \in {fd, p}} THEN 0 ELSE rcv[s]]
  BY <1>1, Zenon DEF CloseBoth
<1>3. D = {} \/ \E c \in Conn : D = {<<c, "cli">>, <<c, "srv">>}
  <2>1. CASE fds[fd] # None
    <3>1. PICK c \in Conn :
           \/ /\ fd % 2 = 1 /\ fd + 1 \in Fd
              /\ fds[fd] = <<c, "cli">> /\ fds[fd + 1] = <<c, "srv">>
           \/ /\ fd % 2 = 0 /\ fd - 1 \in Fd
              /\ fds[fd - 1] = <<c, "cli">> /\ fds[fd] = <<c, "srv">>
      BY <1>0, <2>1, OnPair
    <3>2. \/ fds[fd] = <<c, "cli">> /\ fds[p] = <<c, "srv">>
          \/ fds[p] = <<c, "cli">> /\ fds[fd] = <<c, "srv">>
      BY <3>1 DEF Partner
    <3>3. D = {<<c, "cli">>, <<c, "srv">>}
      BY <3>2, SockNotNone
    <3> QED BY <3>3
  <2>2. CASE fds[p] # None
    <3>1. PICK c \in Conn :
           \/ /\ p % 2 = 1 /\ p + 1 \in Fd
              /\ fds[p] = <<c, "cli">> /\ fds[p + 1] = <<c, "srv">>
           \/ /\ p % 2 = 0 /\ p - 1 \in Fd
              /\ fds[p - 1] = <<c, "cli">> /\ fds[p] = <<c, "srv">>
      BY <1>0, <2>2, OnPair
    <3>2. Partner(p) = fd
      <4>1. fd \in Nat /\ 1 <= fd
        BY FdNat
      <4>2. CASE fd % 2 = 1
        BY <4>1, <4>2, Parity DEF Partner
      <4>3. CASE fd % 2 = 0
        BY <4>1, <4>3, Parity DEF Partner
      <4> QED BY <4>1, <4>2, <4>3, Parity
    <3>3. \/ fds[fd] = <<c, "cli">> /\ fds[p] = <<c, "srv">>
          \/ fds[p] = <<c, "cli">> /\ fds[fd] = <<c, "srv">>
      BY <3>1, <3>2 DEF Partner
    <3>4. D = {<<c, "cli">>, <<c, "srv">>}
      BY <3>3, SockNotNone
    <3> QED BY <3>4
  <2>3. CASE fds[fd] = None /\ fds[p] = None
    BY <2>3
  <2> QED BY <2>1, <2>2, <2>3
<1>4. D \subseteq Sock /\ \A s \in D : OpenOn(s)
  BY <1>0 DEF OpenOn
<1>5. \A s \in Sock : OpenOn(s)' <=> OpenOn(s) /\ s \notin D
  <2> SUFFICES ASSUME NEW s \in Sock PROVE OpenOn(s)' <=> OpenOn(s) /\ s \notin D
    OBVIOUS
  <2>0. s # None
    BY DEF Sock
  <2>1. ASSUME NEW f \in Fd, fds'[f] = s PROVE OpenOn(s) /\ s \notin D
    <3>1. f \notin {fd, p} /\ fds[f] = s
      BY <1>2, <2>0, <2>1
    <3> QED BY <1>0, <2>0, <3>1 DEF OpenOn, Single
  <2>2. ASSUME NEW f \in Fd, fds[f] = s, s \notin D PROVE OpenOn(s)'
    BY <1>2, <2>0, <2>2 DEF OpenOn
  <2> QED BY <2>1, <2>2 DEF OpenOn
<1>6. /\ \A s \in Sock : peer'[s] = IF s \in D THEN "gone" ELSE peer[s]
      /\ \A s \in Sock : rcv'[s] = IF s \in D THEN 0 ELSE rcv[s]
      /\ fds[fd] # None => fds[fd] \in D
  BY <1>2 DEF Sock
<1>7. \A f \in Fd : fds'[f] = None \/ fds'[f] = fds[f]
  BY <1>2
<1> HIDE DEF D
<1> QED BY <1>3, <1>4, <1>5, <1>6, <1>7

-----------------------------------------------------------------------------
(* The steps.                                                               *)

LEMMA InitAInv == Init => AInv
BY DEF Init, AInv, Single, QueuedOnce, NotBoth, Kept, Queued, OpenOn, Live, Sock

\* Steps that leave descriptors and queue alone and end no socket.
LEMMA SameSockets ==
  ASSUME AInv, Running, UNCHANGED <<fds, queue>>, pc # "connect", pc' # "connect",
         \A s \in Sock : Live(s)' <=> Live(s)
  PROVE  AInv'
BY DEF AInv, Single, QueuedOnce, NotBoth, Kept, Connecting, Queued, OpenOn

LEMMA CloseKeepsAccount ==
  ASSUME IInv, AInv, Running, NEW fd \in Fd, Set(fd), CloseBoth(fd),
         pc # "connect", pc' = "loop"
  PROVE  AInv'
<1>0. Single /\ QueuedOnce /\ NotBoth /\ Kept /\ queue' = queue
  BY DEF AInv, CloseBoth
<1>1. PICK D \in SUBSET Sock :
        /\ D = {} \/ \E c \in Conn : D = {<<c, "cli">>, <<c, "srv">>}
        /\ \A s \in D : OpenOn(s)
        /\ \A s \in Sock : OpenOn(s)' <=> OpenOn(s) /\ s \notin D
        /\ \A s \in Sock : peer'[s] = IF s \in D THEN "gone" ELSE peer[s]
        /\ \A f \in Fd : fds'[f] = None \/ fds'[f] = fds[f]
  BY <1>0, CloseBothCloses
<1>2. Single'
  BY <1>0, <1>1 DEF Single
<1>3. QueuedOnce' /\ \A c \in Conn : Queued(c)' <=> Queued(c)
  BY <1>0 DEF QueuedOnce, Queued
<1>4. NotBoth'
  BY <1>0, <1>1, <1>3, SockNotNone DEF NotBoth
<1>5. Kept'
  <2> SUFFICES ASSUME NEW s \in Sock
               PROVE  Live(s)' <=> \/ OpenOn(s)'
                                   \/ s[2] = "cli" /\ Queued(s[1])'
    BY DEF Kept, Connecting
  <2>1. Live(s) <=> OpenOn(s) \/ (s[2] = "cli" /\ Queued(s[1]))
    BY <1>0 DEF Kept, Connecting
  <2>2. Live(s)' <=> Live(s) /\ s \notin D
    BY <1>1 DEF Live
  <2>3. s[1] \in Conn /\ s = <<s[1], s[2]>>
    BY DEF Sock
  <2>4. s[2] = "cli" /\ Queued(s[1]) => s \notin D
    BY <1>0, <1>1, <2>3 DEF NotBoth
  <2> QED BY <1>1, <1>3, <2>1, <2>2, <2>3, <2>4
<1> QED BY <1>2, <1>3, <1>4, <1>5 DEF AInv

LEMMA ClientConnectAccounts ==
  ASSUME IInv, AInv, NEW c \in Conn, ClientConnect(c)
  PROVE  AInv'
<1> DEFINE s0 == <<c, "cli">>
<1>0. Single /\ QueuedOnce /\ NotBoth /\ Kept /\ queue \in Seq(Conn) /\ s0 \in Sock
  BY SockNotNone DEF AInv, ClientConnect, IInv, TypeOK
<1>1. /\ queue' = Append(queue, c) /\ fds' = fds /\ pc' = pc /\ fw_socket' = fw_socket
      /\ peer[s0] = "absent"
      /\ peer' = [peer EXCEPT ![s0] = "up"] /\ peer \in [Sock -> PeerState]
  BY DEF ClientConnect, IInv, TypeOK
<1>2. ~Queued(c) /\ ~OpenOn(s0)
  BY <1>0, <1>1 DEF Kept, Live
<1>3. \A x \in Conn : Queued(x)' <=> Queued(x) \/ x = c
  BY <1>0, <1>1, AppendProperties DEF Queued
<1>4. QueuedOnce'
  <2>1. /\ Len(queue') = Len(queue) + 1 /\ Len(queue) \in Nat
        /\ queue'[Len(queue) + 1] = c
        /\ \A i \in 1 .. Len(queue) : queue'[i] = queue[i] /\ queue[i] # c
        /\ DOMAIN queue = 1 .. Len(queue) /\ DOMAIN queue' = 1 .. Len(queue) + 1
    BY <1>0, <1>1, <1>2, AppendProperties DEF Queued
  <2> QED BY <1>0, <2>1 DEF QueuedOnce
<1>5. \A s \in Sock : OpenOn(s)' <=> OpenOn(s)
  BY <1>1 DEF OpenOn
<1>6. NotBoth'
  BY <1>0, <1>2, <1>3, <1>5, SockNotNone DEF NotBoth
<1>7. Kept'
  <2> SUFFICES ASSUME NEW s \in Sock
               PROVE  Live(s)' <=> \/ OpenOn(s) /\ (s[2] = "srv" => ~Connecting(s))
                                   \/ s[2] = "cli" /\ Queued(s[1])'
    BY <1>1, <1>5 DEF Kept, Connecting
  <2>1. CASE s = s0
    BY <1>1, <1>3, <2>1 DEF Live
  <2>2. CASE s # s0
    <3>1. s[1] \in Conn /\ (s[2] = "cli" => s[1] # c)
      BY <2>2 DEF Sock
    <3>2. Live(s)' <=> Live(s)
      BY <1>1, <2>2 DEF Live
    <3> QED BY <1>0, <1>3, <3>1, <3>2 DEF Kept
  <2> QED BY <2>1, <2>2
<1>8. Single'
  BY <1>0, <1>1 DEF Single
<1> QED BY <1>4, <1>6, <1>7, <1>8 DEF AInv

LEMMA AcceptAccounts ==
  ASSUME IInv, AInv, Accept
  PROVE  AInv'
<1> DEFINE m == Lowest(Free)
           c == Head(queue)
<1>0. Single /\ QueuedOnce /\ NotBoth /\ Kept /\ Paired /\ TypeOK
  BY DEF AInv, IInv, Accept, Running, Stopped
<1>1. /\ m \in Free /\ m + 1 \in Free /\ Lowest(Free \ {m}) = m + 1
  BY <1>0, LowestPair DEF Accept
<1>2. /\ fw_socket' = m + 1
      /\ fds' = [fds EXCEPT ![m] = <<c, "cli">>, ![m + 1] = <<c, "srv">>]
      /\ queue \in Seq(Conn) /\ queue # <<>> /\ queue' = Tail(queue)
      /\ peer' = peer /\ pc' = "connect" /\ pc # "connect"
  BY <1>0, <1>1 DEF Accept, TypeOK
<1> HIDE DEF m
<1>3. /\ m \in Fd /\ m + 1 \in Fd /\ m \in Nat
      /\ fds[m] = None /\ fds[m + 1] = None
  BY <1>1, FdNat DEF Free
<1>4. /\ c \in Conn /\ queue[1] = c /\ Len(queue) \in Nat /\ Len(queue) >= 1
      /\ Len(queue') = Len(queue) - 1
      /\ \A i \in 1 .. Len(queue) - 1 : queue'[i] = queue[i + 1]
      /\ DOMAIN queue = 1 .. Len(queue) /\ DOMAIN queue' = 1 .. Len(queue) - 1
  BY <1>2, HeadTailProperties
<1> HIDE DEF c
<1>5. QueuedOnce'
  <2> SUFFICES ASSUME NEW i \in 1 .. Len(queue) - 1, NEW j \in 1 .. Len(queue) - 1,
                      queue'[i] = queue'[j]
               PROVE  i = j
    BY <1>4 DEF QueuedOnce
  <2>1. i + 1 \in DOMAIN queue /\ j + 1 \in DOMAIN queue /\ queue[i + 1] = queue[j + 1]
    BY <1>4
  <2>2. i + 1 = j + 1
    BY <1>0, <2>1 DEF QueuedOnce
  <2> QED BY <1>4, <2>2
<1>6. \A x \in Conn : Queued(x)' <=> Queued(x) /\ x # c
  <2> SUFFICES ASSUME NEW x \in Conn PROVE Queued(x)' <=> Queued(x) /\ x # c
    OBVIOUS
  <2>1. ASSUME Queued(x)' PROVE Queued(x) /\ x # c
    <3>1. PICK i \in 1 .. Len(queue) - 1 : queue'[i] = x
      BY <1>4, <2>1 DEF Queued
    <3>2. i + 1 \in DOMAIN queue /\ 1 \in DOMAIN queue /\ i + 1 # 1 /\ queue[i + 1] = x
      BY <1>4, <3>1
    <3> QED BY <1>0, <1>4, <3>2 DEF Queued, QueuedOnce
  <2>2. ASSUME Queued(x), x # c PROVE Queued(x)'
    <3>1. PICK i \in 1 .. Len(queue) : queue[i] = x
      BY <1>4, <2>2 DEF Queued
    <3>2. i - 1 \in 1 .. Len(queue) - 1 /\ (i - 1) + 1 = i
      BY <1>4, <2>2, <3>1
    <3>3. queue'[i - 1] = x
      BY <1>4, <3>1, <3>2
    <3> QED BY <1>4, <3>2, <3>3 DEF Queued
  <2> QED BY <2>1, <2>2
<1>7. Queued(c) /\ ~OpenOn(<<c, "cli">>) /\ ~OpenOn(<<c, "srv">>)
  <2>1. Queued(c)
    BY <1>4 DEF Queued
  <2> QED BY <1>0, <1>4, <2>1, BothOrNeither DEF NotBoth
<1>8. /\ fds'[m] = <<c, "cli">> /\ fds'[m + 1] = <<c, "srv">>
      /\ \A f \in Fd : f # m /\ f # m + 1 => fds'[f] = fds[f]
  BY <1>0, <1>2, <1>3 DEF TypeOK
<1>9. \A s \in Sock : OpenOn(s)' <=> OpenOn(s) \/ s = <<c, "cli">> \/ s = <<c, "srv">>
  <2> SUFFICES ASSUME NEW s \in Sock
               PROVE  OpenOn(s)' <=> OpenOn(s) \/ s = <<c, "cli">> \/ s = <<c, "srv">>
    OBVIOUS
  <2>1. s # None
    BY DEF Sock
  <2>2. ASSUME NEW f \in Fd, fds[f] = s PROVE OpenOn(s)'
    BY <1>3, <1>8, <2>1, <2>2 DEF OpenOn
  <2>3. ASSUME NEW f \in Fd, fds'[f] = s
        PROVE  OpenOn(s) \/ s = <<c, "cli">> \/ s = <<c, "srv">>
    BY <1>8, <2>3 DEF OpenOn
  <2> QED BY <1>3, <1>8, <2>2, <2>3 DEF OpenOn
<1>10. Single'
  <2> SUFFICES ASSUME NEW f \in Fd, NEW g \in Fd, fds'[f] # None, fds'[f] = fds'[g]
               PROVE  f = g
    BY DEF Single
  <2>1. \A h \in Fd : h # m /\ h # m + 1 =>
                       fds'[h] # <<c, "cli">> /\ fds'[h] # <<c, "srv">>
    BY <1>7, <1>8 DEF OpenOn
  <2>2. CASE f \in {m, m + 1}
    BY <1>3, <1>8, <2>1, <2>2
  <2>3. CASE f \notin {m, m + 1}
    <3>1. g \notin {m, m + 1}
      BY <1>8, <2>1, <2>3
    <3> QED BY <1>0, <1>8, <2>3, <3>1 DEF Single
  <2> QED BY <2>2, <2>3
<1>11. NotBoth'
  <2> SUFFICES ASSUME NEW x \in Conn, Queued(x)' PROVE ~OpenOn(<<x, "cli">>)'
    BY DEF NotBoth
  <2>1. Queued(x) /\ x # c /\ <<x, "cli">> \in Sock
    BY <1>6, SockNotNone
  <2> QED BY <1>0, <1>9, <2>1 DEF NotBoth
<1>12. Kept'
  <2> SUFFICES ASSUME NEW s \in Sock
               PROVE  Live(s) <=>
                        \/ OpenOn(s)' /\ (s[2] = "srv" => s # <<c, "srv">>)
                        \/ s[2] = "cli" /\ Queued(s[1])'
    BY <1>2, <1>8 DEF Kept, Connecting, Live
  <2>1. Live(s) <=> OpenOn(s) \/ (s[2] = "cli" /\ Queued(s[1]))
    BY <1>0, <1>2 DEF Kept, Connecting
  <2>2. s[1] \in Conn /\ s = <<s[1], s[2]>> /\ s[2] \in {"cli", "srv"}
    BY DEF Sock
  <2>3. CASE s = <<c, "cli">>
    BY <1>7, <1>9, <2>1, <2>3
  <2>4. CASE s = <<c, "srv">>
    BY <1>7, <1>9, <2>1, <2>4
  <2>5. CASE s # <<c, "cli">> /\ s # <<c, "srv">>
    <3>1. s[1] # c
      BY <2>2, <2>5
    <3> QED BY <1>6, <1>9, <2>1, <2>2, <2>5, <3>1
  <2> QED BY <2>3, <2>4, <2>5
<1> QED BY <1>5, <1>10, <1>11, <1>12 DEF AInv

LEMMA ConnectedAccounts ==
  ASSUME IInv, AInv, Connected
  PROVE  AInv'
<1>0. Single /\ QueuedOnce /\ NotBoth /\ Kept /\ Paired /\ TypeOK /\ TableSet
  BY DEF AInv, IInv, Connected, Running, Stopped
<1>1. /\ fw_new \in Fd /\ fw_new % 2 = 1 /\ fds[fw_new] # None
      /\ fw_socket = fw_new + 1 /\ fw_socket \in Fd
  BY <1>0 DEF TableSet, Connected
<1>2. PICK c \in Conn : fds[fw_new] = <<c, "cli">> /\ fds[fw_socket] = <<c, "srv">>
  BY <1>0, <1>1 DEF Paired
<1>3. /\ fds' = fds /\ queue' = queue /\ pc = "connect" /\ pc' = "loop"
      /\ peer' = [peer EXCEPT ![<<c, "srv">>] = "up"] /\ peer \in [Sock -> PeerState]
  BY <1>0, <1>2 DEF Connected, TypeOK
<1>4. Single' /\ QueuedOnce' /\ NotBoth'
  BY <1>0, <1>3 DEF Single, QueuedOnce, NotBoth, Queued, OpenOn
<1>5. Kept'
  <2> SUFFICES ASSUME NEW s \in Sock
               PROVE  Live(s)' <=> OpenOn(s) \/ (s[2] = "cli" /\ Queued(s[1]))
    BY <1>3 DEF Kept, Connecting, OpenOn, Queued
  <2>1. CASE s = <<c, "srv">>
    <3>1. Live(s)' /\ OpenOn(s)
      BY <1>1, <1>2, <1>3, <2>1 DEF Live, OpenOn
    <3> QED BY <3>1
  <2>2. CASE s # <<c, "srv">>
    <3>1. ~Connecting(s) /\ (Live(s)' <=> Live(s))
      BY <1>2, <1>3, <2>2 DEF Connecting, Live
    <3> QED BY <1>0, <3>1 DEF Kept
  <2> QED BY <2>1, <2>2
<1> QED BY <1>4, <1>5 DEF AInv

\* The peers' data and endings change no socket of the process.
LEMMA PeerAccounts ==
  ASSUME IInv, AInv, NEW s0 \in Sock, PeerSend(s0) \/ PeerFin(s0) \/ PeerReset(s0)
  PROVE  AInv'
<1>1. /\ UNCHANGED <<fds, queue, pc, fw_socket>>
      /\ \A s \in Sock : Live(s)' <=> Live(s)
  BY DEF PeerSend, PeerFin, PeerReset, Live, IInv, TypeOK
<1> QED BY <1>1 DEF AInv, Single, QueuedOnce, NotBoth, Kept, Connecting, Queued, OpenOn,
           Running

\* forwarding() learns of resets and ends no socket.
LEMMA ReceiveAccounts ==
  ASSUME IInv, AInv, RecvSend \/ ReturnMore
  PROVE  AInv'
<1>1. UNCHANGED <<fds, queue>> /\ pc = "forwarding" /\ pc' \in {"forwarding", "loop"}
  BY DEF RecvSend, ReturnMore, Return
<1>2. \A s \in Sock : Live(s)' <=> Live(s)
  BY DEF RecvSend, ReturnMore, Live
<1> QED BY <1>1, <1>2, SameSockets DEF Running, Stopped

LEMMA StepAInv == IInv /\ AInv /\ [Next]_vars => AInv'
<1> SUFFICES ASSUME IInv, AInv, [Next]_vars PROVE AInv'
  OBVIOUS
<1>1. CASE NoSocket \/ NoHost \/ ConnectFails \/ SigPipe \/ Interrupt
  BY <1>1 DEF NoSocket, NoHost, ConnectFails, SigPipe, Interrupt, Terminate, AInv,
     Running, Stopped
<1>2. CASE UNCHANGED vars
  BY <1>2 DEF AInv, Single, QueuedOnce, NotBoth, Kept, Connecting, Queued, OpenOn, Live,
     Running
<1>3. CASE EpollWait \/ AcceptFails \/ \E e \in events : CallForwarding(e)
  <2>1. UNCHANGED <<fds, queue, peer>> /\ pc = "loop" /\ pc' \in {"loop", "forwarding"}
    BY <1>3 DEF EpollWait, AcceptFails, CallForwarding
  <2> QED BY <2>1, SameSockets DEF Live, Running, Stopped
<1>4. ASSUME NEW e \in events, HangUp(e) PROVE AInv'
  <2>1. e.fd \in Fd /\ Set(e.fd) /\ CloseBoth(e.fd) /\ pc = "loop" /\ pc' = "loop"
    BY <1>4 DEF HangUp, IInv, TableSet
  <2> QED BY <2>1, CloseKeepsAccount DEF Running, Stopped
<1>5. CASE ReturnClose
  <2>1. cur \in Fd /\ Set(cur) /\ CloseBoth(cur) /\ pc = "forwarding" /\ pc' = "loop"
    BY <1>5, ReceivedType DEF ReturnClose, Return
  <2> QED BY <2>1, CloseKeepsAccount DEF Running, Stopped
<1> QED
  BY <1>1, <1>2, <1>3, <1>4, <1>5, ClientConnectAccounts, PeerAccounts, AcceptAccounts,
     ConnectedAccounts, ReceiveAccounts
  DEF Next, Peers, Process

-----------------------------------------------------------------------------
(* Results.                                                                 *)

THEOREM BookKept == Spec => [](IInv /\ AInv)
<1> QED BY InitIInv, StepIInv, InitAInv, StepAInv, PTL DEF Spec

LEMMA AInvAccounted == IInv /\ AInv => Accounted
<1> SUFFICES ASSUME IInv, AInv, Running PROVE Accounted
  BY DEF Accounted
<1>0. Single /\ Kept /\ Paired
  BY DEF AInv, IInv
<1>1. \A c \in Conn : <<c, "cli">> \in OpenSocks <=> <<c, "srv">> \in OpenSocks
  BY <1>0, BothOrNeither, OpenSocksOn, SockNotNone
<1>2. \A f, g \in Fd \ Free : fds[f] = fds[g] => f = g
  BY <1>0 DEF Single, Free
<1>3. \A s \in Sock : (peer[s] \notin {"absent", "gone"}) <=>
         \/ s \in OpenSocks /\ (s[2] = "srv" => pc # "connect" \/ s # fds[fw_socket])
         \/ s[2] = "cli" /\ Queued(s[1])
  BY <1>0, OpenSocksOn DEF Kept, Live, Connecting
<1> QED BY <1>1, <1>2, <1>3 DEF Accounted

\* No descriptor and no socket is leaked, whatever fails and however a connection
\* ends, for any number of connections and descriptors.
THEOREM NothingLeaked == Spec => []Accounted
<1> QED BY BookKept, AInvAccounted, PTL

LEMMA StepOne ==
  ASSUME IInv, AInv, [Next]_vars, Running'
  PROVE  \/ OpenSocks \subseteq OpenSocks'
         \/ \E c \in Conn : OpenSocks \ OpenSocks' = {<<c, "cli">>, <<c, "srv">>}
<1>0. OpenSocks \subseteq Sock /\ OpenSocks' \subseteq Sock
  <2>1. IInv'
    BY StepIInv
  <2> QED BY <2>1 DEF IInv, TypeOK, OpenSocks, Free
<1>1. ASSUME NEW fd \in Fd, Set(fd), CloseBoth(fd), Running
      PROVE  \/ OpenSocks \subseteq OpenSocks'
             \/ \E c \in Conn : OpenSocks \ OpenSocks' = {<<c, "cli">>, <<c, "srv">>}
  <2>1. PICK D \in SUBSET Sock :
           /\ D = {} \/ \E c \in Conn : D = {<<c, "cli">>, <<c, "srv">>}
           /\ \A s \in D : OpenOn(s)
           /\ \A s \in Sock : OpenOn(s)' <=> OpenOn(s) /\ s \notin D
    BY <1>1, CloseBothCloses DEF AInv
  <2>2. \A s \in Sock : s \in OpenSocks' <=> OpenOn(s)'
    BY DEF OpenSocks, OpenOn, Free, Sock
  <2>3. OpenSocks \ OpenSocks' = D
    BY <1>0, <2>1, <2>2, OpenSocksOn
  <2> QED BY <2>1, <2>3
<1>2. ASSUME NEW e \in events, HangUp(e)
      PROVE  \E fd \in Fd : Set(fd) /\ CloseBoth(fd) /\ Running
  BY <1>2 DEF HangUp, IInv, TableSet, Running, Stopped
<1>3. CASE ReturnClose
  <2>1. cur \in Fd /\ Set(cur) /\ CloseBoth(cur) /\ Running
    BY <1>3, ReceivedType DEF ReturnClose, Running, Stopped
  <2> QED BY <1>1, <2>1
<1>4. CASE Accept
  <2>1. fds \in [Fd -> Sock \cup {None}] /\ TypeOK /\ Paired
    BY DEF IInv, TypeOK
  <2>2. fw_new' \in Free /\ fw_socket' \in Free
    BY <1>4, <2>1, LowestPair DEF Accept
  <2>3. \A f \in Fd \ Free : fds'[f] = fds[f]
    BY <1>4, <2>1, <2>2 DEF Accept
  <2> QED BY <2>1, <2>3 DEF OpenSocks, Free
<1>5. CASE UNCHANGED fds
  BY <1>5 DEF OpenSocks, Free
<1>6. CASE Peers \/ EpollWait \/ AcceptFails \/ Connected \/ RecvSend \/ ReturnMore
            \/ (\E e \in events : CallForwarding(e)) \/ UNCHANGED vars
  <2>1. UNCHANGED fds
    BY <1>6 DEF Peers, ClientConnect, PeerSend, PeerFin, PeerReset, EpollWait, AcceptFails,
       Connected, RecvSend, ReturnMore, CallForwarding
  <2> QED BY <1>5, <2>1
<1>7. ~(NoSocket \/ NoHost \/ ConnectFails \/ SigPipe \/ Interrupt)
  BY DEF NoSocket, NoHost, ConnectFails, SigPipe, Interrupt, Terminate, Running, Stopped
<1> QED BY <1>1, <1>2, <1>3, <1>4, <1>6, <1>7 DEF Next, Process

\* A step of the running loop takes down at most one connection, and then both of
\* its sockets, also when the event that made it do so was stale.
THEOREM OneConnectionAtATime == Spec => OneAtATime
<1>1. IInv /\ AInv /\ [Next]_vars =>
        [Running' =>
           \/ OpenSocks \subseteq OpenSocks'
           \/ \E c \in Conn : OpenSocks \ OpenSocks' = {<<c, "cli">>, <<c, "srv">>}]_vars
  BY StepOne
<1> QED BY <1>1, BookKept, PTL DEF Spec, OneAtATime
=============================================================================
