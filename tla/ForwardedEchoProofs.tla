------------------------ MODULE ForwardedEchoProofs ------------------------
(***************************************************************************)
(* The forwarder between the repository's own programs, for any number of  *)
(* clients, messages and descriptors and any length of a message.  The     *)
(* whole is a Proxy (IsProxy); EchoInv is inductive; no unit is lost or    *)
(* made on the way round (RoundTrip), nobody who is left alone is cut off  *)
(* or sends to a closed connection, and EchoService is implemented.        *)
(***************************************************************************)
EXTENDS ForwardedEcho, ProxyProofs

USE DEF table, call, process, kernel, vars, ends, wire, evars, all

-----------------------------------------------------------------------------
(* Sockets and numbers.                                                     *)

LEMMA Sockets ==
  /\ \A c \in Conn : /\ Cli(c) \in Sock /\ Srv(c) \in Sock
                     /\ Cli(c) # None /\ Srv(c) # None
                     /\ Cli(c)[1] = c /\ Srv(c)[1] = c
                     /\ Cli(c)[2] = "cli" /\ Srv(c)[2] = "srv"
  /\ \A c, d \in Conn : /\ Cli(c) # Srv(d)
                        /\ Cli(c) = Cli(d) => c = d
                        /\ Srv(c) = Srv(d) => c = d
  /\ \A s \in Sock : s[1] \in Conn /\ (s = Cli(s[1]) \/ s = Srv(s[1]))
  /\ None \notin Sock
BY ConstantsAssumption DEF Cli, Srv, Sock

Counted ==
  /\ M \in Nat /\ M > 1
  /\ \A s \in Sock : out[s] \in Nat /\ rcv[s] \in Nat /\ in[s] \in Nat /\ got[s] \in Nat
  /\ \A c \in Conn : /\ left[c] \in Nat /\ Start(c) \in Nat \ {0} /\ Sent(c) \in Int
                     /\ hand[c] \in Nat
                     /\ There(c) \in Nat /\ Back(c) \in Nat

LEMMA Units == EchoTypeOK /\ TypeOK => Counted
<1> SUFFICES ASSUME EchoTypeOK, TypeOK PROVE Counted
  OBVIOUS
<1>1. /\ M \in Nat /\ M > 1
      /\ \A s \in Sock : out[s] \in Nat /\ rcv[s] \in Nat /\ in[s] \in Nat /\ got[s] \in Nat
  BY EchoAssumption DEF EchoTypeOK, TypeOK
<1>2. \A c \in Conn : left[c] \in Nat /\ Start(c) \in Nat \ {0} /\ hand[c] \in Nat
  BY EchoAssumption DEF EchoTypeOK, Start, ReadLen
<1>3. ASSUME NEW c \in Conn PROVE There(c) \in Nat /\ Back(c) \in Nat
  <2>1. \A s \in {Cli(c), Srv(c)} :
           out[s] \in Nat /\ rcv[s] \in Nat /\ in[s] \in Nat /\ got[s] \in Nat
    BY <1>1, Sockets
  <2> QED BY <1>2, <2>1 DEF There, Back
<1>4. ASSUME NEW c \in Conn PROVE Sent(c) \in Int
  <2>1. Start(c) - left[c] \in Int /\ M \in Int
    BY <1>1, <1>2
  <2> QED BY <2>1 DEF Sent
<1> QED BY <1>1, <1>2, <1>3, <1>4 DEF Counted

LEMMA UnitsAfter == EchoTypeOK' /\ TypeOK' => Counted'
BY Units, PTL

LEMMA SentMore ==
  ASSUME EchoTypeOK, NEW c \in Conn, left[c] > 0,
         left' = [left EXCEPT ![c] = @ - 1], pair' = pair
  PROVE  /\ Sent(c)' = Sent(c) + M
         /\ \A d \in Conn \ {c} : Sent(d)' = Sent(d)
         /\ \A d \in Conn : Start(d)' = Start(d)
<1>1. Start(c) \in Nat /\ left[c] \in Nat /\ left'[c] = left[c] - 1 /\ M \in Nat
  BY EchoAssumption DEF EchoTypeOK, Start
<1>2. \A d \in Conn : Start(d)' = Start(d)
  BY DEF Start
<1>3. Sent(c)' = Sent(c) + M
  BY <1>1, <1>2 DEF Sent
<1>4. \A d \in Conn \ {c} : Sent(d)' = Sent(d)
  BY <1>2 DEF Sent, EchoTypeOK
<1> QED BY <1>2, <1>3, <1>4

LEMMA SentSame ==
  ASSUME UNCHANGED <<pair, left>>
  PROVE  \A c \in Conn : Sent(c)' = Sent(c) /\ Start(c)' = Start(c)
BY DEF Sent, Start

\* A simple client sends one message.
LEMMA OneMessage ==
  ASSUME EchoTypeOK, pair = "simple", NEW c \in Conn, left[c] <= Start(c)
  PROVE  Sent(c) <= M
<1>1. M \in Nat /\ Start(c) = 1 /\ left[c] \in {0, 1}
  BY EchoAssumption DEF EchoTypeOK, Start
<1>2. CASE left[c] = 0
  BY <1>1, <1>2 DEF Sent
<1>3. CASE left[c] = 1
  BY <1>1, <1>3 DEF Sent
<1> QED BY <1>1, <1>2, <1>3

-----------------------------------------------------------------------------
(* The whole is a Proxy.                                                    *)

LEMMA CloseFarPeers ==
  ASSUME NEW s \in Sock, NEW r \in BOOLEAN, CloseFar(s, r)
  PROVE  [Next]_vars
BY DEF CloseFar, Next, Peers

LEMMA StepProxy == [EchoNext]_all => [Next]_vars
<1> SUFFICES ASSUME [EchoNext]_all PROVE [Next]_vars
  OBVIOUS
<1>1. CASE Forwarder
  BY <1>1 DEF Forwarder, Next
<1>2. CASE Stop
  BY <1>2 DEF Stop, Next
<1>3. CASE Network
  BY <1>3 DEF Network, Deliver, DeliverFin, DeliverReset, Next, Peers
<1>4. CASE Accepted \/ NoThread
  BY <1>4 DEF Accepted, NoThread, Serves
<1>5. ASSUME NEW c \in Conn, ClientStep(c) PROVE [Next]_vars
  <2>1. CASE (pair = "load" /\ Send(c)) \/ LoadRecv(c) \/ SimpleSpins(c)
    BY <2>1 DEF Send, LoadRecv, SimpleSpins
  <2>2. CASE ClientSigPipe(c) \/ LoadClose(c) \/ SimpleRecv(c)
    BY <2>2, CloseFarPeers, Sockets DEF ClientSigPipe, LoadClose, SimpleRecv
  <2> QED BY <1>5, <2>1, <2>2 DEF ClientStep
<1>6. ASSUME NEW c \in Conn, ServerStep(c) PROVE [Next]_vars
  <2>1. CASE ThreadRead(c) \/ ThreadEcho(c) \/ SvrEcho(c) \/ SvrSpins(c)
    BY <2>1 DEF ThreadRead, ThreadEcho, SvrEcho, SvrSpins
  <2>2. CASE ThreadEnds(c) \/ ThreadSigPipe(c)
    BY <2>2, CloseFarPeers, Sockets DEF ThreadEnds, ThreadSigPipe
  <2>3. CASE ThreadMisreads(c)
    <3>1. (in[Srv(c)] > Taken(Srv(c), ReadLen)) \in BOOLEAN
      OBVIOUS
    <3> QED BY <2>3, <3>1, CloseFarPeers, Sockets DEF ThreadMisreads
  <2>4. CASE ServerDies(c)
    <3>1. (in[Srv(c)] > 0 \/ server[c] = "none") \in BOOLEAN
      OBVIOUS
    <3> QED BY <2>4, <3>1, CloseFarPeers, Sockets DEF ServerDies
  <2> QED BY <1>6, <2>1, <2>2, <2>3, <2>4 DEF ServerStep
<1>7. ASSUME NEW c \in Conn, Connect(c) \/ Typed(c) PROVE [Next]_vars
  BY <1>7 DEF Connect, Typed, Send, Next, Peers
<1>8. ASSUME NEW c \in Conn, Kill(c) PROVE [Next]_vars
  BY <1>8, CloseFarPeers, Sockets DEF Kill
<1> QED
  BY <1>1, <1>2, <1>3, <1>4, <1>5, <1>6, <1>7, <1>8 DEF EchoNext, Others

\* The forwarder between the programs does what a Proxy may do: all that is proved
\* of Proxy holds here (proxy_v3.cpp:138-246).
THEOREM IsProxy == EchoSpec => Spec
<1>1. EchoInit => Init
  BY DEF EchoInit
<1> QED BY <1>1, StepProxy, PTL DEF EchoSpec, Spec

-----------------------------------------------------------------------------
(* What a step of the forwarder does to its sockets.                        *)

Moved(s) ==
  \/ peer'[s] = peer[s]
  \/ peer'[s] = "gone" /\ peer[s] # "absent"
  \/ peer[s] = "reset" /\ peer'[s] = "broken"
  \/ /\ peer[s] = "absent" /\ peer'[s] = "up"
     /\ pc = "connect" /\ pc' = "loop" /\ s = Srv(fds[fw_new][1])

\* No socket is closed without the other one, nor one that never was.
Moves ==
  /\ \A s \in Sock : Moved(s)
  /\ \A c \in Conn : Gone(Srv(c))' => Gone(Srv(c)) \/ Gone(Cli(c))'
  /\ pc = "connect" /\ pc' = "loop" =>
       LET c == fds[fw_new][1] IN
       /\ c \in Conn /\ peer[Cli(c)] # "absent"
       /\ peer[Srv(c)] = "absent" /\ peer'[Srv(c)] = "up"

LEMMA SocketsOf ==
  ASSUME NEW c \in Conn
  PROVE  Cli(c) = <<c, "cli">> /\ Srv(c) = <<c, "srv">>
BY DEF Cli, Srv

LEMMA CloseMoves ==
  ASSUME IInv, AInv, Running, pc # "connect", NEW fd \in Fd, Set(fd), CloseBoth(fd)
  PROVE  Moves
<1>1. PICK D \in SUBSET Sock :
        /\ D = {} \/ \E c \in Conn : D = {<<c, "cli">>, <<c, "srv">>}
        /\ \A s \in D : OpenOn(s)
        /\ \A s \in Sock : peer'[s] = IF s \in D THEN "gone" ELSE peer[s]
  BY CloseBothCloses DEF AInv
<1>2. \A s \in D : peer[s] # "absent"
  BY <1>1 DEF AInv, Kept, Live, Connecting
<1>3. \A s \in Sock : Moved(s)
  BY <1>1, <1>2 DEF Moved
<1>4. ASSUME NEW c \in Conn, Gone(Srv(c))' PROVE Gone(Srv(c)) \/ Gone(Cli(c))'
  BY <1>1, <1>4, Sockets, SocketsOf DEF Gone
<1> QED BY <1>3, <1>4 DEF Moves

LEMMA TerminateMoves ==
  ASSUME IInv, Places, NEW how \in Stopped, Terminate(how)
  PROVE  Moves
<1>1. \A s \in Sock : peer'[s] = IF peer[s] = "absent" THEN "absent" ELSE "gone"
  BY DEF Terminate
<1>2. \A s \in Sock : Moved(s)
  BY <1>1 DEF Moved
<1>3. ASSUME NEW c \in Conn, Gone(Srv(c))' PROVE Gone(Cli(c))'
  <2>1. peer[Srv(c)] # "absent"
    BY <1>1, <1>3, Sockets DEF Gone
  <2>2. peer[Cli(c)] # "absent"
    BY <2>1 DEF Places
  <2> QED BY <1>1, <2>2, Sockets DEF Gone
<1>4. pc' # "loop"
  BY DEF Terminate, Stopped
<1> QED BY <1>2, <1>3, <1>4 DEF Moves

LEMMA ConnectedMoves ==
  ASSUME IInv, AInv, Places, Connected
  PROVE  Moves
<1>0. Kept /\ Paired /\ TypeOK /\ TableSet /\ pc = "connect" /\ pc' = "loop"
  BY DEF AInv, IInv, Connected, Running, Stopped
<1>1. /\ fw_new \in Fd /\ fw_new % 2 = 1 /\ fds[fw_new] # None
      /\ fw_socket = fw_new + 1 /\ fw_socket \in Fd
  BY <1>0 DEF TableSet
<1>2. PICK c \in Conn : fds[fw_new] = <<c, "cli">> /\ fds[fw_socket] = <<c, "srv">>
  BY <1>0, <1>1 DEF Paired
<1>3. fds[fw_new] = Cli(c) /\ fds[fw_socket] = Srv(c) /\ fds[fw_new][1] = c
  BY <1>2, SocketsOf
<1>4. peer \in [Sock -> PeerState] /\ peer' = [peer EXCEPT ![Srv(c)] = "up"]
  BY <1>0, <1>3, SocketsOf DEF Connected, TypeOK
<1>5. peer[Cli(c)] \notin {"absent", "gone"}
  <2>1. OpenOn(Cli(c)) /\ Cli(c) \in Sock /\ Cli(c)[2] = "cli"
    BY <1>1, <1>3, Sockets DEF OpenOn
  <2> QED BY <1>0, <2>1 DEF Kept, Live
<1>6. peer[Srv(c)] = "absent"
  <2>1. Connecting(Srv(c)) /\ Srv(c) \in Sock /\ Srv(c)[2] = "srv"
    BY <1>0, <1>3, Sockets DEF Connecting
  <2>2. peer[Srv(c)] \in {"absent", "gone"}
    BY <1>0, <2>1 DEF Kept, Live
  <2>3. ~Gone(Srv(c))
    BY <1>5 DEF Places, Gone
  <2> QED BY <2>2, <2>3 DEF Gone
<1>7. \A s \in Sock : Moved(s)
  BY <1>0, <1>3, <1>4, <1>6 DEF Moved
<1>8. \A d \in Conn : Gone(Srv(d))' => Gone(Srv(d))
  BY <1>4, Sockets DEF Gone
<1>9. peer'[Srv(c)] = "up"
  BY <1>4, Sockets
<1> QED BY <1>3, <1>5, <1>6, <1>7, <1>8, <1>9 DEF Moves

LEMMA ProcessMoves == IInv /\ AInv /\ Places /\ Process => Moves
<1> SUFFICES ASSUME IInv, AInv, Places, Process PROVE Moves
  OBVIOUS
<1>1. CASE NoSocket \/ NoHost \/ ConnectFails \/ SigPipe
  BY <1>1, TerminateMoves DEF NoSocket, NoHost, ConnectFails, SigPipe, Stopped
<1>2. CASE EpollWait \/ AcceptFails \/ Accept \/ \E e \in events : CallForwarding(e)
  BY <1>2 DEF EpollWait, AcceptFails, Accept, CallForwarding, Moves, Moved, Gone
<1>3. ASSUME NEW e \in events, HangUp(e) PROVE Moves
  <2>1. e.fd \in Fd /\ Set(e.fd) /\ CloseBoth(e.fd) /\ pc = "loop" /\ Running
    BY <1>3 DEF HangUp, IInv, TableSet, Running, Stopped
  <2> QED BY <2>1, CloseMoves
<1>4. CASE ReturnClose
  <2>1. cur \in Fd /\ Set(cur) /\ CloseBoth(cur) /\ pc = "forwarding" /\ Running
    BY <1>4, ReceivedType DEF ReturnClose, Running, Stopped
  <2> QED BY <2>1, CloseMoves
<1>5. CASE RecvSend \/ ReturnMore
  <2>1. /\ pc = "forwarding"
        /\ \A s \in Sock : peer'[s] = peer[s] \/ (peer[s] = "reset" /\ peer'[s] = "broken")
    BY <1>5 DEF RecvSend, ReturnMore
  <2>2. \A c \in Conn : Gone(Srv(c))' => Gone(Srv(c))
    BY <2>1, Sockets DEF Gone
  <2> QED BY <2>1, <2>2 DEF Moves, Moved
<1> QED BY <1>1, <1>2, <1>3, <1>4, <1>5, ConnectedMoves DEF Process

\* Only a close takes data away without sending it on.
LEMMA ProcessUnits ==
  ASSUME IInv, AInv, Process, ~RecvSend
  PROVE  /\ ~Sends
         /\ \A s \in Sock : \/ rcv'[s] = rcv[s]
                            \/ rcv'[s] = 0 /\ (Gone(s)' \/ peer[s] = "absent")
<1>1. CASE NoSocket \/ NoHost \/ ConnectFails \/ SigPipe
  BY <1>1 DEF NoSocket, NoHost, ConnectFails, SigPipe, Terminate, Sends, Gone, IInv, TypeOK
<1>2. CASE EpollWait \/ AcceptFails \/ Accept \/ Connected \/ ReturnMore
            \/ \E e \in events : CallForwarding(e)
  BY <1>2 DEF EpollWait, AcceptFails, Accept, Connected, ReturnMore, Return, CallForwarding,
     Sends, IInv, TypeOK
<1>3. ASSUME NEW fd \in Fd, Set(fd), CloseBoth(fd), Running
      PROVE  \A s \in Sock : rcv'[s] = rcv[s] \/ (rcv'[s] = 0 /\ Gone(s)')
  BY <1>3, CloseBothCloses DEF AInv, Gone
<1>4. ASSUME NEW e \in events, HangUp(e)
      PROVE  e.fd \in Fd /\ Set(e.fd) /\ CloseBoth(e.fd) /\ ~Sends /\ Running
  BY <1>4 DEF HangUp, IInv, TypeOK, TableSet, Sends, Running, Stopped
<1>5. CASE ReturnClose
  <2>1. /\ cur \in Fd /\ Set(cur) /\ CloseBoth(cur) /\ Running
        /\ total_sent' = total_sent
    BY <1>5, ReceivedType DEF ReturnClose, Return, Running, Stopped
  <2> QED BY <1>3, <2>1 DEF Sends, IInv, TypeOK
<1> QED BY <1>1, <1>2, <1>3, <1>4, <1>5 DEF Process

\* What is received is sent on the other socket of the connection.
\* What a read of forwarding() takes, and from where to where.
LEMMA Sides ==
  ASSUME IInv, AInv, pc = "forwarding", Received > 0
  PROVE  /\ Received \in Nat \ {0} /\ Received <= rcv[From] /\ rcv[From] > 0
         /\ fds[cur] = From /\ To # None
         /\ \E c \in Conn : \/ From = Cli(c) /\ To = Srv(c)
                            \/ From = Srv(c) /\ To = Cli(c)
         /\ peer[To] \notin {"absent", "gone"}
<1>1. /\ cur \in Fd /\ Set(cur) /\ Running
      /\ From \in Sock /\ Received \in Nat \ {0} /\ Received <= rcv[From]
  BY ReceivedType DEF Running, Stopped, IInv
<1>2. fds[cur] = From /\ To = fds[Partner(cur)] /\ Partner(cur) \in Fd /\ From # None
  BY <1>1, Sockets DEF From, To, Set
<1>3. PICK c \in Conn :
         \/ /\ cur % 2 = 1 /\ cur + 1 \in Fd
            /\ fds[cur] = <<c, "cli">> /\ fds[cur + 1] = <<c, "srv">>
         \/ /\ cur % 2 = 0 /\ cur - 1 \in Fd
            /\ fds[cur - 1] = <<c, "cli">> /\ fds[cur] = <<c, "srv">>
  BY <1>1, <1>2, OnPair DEF IInv
<1>4. \/ From = Cli(c) /\ To = Srv(c)
      \/ From = Srv(c) /\ To = Cli(c)
  BY <1>2, <1>3, SocketsOf DEF Partner
<1>5. To \in Sock /\ To # None /\ OpenOn(To)
  BY <1>2, <1>4, Sockets DEF OpenOn
<1>6. peer[To] \notin {"absent", "gone"}
  BY <1>1, <1>5 DEF AInv, Kept, Live, Connecting
<1>7. rcv[From] > 0
  BY <1>1 DEF IInv, TypeOK
<1> QED BY <1>1, <1>2, <1>4, <1>5, <1>6, <1>7

LEMMA SendsUnits ==
  ASSUME IInv, AInv, RecvSend
  PROVE  /\ Sends
         /\ Received \in Nat \ {0} /\ Received <= rcv[From]
         /\ \E c \in Conn : \/ From = Cli(c) /\ To = Srv(c)
                            \/ From = Srv(c) /\ To = Cli(c)
         /\ rcv' = [rcv EXCEPT ![From] = @ - Received]
         /\ fds[cur] = From
         /\ peer[To] \notin {"absent", "gone"}
<1>1. pc = "forwarding" /\ Received > 0
  BY DEF RecvSend
<1>2. total_sent \in Nat
  BY DEF IInv, TypeOK
<1> QED BY <1>1, <1>2, Sides DEF RecvSend, Sends

-----------------------------------------------------------------------------
(* The accounts of a connection.                                            *)

\* A step that makes no unit, and loses none of a connection that is whole after it
\* (one that begins whole has none).
Balanced(c) ==
  /\ There(c)' + Back(c)' + Sent(c) <= There(c) + Back(c) + Sent(c)'
  /\ got'[Srv(c)] + There(c)' + Sent(c) <= got[Srv(c)] + There(c) + Sent(c)'
  /\ There(c)' + Sent(c) <= There(c) + Sent(c)'
  /\ Whole(c)' /\ pair = "load" =>
       \/ /\ Whole(c)
          /\ There(c)' + Back(c)' + Sent(c) = There(c) + Back(c) + Sent(c)'
          /\ got'[Srv(c)] + Back(c) = got[Srv(c)] + Back(c)'
       \/ There(c)' + Back(c)' = Sent(c)' /\ got'[Srv(c)] = Back(c)'

LEMMA Balance ==
  ASSUME TypeOK, TypeOK', EchoTypeOK, EchoTypeOK', NoneMade, RoundTrip, pair' = pair,
         \A c \in Conn : Balanced(c)
  PROVE  NoneMade' /\ RoundTrip'
<1>1. ASSUME NEW c \in Conn
      PROVE  /\ There(c)' + Back(c)' <= Sent(c)'
             /\ got'[Srv(c)] + There(c)' <= Sent(c)'
             /\ Whole(c)' /\ pair = "load" =>
                  There(c)' + Back(c)' = Sent(c)' /\ got'[Srv(c)] = Back(c)'
  <2>1. /\ There(c) \in Nat /\ Back(c) \in Nat /\ Sent(c) \in Int /\ got[Srv(c)] \in Nat
    BY Units, Sockets DEF Counted
  <2>2. /\ There(c)' \in Nat /\ Back(c)' \in Nat /\ Sent(c)' \in Int /\ got'[Srv(c)] \in Nat
    BY UnitsAfter, Sockets DEF Counted
  <2>3. There(c) + Back(c) <= Sent(c) /\ got[Srv(c)] + There(c) <= Sent(c)
    BY DEF NoneMade
  <2>4. Whole(c) /\ pair = "load" => There(c) + Back(c) = Sent(c) /\ got[Srv(c)] = Back(c)
    BY DEF RoundTrip
  <2> HIDE DEF There, Back, Sent, Whole
  <2> QED BY <2>1, <2>2, <2>3, <2>4 DEF Balanced
<1> QED BY <1>1 DEF NoneMade, RoundTrip

\* What OneAtOnce says of a load client, and a step that is not its own.
One(c) ==
  /\ client[c] = "sending" => got[Cli(c)] = Sent(c) \/ Gone(Cli(c))
  /\ client[c] = "waiting" => got[Cli(c)] + M = Sent(c) \/ Gone(Cli(c))
  /\ There(c) <= M
  /\ hand[c] > 0 \/ Srv(c) \in hit => There(c) = 0

Still(c) ==
  /\ client'[c] \in Talking => client'[c] = client[c] /\ got'[Cli(c)] = got[Cli(c)]
  /\ Gone(Cli(c)) => Gone(Cli(c))'
  /\ hand'[c] > 0 => hand[c] > 0
  /\ Srv(c) \in hit' => Srv(c) \in hit
  /\ Sent(c)' = Sent(c)

LEMMA OneAtOnceIs == OneAtOnce <=> (pair = "load" => \A c \in Conn \ split : One(c))
BY DEF OneAtOnce, One

LEMMA OneAtOnceIsAfter ==
  OneAtOnce' <=> (pair' = "load" => \A c \in Conn \ split' : One(c)')
BY DEF OneAtOnce, One

LEMMA OneStays ==
  ASSUME TypeOK, TypeOK', EchoTypeOK, EchoTypeOK', OneAtOnce, pair' = pair, split \subseteq split',
         \A c \in Conn : Balanced(c),
         \A c \in Conn : c \in split' \/ pair # "load" \/ One(c)' \/ Still(c)
  PROVE  OneAtOnce'
<1> SUFFICES ASSUME pair = "load", NEW c \in Conn \ split', Still(c)
             PROVE  One(c)'
  BY OneAtOnceIsAfter
<1>1. One(c) /\ c \in Conn
  BY OneAtOnceIs
<1>2. There(c) \in Nat /\ There(c)' \in Nat /\ Sent(c) \in Int /\ M \in Nat
  BY <1>1, Units, UnitsAfter DEF Counted
<1>3. There(c)' <= There(c)
  BY <1>1, <1>2 DEF Balanced, Still
<1> QED BY <1>1, <1>2, <1>3 DEF One, Still, Talking

-----------------------------------------------------------------------------
(* The forwarder's steps.                                                   *)

LEMMA ForwarderTypes ==
  ASSUME IInv, AInv, EchoTypeOK, Places, Forwarder
  PROVE  EchoTypeOK'
<1>1. Moves
  BY ProcessMoves DEF Forwarder
<1>2. Sends => Received \in Nat
  BY ProcessUnits, SendsUnits DEF Forwarder
<1>3. in' \in [Sock -> Nat] /\ out' \in [Sock -> Nat]
  BY <1>2 DEF EchoTypeOK, Forwarder
<1>4. backlog' \in Seq(Conn)
  BY <1>1, AppendProperties DEF Moves, EchoTypeOK, Forwarder
<1>5. cut' \subseteq Conn
  BY DEF EchoTypeOK, Forwarder
<1>6. closing' \subseteq closing /\ unwanted' \subseteq unwanted \cup dead
  BY DEF Forwarder
<1> QED BY <1>3, <1>4, <1>5, <1>6 DEF EchoTypeOK, Forwarder

\* The server's half of Places.
Housed(c) ==
  /\ Srv(c) \in dead <=> server[c] \in {"ended", "piped"}
  /\ Srv(c) \in hit =>
       server[c] \in {"ended", "piped"} \/ (server[c] # "spinning" /\ pair = "load")
  /\ hand[c] > 0 <=> server[c] = "echoing"
  /\ server[c] \in {"echoing", "piped"} => pair = "load"
  /\ peer[Srv(c)] = "absent" => server[c] = "none"

LEMMA MovesPlaces ==
  ASSUME EchoTypeOK, Places, Moves, UNCHANGED <<pair, client, left, server, hand, dead, hit>>,
         ServerDown => ~(pc = "connect" /\ pc' = "loop"),
         backlog' = IF pc = "connect" /\ pc' = "loop"
                    THEN Append(backlog, fds[fw_new][1]) ELSE backlog
  PROVE  Places'
<1>0. UNCHANGED <<pair, client, left, server, hand, dead, hit>>
  OBVIOUS
<1>1. Moves
  OBVIOUS
<1>2. ASSUME NEW c \in Conn
      PROVE  /\ peer'[Cli(c)] = "absent" <=> peer[Cli(c)] = "absent"
             /\ peer'[Srv(c)] = "absent" => peer[Srv(c)] = "absent"
             /\ peer[Cli(c)] = "absent" /\ peer[Srv(c)] = "absent" => peer'[Srv(c)] = "absent"
             /\ Gone(Cli(c)) => Gone(Cli(c))'
  <2>1. Moved(Cli(c)) /\ Moved(Srv(c))
    BY <1>1, Sockets DEF Moves
  <2>2. pc = "connect" /\ pc' = "loop" => fds[fw_new][1] \in Conn /\ peer[Cli(fds[fw_new][1])] # "absent"
    BY <1>1 DEF Moves
  <2> QED BY <2>1, <2>2, Sockets DEF Moved, Gone
<1>3. \A c \in Conn : Gone(Srv(c))' => Gone(Cli(c))'
  BY <1>1, <1>2 DEF Moves, Places
<1>4. \A c \in Conn : Start(c)' = Start(c)
  BY <1>0, SentSame
<1>5. \A c \in Conn :
       /\ client'[c] = "idle" <=> peer'[Cli(c)] = "absent"
       /\ client'[c] = "idle" => left'[c] = Start(c)' /\ peer'[Srv(c)] = "absent"
       /\ client'[c] = "spinning" => pair' = "simple"
       /\ left'[c] <= Start(c)'
       /\ Cli(c) \in dead' <=> client'[c] \in Finished
       /\ Gone(Srv(c))' => Gone(Cli(c))'
       /\ Housed(c)'
  BY <1>0, <1>2, <1>3, <1>4 DEF Places, Housed
<1>6. \A i \in DOMAIN backlog' :
       /\ server'[backlog'[i]] = "none" /\ peer'[Srv(backlog'[i])] # "absent"
       /\ \A j \in DOMAIN backlog' : backlog'[i] = backlog'[j] => i = j
  <2>1. backlog \in Seq(Conn) /\ \A i \in DOMAIN backlog : backlog[i] \in Conn
    BY DEF EchoTypeOK
  <2>2. CASE ~(pc = "connect" /\ pc' = "loop")
    <3>1. backlog' = backlog
      BY <2>2
    <3> QED BY <1>0, <1>2, <2>1, <3>1 DEF Places
  <2>3. CASE pc = "connect" /\ pc' = "loop"
    <3> DEFINE d == fds[fw_new][1]
    <3>1. d \in Conn /\ peer[Srv(d)] = "absent" /\ peer'[Srv(d)] = "up"
      BY <1>1, <2>3 DEF Moves
    <3>2. backlog' = Append(backlog, d)
      BY <2>3
    <3> HIDE DEF d
    <3>3. /\ DOMAIN backlog = 1 .. Len(backlog) /\ Len(backlog) \in Nat
          /\ DOMAIN backlog' = 1 .. Len(backlog) + 1
          /\ \A i \in 1 .. Len(backlog) : backlog'[i] = backlog[i]
          /\ backlog'[Len(backlog) + 1] = d
      BY <2>1, <3>1, <3>2, AppendProperties
    <3>4. \A i \in 1 .. Len(backlog) : /\ backlog[i] # d
                                       /\ server[backlog[i]] = "none"
                                       /\ peer'[Srv(backlog[i])] # "absent"
      BY <1>2, <2>1, <3>1, <3>3 DEF Places
    <3>5. server[d] = "none"
      BY <3>1 DEF Places
    <3>6. \A i, j \in 1 .. Len(backlog) : backlog[i] = backlog[j] => i = j
      BY <3>3 DEF Places
    <3>7. \A i \in DOMAIN backlog' : i \in 1 .. Len(backlog) \/ i = Len(backlog) + 1
      BY <3>3
    <3> QED BY <1>0, <3>1, <3>3, <3>4, <3>5, <3>6, <3>7
  <2> QED BY <2>2, <2>3
<1>7. ServerDown' => backlog' = <<>>
  BY <1>0 DEF Places, ServerDown
<1> QED BY <1>5, <1>6, <1>7 DEF Places, Housed

\* A connection comes to the server only while it listens.
LEMMA ForwarderConnects ==
  ASSUME Forwarder, ServerDown
  PROVE  ~(pc = "connect" /\ pc' = "loop")
BY DEF Forwarder, Process, EpollWait, HangUp, CallForwarding, AcceptFails, NoSocket, NoHost, Accept,
   ConnectFails, RecvSend, SigPipe, ReturnMore, ReturnClose, Terminate

LEMMA ForwarderWires ==
  ASSUME IInv, AInv, EchoTypeOK, Places, Wires, Forwarder
  PROVE  Wires'
<1>0. UNCHANGED <<got, dead, hit>>
  BY DEF Forwarder
<1>1. Moves
  BY ProcessMoves DEF Forwarder
<1>2. Sends => peer[To] # "absent"
  BY ProcessUnits, SendsUnits DEF Forwarder
<1> SUFFICES ASSUME NEW s \in Sock
             PROVE  /\ Ended(s)' => s \in dead
                    /\ s \in closing' <=> s \in dead /\ peer'[s] = "up"
                    /\ out'[s] > 0 => peer'[s] = "up"
                    /\ s \in dead => in'[s] = 0
                    /\ s \in hit => Gone(s)'
                    /\ s \in unwanted' => peer'[s] \in {"up", "fin"}
                    /\ peer'[s] = "absent" =>
                         out'[s] = 0 /\ rcv'[s] = 0 /\ in'[s] = 0 /\ got[s] = 0 /\ s \notin dead
  BY <1>0 DEF Wires
<1>3. /\ Moved(s)
      /\ out'[s] = IF peer'[s] = "gone" THEN 0 ELSE out[s]
      /\ s \in closing' <=> s \in closing /\ peer'[s] # "gone"
      /\ s \in unwanted' => peer'[s] \in {"up", "fin"}
      /\ in'[s] = IF Sends /\ s = To /\ s \notin dead THEN in[s] + Received ELSE in[s]
  BY <1>1 DEF Moves, Forwarder
<1>4. /\ Ended(s) => s \in dead
      /\ s \in closing <=> s \in dead /\ peer[s] = "up"
      /\ out[s] > 0 => peer[s] = "up"
      /\ s \in dead => in[s] = 0
      /\ s \in hit => Gone(s)
      /\ peer[s] = "absent" =>
           out[s] = 0 /\ rcv[s] = 0 /\ in[s] = 0 /\ got[s] = 0 /\ s \notin dead
  BY DEF Wires
<1>5. peer'[s] = "absent" => rcv'[s] = 0
  <2>1. ASSUME peer'[s] = "absent" PROVE rcv'[s] = 0
    <3>1. peer[s] = "absent" /\ rcv[s] = 0
      BY <1>3, <1>4, <2>1 DEF Moved
    <3>2. CASE RecvSend
      <4>1. s # From /\ rcv' = [rcv EXCEPT ![From] = @ - Received]
        BY <3>1, <3>2, SendsUnits
      <4> QED BY <3>1, <4>1 DEF IInv, TypeOK
    <3>3. CASE ~RecvSend
      BY <3>1, <3>3, ProcessUnits DEF Forwarder
    <3> QED BY <3>2, <3>3
  <2> QED BY <2>1
<1> QED BY <1>2, <1>3, <1>4, <1>5 DEF Moved, Ended, Gone

LEMMA ForwarderBalanced ==
  ASSUME IInv, AInv, EchoTypeOK, Places, Wires, Forwarder, NEW c \in Conn
  PROVE  Balanced(c)
<1>0. /\ UNCHANGED <<pair, left, hand, got, dead>> /\ hand[c] \in Nat
      /\ Cli(c) \in Sock /\ Srv(c) \in Sock /\ Cli(c) # Srv(c)
      /\ Sent(c)' = Sent(c) /\ Sent(c) \in Int
  <2>1. UNCHANGED <<pair, left, hand, got, dead>>
    BY DEF Forwarder
  <2> QED BY <2>1, SentSame, Sockets, Units DEF IInv, Counted
<1>1. \A s \in Sock : /\ out[s] \in Nat /\ rcv[s] \in Nat /\ in[s] \in Nat /\ got[s] \in Nat
                      /\ out'[s] = IF Gone(s)' THEN 0 ELSE out[s]
  BY Units DEF IInv, Counted, Forwarder, Gone
<1>2. Moved(Cli(c)) /\ Moved(Srv(c))
  BY <1>0, ProcessMoves DEF Forwarder, Moves
<1>3. Whole(c)' => /\ Whole(c)
                   /\ ~Gone(Cli(c))' /\ ~Gone(Srv(c))'
                   /\ peer[Cli(c)] # "absent"
  <2>1. Whole(c)' => /\ {Cli(c), Srv(c)} \cap dead = {} /\ peer'[Cli(c)] = "up" /\ ~Gone(Srv(c))'
    BY <1>0 DEF Whole
  <2>2. peer'[Cli(c)] = "up" => peer[Cli(c)] = "up"
    <3>1. pc = "connect" /\ pc' = "loop" => fds[fw_new][1] \in Conn
      BY ProcessMoves DEF Forwarder, Moves
    <3> QED BY <1>2, <3>1, Sockets DEF Moved
  <2>3. ~Gone(Srv(c))' => ~Gone(Srv(c))
    BY <1>2 DEF Moved, Gone
  <2> QED BY <2>1, <2>2, <2>3 DEF Whole, Gone
<1>4. CASE ~RecvSend
  <2>1. /\ in' = [s \in Sock |-> in[s]]
        /\ \A s \in Sock : \/ rcv'[s] = rcv[s]
                           \/ rcv'[s] = 0 /\ (Gone(s)' \/ peer[s] = "absent")
    BY <1>4, ProcessUnits DEF Forwarder
  <2>2. \A s \in Sock : peer[s] = "absent" => rcv[s] = 0
    BY DEF Wires
  <2>3. \A s \in {Cli(c), Srv(c)} :
          /\ in'[s] = in[s] /\ rcv'[s] <= rcv[s] /\ out'[s] <= out[s]
          /\ rcv'[s] \in Nat /\ out'[s] \in Nat
          /\ ~Gone(s)' => rcv'[s] = rcv[s] /\ out'[s] = out[s]
    BY <1>0, <1>1, <2>1, <2>2
  <2>4. /\ There(c)' <= There(c) /\ Back(c)' <= Back(c)
        /\ Whole(c)' => There(c)' = There(c) /\ Back(c)' = Back(c)
        /\ There(c) \in Nat /\ There(c)' \in Nat /\ Back(c) \in Nat /\ Back(c)' \in Nat
    BY <1>0, <1>1, <1>3, <2>3 DEF There, Back
  <2> QED BY <1>0, <1>1, <1>3, <2>4 DEF Balanced
<1>5. CASE RecvSend
  <2>1. PICK d \in Conn : \/ From = Cli(d) /\ To = Srv(d)
                          \/ From = Srv(d) /\ To = Cli(d)
    BY <1>5, SendsUnits
  <2>2. /\ Sends /\ Received \in Nat /\ Received <= rcv[From] /\ From \in Sock
        /\ \A s \in Sock : rcv'[s] = IF s = From THEN rcv[s] - Received ELSE rcv[s]
        /\ \A s \in Sock : in'[s] = IF s = To /\ s \notin dead THEN in[s] + Received ELSE in[s]
    <3>1. From \in Sock /\ Sends
      BY <1>5, <2>1, Sockets, SendsUnits
    <3> QED BY <1>5, <3>1, SendsUnits DEF Forwarder, IInv, TypeOK
  <2> HIDE DEF From, To, Received
  <2>3. CASE d # c
    <3>1. \A s \in {Cli(c), Srv(c)} : rcv'[s] = rcv[s] /\ in'[s] = in[s]
      BY <1>0, <2>1, <2>2, <2>3, Sockets
    <3>2. /\ There(c)' <= There(c) /\ Back(c)' <= Back(c)
          /\ Whole(c)' => There(c)' = There(c) /\ Back(c)' = Back(c)
          /\ There(c) \in Nat /\ There(c)' \in Nat /\ Back(c) \in Nat /\ Back(c)' \in Nat
      BY <1>0, <1>1, <1>3, <3>1 DEF There, Back
    <3> QED BY <1>0, <1>1, <1>3, <3>2 DEF Balanced
  <2>4. CASE d = c /\ From = Cli(c) /\ To = Srv(c)
    <3>1. /\ rcv'[Cli(c)] = rcv[Cli(c)] - Received /\ rcv'[Srv(c)] = rcv[Srv(c)]
          /\ in'[Srv(c)] = IF Srv(c) \notin dead THEN in[Srv(c)] + Received ELSE in[Srv(c)]
          /\ in'[Cli(c)] = in[Cli(c)] /\ Received <= rcv[Cli(c)]
      BY <1>0, <2>2, <2>4
    <3>2. /\ There(c)' <= There(c) /\ Back(c)' <= Back(c)
          /\ Whole(c)' => There(c)' = There(c) /\ Back(c)' = Back(c)
          /\ There(c) \in Nat /\ There(c)' \in Nat /\ Back(c) \in Nat /\ Back(c)' \in Nat
      BY <1>0, <1>1, <1>3, <2>2, <3>1 DEF There, Back, Whole
    <3> QED BY <1>0, <1>1, <1>3, <3>2 DEF Balanced
  <2>5. CASE d = c /\ From = Srv(c) /\ To = Cli(c)
    <3>1. /\ rcv'[Srv(c)] = rcv[Srv(c)] - Received /\ rcv'[Cli(c)] = rcv[Cli(c)]
          /\ in'[Cli(c)] = IF Cli(c) \notin dead THEN in[Cli(c)] + Received ELSE in[Cli(c)]
          /\ in'[Srv(c)] = in[Srv(c)] /\ Received <= rcv[Srv(c)]
      BY <1>0, <2>2, <2>5
    <3>2. /\ There(c)' <= There(c) /\ Back(c)' <= Back(c)
          /\ Whole(c)' => There(c)' = There(c) /\ Back(c)' = Back(c)
          /\ There(c) \in Nat /\ There(c)' \in Nat /\ Back(c) \in Nat /\ Back(c)' \in Nat
      BY <1>0, <1>1, <1>3, <2>2, <3>1 DEF There, Back, Whole
    <3> QED BY <1>0, <1>1, <1>3, <3>2 DEF Balanced
  <2> QED BY <2>1, <2>3, <2>4, <2>5
<1> QED BY <1>4, <1>5

LEMMA ForwarderServes ==
  ASSUME IInv, IInv', AInv, EchoTypeOK, EchoTypeOK', Places, OneAtOnce, ServerSurvives, Served,
         Forwarder, \A c \in Conn : Balanced(c)
  PROVE  OneAtOnce' /\ ServerSurvives' /\ Served'
<1>0. UNCHANGED <<pair, client, left, server, hand, hit, got, split>>
  BY DEF Forwarder
<1>1. \A c \in Conn : Gone(Cli(c)) => Gone(Cli(c))'
  BY ProcessMoves, Sockets DEF Forwarder, Moves, Moved, Gone
<1>2. \A c \in Conn : Still(c)
  BY <1>0, <1>1, SentSame DEF Still
<1>3. OneAtOnce'
  BY <1>0, <1>2, OneStays DEF IInv
<1> QED BY <1>0, <1>3 DEF ServerSurvives, Served

-----------------------------------------------------------------------------
(* The programs left alone.                                                 *)

\* The places a client can be in, and what they say of its connection.
LEMMA AloneWhole ==
  ASSUME TypeOK, EchoTypeOK, Places, Wires, Turns, NEW c \in Conn,
         client[c] \in Talking, ~Gone(Cli(c))
  PROVE  Whole(c)
<1>1. Cli(c) \in Sock /\ Srv(c) \in Sock
  BY Sockets
<1>2. Cli(c) \notin dead /\ peer[Cli(c)] # "absent" /\ ~Gone(Srv(c))
  BY DEF Places, Talking, Finished
<1>3. peer[Cli(c)] = "up"
  BY <1>1, <1>2 DEF Wires, Ended, TypeOK, PeerState, Gone
<1>4. Srv(c) \notin dead
  BY <1>2 DEF Places, Turns
<1> QED BY <1>2, <1>3, <1>4 DEF Whole

\* Only a client ends first, and data is never waiting on both sides.
LEMMA OneSide ==
  ASSUME TypeOK, EchoTypeOK, Places, Wires, NoneMade, RoundTrip, Turns,
         ~Disturbed, pair = "load", NEW c \in Conn
  PROVE  /\ ~Ended(Srv(c))
         /\ rcv[Srv(c)] > 0 => ~Ended(Cli(c)) /\ rcv[Cli(c)] = 0
<1>0. /\ Cli(c) \in Sock /\ Srv(c) \in Sock
      /\ \A s \in {Cli(c), Srv(c)} :
           out[s] \in Nat /\ rcv[s] \in Nat /\ in[s] \in Nat /\ got[s] \in Nat
      /\ M \in Nat /\ M > 1 /\ Sent(c) \in Int /\ hand[c] \in Nat
      /\ There(c) \in Nat /\ Back(c) \in Nat
  BY Sockets, Units DEF Counted
<1>1. ~Ended(Srv(c))
  <2>1. Srv(c) \in dead => Gone(Srv(c))
    BY DEF Places, Turns
  <2> QED BY <1>0, <2>1 DEF Wires, Ended, Gone
<1>2. There(c) + Back(c) <= Sent(c) /\ got[Srv(c)] + There(c) <= Sent(c)
  BY DEF NoneMade
<1>3. ASSUME got[Cli(c)] = Sent(c) PROVE rcv[Srv(c)] = 0
  <2>1. Back(c) <= got[Cli(c)]
    BY <1>0, <1>2, <1>3
  <2>2. /\ out[Srv(c)] \in Nat /\ rcv[Srv(c)] \in Nat /\ in[Cli(c)] \in Nat /\ got[Cli(c)] \in Nat
        /\ Back(c) = hand[c] + out[Srv(c)] + rcv[Srv(c)] + in[Cli(c)] + got[Cli(c)]
    BY <1>0 DEF Back
  <2>3. hand[c] \in Nat
    BY <1>0
  <2> HIDE DEF Back
  <2> QED BY <2>1, <2>2, <2>3
<1>4. Ended(Cli(c)) => rcv[Srv(c)] = 0
  <2>1. ASSUME Ended(Cli(c)) PROVE client[c] = "closed"
    BY <1>0, <2>1 DEF Wires, Places, Finished, Disturbed
  <2> QED BY <1>3, <2>1 DEF Turns
<1>5. ASSUME rcv[Srv(c)] > 0, rcv[Cli(c)] > 0 PROVE FALSE
  <2>1. CASE client[c] = "idle"
    BY <1>0, <1>5, <2>1 DEF Places, Wires
  <2>2. CASE client[c] \in {"sending", "closed"}
    BY <1>3, <1>5, <2>2 DEF Turns
  <2>3. CASE client[c] = "waiting"
    <3>1. /\ got[Cli(c)] + M = Sent(c) /\ ~Gone(Cli(c))
          /\ got[Srv(c)] + M = Sent(c) \/ got[Srv(c)] = Sent(c)
      BY <2>3 DEF Turns
    <3>2. got[Srv(c)] = Back(c)
      <4>1. Whole(c)
        BY <2>3, <3>1, AloneWhole DEF Talking
      <4> QED BY <4>1 DEF RoundTrip
    <3>3. Back(c) >= got[Cli(c)] + rcv[Srv(c)] /\ There(c) >= rcv[Cli(c)]
      BY <1>0 DEF There, Back
    <3> QED BY <1>0, <1>2, <1>5, <3>1, <3>2, <3>3
  <2>4. client[c] \in {"idle", "sending", "closed", "waiting"}
    <3>1. client[c] \in {"idle", "spinning", "sending", "waiting", "closed", "killed"}
      BY DEF EchoTypeOK, Talking, Finished
    <3>2. client[c] # "spinning" /\ client[c] # "killed"
      BY DEF Places, Disturbed
    <3> QED BY <3>1, <3>2
  <2> QED BY <2>1, <2>2, <2>3, <2>4
<1> QED BY <1>0, <1>1, <1>4, <1>5

\* The events of a connection that is not closed stay good while its sockets do not
\* go back.
LEMMA SameBatch ==
  ASSUME OwnBatch, events' \subseteq events,
         \A e \in events' : e.fd \in Fd =>
           /\ fds'[e.fd] = fds[e.fd]
           /\ Due(e.fd) => Due(e.fd)'
           /\ Ended(fds[e.fd]) => Ended(fds[e.fd])'
  PROVE  OwnBatch'
BY DEF OwnBatch, SameConn, Ended

LEMMA SameCall ==
  ASSUME OwnCall, UNCHANGED <<fds, events, cur, total_sent, pc>>,
         fds[cur] # None /\ Due(cur) => Due(cur)'
  PROVE  OwnCall'
BY DEF OwnCall, SameConn

LoadAlone ==
  /\ IInv /\ AInv /\ EchoInv
  /\ ~Disturbed /\ pair = "load"

LEMMA LoadAloneParts ==
  ASSUME LoadAlone
  PROVE  /\ TypeOK /\ Paired /\ TableSet /\ Running
         /\ Single /\ QueuedOnce /\ NotBoth /\ Kept
         /\ EchoTypeOK /\ Places /\ Wires /\ NoneMade /\ RoundTrip
         /\ cut = {} /\ Turns /\ OwnBatch /\ OwnCall
         /\ ~Disturbed /\ pair = "load"
<1>1. Running
  BY DEF LoadAlone, Disturbed
<1> QED BY <1>1 DEF LoadAlone, IInv, AInv, EchoInv, Alone

\* A step of the forwarder takes down only a connection whose client has ended.
TakesDownEnded ==
  \A c \in Conn : /\ Gone(Cli(c))' => Gone(Cli(c)) \/ Ended(Cli(c))
                  /\ Open(c) /\ ~Open(c)' => Ended(Cli(c))

LEMMA CloseAlone ==
  ASSUME LoadAlone, pc # "connect", NEW fd \in Fd, Set(fd), CloseBoth(fd),
         fds[fd] # None, Ended(fds[fd])
  PROVE  /\ TakesDownEnded
         /\ \A f \in Fd : fds[f] # None /\ ~SameConn(f, fd) =>
              /\ fds'[f] = fds[f]
              /\ peer'[fds[f]] = peer[fds[f]] /\ rcv'[fds[f]] = rcv[fds[f]]
<1>0. /\ TypeOK /\ Single /\ EchoTypeOK /\ Places /\ Wires /\ NoneMade /\ RoundTrip /\ Turns
      /\ ~Disturbed /\ pair = "load" /\ IInv
  BY LoadAloneParts DEF LoadAlone
<1>1. PICK D \in SUBSET Sock :
        /\ D = {} \/ \E c \in Conn : D = {<<c, "cli">>, <<c, "srv">>}
        /\ \A s \in D : OpenOn(s)
        /\ \A s \in Sock : OpenOn(s)' <=> OpenOn(s) /\ s \notin D
        /\ \A s \in Sock : peer'[s] = IF s \in D THEN "gone" ELSE peer[s]
        /\ \A s \in Sock : rcv'[s] = IF s \in D THEN 0 ELSE rcv[s]
        /\ fds[fd] # None => fds[fd] \in D
        /\ \A f \in Fd : fds'[f] = None \/ fds'[f] = fds[f]
  BY <1>0, CloseBothCloses
<1>2. PICK d \in Conn : D = {Cli(d), Srv(d)}
  BY <1>1, SocketsOf
<1>3. fds[fd] \in {Cli(d), Srv(d)} /\ fds[fd][1] = d
  BY <1>1, <1>2, Sockets
<1>4. Ended(Cli(d))
  BY <1>0, <1>3, OneSide
<1>5. ASSUME NEW c \in Conn
      PROVE  /\ Gone(Cli(c))' => Gone(Cli(c)) \/ Ended(Cli(c))
             /\ Open(c) /\ ~Open(c)' => Ended(Cli(c))
  <2>1. Gone(Cli(c))' => Gone(Cli(c)) \/ c = d
    BY <1>1, <1>2, Sockets DEF Gone
  <2>2. c # d /\ Open(c) => Open(c)'
    <3>1. SUFFICES ASSUME c # d, Open(c) PROVE Open(c)'
      OBVIOUS
    <3>2. Cli(c) \notin D /\ Srv(c) \notin D
      BY <1>2, <3>1, Sockets
    <3>3. OpenOn(Cli(c))' /\ OpenOn(Srv(c))'
      BY <1>1, <3>1, <3>2, Sockets, SocketsOf, OpenSocksOn DEF Open
    <3> QED BY <3>3, SocketsOf, Sockets DEF Open, OpenOn, OpenSocks, Free
  <2> QED BY <1>4, <2>1, <2>2
<1>6. ASSUME NEW f \in Fd, fds[f] # None, ~SameConn(f, fd)
      PROVE  /\ fds'[f] = fds[f]
             /\ peer'[fds[f]] = peer[fds[f]] /\ rcv'[fds[f]] = rcv[fds[f]]
  <2>1. fds[f] \in Sock /\ fds[f] \notin D
    BY <1>0, <1>2, <1>3, <1>6, Sockets DEF TypeOK, SameConn
  <2>2. OpenOn(fds[f])
    BY DEF OpenOn
  <2>3. \A s \in Sock : OpenOn(s) /\ s \notin D => \E g \in Fd : fds'[g] = s
    BY <1>1 DEF OpenOn
  <2>4. PICK g \in Fd : fds'[g] = fds[f]
    BY <2>1, <2>2, <2>3
  <2>5. fds[g] = fds[f]
    BY <1>1, <1>6, <2>4
  <2>6. g = f
    BY <1>0, <1>6, <2>5 DEF Single
  <2> QED BY <1>1, <2>1, <2>4, <2>6
<1> QED BY <1>5, <1>6 DEF TakesDownEnded

\* What every step of the forwarder that leaves it running keeps.
KeepsAlone == OwnBatch' /\ OwnCall' /\ TakesDownEnded

LEMMA NothingTaken ==
  ASSUME \A s \in Sock : Gone(s)' => Gone(s),
         \A f \in Fd : fds[f] # None => fds'[f] = fds[f]
  PROVE  TakesDownEnded
<1>1. OpenSocks \subseteq OpenSocks'
  BY DEF OpenSocks, Free
<1> QED BY <1>1, Sockets DEF TakesDownEnded, Open

LEMMA EpollWaitAlone == LoadAlone /\ EpollWait => KeepsAlone
<1> SUFFICES ASSUME LoadAlone, EpollWait PROVE KeepsAlone
  OBVIOUS
<1>0. /\ TypeOK /\ Single /\ EchoTypeOK /\ Places /\ Wires /\ NoneMade /\ RoundTrip /\ Turns
      /\ ~Disturbed /\ pair = "load"
  BY LoadAloneParts
<1>1. events' = Ready /\ UNCHANGED <<fds, peer, rcv, cur, pc>> /\ pc = "loop"
  BY DEF EpollWait
<1>2. TakesDownEnded /\ OwnCall'
  BY <1>1, NothingTaken DEF Gone, OwnCall
<1>3. ASSUME NEW e \in Ready, e.fd \in Fd
      PROVE  /\ fds[e.fd] \in Sock /\ Due(e.fd)
             /\ e.hup <=> HungUp(fds[e.fd])
             /\ e = [fd |-> e.fd, hup |-> HungUp(fds[e.fd])]
  <2>1. PICK f \in Fd \ Free :
           /\ e = [fd |-> f, hup |-> HungUp(fds[f])]
           /\ HungUp(fds[f]) \/ Readable(fds[f])
    BY <1>3 DEF Ready, ConnEvents, ListenEvents, ListenerEvent, Listener, Fd
  <2>2. e.fd = f /\ (e.hup <=> HungUp(fds[f]))
    <3> HIDE DEF HungUp
    <3> QED BY <2>1
  <2>3. fds[f] \in Sock
    BY <1>0 DEF TypeOK, Free
  <2>4. Due(f)
    BY <2>1 DEF Due, HungUp, Readable, Ended
  <2> QED BY <2>1, <2>2, <2>3, <2>4
<1>4. ASSUME NEW e \in Ready, NEW g \in Ready, e.fd \in Fd, g.fd \in Fd, SameConn(e.fd, g.fd)
      PROVE  e = g
  <2>1. fds[e.fd] = fds[g.fd]
    <3>1. PICK c \in Conn : fds[e.fd] \in {Cli(c), Srv(c)} /\ fds[g.fd] \in {Cli(c), Srv(c)}
      <4>1. fds[e.fd] \in Sock /\ fds[g.fd] \in Sock /\ fds[e.fd][1] = fds[g.fd][1]
        BY <1>3, <1>4 DEF SameConn
      <4> QED BY <4>1, Sockets
    <3>2. ~Ended(Srv(c)) /\ (rcv[Srv(c)] > 0 => ~Ended(Cli(c)) /\ rcv[Cli(c)] = 0)
      BY <1>0, OneSide
    <3>3. Due(e.fd) /\ Due(g.fd)
      BY <1>3, <1>4
    <3> QED BY <3>1, <3>2, <3>3 DEF Due
  <2>2. e.fd = g.fd
    BY <1>0, <1>3, <1>4, <2>1, Sockets DEF Single
  <2>3. e = [fd |-> e.fd, hup |-> HungUp(fds[e.fd])] /\ g = [fd |-> g.fd, hup |-> HungUp(fds[g.fd])]
    BY <1>3, <1>4
  <2> QED BY <2>2, <2>3
<1>5. OwnBatch'
  <2>1. \A e \in Ready : e.fd \in Fd =>
          /\ fds[e.fd] # None /\ Due(e.fd) /\ (e.hup => Ended(fds[e.fd]))
          /\ \A g \in Ready : g.fd \in Fd /\ SameConn(e.fd, g.fd) => e = g
    BY <1>3, <1>4, Sockets DEF HungUp, Ended
  <2> QED BY <1>1, <2>1 DEF OwnBatch, Due, SameConn, Ended
<1> QED BY <1>2, <1>5 DEF KeepsAlone

LEMMA CallAlone ==
  ASSUME LoadAlone, NEW e \in events, CallForwarding(e)
  PROVE  KeepsAlone
<1>0. TypeOK /\ OwnBatch
  BY LoadAloneParts
<1>1. /\ events' = events \ {e} /\ UNCHANGED <<fds, peer, rcv>>
      /\ cur' = e.fd /\ e # ListenerEvent /\ ~e.hup
  BY DEF CallForwarding
<1>2. e.fd \in Fd
  BY <1>0, <1>1 DEF TypeOK, ListenerEvent
<1>3. TakesDownEnded
  BY <1>1, NothingTaken DEF Gone
<1>4. OwnBatch'
  BY <1>0, <1>1, SameBatch DEF Due, Ended
<1>5. OwnCall'
  <2>1. fds[e.fd] # None /\ Due(e.fd)
        /\ \A g \in events : g.fd \in Fd /\ SameConn(e.fd, g.fd) => e = g
    BY <1>0, <1>2 DEF OwnBatch
  <2> QED BY <1>1, <1>2, <2>1 DEF OwnCall, Due, SameConn, Ended
<1> QED BY <1>3, <1>4, <1>5 DEF KeepsAlone

LEMMA AcceptFailsAlone == LoadAlone /\ AcceptFails => KeepsAlone
<1> SUFFICES ASSUME LoadAlone, AcceptFails PROVE KeepsAlone
  OBVIOUS
<1>0. OwnBatch /\ OwnCall
  BY LoadAloneParts
<1>1. events' \subseteq events /\ UNCHANGED <<fds, peer, rcv, pc>> /\ pc = "loop"
  BY DEF AcceptFails
<1>2. OwnBatch' /\ OwnCall'
  BY <1>0, <1>1, SameBatch DEF Due, Ended, OwnCall
<1> QED BY <1>1, <1>2, NothingTaken DEF KeepsAlone, Gone

LEMMA AcceptAlone == LoadAlone /\ Accept => KeepsAlone
<1> SUFFICES ASSUME LoadAlone, Accept PROVE KeepsAlone
  OBVIOUS
<1>0. OwnBatch /\ TypeOK /\ Paired
  BY LoadAloneParts
<1>1. events' \subseteq events /\ UNCHANGED <<peer, rcv>> /\ pc' = "connect"
  BY DEF Accept
<1>2. \A f \in Fd : fds[f] # None => fds'[f] = fds[f]
  <2>1. fw_new' \in Free /\ fw_socket' \in Free
    BY <1>0, LowestPair DEF Accept
  <2> QED BY <1>0, <2>1 DEF Accept, Free, TypeOK
<1>3. OwnBatch'
  <2>1. \A e \in events' : e.fd \in Fd => fds'[e.fd] = fds[e.fd]
    BY <1>0, <1>1, <1>2 DEF OwnBatch
  <2> QED BY <1>0, <1>1, <2>1, SameBatch DEF Due, Ended
<1>4. TakesDownEnded /\ OwnCall'
  BY <1>1, <1>2, NothingTaken DEF Gone, OwnCall
<1> QED BY <1>3, <1>4 DEF KeepsAlone

LEMMA ConnectedAlone == LoadAlone /\ Connected => KeepsAlone
<1> SUFFICES ASSUME LoadAlone, Connected PROVE KeepsAlone
  OBVIOUS
<1>0. OwnBatch /\ TypeOK /\ Wires
  BY LoadAloneParts
<1>1. UNCHANGED <<events, fds, rcv>> /\ pc = "connect" /\ pc' = "loop"
  BY DEF Connected
<1>2. Moves
  BY ConnectedMoves DEF LoadAlone, EchoInv
<1>3. \A s \in Sock : (Gone(s)' => Gone(s)) /\ (Ended(s) => Ended(s)')
  <2>1. \A s \in Sock : peer'[s] = peer[s] \/ (peer[s] = "absent" /\ peer'[s] = "up")
    <3>1. PICK c \in Conn : peer' = [peer EXCEPT ![Srv(c)] = "up"] /\ peer[Srv(c)] = "absent"
      BY <1>1, <1>2, SocketsOf DEF Connected, Moves
    <3> QED BY <1>0, <3>1 DEF TypeOK
  <2> QED BY <2>1 DEF Gone, Ended
<1>4. OwnBatch'
  <2>1. \A e \in events' : e.fd \in Fd => fds[e.fd] \in Sock
    BY <1>0, <1>1 DEF OwnBatch, TypeOK
  <2> QED BY <1>0, <1>1, <1>3, <2>1, SameBatch DEF Due, Ended
<1> QED BY <1>1, <1>3, <1>4, NothingTaken DEF KeepsAlone, OwnCall

\* forwarding() touches the connection of cur, which has no event left.
LEMMA ReceiveAlone == LoadAlone /\ (RecvSend \/ ReturnMore) => KeepsAlone
<1> SUFFICES ASSUME LoadAlone, RecvSend \/ ReturnMore PROVE KeepsAlone
  OBVIOUS
<1>0. OwnBatch /\ OwnCall /\ TypeOK /\ IInv /\ AInv
  BY LoadAloneParts DEF LoadAlone
<1>1. UNCHANGED <<events, fds>> /\ pc = "forwarding"
  BY DEF RecvSend, ReturnMore
<1>2. \A s \in Sock : (Gone(s)' => Gone(s)) /\ (Ended(s) => Ended(s)')
  BY DEF RecvSend, ReturnMore, Gone, Ended
<1>3. \A s \in Sock : s # fds[cur] => rcv'[s] = rcv[s]
  <2>1. CASE RecvSend
    BY <1>0, <2>1, SendsUnits DEF TypeOK
  <2>2. CASE ReturnMore
    BY <2>2 DEF ReturnMore
  <2> QED BY <2>1, <2>2
<1>4. OwnBatch'
  <2>1. \A e \in events' : e.fd \in Fd => fds[e.fd] \in Sock /\ ~SameConn(e.fd, cur)
    BY <1>0, <1>1 DEF OwnBatch, OwnCall, TypeOK
  <2>2. \A e \in events' : e.fd \in Fd => rcv'[fds[e.fd]] = rcv[fds[e.fd]]
    BY <1>3, <2>1 DEF SameConn
  <2> QED BY <1>0, <1>1, <1>2, <2>1, <2>2, SameBatch DEF Due, Ended
<1>5. OwnCall'
  <2>1. CASE RecvSend
    <3>1. total_sent' > 0
      BY <1>0, <2>1, SendsUnits DEF RecvSend, TypeOK
    <3> QED BY <1>0, <1>1, <2>1, <3>1 DEF RecvSend, OwnCall, SameConn
  <2>2. CASE ReturnMore
    BY <2>2 DEF ReturnMore, Return, OwnCall
  <2> QED BY <2>1, <2>2
<1> QED BY <1>1, <1>2, <1>4, <1>5, NothingTaken DEF KeepsAlone

\* A close leaves the events of the other connections, and they are all there are.
LEMMA ClosedAlone ==
  ASSUME LoadAlone, pc # "connect", NEW fd \in Fd, Set(fd), CloseBoth(fd),
         fds[fd] # None, Ended(fds[fd]), events' \subseteq events, pc' = "loop",
         \A e \in events' : e.fd \in Fd => ~SameConn(e.fd, fd)
  PROVE  KeepsAlone
<1>0. OwnBatch
  BY LoadAloneParts
<1>1. /\ TakesDownEnded
      /\ \A f \in Fd : fds[f] # None /\ ~SameConn(f, fd) =>
           /\ fds'[f] = fds[f]
           /\ peer'[fds[f]] = peer[fds[f]] /\ rcv'[fds[f]] = rcv[fds[f]]
  BY CloseAlone
<1>2. \A e \in events' : e.fd \in Fd =>
        /\ fds'[e.fd] = fds[e.fd]
        /\ peer'[fds[e.fd]] = peer[fds[e.fd]] /\ rcv'[fds[e.fd]] = rcv[fds[e.fd]]
  BY <1>0, <1>1 DEF OwnBatch
<1>3. OwnBatch'
  BY <1>0, <1>2, SameBatch DEF Due, Ended
<1> QED BY <1>1, <1>3 DEF KeepsAlone, OwnCall

LEMMA HangUpAlone ==
  ASSUME LoadAlone, NEW e \in events, HangUp(e)
  PROVE  KeepsAlone
<1>0. OwnBatch /\ TableSet
  BY LoadAloneParts
<1>1. /\ e.fd \in Fd /\ Set(e.fd) /\ CloseBoth(e.fd) /\ pc = "loop" /\ pc' = "loop"
      /\ events' = events \ {e}
  BY <1>0 DEF HangUp, TableSet
<1>2. /\ fds[e.fd] # None /\ Ended(fds[e.fd])
      /\ \A g \in events : g.fd \in Fd /\ SameConn(e.fd, g.fd) => e = g
  BY <1>0, <1>1 DEF OwnBatch, HangUp
<1>3. \A g \in events' : g.fd \in Fd => ~SameConn(g.fd, e.fd)
  BY <1>1, <1>2 DEF SameConn
<1> QED BY <1>1, <1>2, <1>3, ClosedAlone

LEMMA ReturnCloseAlone == LoadAlone /\ ReturnClose => KeepsAlone
<1> SUFFICES ASSUME LoadAlone, ReturnClose PROVE KeepsAlone
  OBVIOUS
<1>0. OwnCall /\ TypeOK /\ IInv
  BY LoadAloneParts DEF LoadAlone
<1>1. /\ cur \in Fd /\ Set(cur) /\ CloseBoth(cur) /\ pc = "forwarding" /\ pc' = "loop"
      /\ events' = events /\ Received = 0 /\ total_sent = 0
  BY <1>0, ReceivedType DEF ReturnClose, Return
<1>2. /\ fds[cur] # None /\ Due(cur)
      /\ \A e \in events : e.fd \in Fd => ~SameConn(e.fd, cur)
  BY <1>0, <1>1 DEF OwnCall
<1>3. Ended(fds[cur])
  <2>1. From = fds[cur] /\ From \in Sock
    BY <1>0, <1>1, <1>2 DEF From, Set, TypeOK
  <2>2. rcv[From] = 0
    <3>1. rcv[From] \in Nat /\ BUFLEN \in Nat \ {0} /\ From # None
      BY <1>0, <2>1, Sockets, ConstantsAssumption DEF TypeOK
    <3>2. Received = IF rcv[From] < BUFLEN THEN rcv[From] ELSE BUFLEN
      BY <1>1, <3>1 DEF Received
    <3> QED BY <1>1, <3>1, <3>2
  <2> QED BY <1>2, <2>1, <2>2 DEF Due
<1> QED BY <1>1, <1>2, <1>3, ClosedAlone

LEMMA ProcessAlone == LoadAlone /\ Process /\ Running' => KeepsAlone
<1>1. Running' => ~(NoSocket \/ NoHost \/ ConnectFails \/ SigPipe)
  BY DEF NoSocket, NoHost, ConnectFails, SigPipe, Terminate, Running, Stopped
<1> QED BY <1>1, EpollWaitAlone, CallAlone, HangUpAlone, AcceptFailsAlone, AcceptAlone,
           ConnectedAlone, ReceiveAlone, ReturnCloseAlone DEF Process

\* Nobody sends to a simple program that has closed.
LEMMA SimpleSends ==
  ASSUME IInv, AInv, EchoInv, pair = "simple", ~Disturbed, RecvSend
  PROVE  To \notin dead
<1>0. EchoTypeOK /\ TypeOK /\ Places /\ NoneMade /\ Served
  BY DEF EchoInv, IInv
<1>1. PICK c \in Conn : \/ From = Cli(c) /\ To = Srv(c)
                        \/ From = Srv(c) /\ To = Cli(c)
  BY SendsUnits
<1>2. rcv[From] > 0
  BY <1>0, <1>1, SendsUnits, Sockets DEF TypeOK
<1>3. /\ \A s \in {Cli(c), Srv(c)} :
           out[s] \in Nat /\ rcv[s] \in Nat /\ in[s] \in Nat /\ got[s] \in Nat
      /\ There(c) \in Nat /\ Back(c) \in Nat /\ Sent(c) \in Int /\ M \in Nat
      /\ hand[c] \in Nat
  BY <1>0, Units, Sockets DEF Counted
<1>4. Sent(c) <= M /\ There(c) + Back(c) <= Sent(c) /\ got[Srv(c)] + There(c) <= Sent(c)
  BY <1>0, OneMessage DEF Places, NoneMade
<1>5. CASE From = Srv(c) /\ To = Cli(c)
  <2>1. ASSUME Cli(c) \in dead PROVE FALSE
    <3>1. client[c] = "closed"
      BY <1>0, <2>1 DEF Places, Finished, Disturbed
    <3>2. got[Cli(c)] >= M
      BY <1>0, <3>1 DEF Served
    <3>3. Back(c) >= rcv[Srv(c)] + got[Cli(c)]
      BY <1>3 DEF Back
    <3> QED BY <1>2, <1>3, <1>4, <1>5, <3>2, <3>3
  <2> QED BY <1>5, <2>1
<1>6. CASE From = Cli(c) /\ To = Srv(c)
  <2>1. ASSUME Srv(c) \in dead PROVE FALSE
    <3>1. got[Srv(c)] >= M
      BY <1>0, <2>1 DEF Places, Served
    <3>2. There(c) >= rcv[Cli(c)]
      BY <1>3 DEF There
    <3> QED BY <1>2, <1>3, <1>4, <1>6, <3>1, <3>2
  <2> QED BY <1>6, <2>1
<1> QED BY <1>1, <1>5, <1>6

LEMMA ForwarderAlone ==
  ASSUME IInv, AInv, EchoInv, Forwarder
  PROVE  Alone'
<1>0. /\ UNCHANGED <<pair, client, left, server, got, split, dead>>
      /\ Running' => Running
  BY DEF Forwarder, Process, EpollWait, HangUp, CallForwarding, AcceptFails, NoSocket, NoHost,
     Accept, Connected, ConnectFails, RecvSend, SigPipe, ReturnMore, ReturnClose, Running, Stopped
<1> SUFFICES ASSUME ~Disturbed'
             PROVE  /\ pair = "load" => cut' = {} /\ Turns' /\ OwnBatch' /\ OwnCall'
                    /\ pair = "simple" => NoReset'
  BY <1>0 DEF Alone
<1>1. ~Disturbed /\ Running'
  BY <1>0 DEF Disturbed
<1>2. EchoTypeOK /\ Places /\ Wires /\ Alone /\ Moves
  BY ProcessMoves DEF EchoInv, Forwarder
<1>3. ASSUME pair = "load" PROVE cut' = {} /\ Turns' /\ OwnBatch' /\ OwnCall'
  <2>1. LoadAlone /\ cut = {} /\ Turns
    BY <1>1, <1>2, <1>3 DEF LoadAlone, Alone
  <2>2. KeepsAlone
    BY <1>1, <2>1, ProcessAlone DEF Forwarder
  <2>3. cut' = {}
    <3>1. \A c \in Conn : Open(c) /\ ~Open(c)' => Ended(Cli(c))
      BY <2>2 DEF KeepsAlone, TakesDownEnded
    <3>2. cut' = cut \cup {c \in Conn : /\ Open(c) /\ ~Open(c)' /\ Running'
                                        /\ ~Ended(Cli(c)) /\ ~Ended(Srv(c))}
      BY DEF Forwarder
    <3> QED BY <2>1, <3>1, <3>2
  <2>4. \A c \in Conn : /\ client[c] \in Talking /\ ~Gone(Cli(c)) => ~Gone(Cli(c))'
                        /\ Gone(Srv(c)) => Gone(Srv(c))'
    <3>1. \A c \in Conn : client[c] \in Talking => ~Ended(Cli(c))
      BY <1>2, Sockets DEF Wires, Places, Talking, Finished
    <3>2. \A c \in Conn : Gone(Srv(c)) => Gone(Srv(c))'
      BY <1>2, Sockets DEF Moves, Moved, Gone
    <3> QED BY <2>2, <3>1, <3>2 DEF KeepsAlone, TakesDownEnded
  <2>5. Turns'
    <3>1. \A c \in Conn : Sent(c)' = Sent(c)
      BY <1>0, SentSame
    <3>2. \A c \in Conn :
            /\ client[c] = "sending" => got[Cli(c)] = Sent(c) /\ ~Gone(Cli(c))'
            /\ client[c] = "waiting" =>
                 /\ got[Cli(c)] + M = Sent(c) /\ ~Gone(Cli(c))'
                 /\ got[Srv(c)] + M = Sent(c) \/ got[Srv(c)] = Sent(c)
            /\ client[c] = "closed" => got[Cli(c)] = Sent(c) /\ left[c] = 0
            /\ server[c] \in {"ended", "piped"} => Gone(Srv(c))'
      BY <2>1, <2>4 DEF Turns, Talking
    <3> QED BY <1>0, <3>1, <3>2 DEF Turns
  <2> QED BY <2>2, <2>3, <2>5 DEF KeepsAlone
<1>4. ASSUME pair = "simple" PROVE NoReset'
  <2>1. NoReset
    BY <1>1, <1>2, <1>4 DEF Alone
  <2>2. Sends => To \notin dead
    BY <1>1, <1>4, SimpleSends, ProcessUnits DEF Forwarder
  <2>3. unwanted' = {}
    BY <2>1, <2>2 DEF Forwarder, NoReset
  <2>4. \A s \in Sock : ~HungUp(s)'
    BY <1>2, <2>1 DEF Moves, Moved, NoReset, HungUp
  <2> QED BY <2>3, <2>4 DEF NoReset
<1> QED BY <1>3, <1>4

LEMMA ForwarderKeeps ==
  ASSUME IInv, AInv, IInv', EchoInv, Forwarder
  PROVE  EchoInv'
<1>0. EchoTypeOK /\ Places /\ Wires /\ NoneMade /\ RoundTrip
      /\ OneAtOnce /\ ServerSurvives /\ Served
      /\ TypeOK /\ TypeOK'
  BY DEF EchoInv, IInv
<1>1. EchoTypeOK' /\ Places' /\ Wires'
  <2>1. Moves
    BY <1>0, ProcessMoves DEF Forwarder
  <2>2. Places'
    BY <1>0, <2>1, MovesPlaces, ForwarderConnects DEF Forwarder
  <2> QED BY <1>0, <2>2, ForwarderTypes, ForwarderWires
<1>2. \A c \in Conn : Balanced(c)
  BY <1>0, ForwarderBalanced
<1>3. NoneMade' /\ RoundTrip'
  <2>1. pair' = pair
    BY DEF Forwarder
  <2> QED BY <1>0, <1>1, <1>2, <2>1, Balance
<1>4. OneAtOnce' /\ ServerSurvives' /\ Served'
  BY <1>0, <1>1, <1>2, ForwarderServes
<1>5. Alone'
  BY ForwarderAlone
<1> QED BY <1>1, <1>3, <1>4, <1>5 DEF EchoInv

-----------------------------------------------------------------------------
(* What the steps of the others have in common.                             *)

LEMMA SamePlaces ==
  ASSUME EchoTypeOK, Places, UNCHANGED <<pair, client, left, server, hand, backlog, dead, hit>>,
         \A s \in Sock : /\ peer'[s] = "absent" <=> peer[s] = "absent"
                         /\ Gone(s)' <=> Gone(s)
  PROVE  Places'
<1>1. \A c \in Conn : Cli(c) \in Sock /\ Srv(c) \in Sock /\ Start(c)' = Start(c)
  BY Sockets, SentSame
<1>2. \A i \in DOMAIN backlog : backlog[i] \in Conn
  BY DEF EchoTypeOK
<1> QED BY <1>1, <1>2 DEF Places, ServerDown

\* Events stay good: nobody but the forwarder reads its sockets, and ended is ended.
LEMMA OthersBatch ==
  ASSUME IInv, OwnBatch, OwnCall, UNCHANGED <<fds, events, cur, total_sent, pc>>,
         \A s \in Sock : rcv'[s] >= rcv[s] /\ rcv'[s] \in Nat /\ (Ended(s) => Ended(s)')
  PROVE  OwnBatch' /\ OwnCall'
<1>1. \A f \in Fd : fds[f] # None => fds[f] \in Sock /\ rcv[fds[f]] \in Nat
  BY DEF IInv, TypeOK
<1>2. \A f \in Fd : fds[f] # None /\ Due(f) => Due(f)'
  BY <1>1 DEF Due, Ended
<1>3. OwnBatch'
  <2>1. \A e \in events' : e.fd \in Fd => fds[e.fd] # None
    BY DEF OwnBatch
  <2> QED BY <1>1, <1>2, <2>1, SameBatch
<1>4. OwnCall'
  <2>1. pc = "forwarding" => cur \in Fd
    BY DEF IInv, TableSet
  <2>2. CASE pc = "forwarding"
    BY <1>2, <2>1, <2>2, SameCall
  <2>3. CASE pc # "forwarding"
    BY <2>3 DEF OwnCall
  <2> QED BY <2>2, <2>3
<1> QED BY <1>3, <1>4

LEMMA OthersAlone ==
  ASSUME IInv, Alone, UNCHANGED <<pair, cut, fds, events, cur, total_sent, pc>>,
         \A s \in Sock : rcv'[s] >= rcv[s] /\ rcv'[s] \in Nat /\ (Ended(s) => Ended(s)'),
         Disturbed => Disturbed',
         ~Disturbed /\ ~Disturbed' /\ pair = "load" /\ Turns => Turns',
         ~Disturbed /\ ~Disturbed' /\ pair = "simple" /\ NoReset => NoReset'
  PROVE  Alone'
<1> SUFFICES ASSUME ~Disturbed'
             PROVE  /\ pair = "load" => cut = {} /\ Turns' /\ OwnBatch' /\ OwnCall'
                    /\ pair = "simple" => NoReset'
  BY DEF Alone
<1>1. ASSUME pair = "load" PROVE cut = {} /\ Turns' /\ OwnBatch' /\ OwnCall'
  <2>1. cut = {} /\ Turns /\ OwnBatch /\ OwnCall
    BY <1>1 DEF Alone
  <2> QED BY <1>1, <2>1, OthersBatch
<1>2. ASSUME pair = "simple" PROVE NoReset'
  BY <1>2 DEF Alone
<1> QED BY <1>1, <1>2

\* Nothing changes for the client and the thread of a connection.
LEMMA SameTurns ==
  ASSUME Turns, UNCHANGED <<pair, client, left, server, got>>,
         \A s \in Sock : Gone(s)' <=> Gone(s)
  PROVE  Turns'
<1>1. \A c \in Conn : Cli(c) \in Sock /\ Srv(c) \in Sock /\ Sent(c)' = Sent(c)
  BY Sockets, SentSame
<1> QED BY <1>1 DEF Turns

-----------------------------------------------------------------------------
(* The network, and the end of the forwarder.                               *)

LEMMA NetworkKeeps ==
  ASSUME IInv, IInv', EchoInv, NEW s0 \in Sock,
         Deliver(s0) \/ DeliverFin(s0) \/ DeliverReset(s0)
  PROVE  EchoInv'
<1>0. EchoTypeOK /\ Places /\ Wires /\ NoneMade /\ RoundTrip
      /\ OneAtOnce /\ ServerSurvives /\ Served
      /\ Alone /\ TypeOK /\ TypeOK'
  BY DEF EchoInv, IInv
<1>1. /\ UNCHANGED <<pair, client, left, server, hand, backlog, in, got, dead, hit, split, cut>>
      /\ UNCHANGED <<fds, events, cur, total_sent, pc>>
  BY DEF Deliver, DeliverFin, DeliverReset, PeerSend, PeerFin, PeerReset
<1>2. EchoTypeOK'
  <2>1. out' \in [Sock -> Nat]
    BY <1>0 DEF Deliver, DeliverFin, DeliverReset, EchoTypeOK
  <2>2. closing' \subseteq closing /\ unwanted' \subseteq unwanted
    BY DEF Deliver, DeliverFin, DeliverReset
  <2> QED BY <1>0, <1>1, <2>1, <2>2 DEF EchoTypeOK
<1>3. \A s \in Sock :
        /\ out'[s] + rcv'[s] = out[s] + rcv[s] /\ rcv'[s] >= rcv[s]
        /\ out'[s] \in Nat /\ rcv'[s] \in Nat /\ out[s] \in Nat /\ rcv[s] \in Nat
        /\ out'[s] > 0 => out[s] > 0
        /\ peer[s] = "absent" => rcv'[s] = rcv[s]
  <2>1. \A s \in Sock : out[s] \in Nat /\ rcv[s] \in Nat
    BY <1>0 DEF EchoTypeOK, TypeOK
  <2>2. CASE Deliver(s0)
    <3>1. /\ out[s0] > 0 /\ peer[s0] = "up"
          /\ out' = [out EXCEPT ![s0] = @ - 1] /\ rcv' = [rcv EXCEPT ![s0] = @ + 1]
      BY <2>2 DEF Deliver, PeerSend
    <3>2. /\ out'[s0] = out[s0] - 1 /\ rcv'[s0] = rcv[s0] + 1
          /\ \A s \in Sock \ {s0} : out'[s] = out[s] /\ rcv'[s] = rcv[s]
      BY <1>0, <3>1 DEF EchoTypeOK, TypeOK
    <3> QED BY <2>1, <3>1, <3>2
  <2>3. CASE DeliverFin(s0) \/ DeliverReset(s0)
    BY <2>1, <2>3 DEF DeliverFin, DeliverReset, PeerFin, PeerReset
  <2> QED BY <2>2, <2>3
<1>4. \A s \in Sock :
        \/ peer'[s] = peer[s] /\ (s \in closing' <=> s \in closing) /\ (s \in unwanted' => s \in unwanted)
        \/ /\ peer[s] = "up" /\ peer'[s] = "fin" /\ s \in closing /\ s \notin closing'
           /\ out[s] = 0 /\ unwanted' = unwanted
        \/ /\ peer[s] \in {"up", "fin"} /\ peer'[s] \in {"reset", "broken"} /\ s \in unwanted
           /\ s \notin closing /\ s \notin closing' /\ s \notin unwanted'
  BY <1>0 DEF Deliver, DeliverFin, DeliverReset, PeerSend, PeerFin, PeerReset, TypeOK
<1>5. closing \subseteq dead /\ unwanted \subseteq dead
  BY <1>0 DEF EchoTypeOK
<1>6. Wires'
  <2> SUFFICES ASSUME NEW s \in Sock
               PROVE  /\ Ended(s)' => s \in dead
                      /\ s \in closing' <=> s \in dead /\ peer'[s] = "up"
                      /\ out'[s] > 0 => peer'[s] = "up"
                      /\ s \in dead => in[s] = 0
                      /\ s \in hit => Gone(s)'
                      /\ s \in unwanted' => peer'[s] \in {"up", "fin"}
                      /\ peer'[s] = "absent" =>
                           out'[s] = 0 /\ rcv'[s] = 0 /\ in[s] = 0 /\ got[s] = 0 /\ s \notin dead
    BY <1>1 DEF Wires
  <2>1. /\ Ended(s) => s \in dead
        /\ s \in closing <=> s \in dead /\ peer[s] = "up"
        /\ out[s] > 0 => peer[s] = "up"
        /\ s \in dead => in[s] = 0
        /\ s \in hit => Gone(s)
        /\ s \in unwanted => peer[s] \in {"up", "fin"}
        /\ peer[s] = "absent" =>
             out[s] = 0 /\ rcv[s] = 0 /\ in[s] = 0 /\ got[s] = 0 /\ s \notin dead
    BY <1>0 DEF Wires
  <2> QED BY <1>3, <1>4, <1>5, <2>1 DEF Ended, Gone
<1>7. \A s \in Sock : /\ peer'[s] = "absent" <=> peer[s] = "absent"
                      /\ Gone(s)' <=> Gone(s)
                      /\ Ended(s) => Ended(s)'
                      /\ peer'[s] = "up" => peer[s] = "up"
  BY <1>4 DEF Gone, Ended
<1>8. Places'
  BY <1>0, <1>1, <1>7, SamePlaces
<1>9. ASSUME NEW c \in Conn PROVE Balanced(c) /\ Still(c)
  <2>1. /\ Cli(c) \in Sock /\ Srv(c) \in Sock /\ Sent(c)' = Sent(c) /\ hand[c] \in Nat
        /\ Sent(c) \in Int /\ got[Srv(c)] \in Nat /\ There(c) \in Nat /\ Back(c) \in Nat
    BY <1>0, <1>1, Sockets, SentSame, Units DEF Counted
  <2>2. There(c)' = There(c) /\ Back(c)' = Back(c)
    <3>1. \A s \in {Cli(c), Srv(c)} :
             /\ out'[s] \in Nat /\ rcv'[s] \in Nat /\ out[s] \in Nat /\ rcv[s] \in Nat
             /\ in[s] \in Nat /\ got[s] \in Nat /\ in'[s] = in[s] /\ got'[s] = got[s]
             /\ out'[s] + rcv'[s] = out[s] + rcv[s]
      BY <1>0, <1>1, <1>3, <2>1 DEF EchoTypeOK
    <3>2. hand'[c] = hand[c]
      BY <1>1
    <3> QED BY <2>1, <3>1, <3>2 DEF There, Back
  <2>3. Whole(c)' => Whole(c)
    BY <1>1, <1>7, <2>1 DEF Whole
  <2>4. Still(c)
    BY <1>1, <1>7, <2>1 DEF Still
  <2> QED BY <1>1, <2>1, <2>2, <2>3, <2>4 DEF Balanced
<1>10. NoneMade' /\ RoundTrip' /\ OneAtOnce' /\ ServerSurvives' /\ Served'
  <2>1. NoneMade' /\ RoundTrip' /\ OneAtOnce'
    BY <1>0, <1>1, <1>2, <1>9, Balance, OneStays
  <2> QED BY <1>0, <1>1, <2>1 DEF ServerSurvives, Served
<1>11. Alone'
  <2>1. Disturbed => Disturbed'
    BY <1>1 DEF Disturbed, Running
  <2>2. Turns => Turns'
    BY <1>1, <1>7, SameTurns
  <2>3. NoReset => NoReset'
    <3>1. ASSUME NoReset PROVE unwanted = {} /\ unwanted' = {} /\ \A s \in Sock : peer'[s] \in {peer[s], "fin"}
      BY <1>4, <3>1 DEF NoReset, Deliver, DeliverFin, DeliverReset
    <3> QED BY <3>1 DEF NoReset, HungUp
  <2> QED BY <1>0, <1>1, <1>3, <1>7, <2>1, <2>2, <2>3, OthersAlone
<1> QED BY <1>2, <1>6, <1>8, <1>10, <1>11 DEF EchoInv

LEMMA StopKeeps ==
  ASSUME IInv, IInv', EchoInv, Stop
  PROVE  EchoInv'
<1>0. EchoTypeOK /\ Places /\ Wires /\ NoneMade /\ RoundTrip
      /\ OneAtOnce /\ ServerSurvives /\ Served
      /\ TypeOK /\ TypeOK'
  BY DEF EchoInv, IInv
<1>1. /\ UNCHANGED <<pair, client, left, server, hand, backlog, in, got, dead, hit, split, cut>>
      /\ closing' = {} /\ unwanted' = {}
      /\ \A s \in Sock : /\ out'[s] = 0 /\ rcv'[s] = 0
                         /\ peer'[s] = IF peer[s] = "absent" THEN "absent" ELSE "gone"
  BY DEF Stop, Interrupt, Terminate
<1>2. EchoTypeOK'
  BY <1>0 DEF Stop, EchoTypeOK
<1>3. Wires'
  BY <1>0, <1>1 DEF Wires, Ended, Gone
<1>4. Places'
  <2>1. Moves
    BY <1>0, TerminateMoves DEF Stop, Interrupt, Stopped
  <2>2. pc' # "loop"
    BY DEF Stop, Interrupt, Terminate
  <2> QED BY <1>0, <1>1, <2>1, <2>2, MovesPlaces
<1>5. ASSUME NEW c \in Conn PROVE Balanced(c) /\ Still(c)
  <2>1. /\ Cli(c) \in Sock /\ Srv(c) \in Sock /\ Sent(c)' = Sent(c) /\ hand[c] \in Nat
        /\ Sent(c) \in Int /\ got[Srv(c)] \in Nat /\ There(c) \in Nat /\ Back(c) \in Nat
    BY <1>0, <1>1, Sockets, SentSame, Units DEF Counted
  <2>2. There(c)' <= There(c) /\ Back(c)' <= Back(c) /\ There(c)' \in Nat /\ Back(c)' \in Nat
    <3>1. \A s \in {Cli(c), Srv(c)} :
            /\ out[s] \in Nat /\ rcv[s] \in Nat /\ in[s] \in Nat /\ got[s] \in Nat
            /\ out'[s] = 0 /\ rcv'[s] = 0 /\ in'[s] = in[s] /\ got'[s] = got[s]
      BY <1>0, <1>1, <2>1, Units DEF Counted
    <3> QED BY <1>1, <2>1, <3>1 DEF There, Back
  <2>3. ~Whole(c)'
    BY <1>1, <2>1 DEF Whole
  <2>4. Still(c)
    BY <1>1, <2>1 DEF Still, Gone
  <2> QED BY <1>1, <2>1, <2>2, <2>3, <2>4 DEF Balanced
<1>6. NoneMade' /\ RoundTrip' /\ OneAtOnce' /\ ServerSurvives' /\ Served'
  <2>1. NoneMade' /\ RoundTrip' /\ OneAtOnce'
    BY <1>0, <1>1, <1>2, <1>5, Balance, OneStays
  <2> QED BY <1>0, <1>1, <2>1 DEF ServerSurvives, Served
<1>7. Alone'
  <2>1. ~Running'
    BY DEF Stop, Interrupt, Terminate, Running, Stopped
  <2> QED BY <2>1 DEF Alone, Disturbed
<1> QED BY <1>2, <1>3, <1>4, <1>6, <1>7 DEF EchoInv

-----------------------------------------------------------------------------
(* The programs' calls.                                                     *)

\* What is left to show of a step of a program.
LEMMA ProgramKeeps ==
  ASSUME IInv, IInv', EchoInv,
         UNCHANGED <<pair, cut, fds, rcv, events, cur, total_sent, pc>>,
         EchoTypeOK', Places', Wires', \A c \in Conn : Balanced(c), split \subseteq split',
         \A c \in Conn : c \in split' \/ pair # "load" \/ One(c)' \/ Still(c),
         \A s \in Sock : Ended(s) => Ended(s)',
         ServerSurvives', Served', Disturbed => Disturbed',
         ~Disturbed /\ ~Disturbed' /\ pair = "load" /\ Turns => Turns',
         ~Disturbed /\ ~Disturbed' /\ pair = "simple" /\ NoReset => NoReset'
  PROVE  EchoInv'
<1>0. EchoTypeOK /\ NoneMade /\ RoundTrip /\ OneAtOnce /\ Alone /\ TypeOK /\ TypeOK'
  BY DEF EchoInv, IInv
<1>1. NoneMade' /\ RoundTrip' /\ OneAtOnce'
  BY <1>0, Balance, OneStays
<1>2. \A s \in Sock : rcv'[s] >= rcv[s] /\ rcv'[s] \in Nat
  BY <1>0 DEF TypeOK
<1>3. Alone'
  BY <1>0, <1>2, OthersAlone
<1> QED BY <1>1, <1>3 DEF EchoInv

\* The far end of a socket closes, having read n units more.
CloseFarAfter(s, n, reset) ==
  /\ CloseFar(s, reset)
  /\ got' = [got EXCEPT ![s] = @ + n]
  /\ UNCHANGED <<unwanted, hit>>

\* What a close does.
LEMMA CloseFarDoes ==
  ASSUME TypeOK, EchoTypeOK, Wires, NEW s0 \in Sock, NEW reset \in BOOLEAN, NEW n \in Nat,
         s0 \notin dead, peer[s0] # "absent", CloseFarAfter(s0, n, reset)
  PROVE  /\ UNCHANGED <<fds, rcv, events, cur, total_sent, pc, unwanted, hit>>
         /\ dead' = dead \cup {s0} /\ peer[s0] \in {"up", "gone"}
         /\ in' \in [Sock -> Nat] /\ out' \in [Sock -> Nat] /\ got' \in [Sock -> Nat]
         /\ closing' \subseteq dead'
         /\ in'[s0] = 0 /\ got'[s0] = got[s0] + n
         /\ \/ out'[s0] = out[s0] /\ peer'[s0] = peer[s0]
            \/ reset /\ out'[s0] = 0 /\ peer[s0] = "up" /\ peer'[s0] = "reset"
         /\ s0 \in closing' <=> peer'[s0] = "up"
         /\ \A s \in Sock \ {s0} : /\ out'[s] = out[s] /\ in'[s] = in[s] /\ got'[s] = got[s]
                                   /\ peer'[s] = peer[s] /\ (s \in closing' <=> s \in closing)
<1>1. peer[s0] \in {"up", "gone"}
  BY DEF TypeOK, PeerState, Wires, Ended
<1>2. s0 \notin closing
  BY DEF EchoTypeOK
<1>3. /\ dead' = dead \cup {s0}
      /\ in' = [in EXCEPT ![s0] = 0] /\ got' = [got EXCEPT ![s0] = @ + n]
      /\ UNCHANGED <<unwanted, hit>>
  BY DEF CloseFar, CloseFarAfter
<1>4. /\ in' \in [Sock -> Nat] /\ got' \in [Sock -> Nat]
      /\ in'[s0] = 0 /\ got'[s0] = got[s0] + n
      /\ \A s \in Sock \ {s0} : in'[s] = in[s] /\ got'[s] = got[s]
  BY <1>3 DEF EchoTypeOK
<1>5. CASE Gone(s0)
  <2>1. UNCHANGED <<vars, out, closing>> /\ peer[s0] = "gone"
    BY <1>5 DEF CloseFar, CloseFarAfter, Gone
  <2> QED BY <1>1, <1>2, <1>3, <1>4, <2>1 DEF EchoTypeOK
<1>6. CASE ~Gone(s0) /\ reset
  <2>1. PeerReset(s0) /\ out' = [out EXCEPT ![s0] = 0] /\ closing' = closing /\ peer[s0] = "up"
    BY <1>1, <1>6 DEF CloseFar, CloseFarAfter, Gone
  <2>2. /\ peer' = [peer EXCEPT ![s0] = "reset"]
        /\ UNCHANGED <<fds, rcv, events, cur, total_sent, pc>>
    BY <2>1 DEF PeerReset
  <2> QED BY <1>1, <1>2, <1>3, <1>4, <1>6, <2>1, <2>2 DEF EchoTypeOK, TypeOK
<1>7. CASE ~Gone(s0) /\ ~reset
  <2>1. UNCHANGED <<vars, out>> /\ closing' = closing \cup {s0} /\ peer[s0] = "up"
    BY <1>1, <1>7 DEF CloseFar, CloseFarAfter, Gone
  <2> QED BY <1>1, <1>3, <1>4, <2>1 DEF EchoTypeOK
<1> QED BY <1>5, <1>6, <1>7

LEMMA CloseFarWires ==
  ASSUME TypeOK, EchoTypeOK, Wires, NEW s0 \in Sock, NEW reset \in BOOLEAN, NEW n \in Nat,
         s0 \notin dead, peer[s0] # "absent", CloseFarAfter(s0, n, reset)
  PROVE  /\ Wires'
         /\ \A s \in Sock : /\ Ended(s) => Ended(s)'
                            /\ Gone(s)' <=> Gone(s)
                            /\ peer'[s] = "absent" <=> peer[s] = "absent"
<1>1. /\ UNCHANGED <<rcv, unwanted, hit>>
      /\ dead' = dead \cup {s0} /\ peer[s0] \in {"up", "gone"}
      /\ in'[s0] = 0 /\ got'[s0] = got[s0] + n
      /\ \/ out'[s0] = out[s0] /\ peer'[s0] = peer[s0]
         \/ reset /\ out'[s0] = 0 /\ peer[s0] = "up" /\ peer'[s0] = "reset"
      /\ s0 \in closing' <=> peer'[s0] = "up"
      /\ \A s \in Sock \ {s0} : /\ out'[s] = out[s] /\ in'[s] = in[s] /\ got'[s] = got[s]
                                /\ peer'[s] = peer[s] /\ (s \in closing' <=> s \in closing)
  BY CloseFarDoes
<1>2. s0 \notin unwanted
  BY DEF EchoTypeOK
<1>3. out[s0] \in Nat
  BY DEF EchoTypeOK
<1>4. \A s \in Sock : /\ Ended(s) => Ended(s)'
                      /\ Gone(s)' <=> Gone(s)
                      /\ peer'[s] = "absent" <=> peer[s] = "absent"
  BY <1>1 DEF Ended, Gone
<1>5. ASSUME NEW s \in Sock \ {s0}
      PROVE  /\ Ended(s)' => s \in dead'
             /\ s \in closing' <=> s \in dead' /\ peer'[s] = "up"
             /\ out'[s] > 0 => peer'[s] = "up"
             /\ s \in dead' => in'[s] = 0
             /\ s \in hit' => Gone(s)'
             /\ s \in unwanted' => peer'[s] \in {"up", "fin"}
             /\ peer'[s] = "absent" =>
                  out'[s] = 0 /\ rcv'[s] = 0 /\ in'[s] = 0 /\ got'[s] = 0 /\ s \notin dead'
  BY <1>1, <1>5 DEF Wires, Ended, Gone
<1>6. /\ Ended(s0)' => s0 \in dead'
      /\ s0 \in closing' <=> s0 \in dead' /\ peer'[s0] = "up"
      /\ out'[s0] > 0 => peer'[s0] = "up"
      /\ s0 \in dead' => in'[s0] = 0
      /\ s0 \in hit' => Gone(s0)'
      /\ s0 \in unwanted' => peer'[s0] \in {"up", "fin"}
      /\ peer'[s0] # "absent"
  BY <1>1, <1>2, <1>3 DEF Wires, Ended, Gone
<1> QED BY <1>4, <1>5, <1>6 DEF Wires

LEMMA CloseFarBalanced ==
  ASSUME TypeOK, EchoTypeOK, Wires, NEW s0 \in Sock, NEW reset \in BOOLEAN, NEW n \in Nat,
         s0 \notin dead, peer[s0] # "absent", CloseFarAfter(s0, n, reset), n <= in[s0],
         UNCHANGED <<pair, left>>, NEW c \in Conn,
         hand'[c] = hand[c] \/ (s0 = Srv(c) /\ hand'[c] = 0)
  PROVE  Balanced(c)
<1>1. /\ rcv' = rcv /\ dead' = dead \cup {s0}
      /\ in' \in [Sock -> Nat] /\ out' \in [Sock -> Nat] /\ got' \in [Sock -> Nat]
      /\ in'[s0] = 0 /\ got'[s0] = got[s0] + n
      /\ out'[s0] = out[s0] \/ out'[s0] = 0
      /\ \A s \in Sock \ {s0} : /\ out'[s] = out[s] /\ in'[s] = in[s] /\ got'[s] = got[s]
                                /\ peer'[s] = peer[s]
  BY CloseFarDoes
<1>2. /\ Cli(c) \in Sock /\ Srv(c) \in Sock /\ Cli(c) # Srv(c)
      /\ Sent(c)' = Sent(c) /\ Sent(c) \in Int
  BY Sockets, SentSame, Units DEF Counted
<1>3. \A s \in {Cli(c), Srv(c)} :
        /\ out[s] \in Nat /\ rcv[s] \in Nat /\ in[s] \in Nat /\ got[s] \in Nat
        /\ out'[s] \in Nat /\ in'[s] \in Nat /\ got'[s] \in Nat /\ rcv'[s] = rcv[s]
        /\ hand[c] \in Nat /\ hand'[c] \in Nat /\ hand'[c] <= hand[c]
  BY <1>1, <1>2, Units DEF Counted
<1>4. /\ There(c)' + Back(c)' <= There(c) + Back(c)
      /\ There(c)' <= There(c)
      /\ got'[Srv(c)] + There(c)' <= got[Srv(c)] + There(c)
      /\ There(c) \in Nat /\ There(c)' \in Nat /\ Back(c) \in Nat /\ Back(c)' \in Nat
  <2>1. CASE s0 = Cli(c)
    BY <1>1, <1>2, <1>3, <2>1 DEF There, Back
  <2>2. CASE s0 = Srv(c)
    BY <1>1, <1>2, <1>3, <2>2 DEF There, Back
  <2>3. CASE s0 \notin {Cli(c), Srv(c)}
    BY <1>1, <1>2, <1>3, <2>3 DEF There, Back
  <2> QED BY <2>1, <2>2, <2>3
<1>5. Whole(c)' => /\ Whole(c)
                   /\ There(c)' = There(c) /\ Back(c)' = Back(c) /\ got'[Srv(c)] = got[Srv(c)]
  <2>1. CASE s0 \in {Cli(c), Srv(c)}
    BY <1>1, <2>1 DEF Whole
  <2>2. CASE s0 \notin {Cli(c), Srv(c)}
    BY <1>1, <1>2, <1>3, <2>2 DEF There, Back, Whole, Gone
  <2> QED BY <2>1, <2>2
<1> QED BY <1>1, <1>2, <1>3, <1>4, <1>5 DEF Balanced

LEMMA NothingRead ==
  ASSUME EchoTypeOK, NEW s \in Sock, got' = got
  PROVE  got' = [got EXCEPT ![s] = @ + 0]
BY DEF EchoTypeOK

-----------------------------------------------------------------------------
(* A client closes or is killed.                                            *)

LEMMA ClientEnds ==
  ASSUME IInv, IInv', EchoInv, NEW c \in Conn, NEW how \in Finished,
         NEW reset \in BOOLEAN, NEW n \in Nat,
         client[c] \in Talking \cup {"spinning"},
         CloseFarAfter(Cli(c), n, reset), n <= in[Cli(c)],
         client' = [client EXCEPT ![c] = how],
         UNCHANGED <<pair, left, server, hand, backlog, split, cut>>,
         how = "closed" /\ pair = "simple" => ~reset /\ got'[Cli(c)] >= M,
         how = "closed" /\ pair = "load" /\ ~Disturbed /\ Turns =>
           got'[Cli(c)] = Sent(c) /\ left[c] = 0
  PROVE  EchoInv'
<1>0. EchoTypeOK /\ Places /\ Wires /\ NoneMade /\ RoundTrip
      /\ OneAtOnce /\ ServerSurvives /\ Served
      /\ TypeOK /\ TypeOK'
  BY DEF EchoInv, IInv
<1> DEFINE s0 == Cli(c)
<1>1. s0 \in Sock /\ s0 \notin dead /\ peer[s0] # "absent"
  BY <1>0, Sockets DEF Places, Talking, Finished
<1>2. /\ UNCHANGED <<fds, rcv, events, cur, total_sent, pc, unwanted, hit>>
      /\ dead' = dead \cup {s0}
      /\ in' \in [Sock -> Nat] /\ out' \in [Sock -> Nat] /\ got' \in [Sock -> Nat]
      /\ closing' \subseteq dead'
      /\ got'[s0] = got[s0] + n
      /\ \/ out'[s0] = out[s0] /\ peer'[s0] = peer[s0]
         \/ reset /\ out'[s0] = 0 /\ peer[s0] = "up" /\ peer'[s0] = "reset"
      /\ \A s \in Sock \ {s0} : in'[s] = in[s] /\ got'[s] = got[s] /\ peer'[s] = peer[s]
  BY <1>0, <1>1, CloseFarDoes
<1>3. /\ Wires'
      /\ \A s \in Sock : /\ Ended(s) => Ended(s)'
                         /\ Gone(s)' <=> Gone(s)
                         /\ peer'[s] = "absent" <=> peer[s] = "absent"
  BY <1>0, <1>1, CloseFarWires
<1>4. \A d \in Conn : Balanced(d)
  BY <1>0, <1>1, CloseFarBalanced
<1>5. /\ client'[c] = how /\ how \in {"closed", "killed"}
      /\ \A d \in Conn \ {c} : client'[d] = client[d]
      /\ \A d \in Conn : /\ Cli(d) \in Sock /\ Srv(d) \in Sock /\ Srv(d) # s0
                         /\ Cli(d) = s0 => d = c
                         /\ Start(d)' = Start(d) /\ Sent(d)' = Sent(d)
  BY <1>0, Sockets, SentSame DEF EchoTypeOK, Finished
<1>6. EchoTypeOK'
  <2>1. client' \in [Conn -> {"idle", "spinning"} \cup Talking \cup Finished]
    BY <1>0 DEF EchoTypeOK
  <2>2. /\ \A S \in {closing', dead', unwanted', hit'} : S \subseteq Sock
        /\ closing' \cup unwanted' \subseteq dead'
    BY <1>0, <1>1, <1>2 DEF EchoTypeOK
  <2> QED BY <1>0, <1>2, <2>1, <2>2 DEF EchoTypeOK
<1>7. Places'
  <2>1. client[c] \notin {"idle", "closed", "killed"} /\ peer[Cli(c)] # "absent"
    BY <1>0, <1>1 DEF Talking
  <2>2. \A d \in Conn : Cli(d) \in dead' <=> client'[d] \in Finished
    BY <1>0, <1>2, <1>5 DEF Places, Finished
  <2>3. \A d \in Conn : Housed(d)'
    BY <1>0, <1>2, <1>3, <1>5 DEF Places, Housed
  <2>4. \A d \in Conn : /\ client'[d] = "idle" <=> client[d] = "idle"
                        /\ client'[d] = "spinning" => client[d] = "spinning"
    BY <1>5, <2>1
  <2>5. \A i \in DOMAIN backlog : backlog[i] \in Conn
    BY <1>0 DEF EchoTypeOK
  <2>6. \A d \in Conn :
         /\ client'[d] = "idle" <=> peer'[Cli(d)] = "absent"
         /\ client'[d] = "idle" => left'[d] = Start(d)' /\ peer'[Srv(d)] = "absent"
         /\ client'[d] = "spinning" => pair' = "simple"
         /\ left'[d] <= Start(d)'
         /\ Gone(Srv(d))' => Gone(Cli(d))'
    BY <1>0, <1>3, <1>5, <2>4 DEF Places
  <2>7. /\ \A i \in DOMAIN backlog' :
            /\ server'[backlog'[i]] = "none" /\ peer'[Srv(backlog'[i])] # "absent"
            /\ \A j \in DOMAIN backlog' : backlog'[i] = backlog'[j] => i = j
        /\ ServerDown' => backlog' = <<>>
    BY <1>0, <1>3, <1>5, <2>5 DEF Places, ServerDown
  <2> QED BY <2>2, <2>3, <2>6, <2>7 DEF Places, Housed
<1>8. ServerSurvives'
  BY <1>0, <1>2, <1>5 DEF ServerSurvives
<1>9. Served'
  BY <1>0, <1>2, <1>5 DEF Served
<1>10. Disturbed => Disturbed'
  <2>1. \A d \in Conn : client[d] = "killed" => client'[d] = "killed"
    BY <1>5 DEF Talking
  <2> QED BY <1>2, <2>1 DEF Disturbed, Running
<1>11. ASSUME ~Disturbed, ~Disturbed', pair = "load", Turns PROVE Turns'
  <2>1. how = "closed" /\ got'[s0] = Sent(c) /\ left[c] = 0
    BY <1>5, <1>11 DEF Disturbed
  <2>2. \A d \in Conn : got'[Srv(d)] = got[Srv(d)] /\ (d # c => got'[Cli(d)] = got[Cli(d)])
    BY <1>2, <1>5
  <2> QED BY <1>3, <1>5, <1>11, <2>1, <2>2 DEF Turns
<1>12. ASSUME ~Disturbed, ~Disturbed', pair = "simple", NoReset PROVE NoReset'
  <2>1. how = "closed"
    BY <1>5, <1>12 DEF Disturbed
  <2>2. \A s \in Sock : peer'[s] = peer[s]
    BY <1>2, <1>12, <2>1
  <2> QED BY <1>2, <1>12, <2>2 DEF NoReset, HungUp
<1>13. \A d \in Conn : Still(d)
  BY <1>2, <1>3, <1>5 DEF Still, Talking
<1> HIDE DEF s0
<1> QED BY <1>2, <1>3, <1>4, <1>6, <1>7, <1>8, <1>9, <1>10, <1>11, <1>12, <1>13, ProgramKeeps

LEMMA ClientSigPipeKeeps ==
  ASSUME IInv, IInv', EchoInv, NEW c \in Conn, ClientSigPipe(c)
  PROVE  EchoInv'
<1>1. EchoTypeOK /\ Cli(c) \in Sock /\ in[Cli(c)] \in Nat
  BY Sockets DEF EchoInv, EchoTypeOK
<1>2. CloseFarAfter(Cli(c), 0, TRUE)
  BY <1>1, NothingRead DEF ClientSigPipe, CloseFarAfter
<1>3. /\ client[c] \in Talking \cup {"spinning"} /\ "killed" \in Finished
      /\ client' = [client EXCEPT ![c] = "killed"]
      /\ UNCHANGED <<pair, left, server, hand, backlog, split, cut>>
      /\ 0 \in Nat /\ 0 <= in[Cli(c)]
  BY <1>1 DEF ClientSigPipe, Talking, Finished
<1> QED BY <1>2, <1>3, ClientEnds

LEMMA LoadCloseKeeps ==
  ASSUME IInv, IInv', EchoInv, NEW c \in Conn, LoadClose(c)
  PROVE  EchoInv'
<1>1. EchoTypeOK /\ Cli(c) \in Sock /\ in[Cli(c)] \in Nat
  BY Sockets DEF EchoInv, EchoTypeOK
<1>2. CloseFarAfter(Cli(c), 0, TRUE) /\ got' = got /\ pair = "load"
  BY <1>1, NothingRead DEF LoadClose, CloseFarAfter
<1>3. Turns => got'[Cli(c)] = Sent(c) /\ left[c] = 0
  BY <1>2 DEF LoadClose, Turns
<1>4. /\ client[c] \in Talking \cup {"spinning"} /\ "closed" \in Finished
      /\ client' = [client EXCEPT ![c] = "closed"]
      /\ UNCHANGED <<pair, left, server, hand, backlog, split, cut>>
      /\ 0 \in Nat /\ 0 <= in[Cli(c)]
  BY <1>1 DEF LoadClose, Talking, Finished
<1> QED BY <1>2, <1>3, <1>4, ClientEnds

LEMMA KillKeeps ==
  ASSUME IInv, IInv', EchoInv, NEW c \in Conn, Kill(c)
  PROVE  EchoInv'
<1>1. EchoTypeOK /\ Cli(c) \in Sock /\ in[Cli(c)] \in Nat
  BY Sockets DEF EchoInv, EchoTypeOK
<1> DEFINE reset == pair = "load" \/ (in[Cli(c)] > 0 /\ client[c] # "spinning")
<1>2. reset \in BOOLEAN /\ CloseFarAfter(Cli(c), 0, reset)
  BY <1>1, NothingRead DEF Kill, CloseFarAfter
<1> HIDE DEF reset
<1>3. /\ client[c] \in Talking \cup {"spinning"} /\ "killed" \in Finished
      /\ client' = [client EXCEPT ![c] = "killed"]
      /\ UNCHANGED <<pair, left, server, hand, backlog, split, cut>>
      /\ 0 \in Nat /\ 0 <= in[Cli(c)]
  BY <1>1 DEF Kill, Talking, Finished
<1> QED BY <1>2, <1>3, ClientEnds

LEMMA SimpleRecvKeeps ==
  ASSUME IInv, IInv', EchoInv, NEW c \in Conn, SimpleRecv(c)
  PROVE  EchoInv'
<1>1. EchoTypeOK /\ Cli(c) \in Sock /\ in[Cli(c)] \in Nat /\ M \in Nat /\ got[Cli(c)] \in Nat
  BY Sockets, EchoAssumption DEF EchoInv, EchoTypeOK
<1>2. CloseFarAfter(Cli(c), M, FALSE) /\ pair = "simple"
  BY DEF SimpleRecv, CloseFarAfter
<1>3. M <= in[Cli(c)]
  BY <1>1 DEF SimpleRecv, Taken
<1>4. got'[Cli(c)] >= M
  BY <1>1 DEF SimpleRecv, EchoTypeOK
<1> QED BY <1>1, <1>2, <1>3, <1>4, ClientEnds DEF SimpleRecv, Talking, Finished

-----------------------------------------------------------------------------
(* A thread ends.                                                           *)

LEMMA ThreadCloses ==
  ASSUME IInv, IInv', EchoInv, NEW c \in Conn, NEW reset \in BOOLEAN, NEW n \in Nat,
         pair = "load", Srv(c) \notin dead, peer[Srv(c)] # "absent",
         CloseFarAfter(Srv(c), n, reset), n <= in[Srv(c)],
         NEW how \in {"ended", "piped"}, server' = [server EXCEPT ![c] = how],
         hand' = [hand EXCEPT ![c] = 0],
         how = "piped" => c \in split /\ backlog' = <<>>,
         backlog' = <<>> \/ (backlog' = backlog /\ server[c] # "none"),
         UNCHANGED <<pair, client, left, split, cut>>,
         (Gone(Srv(c)) /\ server[c] # "orphan") \/ split # {}
  PROVE  EchoInv'
<1>0. EchoTypeOK /\ Places /\ Wires /\ NoneMade /\ RoundTrip
      /\ OneAtOnce /\ ServerSurvives /\ Served
      /\ TypeOK /\ TypeOK'
  BY DEF EchoInv, IInv
<1> DEFINE s0 == Srv(c)
<1>1. s0 \in Sock /\ s0 \notin dead /\ peer[s0] # "absent"
  BY Sockets
<1>2. /\ UNCHANGED <<fds, rcv, events, cur, total_sent, pc, unwanted, hit>>
      /\ dead' = dead \cup {s0}
      /\ in' \in [Sock -> Nat] /\ out' \in [Sock -> Nat] /\ got' \in [Sock -> Nat]
      /\ closing' \subseteq dead'
      /\ \A s \in Sock \ {s0} : in'[s] = in[s] /\ got'[s] = got[s] /\ peer'[s] = peer[s]
  BY <1>0, <1>1, CloseFarDoes
<1>3. /\ Wires'
      /\ \A s \in Sock : /\ Ended(s) => Ended(s)'
                         /\ Gone(s)' <=> Gone(s)
                         /\ peer'[s] = "absent" <=> peer[s] = "absent"
  BY <1>0, <1>1, CloseFarWires
<1>4. /\ server'[c] = how /\ how \in {"ended", "piped"} /\ hand'[c] = 0
      /\ \A d \in Conn \ {c} : server'[d] = server[d] /\ hand'[d] = hand[d]
      /\ \A d \in Conn : /\ Cli(d) \in Sock /\ Srv(d) \in Sock /\ Cli(d) # s0
                         /\ Srv(d) = s0 => d = c
                         /\ Start(d)' = Start(d) /\ Sent(d)' = Sent(d)
  BY <1>0, Sockets, SentSame DEF EchoTypeOK
<1>5. \A d \in Conn : Balanced(d)
  BY <1>0, <1>1, <1>4, CloseFarBalanced
<1>6. EchoTypeOK'
  <2>1. /\ server' \in [Conn -> {"none", "running", "echoing", "spinning", "orphan", "ended",
                                "piped"}]
        /\ hand' \in [Conn -> 0 .. ReadLen]
    BY <1>0, EchoAssumption DEF EchoTypeOK, ReadLen
  <2>2. /\ \A S \in {closing', dead', unwanted', hit'} : S \subseteq Sock
        /\ closing' \cup unwanted' \subseteq dead'
    BY <1>0, <1>1, <1>2 DEF EchoTypeOK
  <2>3. backlog' \in Seq(Conn)
    <3>1. backlog' = <<>> \/ backlog' = backlog
      OBVIOUS
    <3>2. <<>> \in Seq(Conn)
      OBVIOUS
    <3>3. backlog \in Seq(Conn)
      BY <1>0 DEF EchoTypeOK
    <3> QED BY ONLY <3>1, <3>2, <3>3
  <2> QED BY <1>0, <1>2, <2>1, <2>2, <2>3 DEF EchoTypeOK
<1>7. Places'
  <2>1. \A d \in Conn : Cli(d) \in dead' <=> client'[d] \in Finished
    BY <1>0, <1>2, <1>4 DEF Places, Finished
  <2>2. \A d \in Conn : Housed(d)'
    BY <1>0, <1>1, <1>2, <1>3, <1>4 DEF Places, Housed
  <2>3. \A i \in DOMAIN backlog' :
         /\ server'[backlog'[i]] = "none" /\ peer'[Srv(backlog'[i])] # "absent"
         /\ \A j \in DOMAIN backlog' : backlog'[i] = backlog'[j] => i = j
    <3>1. CASE backlog' = <<>>
      BY <3>1
    <3>2. CASE backlog' = backlog /\ server[c] # "none"
      <4>1. \A i \in DOMAIN backlog : backlog[i] \in Conn /\ backlog[i] # c
        BY <1>0, <3>2 DEF EchoTypeOK, Places
      <4> QED BY <1>0, <1>3, <1>4, <3>2, <4>1 DEF Places
    <3> QED BY <3>1, <3>2
  <2>4. \A d \in Conn :
         /\ client'[d] = "idle" <=> peer'[Cli(d)] = "absent"
         /\ client'[d] = "idle" => left'[d] = Start(d)' /\ peer'[Srv(d)] = "absent"
         /\ client'[d] = "spinning" => pair' = "simple"
         /\ left'[d] <= Start(d)'
         /\ Gone(Srv(d))' => Gone(Cli(d))'
    BY <1>0, <1>3, <1>4 DEF Places
  <2>5. ServerDown' => backlog' = <<>>
    <3>1. ServerDown' => how = "piped" \/ ServerDown
      BY <1>4 DEF ServerDown
    <3>2. ServerDown => backlog = <<>>
      BY <1>0 DEF Places
    <3> QED BY <3>1, <3>2
  <2> HIDE DEF s0
  <2> QED BY <2>1, <2>2, <2>3, <2>4, <2>5 DEF Places, Housed
<1>8. ServerSurvives'
  BY <1>0, <1>2, <1>4 DEF ServerSurvives
<1>9. Served'
  BY DEF Served
<1>10. Disturbed => Disturbed'
  <2>1. split = {} => \A d \in Conn : server[d] = "orphan" => server'[d] = "orphan"
    BY <1>4
  <2> QED BY <1>2, <2>1 DEF Disturbed, Running
<1>11. ASSUME ~Disturbed, ~Disturbed', Turns PROVE Turns'
  <2>1. Gone(s0)
    BY <1>11 DEF Disturbed
  <2>2. Places /\ Gone(Cli(c))
    BY <1>0, <2>1 DEF Places
  <2>3. client[c] \notin {"sending", "waiting"}
    BY <1>11, <2>2 DEF Turns
  <2>4. \A d \in Conn : got'[Cli(d)] = got[Cli(d)] /\ (d # c => got'[Srv(d)] = got[Srv(d)])
    BY <1>2, <1>4
  <2> QED BY <1>3, <1>4, <1>11, <2>1, <2>3, <2>4 DEF Turns
<1>12. \A d \in Conn : Still(d)
  BY <1>2, <1>3, <1>4 DEF Still
<1> HIDE DEF s0
<1> QED BY <1>2, <1>3, <1>5, <1>6, <1>7, <1>8, <1>9, <1>10, <1>11, <1>12, ProgramKeeps

\* A thread that is at its read() holds nothing.
LEMMA EmptyHand ==
  ASSUME EchoTypeOK, Places, NEW c \in Conn, server[c] = "running"
  PROVE  hand = [hand EXCEPT ![c] = 0] /\ Srv(c) \notin dead /\ peer[Srv(c)] # "absent"
<1>1. hand[c] = 0
  BY EchoAssumption DEF EchoTypeOK, Places, ReadLen
<1> QED BY <1>1 DEF EchoTypeOK, Places

LEMMA ThreadEndsKeeps ==
  ASSUME IInv, IInv', EchoInv, NEW c \in Conn, ThreadEnds(c)
  PROVE  EchoInv'
<1>1. EchoTypeOK /\ Places /\ Srv(c) \in Sock /\ in[Srv(c)] \in Nat
  BY Sockets DEF EchoInv, EchoTypeOK
<1>2. CloseFarAfter(Srv(c), 0, FALSE)
  BY <1>1, NothingRead DEF ThreadEnds, CloseFarAfter
<1>3. /\ server[c] = "running" /\ pair = "load"
      /\ server' = [server EXCEPT ![c] = "ended"]
      /\ UNCHANGED <<pair, client, left, hand, backlog, cut, split>>
      /\ 0 \in Nat /\ 0 <= in[Srv(c)] /\ Gone(Srv(c))
  BY <1>1 DEF ThreadEnds, Thread
<1> QED BY <1>1, <1>2, <1>3, EmptyHand, ThreadCloses

LEMMA TakenIs ==
  ASSUME EchoTypeOK, NEW s \in Sock, NEW m \in Nat
  PROVE  Taken(s, m) \in Nat /\ Taken(s, m) <= in[s] /\ Taken(s, m) <= m
BY DEF EchoTypeOK, Taken

LEMMA ThreadMisreadsKeeps ==
  ASSUME IInv, IInv', EchoInv, NEW c \in Conn, ThreadMisreads(c)
  PROVE  EchoInv'
<1> DEFINE n == Taken(Srv(c), ReadLen)
           reset == in[Srv(c)] > n
<1>1. EchoTypeOK /\ Places /\ Srv(c) \in Sock
  BY Sockets DEF EchoInv
<1>2. n \in Nat /\ n <= in[Srv(c)] /\ reset \in BOOLEAN
  BY <1>1, TakenIs, EchoAssumption DEF ReadLen
<1>3. CloseFarAfter(Srv(c), n, reset)
  BY DEF ThreadMisreads, CloseFarAfter
<1>4. /\ server[c] = "running" /\ pair = "load"
      /\ server' = [server EXCEPT ![c] = "ended"]
      /\ UNCHANGED <<pair, client, left, hand, backlog, cut, split>>
      /\ c \in split
  BY <1>1 DEF ThreadMisreads, Thread
<1> HIDE DEF n, reset
<1> QED BY <1>1, <1>2, <1>3, <1>4, EmptyHand, ThreadCloses

LEMMA ThreadSigPipeKeeps ==
  ASSUME IInv, IInv', EchoInv, NEW c \in Conn, ThreadSigPipe(c)
  PROVE  EchoInv'
<1>1. EchoTypeOK /\ Places /\ ServerSurvives /\ Srv(c) \in Sock /\ in[Srv(c)] \in Nat
  BY Sockets DEF EchoInv, EchoTypeOK
<1>2. CloseFarAfter(Srv(c), 0, TRUE)
  BY <1>1, NothingRead DEF ThreadSigPipe, CloseFarAfter
<1>3. /\ server[c] = "echoing" /\ pair = "load" /\ Srv(c) \in hit
      /\ server' = [server EXCEPT ![c] = "piped"] /\ hand' = [hand EXCEPT ![c] = 0]
      /\ UNCHANGED <<pair, client, left, cut, split>> /\ backlog' = <<>>
      /\ 0 \in Nat /\ 0 <= in[Srv(c)]
  BY <1>1 DEF ThreadSigPipe, Thread
<1>4. c \in split /\ Srv(c) \notin dead /\ peer[Srv(c)] # "absent"
  BY <1>1, <1>3 DEF ServerSurvives, Places
<1> QED BY <1>2, <1>3, <1>4, ThreadCloses

\* A server with a client whose message came in parts is all that can go down.
LEMMA DownIsSplit ==
  ASSUME EchoTypeOK, Places, ServerSurvives, ServerDown
  PROVE  split # {} /\ pair = "load" /\ backlog = <<>>
BY DEF ServerDown, ServerSurvives, Places

LEMMA ServerDiesKeeps ==
  ASSUME IInv, IInv', EchoInv, NEW c \in Conn, ServerDies(c)
  PROVE  EchoInv'
<1> DEFINE reset == in[Srv(c)] > 0 \/ server[c] = "none"
<1>1. EchoTypeOK /\ Places /\ ServerSurvives /\ Srv(c) \in Sock /\ in[Srv(c)] \in Nat
  BY Sockets DEF EchoInv, EchoTypeOK
<1>2. reset \in BOOLEAN /\ CloseFarAfter(Srv(c), 0, reset)
  BY <1>1, NothingRead DEF ServerDies, CloseFarAfter
<1> HIDE DEF reset
<1>3. split # {} /\ pair = "load" /\ backlog = <<>>
  BY <1>1, DownIsSplit DEF ServerDies
<1>4. /\ Srv(c) \notin dead /\ peer[Srv(c)] # "absent"
      /\ server' = [server EXCEPT ![c] = "ended"] /\ hand' = [hand EXCEPT ![c] = 0]
      /\ UNCHANGED <<pair, client, left, backlog, cut, split>>
      /\ 0 \in Nat /\ 0 <= in[Srv(c)]
  BY <1>1 DEF ServerDies
<1> QED BY <1>2, <1>3, <1>4, ThreadCloses

-----------------------------------------------------------------------------
(* A program reads.                                                         *)

\* The end of the forwarder's close is noticed by a read only when it has come.
ReadOnly(s, n) ==
  /\ Read(s, n)
  /\ hit' = hit \/ (Gone(s) /\ hit' = hit \cup {s})
  /\ UNCHANGED <<vars, out, closing, dead, unwanted>>

LEMMA ReadDoes ==
  ASSUME EchoTypeOK, Wires, NEW s0 \in Sock, NEW n \in Nat, n <= in[s0], ReadOnly(s0, n)
  PROVE  /\ in' \in [Sock -> Nat] /\ got' \in [Sock -> Nat] /\ hit' \subseteq Sock
         /\ in'[s0] = in[s0] - n /\ got'[s0] = got[s0] + n
         /\ \A s \in Sock \ {s0} : in'[s] = in[s] /\ got'[s] = got[s]
         /\ \A s \in Sock \ {s0} : s \in hit' <=> s \in hit
         /\ Wires'
<1>1. /\ in' = [in EXCEPT ![s0] = @ - n] /\ got' = [got EXCEPT ![s0] = @ + n]
      /\ UNCHANGED <<vars, out, closing, dead, unwanted>>
      /\ hit' = hit \/ (Gone(s0) /\ hit' = hit \cup {s0})
  BY DEF ReadOnly, Read
<1>2. /\ in' \in [Sock -> Nat] /\ got' \in [Sock -> Nat] /\ hit' \subseteq Sock
      /\ in'[s0] = in[s0] - n /\ got'[s0] = got[s0] + n
      /\ \A s \in Sock \ {s0} : in'[s] = in[s] /\ got'[s] = got[s]
  BY <1>1 DEF EchoTypeOK
<1>3. \A s \in Sock : s \in hit' => Gone(s)
  BY <1>1 DEF Wires
<1>4. \A s \in Sock : in[s] = 0 => in'[s] = 0 /\ got'[s] = got[s]
  BY <1>2 DEF EchoTypeOK
<1>5. Wires'
  BY <1>1, <1>3, <1>4 DEF Wires, Ended, Gone
<1> QED BY <1>1, <1>2, <1>5

LEMMA ReadBalanced ==
  ASSUME TypeOK, EchoTypeOK, Wires, NEW s0 \in Sock, NEW n \in Nat, n <= in[s0], ReadOnly(s0, n),
         UNCHANGED <<pair, left, hand>>, NEW c \in Conn, s0 = Srv(c) => pair = "simple"
  PROVE  Balanced(c)
<1>1. /\ in' \in [Sock -> Nat] /\ got' \in [Sock -> Nat]
      /\ in'[s0] = in[s0] - n /\ got'[s0] = got[s0] + n
      /\ \A s \in Sock \ {s0} : in'[s] = in[s] /\ got'[s] = got[s]
      /\ UNCHANGED <<peer, rcv, out, dead>>
  BY ReadDoes DEF ReadOnly
<1>2. /\ Cli(c) \in Sock /\ Srv(c) \in Sock /\ Cli(c) # Srv(c)
      /\ Sent(c)' = Sent(c) /\ Sent(c) \in Int
  BY Sockets, SentSame, Units DEF Counted
<1>3. \A s \in {Cli(c), Srv(c)} :
        /\ out[s] \in Nat /\ rcv[s] \in Nat /\ in[s] \in Nat /\ got[s] \in Nat
        /\ in'[s] \in Nat /\ got'[s] \in Nat /\ rcv'[s] = rcv[s] /\ out'[s] = out[s]
        /\ hand[c] \in Nat
  BY <1>1, <1>2, Units DEF Counted
<1>4. Whole(c)' <=> Whole(c)
  BY <1>1 DEF Whole, Gone
<1>5. /\ There(c) \in Nat /\ There(c)' \in Nat /\ Back(c) \in Nat /\ Back(c)' \in Nat
  BY <1>3 DEF There, Back
<1>6. CASE s0 # Srv(c)
  <2>1. There(c)' = There(c) /\ Back(c)' = Back(c) /\ got'[Srv(c)] = got[Srv(c)]
    BY <1>1, <1>2, <1>3, <1>6 DEF There, Back
  <2> QED BY <1>2, <1>3, <1>4, <1>5, <2>1 DEF Balanced
<1>7. CASE s0 = Srv(c)
  <2>1. /\ There(c)' + n = There(c) /\ Back(c)' = Back(c) /\ got'[Srv(c)] = got[Srv(c)] + n
        /\ pair # "load"
    BY <1>1, <1>2, <1>3, <1>7 DEF There, Back
  <2> QED BY <1>2, <1>3, <1>5, <2>1 DEF Balanced
<1> QED BY <1>6, <1>7

\* A client that reads goes on to send, or spins.
LEMMA ClientReads ==
  ASSUME IInv, IInv', EchoInv, NEW c \in Conn, NEW n \in Nat, n <= in[Cli(c)],
         client[c] = "waiting", ReadOnly(Cli(c), n),
         NEW next \in {"sending", "spinning"}, next = "spinning" => pair = "simple",
         client' = [client EXCEPT ![c] = next],
         UNCHANGED <<pair, left, server, hand, backlog, cut>>, split \subseteq split',
         split' \subseteq Conn,
         pair = "load" => next = "sending" /\ (c \in split' \/ n = M \/ (n = 0 /\ Gone(Cli(c))))
  PROVE  EchoInv'
<1>0. EchoTypeOK /\ Places /\ Wires /\ NoneMade /\ RoundTrip
      /\ OneAtOnce /\ ServerSurvives /\ Served
      /\ TypeOK /\ TypeOK'
  BY DEF EchoInv, IInv
<1>1. /\ UNCHANGED vars /\ UNCHANGED <<out, closing, dead, unwanted>>
      /\ Cli(c) \in Sock
  BY Sockets DEF ReadOnly
<1>2. /\ in' \in [Sock -> Nat] /\ got' \in [Sock -> Nat] /\ hit' \subseteq Sock
      /\ got'[Cli(c)] = got[Cli(c)] + n
      /\ \A s \in Sock \ {Cli(c)} : /\ in'[s] = in[s] /\ got'[s] = got[s]
                                    /\ s \in hit' <=> s \in hit
      /\ Wires'
  BY <1>0, <1>1, ReadDoes
<1>3. \A d \in Conn : Balanced(d)
  <2>1. \A d \in Conn : Cli(c) # Srv(d)
    BY Sockets
  <2> QED BY <1>0, <1>1, <2>1, ReadBalanced
<1>4. /\ client'[c] = next
      /\ \A d \in Conn \ {c} : client'[d] = client[d]
      /\ \A d \in Conn : /\ Cli(d) \in Sock /\ Srv(d) \in Sock /\ Srv(d) # Cli(c)
                         /\ Cli(d) = Cli(c) => d = c
                         /\ Start(d)' = Start(d) /\ Sent(d)' = Sent(d)
  BY <1>0, Sockets, SentSame DEF EchoTypeOK
<1>5. EchoTypeOK'
  <2>1. client' \in [Conn -> {"idle", "spinning"} \cup Talking \cup Finished]
    BY <1>0 DEF EchoTypeOK, Talking
  <2> QED BY <1>0, <1>1, <1>2, <2>1 DEF EchoTypeOK
<1>6. Places'
  <2>1. \A d \in Conn : Cli(d) \in dead' <=> client'[d] \in Finished
    BY <1>0, <1>1, <1>4 DEF Places, Finished
  <2>2. \A d \in Conn : /\ client'[d] = "idle" <=> client[d] = "idle"
                        /\ client'[d] = "spinning" => pair = "simple"
                        /\ Srv(d) \in hit' => Srv(d) \in hit
    BY <1>0, <1>2, <1>4 DEF Places
  <2>3. \A i \in DOMAIN backlog : backlog[i] \in Conn
    BY <1>0 DEF EchoTypeOK
  <2> QED BY <1>0, <1>1, <1>4, <2>1, <2>2, <2>3 DEF Places, Gone, ServerDown
<1>7. ServerSurvives'
  BY <1>0, <1>2, <1>4 DEF ServerSurvives
<1>8. Served'
  BY <1>0, <1>2, <1>4 DEF Served
<1>9. Disturbed => Disturbed'
  <2>1. \A d \in Conn : client[d] = "killed" => client'[d] = "killed"
    BY <1>4
  <2> QED BY <1>1, <2>1 DEF Disturbed, Running
<1>10. ASSUME ~Disturbed, ~Disturbed', pair = "load", Turns PROVE Turns'
  <2>1. n = M /\ next = "sending"
    BY <1>10 DEF Disturbed, Turns
  <2>2. got'[Cli(c)] = Sent(c) /\ ~Gone(Cli(c))
    BY <1>2, <1>10, <2>1 DEF Turns
  <2>3. \A d \in Conn : got'[Srv(d)] = got[Srv(d)] /\ (d # c => got'[Cli(d)] = got[Cli(d)])
    BY <1>2, <1>4
  <2> QED BY <1>1, <1>4, <1>10, <2>1, <2>2, <2>3 DEF Turns, Gone
<1>11. NoReset => NoReset'
  BY <1>1 DEF NoReset, HungUp
<1>12. \A s \in Sock : Ended(s) => Ended(s)'
  BY <1>1 DEF Ended
<1>13. ASSUME NEW d \in Conn PROVE d \in split' \/ pair # "load" \/ One(d)' \/ Still(d)
  <2>1. CASE d # c
    BY <1>1, <1>2, <1>4, <2>1 DEF Still, Gone
  <2>2. CASE d = c
    <3>1. SUFFICES ASSUME c \notin split', pair = "load" PROVE One(c)'
      BY <2>2
    <3>2. One(c) /\ (n = M \/ (n = 0 /\ Gone(Cli(c)))) /\ next = "sending"
      BY <1>0, <3>1, OneAtOnceIs
    <3>3. There(c)' = There(c) /\ (Gone(Cli(c))' <=> Gone(Cli(c)))
      BY <1>1, <1>2, <1>4 DEF There, Gone
    <3> QED BY <1>2, <1>4, <3>2, <3>3 DEF One
  <2> QED BY <2>1, <2>2
<1> QED BY <1>1, <1>2, <1>3, <1>5, <1>6, <1>7, <1>8, <1>9, <1>10, <1>11, <1>12, <1>13, ProgramKeeps

LEMMA LoadRecvKeeps ==
  ASSUME IInv, IInv', EchoInv, NEW c \in Conn, LoadRecv(c)
  PROVE  EchoInv'
<1> DEFINE n == Taken(Cli(c), M)
<1>1. EchoTypeOK /\ Cli(c) \in Sock /\ M \in Nat
  BY Sockets, EchoAssumption DEF EchoInv
<1>2. n \in Nat /\ n <= in[Cli(c)]
  BY <1>1, TakenIs
<1>3. ReadOnly(Cli(c), n)
  <2>1. n = 0 => Gone(Cli(c))
    BY DEF LoadRecv
  <2> QED BY <2>1 DEF LoadRecv, ReadOnly
<1>4. /\ client[c] = "waiting" /\ "sending" \in {"sending", "spinning"}
      /\ client' = [client EXCEPT ![c] = "sending"]
      /\ UNCHANGED <<pair, left, server, hand, backlog, cut>>
      /\ split' = split \/ split' = split \cup {c}
      /\ n > 0 \/ Gone(Cli(c))
      /\ n > 0 /\ n # M => split' = split \cup {c}
  BY DEF LoadRecv, NoteSplit, Parted
<1>5. split \subseteq Conn /\ in[Cli(c)] \in Nat
  BY <1>1 DEF EchoTypeOK
<1> HIDE DEF n
<1>6. n = M \/ (n = 0 /\ Gone(Cli(c))) \/ split' = split \cup {c}
  BY <1>2, <1>4
<1> QED BY <1>2, <1>3, <1>4, <1>5, <1>6, ClientReads

LEMMA SimpleSpinsKeeps ==
  ASSUME IInv, IInv', EchoInv, NEW c \in Conn, SimpleSpins(c)
  PROVE  EchoInv'
<1> DEFINE n == Taken(Cli(c), M)
<1>1. EchoTypeOK /\ Cli(c) \in Sock /\ M \in Nat
  BY Sockets, EchoAssumption DEF EchoInv
<1>2. n \in Nat /\ n <= in[Cli(c)]
  BY <1>1, TakenIs
<1>3. ReadOnly(Cli(c), n) /\ pair = "simple"
  BY DEF SimpleSpins, ReadOnly
<1>4. /\ client[c] = "waiting" /\ "spinning" \in {"sending", "spinning"}
      /\ client' = [client EXCEPT ![c] = "spinning"]
      /\ UNCHANGED <<pair, left, server, hand, backlog, cut>>
      /\ split' = split \/ split' = split \cup {c}
  BY DEF SimpleSpins, NoteSplit
<1>5. split \subseteq Conn
  BY <1>1 DEF EchoTypeOK
<1> HIDE DEF n
<1> QED BY <1>2, <1>3, <1>4, <1>5, ClientReads

LEMMA SvrSpinsKeeps ==
  ASSUME IInv, IInv', EchoInv, NEW c \in Conn, SvrSpins(c)
  PROVE  EchoInv'
<1> DEFINE n == Taken(Srv(c), M)
<1>0. EchoTypeOK /\ Places /\ Wires /\ NoneMade /\ RoundTrip
      /\ OneAtOnce /\ ServerSurvives /\ Served
      /\ TypeOK /\ TypeOK' /\ Srv(c) \in Sock /\ M \in Nat
  BY Sockets, EchoAssumption DEF EchoInv, IInv
<1>1. n \in Nat /\ n <= in[Srv(c)]
  BY <1>0, TakenIs
<1>2. /\ ReadOnly(Srv(c), n) /\ pair = "simple" /\ server[c] = "running"
      /\ server' = [server EXCEPT ![c] = "spinning"]
      /\ UNCHANGED vars /\ UNCHANGED <<pair, client, left, hand, backlog, out, closing, dead, unwanted,
                                            hit, cut>>
      /\ split' = split \/ split' = split \cup {c}
      /\ n > 0 => split' = split \cup {c}
      /\ n > 0 \/ Gone(Srv(c))
  BY DEF SvrSpins, ReadOnly, NoteSplit
<1> HIDE DEF n
<1>3. /\ in' \in [Sock -> Nat] /\ got' \in [Sock -> Nat]
      /\ got'[Srv(c)] = got[Srv(c)] + n
      /\ \A s \in Sock \ {Srv(c)} : in'[s] = in[s] /\ got'[s] = got[s]
      /\ Wires'
  BY <1>0, <1>1, <1>2, ReadDoes
<1>4. \A d \in Conn : Balanced(d)
  BY <1>0, <1>1, <1>2, ReadBalanced
<1>5. /\ server'[c] = "spinning"
      /\ \A d \in Conn \ {c} : server'[d] = server[d]
      /\ \A d \in Conn : /\ Cli(d) \in Sock /\ Srv(d) \in Sock /\ Cli(d) # Srv(c)
                         /\ Srv(d) = Srv(c) => d = c
                         /\ Start(d)' = Start(d)
  BY <1>0, <1>2, Sockets, SentSame DEF EchoTypeOK
<1>6. EchoTypeOK'
  <2>1. server' \in [Conn -> {"none", "running", "echoing", "spinning", "orphan", "ended",
                             "piped"}]
    BY <1>0, <1>2 DEF EchoTypeOK
  <2> QED BY <1>0, <1>2, <1>3, <2>1 DEF EchoTypeOK
<1>7. Srv(c) \notin hit
  BY <1>0, <1>2 DEF Places
<1>8. Places'
  <2>1. \A d \in Conn : Housed(d)'
    BY <1>0, <1>2, <1>5, <1>7 DEF Places, Housed
  <2>2. ServerDown' => backlog' = <<>>
    BY <1>0, <1>2, <1>5 DEF Places, ServerDown
  <2>3. \A i \in DOMAIN backlog : backlog[i] \in Conn /\ backlog[i] # c
    BY <1>0, <1>2 DEF EchoTypeOK, Places
  <2>4. \A i \in DOMAIN backlog' :
         /\ server'[backlog'[i]] = "none" /\ peer'[Srv(backlog'[i])] # "absent"
         /\ \A j \in DOMAIN backlog' : backlog'[i] = backlog'[j] => i = j
    BY <1>0, <1>2, <1>5, <2>3 DEF Places
  <2>5. \A d \in Conn :
         /\ client'[d] = "idle" <=> peer'[Cli(d)] = "absent"
         /\ client'[d] = "idle" => left'[d] = Start(d)' /\ peer'[Srv(d)] = "absent"
         /\ client'[d] = "spinning" => pair' = "simple"
         /\ left'[d] <= Start(d)'
         /\ Cli(d) \in dead' <=> client'[d] \in Finished
         /\ Gone(Srv(d))' => Gone(Cli(d))'
    BY <1>0, <1>2, <1>5 DEF Places, Gone
  <2> QED BY <2>1, <2>2, <2>4, <2>5 DEF Places, Housed
<1>9. ServerSurvives'
  BY <1>0, <1>2, <1>3, <1>5, <1>7 DEF ServerSurvives
<1>10. Served'
  BY <1>0, <1>2, <1>3, <1>5 DEF Served
<1>11. Disturbed => Disturbed'
  <2>1. \A d \in Conn : server[d] = "orphan" => server'[d] = "orphan"
    BY <1>2, <1>5
  <2> QED BY <1>2, <2>1 DEF Disturbed, Running
<1>12. NoReset => NoReset'
  BY <1>2 DEF NoReset, HungUp
<1>13. \A s \in Sock : Ended(s) => Ended(s)'
  BY <1>2 DEF Ended
<1> QED BY <1>2, <1>3, <1>4, <1>6, <1>8, <1>9, <1>10, <1>11, <1>12, <1>13, ProgramKeeps

-----------------------------------------------------------------------------
(* A server accepts, a client connects and sends.                           *)

LEMMA ServesKeeps ==
  ASSUME IInv, IInv', EchoInv, Accepted \/ NoThread
  PROVE  EchoInv'
<1> DEFINE c == Head(backlog)
<1>0. EchoTypeOK /\ Places /\ Wires /\ NoneMade /\ RoundTrip
      /\ OneAtOnce /\ ServerSurvives /\ Served
      /\ TypeOK /\ TypeOK'
  BY DEF EchoInv, IInv
<1>1. PICK how \in {"running", "orphan"} :
         /\ how = "orphan" => pair = "load"
         /\ backlog # <<>> /\ backlog' = Tail(backlog)
         /\ server' = [server EXCEPT ![c] = how]
         /\ UNCHANGED vars /\ UNCHANGED <<pair, client, left, hand, wire, split, cut>>
  BY DEF Accepted, NoThread, Serves
<1>2. /\ backlog \in Seq(Conn) /\ c \in Conn /\ Len(backlog) \in Nat /\ Len(backlog) >= 1
      /\ c = backlog[1] /\ backlog' \in Seq(Conn)
      /\ DOMAIN backlog = 1 .. Len(backlog) /\ DOMAIN backlog' = 1 .. Len(backlog) - 1
      /\ \A i \in 1 .. Len(backlog) - 1 : backlog'[i] = backlog[i + 1]
  BY <1>0, <1>1, HeadTailProperties DEF EchoTypeOK
<1> HIDE DEF c
<1>3. server[c] = "none" /\ peer[Srv(c)] # "absent"
  BY <1>0, <1>2 DEF Places
<1>4. /\ server'[c] = how /\ \A d \in Conn \ {c} : server'[d] = server[d]
      /\ server' \in [Conn -> {"none", "running", "echoing", "spinning", "orphan", "ended",
                              "piped"}]
      /\ \A d \in Conn : /\ Cli(d) \in Sock /\ Srv(d) \in Sock
                         /\ Start(d)' = Start(d) /\ Sent(d)' = Sent(d)
  BY <1>0, <1>1, <1>2, Sockets, SentSame DEF EchoTypeOK
<1>5. EchoTypeOK'
  BY <1>0, <1>1, <1>2, <1>4 DEF EchoTypeOK
<1>6. Places'
  <2>1. /\ Srv(c) \notin dead /\ hand[c] = 0
        /\ Srv(c) \in hit => pair = "load"
    BY <1>0, <1>2, <1>3 DEF Places, EchoTypeOK, ReadLen
  <2>2. \A d \in Conn :
         /\ client'[d] = "idle" <=> peer'[Cli(d)] = "absent"
         /\ client'[d] = "idle" => left'[d] = Start(d)' /\ peer'[Srv(d)] = "absent"
         /\ client'[d] = "spinning" => pair' = "simple"
         /\ left'[d] <= Start(d)'
         /\ Cli(d) \in dead' <=> client'[d] \in Finished
         /\ Gone(Srv(d))' => Gone(Cli(d))'
    BY <1>0, <1>1, <1>4 DEF Places, Gone
  <2>3. \A d \in Conn : Housed(d)'
    BY <1>0, <1>1, <1>3, <1>4, <2>1 DEF Places, Housed
  <2>4. ASSUME NEW i \in DOMAIN backlog'
        PROVE  /\ server'[backlog'[i]] = "none" /\ peer'[Srv(backlog'[i])] # "absent"
               /\ \A j \in DOMAIN backlog' : backlog'[i] = backlog'[j] => i = j
    <3>1. /\ i \in 1 .. Len(backlog) - 1 /\ i + 1 \in DOMAIN backlog /\ 1 \in DOMAIN backlog
          /\ i + 1 # 1 /\ backlog'[i] = backlog[i + 1] /\ backlog[i + 1] \in Conn
      BY <1>2, <2>4
    <3>2. /\ server[backlog[i + 1]] = "none" /\ peer[Srv(backlog[i + 1])] # "absent"
          /\ backlog[i + 1] # c
      BY <1>0, <1>2, <3>1 DEF Places
    <3>3. ASSUME NEW j \in DOMAIN backlog', backlog'[i] = backlog'[j] PROVE i = j
      <4>1. j \in 1 .. Len(backlog) - 1 /\ j + 1 \in DOMAIN backlog /\ backlog'[j] = backlog[j + 1]
        BY <1>2, <3>3
      <4>2. i + 1 = j + 1
        BY <1>0, <3>1, <3>3, <4>1 DEF Places
      <4> QED BY <3>1, <4>1, <4>2
    <3> QED BY <1>1, <1>4, <3>1, <3>2, <3>3
  <2>5. ~ServerDown'
    BY <1>0, <1>1, <1>4 DEF Places, ServerDown
  <2> QED BY <2>2, <2>3, <2>4, <2>5 DEF Places, Housed
<1>7. Wires'
  BY <1>0, <1>1 DEF Wires, Ended, Gone
<1>8. ASSUME NEW d \in Conn PROVE Balanced(d)
  <2>1. /\ Sent(d) \in Int /\ got[Srv(d)] \in Nat /\ There(d) \in Nat /\ Back(d) \in Nat
    BY <1>0, <1>4, Units DEF Counted
  <2>2. There(d)' = There(d) /\ Back(d)' = Back(d) /\ (Whole(d)' <=> Whole(d)) /\ Sent(d)' = Sent(d)
    BY <1>1, <1>4 DEF There, Back, Whole, Gone
  <2> QED BY <1>1, <2>1, <2>2 DEF Balanced
<1>9. ServerSurvives'
  BY <1>0, <1>1, <1>4 DEF ServerSurvives
<1>10. Served'
  BY <1>0, <1>1, <1>4 DEF Served
<1>11. Disturbed => Disturbed'
  <2>1. \A d \in Conn : server[d] = "orphan" => server'[d] = "orphan"
    BY <1>3, <1>4
  <2> QED BY <1>1, <2>1 DEF Disturbed, Running
<1>12. Turns => Turns'
  BY <1>1, <1>4 DEF Turns, Gone
<1>13. NoReset => NoReset'
  BY <1>1 DEF NoReset, HungUp
<1>14. \A s \in Sock : Ended(s) => Ended(s)'
  BY <1>1 DEF Ended
<1>15. \A d \in Conn : Still(d)
  BY <1>1, <1>4 DEF Still, Gone
<1> QED
  BY <1>1, <1>5, <1>6, <1>7, <1>8, <1>9, <1>10, <1>11, <1>12, <1>13, <1>14, <1>15, ProgramKeeps

LEMMA ConnectKeeps ==
  ASSUME IInv, IInv', EchoInv, NEW c \in Conn, Connect(c)
  PROVE  EchoInv'
<1>0. EchoTypeOK /\ Places /\ Wires /\ NoneMade /\ RoundTrip
      /\ OneAtOnce /\ ServerSurvives /\ Served
      /\ TypeOK /\ TypeOK' /\ Cli(c) \in Sock /\ Srv(c) \in Sock
  BY Sockets DEF EchoInv, IInv
<1>1. /\ client[c] = "idle" /\ client' = [client EXCEPT ![c] = "sending"]
      /\ peer[Cli(c)] = "absent" /\ peer' = [peer EXCEPT ![Cli(c)] = "up"]
      /\ UNCHANGED <<fds, rcv, events, cur, total_sent, pc>>
      /\ UNCHANGED <<pair, left, server, hand, backlog, wire, split, cut>>
  BY SocketsOf DEF Connect, ClientConnect
<1>2. /\ client'[c] = "sending" /\ \A d \in Conn \ {c} : client'[d] = client[d]
      /\ client' \in [Conn -> {"idle", "spinning"} \cup Talking \cup Finished]
      /\ peer'[Cli(c)] = "up" /\ \A s \in Sock \ {Cli(c)} : peer'[s] = peer[s]
      /\ \A d \in Conn : /\ Cli(d) \in Sock /\ Srv(d) \in Sock /\ Srv(d) # Cli(c)
                         /\ Cli(d) = Cli(c) => d = c
                         /\ Start(d)' = Start(d) /\ Sent(d)' = Sent(d)
  BY <1>0, <1>1, Sockets, SentSame DEF EchoTypeOK, TypeOK, Talking
<1>3. left[c] = Start(c) /\ peer[Srv(c)] = "absent"
  BY <1>0, <1>1 DEF Places
<1>4. /\ \A s \in {Cli(c), Srv(c)} :
           out[s] = 0 /\ rcv[s] = 0 /\ in[s] = 0 /\ got[s] = 0 /\ s \notin dead
      /\ Sent(c) = 0
  <2>1. Start(c) \in Nat /\ M \in Nat
    BY <1>0, Units DEF Counted
  <2>2. Sent(c) = 0
    BY <1>3, <2>1 DEF Sent
  <2> QED BY <1>0, <1>1, <1>3, <2>2 DEF Wires
<1>5. EchoTypeOK'
  BY <1>0, <1>1, <1>2 DEF EchoTypeOK
<1>6. Places'
  <2>1. \A d \in Conn :
         /\ client'[d] = "idle" <=> peer'[Cli(d)] = "absent"
         /\ client'[d] = "idle" => left'[d] = Start(d)' /\ peer'[Srv(d)] = "absent"
         /\ client'[d] = "spinning" => pair' = "simple"
         /\ left'[d] <= Start(d)'
         /\ Cli(d) \in dead' <=> client'[d] \in Finished
    BY <1>0, <1>1, <1>2 DEF Places, Finished
  <2>2. \A d \in Conn : (Gone(Srv(d))' => Gone(Cli(d))') /\ Housed(d)'
    BY <1>0, <1>1, <1>2, <1>3 DEF Places, Housed, Gone
  <2>3. \A i \in DOMAIN backlog : backlog[i] \in Conn
    BY <1>0 DEF EchoTypeOK
  <2>4. \A i \in DOMAIN backlog' :
         /\ server'[backlog'[i]] = "none" /\ peer'[Srv(backlog'[i])] # "absent"
         /\ \A j \in DOMAIN backlog' : backlog'[i] = backlog'[j] => i = j
    BY <1>0, <1>1, <1>2, <2>3 DEF Places
  <2>5. ServerDown' => backlog' = <<>>
    BY <1>0, <1>1 DEF Places, ServerDown
  <2> QED BY <2>1, <2>2, <2>4, <2>5 DEF Places, Housed
<1>7. \A s \in Sock : /\ Ended(s) => Ended(s)'
                      /\ Gone(s)' <=> Gone(s)
                      /\ HungUp(s)' <=> HungUp(s)
  BY <1>1, <1>2 DEF Ended, Gone, HungUp
<1>8. Wires'
  <2>1. Cli(c) \notin closing /\ Cli(c) \notin hit
    BY <1>0, <1>1, <1>4 DEF Wires, EchoTypeOK, Gone
  <2> QED BY <1>0, <1>1, <1>2, <1>4, <2>1 DEF Wires, Ended, Gone
<1>9. ASSUME NEW d \in Conn PROVE Balanced(d)
  <2>1. /\ Sent(d) \in Int /\ got[Srv(d)] \in Nat /\ There(d) \in Nat /\ Back(d) \in Nat
    BY <1>0, <1>2, Units DEF Counted
  <2>2. There(d)' = There(d) /\ Back(d)' = Back(d) /\ Sent(d)' = Sent(d) /\ got'[Srv(d)] = got[Srv(d)]
    BY <1>1, <1>2 DEF There, Back
  <2>3. d # c => (Whole(d)' => Whole(d))
    BY <1>1, <1>2 DEF Whole, Gone
  <2>4. d = c => There(d) = 0 /\ Back(d) = 0 /\ Sent(d) = 0 /\ got[Srv(d)] = 0
    <3>1. hand[c] = 0
      BY <1>0, <1>3, EchoAssumption DEF Places, EchoTypeOK, ReadLen
    <3> QED BY <1>4, <3>1 DEF There, Back
  <2> QED BY <2>1, <2>2, <2>3, <2>4 DEF Balanced
<1>10. ServerSurvives'
  BY <1>0, <1>1 DEF ServerSurvives
<1>11. Served'
  BY <1>0, <1>1, <1>2 DEF Served
<1>12. Disturbed => Disturbed'
  <2>1. \A d \in Conn : client[d] = "killed" => client'[d] = "killed"
    BY <1>1, <1>2
  <2> QED BY <1>1, <2>1 DEF Disturbed, Running
<1>13. Turns => Turns'
  <2>1. ~Gone(Cli(c))' /\ got'[Cli(c)] = Sent(c)' /\ UNCHANGED <<got, server, left>>
    BY <1>1, <1>2, <1>4 DEF Gone
  <2> QED BY <1>2, <1>7, <2>1 DEF Turns
<1>14. NoReset => NoReset'
  BY <1>1, <1>7 DEF NoReset
<1>15. ASSUME NEW d \in Conn PROVE d \in split' \/ pair # "load" \/ One(d)' \/ Still(d)
  <2>1. CASE d # c
    BY <1>1, <1>2, <1>7, <2>1 DEF Still
  <2>2. CASE d = c
    <3>1. hand[c] = 0 /\ There(c) = 0 /\ M \in Nat
      BY <1>0, <1>3, <1>4, EchoAssumption DEF Places, EchoTypeOK, ReadLen, There
    <3>2. There(c)' = There(c) /\ hand'[c] = hand[c]
      BY <1>1 DEF There
    <3> QED BY <1>1, <1>2, <1>4, <2>2, <3>1, <3>2 DEF One
  <2> QED BY <2>1, <2>2
<1> QED
  BY <1>1, <1>5, <1>6, <1>7, <1>8, <1>9, <1>10, <1>11, <1>12, <1>13, <1>14, <1>15, ProgramKeeps

LEMMA WriteDoes ==
  ASSUME EchoTypeOK, NEW s0 \in Sock, NEW n \in Nat, Write(s0, n)
  PROVE  /\ out' \in [Sock -> Nat] /\ hit' \subseteq Sock /\ hit \subseteq hit'
         /\ Gone(s0) => out'[s0] = out[s0]
         /\ ~Gone(s0) => out'[s0] = out[s0] + n /\ hit' = hit
         /\ \A s \in Sock \ {s0} : out'[s] = out[s] /\ (s \in hit' <=> s \in hit)
<1>1. CASE Gone(s0)
  BY <1>1 DEF Write, EchoTypeOK
<1>2. CASE ~Gone(s0)
  <2>1. out' = [out EXCEPT ![s0] = @ + n] /\ hit' = hit
    BY <1>2 DEF Write
  <2> QED BY <1>2, <2>1 DEF EchoTypeOK
<1> QED BY <1>1, <1>2

LEMMA SendKeeps ==
  ASSUME IInv, IInv', EchoInv, NEW c \in Conn, Send(c)
  PROVE  EchoInv'
<1>0. EchoTypeOK /\ Places /\ Wires /\ NoneMade /\ RoundTrip
      /\ OneAtOnce /\ ServerSurvives /\ Served
      /\ TypeOK /\ TypeOK' /\ Cli(c) \in Sock /\ M \in Nat /\ left[c] \in Nat
  BY Sockets, EchoAssumption DEF EchoInv, IInv, EchoTypeOK
<1>1. /\ client[c] = "sending" /\ left[c] > 0 /\ Write(Cli(c), M)
      /\ client' = [client EXCEPT ![c] = "waiting"]
      /\ left' = [left EXCEPT ![c] = @ - 1]
      /\ UNCHANGED vars
      /\ UNCHANGED <<pair, server, hand, backlog, in, got, closing, dead, unwanted, split, cut>>
  BY DEF Send
<1>2. /\ out' \in [Sock -> Nat] /\ hit' \subseteq Sock /\ hit \subseteq hit'
      /\ Gone(Cli(c)) => out'[Cli(c)] = out[Cli(c)]
      /\ ~Gone(Cli(c)) => out'[Cli(c)] = out[Cli(c)] + M /\ hit' = hit
      /\ \A s \in Sock \ {Cli(c)} : out'[s] = out[s] /\ (s \in hit' <=> s \in hit)
  BY <1>0, <1>1, WriteDoes
<1>3. Cli(c) \notin dead /\ peer[Cli(c)] \in {"up", "gone"}
  BY <1>0, <1>1 DEF Places, Wires, Ended, TypeOK, PeerState, Finished
<1>4. /\ client'[c] = "waiting" /\ left'[c] = left[c] - 1
      /\ \A d \in Conn \ {c} : client'[d] = client[d] /\ left'[d] = left[d]
      /\ \A d \in Conn : /\ Cli(d) \in Sock /\ Srv(d) \in Sock /\ Srv(d) # Cli(c)
                         /\ Cli(d) = Cli(c) => d = c
                         /\ Start(d)' = Start(d)
      /\ Sent(c)' = Sent(c) + M
      /\ \A d \in Conn \ {c} : Sent(d)' = Sent(d)
  BY <1>0, <1>1, Sockets, SentMore DEF EchoTypeOK
<1>5. EchoTypeOK'
  <2>1. client' \in [Conn -> {"idle", "spinning"} \cup Talking \cup Finished]
    BY <1>0, <1>1 DEF EchoTypeOK, Talking
  <2>2. left' \in [Conn -> Nat]
    BY <1>0, <1>1 DEF EchoTypeOK
  <2> QED BY <1>0, <1>1, <1>2, <2>1, <2>2 DEF EchoTypeOK
<1>6. Places'
  <2>1. \A d \in Conn : Cli(d) \in dead' <=> client'[d] \in Finished
    BY <1>0, <1>1, <1>3, <1>4 DEF Places, Finished
  <2>2. \A d \in Conn : /\ client'[d] = "idle" <=> client[d] = "idle"
                        /\ client'[d] = "spinning" => client[d] = "spinning"
                        /\ client'[d] = "idle" => left'[d] = left[d]
    BY <1>1, <1>4
  <2>3. \A d \in Conn : left'[d] <= Start(d)
    <3>1. left[c] <= Start(c) /\ Start(c) \in Nat
      BY <1>0, EchoAssumption DEF Places, Start
    <3> QED BY <1>0, <1>4, <3>1 DEF Places
  <2>4. \A i \in DOMAIN backlog : backlog[i] \in Conn
    BY <1>0 DEF EchoTypeOK
  <2>5. \A d \in Conn : Srv(d) \in hit' => Srv(d) \in hit
    BY <1>2, <1>4
  <2> QED BY <1>0, <1>1, <1>4, <2>1, <2>2, <2>3, <2>4, <2>5 DEF Places, Gone, ServerDown
<1>7. Wires'
  <2>1. ASSUME NEW s \in Sock
        PROVE /\ out'[s] > 0 => peer[s] = "up"
              /\ s \in hit' => Gone(s)
              /\ peer[s] = "absent" => out'[s] = 0
    <3>1. CASE s = Cli(c)
      BY <1>0, <1>2, <1>3, <3>1 DEF Wires, Gone
    <3>2. CASE s # Cli(c)
      BY <1>0, <1>2, <3>2 DEF Wires
    <3> QED BY <3>1, <3>2
  <2> QED BY <1>0, <1>1, <2>1 DEF Wires, Ended, Gone
<1>8. ASSUME NEW d \in Conn PROVE Balanced(d)
  <2>1. /\ \A s \in {Cli(d), Srv(d)} :
             /\ out[s] \in Nat /\ rcv[s] \in Nat /\ in[s] \in Nat /\ got[s] \in Nat
             /\ out'[s] \in Nat /\ rcv'[s] = rcv[s] /\ in'[s] = in[s] /\ got'[s] = got[s]
        /\ Sent(d) \in Int /\ hand[d] \in Nat
    BY <1>0, <1>1, <1>2, <1>4, Units DEF Counted
  <2>2. Whole(d)' <=> Whole(d)
    BY <1>1 DEF Whole, Gone
  <2>3. Back(d)' = Back(d) /\ Back(d) \in Nat /\ There(d) \in Nat /\ There(d)' \in Nat
    <3>1. out'[Srv(d)] = out[Srv(d)] /\ hand'[d] = hand[d]
      BY <1>1, <1>2, <1>4
    <3> QED BY <2>1, <3>1 DEF There, Back
  <2>4. CASE d = c
    <3>1. There(c)' <= There(c) + M /\ (~Gone(Cli(c)) => There(c)' = There(c) + M)
      BY <1>0, <1>2, <2>1, <2>4 DEF There
    <3>2. Whole(c) => ~Gone(Cli(c))
      BY DEF Whole, Gone
    <3> QED BY <1>0, <1>4, <2>1, <2>2, <2>3, <2>4, <3>1, <3>2 DEF Balanced
  <2>5. CASE d # c
    <3>1. There(d)' = There(d) /\ Sent(d)' = Sent(d)
      BY <1>2, <1>4, <2>1, <2>5 DEF There
    <3> QED BY <2>1, <2>2, <2>3, <3>1 DEF Balanced
  <2> QED BY <2>4, <2>5
<1>9. ServerSurvives'
  BY <1>0, <1>1, <1>2, <1>4 DEF ServerSurvives
<1>10. Served'
  BY <1>0, <1>1, <1>4 DEF Served
<1>11. Disturbed => Disturbed'
  <2>1. \A d \in Conn : client[d] = "killed" => client'[d] = "killed"
    BY <1>1, <1>4
  <2> QED BY <1>1, <2>1 DEF Disturbed, Running
<1>12. ASSUME ~Disturbed, pair = "load", Turns PROVE Turns'
  <2>1. got[Cli(c)] = Sent(c) /\ ~Gone(Cli(c))
    BY <1>1, <1>12 DEF Turns
  <2>2. got[Srv(c)] = Sent(c)
    <3>1. There(c) + Back(c) = Sent(c) /\ got[Srv(c)] = Back(c)
      BY <1>0, <1>1, <1>12, <2>1, AloneWhole DEF RoundTrip, Talking
    <3>2. \A s \in {Cli(c), Srv(c)} :
            out[s] \in Nat /\ rcv[s] \in Nat /\ in[s] \in Nat /\ got[s] \in Nat
      BY <1>0, <1>4, Units DEF Counted
    <3>3. Back(c) >= got[Cli(c)] /\ There(c) \in Nat /\ Back(c) \in Nat /\ Sent(c) \in Int
      <4>1. Counted /\ hand[c] \in Nat
        BY <1>0, Units DEF Counted
      <4> QED BY <3>2, <4>1 DEF Back, Counted
    <3> HIDE DEF Back, There, Sent
    <3> QED BY <2>1, <3>1, <3>2, <3>3
  <2>3. /\ got'[Cli(c)] + M = Sent(c)' /\ ~Gone(Cli(c))'
        /\ got'[Srv(c)] + M = Sent(c)'
    BY <1>1, <1>4, <2>1, <2>2 DEF Gone
  <2>4. server[c] \in {"ended", "piped"} => Gone(Srv(c))
    BY <1>12 DEF Turns
  <2>5. ASSUME NEW d \in Conn \ {c}
        PROVE  /\ client'[d] = "sending" => got'[Cli(d)] = Sent(d)' /\ ~Gone(Cli(d))'
               /\ client'[d] = "waiting" =>
                    /\ got'[Cli(d)] + M = Sent(d)' /\ ~Gone(Cli(d))'
                    /\ got'[Srv(d)] + M = Sent(d)' \/ got'[Srv(d)] = Sent(d)'
               /\ client'[d] = "closed" => got'[Cli(d)] = Sent(d)' /\ left'[d] = 0
               /\ server'[d] \in {"ended", "piped"} => Gone(Srv(d))'
    BY <1>1, <1>4, <1>12 DEF Turns, Gone
  <2> QED BY <1>1, <1>4, <2>3, <2>4, <2>5 DEF Turns, Gone
<1>13. NoReset => NoReset'
  BY <1>1 DEF NoReset, HungUp
<1>14. \A s \in Sock : Ended(s) => Ended(s)'
  BY <1>1 DEF Ended
<1>15. ASSUME NEW d \in Conn PROVE d \in split' \/ pair # "load" \/ One(d)' \/ Still(d)
  <2>1. CASE d # c
    BY <1>1, <1>2, <1>4, <2>1 DEF Still, Gone
  <2>2. CASE d = c
    <3>1. SUFFICES ASSUME c \notin split, pair = "load" PROVE One(c)'
      BY <1>1, <2>2
    <3>2. One(c)
      BY <1>0, <3>1, OneAtOnceIs
    <3>3. /\ There(c)' \in Nat /\ There(c) \in Nat /\ Back(c) \in Nat /\ Sent(c) \in Int
          /\ hand[c] \in Nat /\ There(c) + Back(c) <= Sent(c)
          /\ \A s \in {Cli(c), Srv(c)} :
               out[s] \in Nat /\ rcv[s] \in Nat /\ in[s] \in Nat /\ got[s] \in Nat
      BY <1>0, <1>4, <1>5, Units, UnitsAfter DEF Counted, NoneMade
    <3>4. CASE Gone(Cli(c))
      <4>1. There(c)' = There(c)
        BY <1>1, <1>2, <1>4, <3>4 DEF There
      <4> QED BY <1>1, <1>2, <1>4, <3>2, <3>4, <4>1 DEF One, Gone
    <3>5. CASE ~Gone(Cli(c))
      <4>1. got[Cli(c)] = Sent(c)
        BY <1>1, <3>2, <3>5 DEF One
      <4>2. Back(c) >= hand[c] + got[Cli(c)]
        BY <3>3 DEF Back
      <4>3. There(c) = 0 /\ hand[c] = 0
        <5> HIDE DEF There, Back, Sent
        <5> QED BY <3>3, <4>1, <4>2
      <4>4. There(c)' = There(c) + M
        BY <1>0, <1>1, <1>2, <1>4, <3>3, <3>5 DEF There
      <4>5. Srv(c) \notin hit'
        BY <1>0, <1>2, <1>4, <3>5 DEF Wires, Places
      <4> QED BY <1>0, <1>1, <1>4, <4>1, <4>3, <4>4, <4>5 DEF One
    <3> QED BY <3>4, <3>5
  <2> QED BY <2>1, <2>2
<1> QED
  BY <1>1, <1>5, <1>6, <1>7, <1>8, <1>9, <1>10, <1>11, <1>12, <1>13, <1>14, <1>15, ProgramKeeps

LEMMA TypedKeeps ==
  ASSUME IInv, IInv', EchoInv, NEW c \in Conn, Typed(c)
  PROVE  EchoInv'
BY SendKeeps DEF Typed

-----------------------------------------------------------------------------
(* A server echoes.                                                         *)

\* A thread that reads has the one message there is, unless it came in parts; so its
\* connection has seen no answer to a closed forwarder.
LEMMA ThreadReadKeeps ==
  ASSUME IInv, IInv', EchoInv, NEW c \in Conn, ThreadRead(c)
  PROVE  EchoInv'
<1> DEFINE s0 == Srv(c)
           n == Taken(s0, ReadLen)
<1>0. EchoTypeOK /\ Places /\ Wires /\ NoneMade /\ RoundTrip
      /\ OneAtOnce /\ ServerSurvives /\ Served
      /\ TypeOK /\ TypeOK' /\ s0 \in Sock /\ M \in Nat /\ M > 1
      /\ in[s0] \in Nat /\ got[s0] \in Nat /\ ReadLen \in Nat
  BY Sockets, EchoAssumption DEF EchoInv, IInv, EchoTypeOK, ReadLen
<1>1. /\ pair = "load" /\ server[c] = "running" /\ n > 0
      /\ ReadOnly(s0, n) /\ hit' = hit
      /\ hand' = [hand EXCEPT ![c] = n] /\ server' = [server EXCEPT ![c] = "echoing"]
      /\ split' = split \/ split' = split \cup {c}
      /\ n # M => split' = split \cup {c}
      /\ UNCHANGED vars
      /\ UNCHANGED <<pair, client, left, backlog, out, closing, dead, unwanted, hit, cut>>
  BY DEF ThreadRead, Thread, ReadOnly, NoteSplit, Parted
<1>2. n \in Nat /\ n <= in[s0] /\ n <= ReadLen
  BY <1>0, TakenIs
<1> HIDE DEF n
<1>3. /\ in' \in [Sock -> Nat] /\ got' \in [Sock -> Nat]
      /\ in'[s0] = in[s0] - n /\ got'[s0] = got[s0] + n
      /\ \A s \in Sock \ {s0} : in'[s] = in[s] /\ got'[s] = got[s]
      /\ Wires'
  BY <1>0, <1>1, <1>2, ReadDoes
<1>4. hand[c] = 0 /\ s0 \notin dead /\ peer[s0] # "absent"
  <2>1. hand[c] \in Nat
    BY <1>0, EchoAssumption DEF EchoTypeOK, ReadLen
  <2> QED BY <1>0, <1>1, <2>1 DEF Places
<1>5. /\ server'[c] = "echoing" /\ hand'[c] = n
      /\ \A d \in Conn \ {c} : server'[d] = server[d] /\ hand'[d] = hand[d]
      /\ \A d \in Conn : /\ Cli(d) \in Sock /\ Srv(d) \in Sock /\ Cli(d) # s0
                         /\ Srv(d) = s0 => d = c
                         /\ Start(d)' = Start(d) /\ Sent(d)' = Sent(d)
  BY <1>0, <1>1, <1>2, Sockets, SentSame DEF EchoTypeOK
<1>6. EchoTypeOK'
  <2>1. /\ server' \in [Conn -> {"none", "running", "echoing", "spinning", "orphan", "ended",
                                "piped"}]
        /\ hand' \in [Conn -> 0 .. ReadLen]
    BY <1>0, <1>1, <1>2 DEF EchoTypeOK
  <2>2. split' \subseteq Conn
    BY <1>0, <1>1 DEF EchoTypeOK
  <2> QED BY <1>0, <1>1, <1>3, <2>1, <2>2 DEF EchoTypeOK
<1>7. Places'
  <2>1. \A d \in Conn : Housed(d)'
    BY <1>0, <1>1, <1>2, <1>4, <1>5 DEF Places, Housed
  <2>2. \A d \in Conn :
         /\ client'[d] = "idle" <=> peer'[Cli(d)] = "absent"
         /\ client'[d] = "idle" => left'[d] = Start(d)' /\ peer'[Srv(d)] = "absent"
         /\ client'[d] = "spinning" => pair' = "simple"
         /\ left'[d] <= Start(d)'
         /\ Cli(d) \in dead' <=> client'[d] \in Finished
         /\ Gone(Srv(d))' => Gone(Cli(d))'
    BY <1>0, <1>1, <1>5 DEF Places, Gone
  <2>3. \A i \in DOMAIN backlog : backlog[i] \in Conn /\ backlog[i] # c
    BY <1>0, <1>1 DEF EchoTypeOK, Places
  <2>4. \A i \in DOMAIN backlog' :
         /\ server'[backlog'[i]] = "none" /\ peer'[Srv(backlog'[i])] # "absent"
         /\ \A j \in DOMAIN backlog' : backlog'[i] = backlog'[j] => i = j
    BY <1>0, <1>1, <1>5, <2>3 DEF Places
  <2>5. ServerDown' => backlog' = <<>>
    BY <1>0, <1>1, <1>5 DEF Places, ServerDown
  <2> QED BY <2>1, <2>2, <2>4, <2>5 DEF Places, Housed
<1>8. /\ There(c)' + n = There(c) /\ There(c) \in Nat /\ There(c)' \in Nat
      /\ Back(c)' = Back(c) + n /\ Back(c) \in Nat /\ Sent(c) \in Int
  <2>1. \A s \in {Cli(c), Srv(c)} :
          /\ out[s] \in Nat /\ rcv[s] \in Nat /\ in[s] \in Nat /\ got[s] \in Nat
          /\ out'[s] = out[s] /\ rcv'[s] = rcv[s] /\ in'[s] \in Nat /\ got'[s] \in Nat
    BY <1>0, <1>1, <1>3, <1>5, Units DEF Counted
  <2>2. Sent(c) \in Int
    BY <1>0, Units DEF Counted
  <2>3. /\ in'[Cli(c)] = in[Cli(c)] /\ got'[Cli(c)] = got[Cli(c)] /\ hand'[c] = hand[c] + n
        /\ hand[c] \in Nat
    BY <1>2, <1>3, <1>4, <1>5
  <2> QED BY <1>2, <1>3, <2>1, <2>2, <2>3 DEF There, Back
<1>9. ASSUME NEW d \in Conn PROVE Balanced(d)
  <2>1. Whole(d)' <=> Whole(d)
    BY <1>1 DEF Whole, Gone
  <2>2. CASE d = c
    <3> HIDE DEF s0
    <3>1. got'[Srv(c)] = got[Srv(c)] + n /\ got[Srv(c)] \in Nat
      BY <1>0, <1>3 DEF s0
    <3> HIDE DEF There, Back, Sent, Whole
    <3> QED BY <1>2, <1>5, <1>8, <2>1, <2>2, <3>1 DEF Balanced
  <2>3. CASE d # c
    <3>1. There(d)' = There(d) /\ Back(d)' = Back(d) /\ got'[Srv(d)] = got[Srv(d)]
      BY <1>1, <1>3, <1>5, <2>3 DEF There, Back
    <3>2. /\ There(d) \in Nat /\ Back(d) \in Nat /\ Sent(d) \in Int /\ got[Srv(d)] \in Nat
          /\ Sent(d)' = Sent(d)
      BY <1>0, <1>5, Units DEF Counted
    <3> HIDE DEF There, Back, Sent, Whole
    <3> QED BY <2>1, <3>1, <3>2 DEF Balanced
  <2> QED BY <2>2, <2>3
<1>10. ASSUME c \notin split'
       PROVE  n = M /\ There(c)' = 0 /\ s0 \notin hit /\ One(c)
  <2>1. One(c) /\ n = M
    BY <1>0, <1>1, <1>10, OneAtOnceIs
  <2>2. There(c)' = 0 /\ There(c) > 0
    <3> HIDE DEF There
    <3> QED BY <1>0, <1>1, <1>2, <1>8, <2>1 DEF One
  <2> QED BY <2>1, <2>2 DEF One
<1>11. ServerSurvives'
  <2>1. server'[c] = "echoing" /\ Srv(c) \in hit' => c \in split'
    BY <1>1, <1>10
  <2> QED BY <1>0, <1>1, <1>5, <2>1 DEF ServerSurvives
<1>12. Served'
  BY <1>1 DEF Served
<1>13. Disturbed => Disturbed'
  <2>1. \A d \in Conn : server[d] = "orphan" => server'[d] = "orphan"
    BY <1>1, <1>5
  <2> QED BY <1>1, <2>1 DEF Disturbed, Running
<1>14. ASSUME ~Disturbed', Turns PROVE Turns'
  <2>1. n = M
    BY <1>1, <1>14 DEF Disturbed
  <2>2. got[s0] + There(c) <= Sent(c) /\ There(c) > 0
    <3> HIDE DEF There
    <3> QED BY <1>0, <1>1, <1>2, <1>8 DEF NoneMade
  <2>3. ASSUME client[c] = "waiting" PROVE got'[s0] = Sent(c)
    <3>1. got[s0] + M = Sent(c) \/ got[s0] = Sent(c)
      BY <1>14, <2>3 DEF Turns
    <3> HIDE DEF There, Sent
    <3>2. got[s0] # Sent(c)
      BY <1>0, <1>8, <2>2
    <3> QED BY <1>3, <2>1, <3>1, <3>2
  <2>4. \A d \in Conn : got'[Cli(d)] = got[Cli(d)] /\ (d # c => got'[Srv(d)] = got[Srv(d)])
    BY <1>3, <1>5
  <2>5. \A d \in Conn : server'[d] \in {"ended", "piped"} => server'[d] = server[d]
    BY <1>5
  <2> QED BY <1>1, <1>5, <1>14, <2>3, <2>4, <2>5 DEF Turns, Gone
<1>15. NoReset => NoReset'
  BY <1>1 DEF NoReset, HungUp
<1>16. \A s \in Sock : Ended(s) => Ended(s)'
  BY <1>1 DEF Ended
<1>17. ASSUME NEW d \in Conn PROVE d \in split' \/ pair # "load" \/ One(d)' \/ Still(d)
  <2>1. CASE d # c
    BY <1>1, <1>3, <1>5, <2>1 DEF Still, Gone
  <2>2. CASE d = c
    <3>1. c \notin split' => One(c)'
      BY <1>0, <1>1, <1>3, <1>5, <1>10 DEF One, Gone
    <3> QED BY <2>2, <3>1
  <2> QED BY <2>1, <2>2
<1> HIDE DEF s0
<1> QED
  BY <1>1, <1>3, <1>6, <1>7, <1>9, <1>11, <1>12, <1>13, <1>14, <1>15, <1>16, <1>17, ProgramKeeps

LEMMA ThreadEchoKeeps ==
  ASSUME IInv, IInv', EchoInv, NEW c \in Conn, ThreadEcho(c)
  PROVE  EchoInv'
<1> DEFINE s0 == Srv(c)
           n == hand[c]
<1>0. EchoTypeOK /\ Places /\ Wires /\ NoneMade /\ RoundTrip
      /\ OneAtOnce /\ ServerSurvives /\ Served
      /\ TypeOK /\ TypeOK' /\ s0 \in Sock /\ M \in Nat /\ n \in Nat
  <2>1. EchoTypeOK
    BY DEF EchoInv
  <2>2. n \in Nat
    BY <2>1, EchoAssumption DEF EchoTypeOK, ReadLen
  <2> QED BY <2>2, Sockets, EchoAssumption DEF EchoInv, IInv
<1>1. /\ pair = "load" /\ server[c] = "echoing" /\ Write(s0, n)
      /\ hand' = [hand EXCEPT ![c] = 0] /\ server' = [server EXCEPT ![c] = "running"]
      /\ UNCHANGED vars
      /\ UNCHANGED <<pair, client, left, backlog, in, got, closing, dead, unwanted, split, cut>>
  BY DEF ThreadEcho, Thread
<1>2. n > 0 /\ s0 \notin dead /\ peer[s0] \in {"up", "gone"}
  BY <1>0, <1>1 DEF Places, Wires, Ended, TypeOK, PeerState
<1>3. /\ out' \in [Sock -> Nat] /\ hit' \subseteq Sock /\ hit \subseteq hit'
      /\ Gone(s0) => out'[s0] = out[s0]
      /\ ~Gone(s0) => out'[s0] = out[s0] + n /\ hit' = hit
      /\ \A s \in Sock \ {s0} : out'[s] = out[s] /\ (s \in hit' <=> s \in hit)
  BY <1>0, <1>1, WriteDoes
<1>4. /\ server'[c] = "running" /\ hand'[c] = 0
      /\ \A d \in Conn \ {c} : server'[d] = server[d] /\ hand'[d] = hand[d]
      /\ \A d \in Conn : /\ Cli(d) \in Sock /\ Srv(d) \in Sock /\ Cli(d) # s0
                         /\ Srv(d) = s0 => d = c
                         /\ Start(d)' = Start(d) /\ Sent(d)' = Sent(d)
  BY <1>0, <1>1, Sockets, SentSame DEF EchoTypeOK
<1>5. EchoTypeOK'
  <2>1. /\ server' \in [Conn -> {"none", "running", "echoing", "spinning", "orphan", "ended",
                                "piped"}]
        /\ hand' \in [Conn -> 0 .. ReadLen]
    BY <1>0, <1>1, EchoAssumption DEF EchoTypeOK, ReadLen
  <2> QED BY <1>0, <1>1, <1>3, <2>1 DEF EchoTypeOK
<1>6. Places'
  <2>1. \A d \in Conn : Housed(d)'
    BY <1>0, <1>1, <1>2, <1>3, <1>4 DEF Places, Housed
  <2>2. \A d \in Conn :
         /\ client'[d] = "idle" <=> peer'[Cli(d)] = "absent"
         /\ client'[d] = "idle" => left'[d] = Start(d)' /\ peer'[Srv(d)] = "absent"
         /\ client'[d] = "spinning" => pair' = "simple"
         /\ left'[d] <= Start(d)'
         /\ Cli(d) \in dead' <=> client'[d] \in Finished
         /\ Gone(Srv(d))' => Gone(Cli(d))'
    BY <1>0, <1>1, <1>4 DEF Places, Gone
  <2>3. \A i \in DOMAIN backlog : backlog[i] \in Conn /\ backlog[i] # c
    BY <1>0, <1>1 DEF EchoTypeOK, Places
  <2>4. \A i \in DOMAIN backlog' :
         /\ server'[backlog'[i]] = "none" /\ peer'[Srv(backlog'[i])] # "absent"
         /\ \A j \in DOMAIN backlog' : backlog'[i] = backlog'[j] => i = j
    BY <1>0, <1>1, <1>4, <2>3 DEF Places
  <2>5. ServerDown' => backlog' = <<>>
    BY <1>0, <1>1, <1>4 DEF Places, ServerDown
  <2> QED BY <2>1, <2>2, <2>4, <2>5 DEF Places, Housed
<1>7. Wires'
  <2>1. ASSUME NEW s \in Sock
        PROVE /\ out'[s] > 0 => peer[s] = "up"
              /\ s \in hit' => Gone(s)
              /\ peer[s] = "absent" => out'[s] = 0
    <3>1. CASE s = s0
      BY <1>0, <1>2, <1>3, <3>1 DEF Wires, Gone
    <3>2. CASE s # s0
      BY <1>0, <1>3, <3>2 DEF Wires
    <3> QED BY <3>1, <3>2
  <2> QED BY <1>0, <1>1, <2>1 DEF Wires, Ended, Gone
<1>8. ASSUME NEW d \in Conn PROVE Balanced(d) /\ There(d)' = There(d)
  <2>1. /\ \A s \in {Cli(d), Srv(d)} :
             /\ out[s] \in Nat /\ rcv[s] \in Nat /\ in[s] \in Nat /\ got[s] \in Nat
             /\ out'[s] \in Nat /\ rcv'[s] = rcv[s] /\ in'[s] = in[s] /\ got'[s] = got[s]
        /\ Sent(d) \in Int /\ Sent(d)' = Sent(d) /\ hand[d] \in Nat
        /\ There(d) \in Nat /\ Back(d) \in Nat
    BY <1>0, <1>1, <1>3, <1>4, Units DEF Counted
  <2>2. Whole(d)' <=> Whole(d)
    BY <1>1 DEF Whole, Gone
  <2>3. There(d)' = There(d)
    BY <1>3, <1>4, <2>1 DEF There
  <2>4. /\ Back(d)' <= Back(d) /\ Back(d)' \in Nat
        /\ ~Gone(Srv(d)) => Back(d)' = Back(d)
    <3>1. CASE d = c
      BY <1>0, <1>3, <1>4, <2>1, <3>1 DEF Back
    <3>2. CASE d # c
      BY <1>3, <1>4, <2>1, <3>2 DEF Back
    <3> QED BY <3>1, <3>2
  <2>5. Whole(d) => ~Gone(Srv(d))
    BY DEF Whole
  <2>6. got'[Srv(d)] = got[Srv(d)] /\ got[Srv(d)] \in Nat
    BY <2>1
  <2> HIDE DEF There, Back, Sent, Whole
  <2> QED BY <2>1, <2>2, <2>3, <2>4, <2>5, <2>6 DEF Balanced
<1>9. ServerSurvives'
  BY <1>0, <1>1, <1>3, <1>4 DEF ServerSurvives
<1>10. Served'
  BY <1>1 DEF Served
<1>11. Disturbed => Disturbed'
  <2>1. \A d \in Conn : server[d] = "orphan" => server'[d] = "orphan"
    BY <1>1, <1>4
  <2> QED BY <1>1, <2>1 DEF Disturbed, Running
<1>12. Turns => Turns'
  <2>1. \A d \in Conn : server'[d] \in {"ended", "piped"} => server'[d] = server[d]
    BY <1>4
  <2> QED BY <1>1, <1>4, <2>1 DEF Turns, Gone
<1>13. NoReset => NoReset'
  BY <1>1 DEF NoReset, HungUp
<1>14. \A s \in Sock : Ended(s) => Ended(s)'
  BY <1>1 DEF Ended
<1>15. ASSUME NEW d \in Conn PROVE d \in split' \/ pair # "load" \/ One(d)' \/ Still(d)
  <2>1. CASE d # c
    BY <1>1, <1>3, <1>4, <2>1 DEF Still, Gone
  <2>2. CASE d = c
    <3>1. SUFFICES ASSUME c \notin split PROVE One(c)'
      BY <1>1, <2>2
    <3>2. One(c) /\ There(c) = 0 /\ There(c)' = There(c)
      BY <1>0, <1>1, <1>2, <1>8, <3>1, OneAtOnceIs DEF One
    <3> QED BY <1>1, <1>4, <3>2 DEF One, Gone
  <2> QED BY <2>1, <2>2
<1> HIDE DEF s0, n
<1> QED
  BY <1>1, <1>5, <1>6, <1>7, <1>8, <1>9, <1>10, <1>11, <1>12, <1>13, <1>14, <1>15, ProgramKeeps

LEMMA SvrEchoKeeps ==
  ASSUME IInv, IInv', EchoInv, NEW c \in Conn, SvrEcho(c)
  PROVE  EchoInv'
<1> DEFINE s0 == Srv(c)
<1>0. EchoTypeOK /\ Places /\ Wires /\ NoneMade /\ RoundTrip
      /\ OneAtOnce /\ ServerSurvives /\ Served
      /\ TypeOK /\ TypeOK' /\ s0 \in Sock /\ M \in Nat
      /\ in[s0] \in Nat /\ got[s0] \in Nat
  BY Sockets, EchoAssumption DEF EchoInv, IInv, EchoTypeOK
<1>1. /\ pair = "simple" /\ server[c] = "running" /\ M <= in[s0]
      /\ in' = [in EXCEPT ![s0] = 0] /\ got' = [got EXCEPT ![s0] = @ + M]
      /\ dead' = dead \cup {s0}
      /\ closing' = IF Gone(s0) THEN closing ELSE closing \cup {s0}
      /\ Write(s0, M)
      /\ server' = [server EXCEPT ![c] = "ended"]
      /\ UNCHANGED vars
      /\ UNCHANGED <<pair, client, left, hand, backlog, unwanted, split, cut>>
  BY <1>0 DEF SvrEcho, Taken
<1>2. /\ out' \in [Sock -> Nat] /\ hit' \subseteq Sock /\ hit \subseteq hit'
      /\ Gone(s0) => out'[s0] = out[s0]
      /\ ~Gone(s0) => out'[s0] = out[s0] + M /\ hit' = hit
      /\ \A s \in Sock \ {s0} : out'[s] = out[s] /\ (s \in hit' <=> s \in hit)
  BY <1>0, <1>1, WriteDoes
<1>3. /\ in' \in [Sock -> Nat] /\ got' \in [Sock -> Nat]
      /\ in'[s0] = 0 /\ got'[s0] = got[s0] + M
      /\ \A s \in Sock \ {s0} : in'[s] = in[s] /\ got'[s] = got[s]
  BY <1>0, <1>1 DEF EchoTypeOK
<1>4. s0 \notin dead /\ s0 \notin closing /\ peer[s0] \in {"up", "gone"}
  BY <1>0, <1>1 DEF Places, Wires, Ended, TypeOK, PeerState
<1>5. /\ server'[c] = "ended"
      /\ \A d \in Conn \ {c} : server'[d] = server[d]
      /\ \A d \in Conn : /\ Cli(d) \in Sock /\ Srv(d) \in Sock /\ Cli(d) # s0
                         /\ Srv(d) = s0 => d = c
                         /\ Start(d)' = Start(d) /\ Sent(d)' = Sent(d)
  BY <1>0, <1>1, Sockets, SentSame DEF EchoTypeOK
<1>6. EchoTypeOK'
  <2>1. server' \in [Conn -> {"none", "running", "echoing", "spinning", "orphan", "ended",
                             "piped"}]
    BY <1>0, <1>1 DEF EchoTypeOK
  <2>2. /\ closing' \subseteq Sock /\ dead' \subseteq Sock /\ unwanted' \subseteq Sock
        /\ closing' \cup unwanted' \subseteq dead'
    BY <1>0, <1>1 DEF EchoTypeOK
  <2> QED BY <1>0, <1>1, <1>2, <1>3, <2>1, <2>2 DEF EchoTypeOK
<1>7. Places'
  <2>1. \A d \in Conn : Cli(d) \in dead' <=> client'[d] \in Finished
    BY <1>0, <1>1, <1>5 DEF Places, Finished
  <2>2. \A d \in Conn : Housed(d)'
    BY <1>0, <1>1, <1>2, <1>4, <1>5 DEF Places, Housed
  <2>3. \A i \in DOMAIN backlog : backlog[i] \in Conn /\ backlog[i] # c
    BY <1>0, <1>1 DEF EchoTypeOK, Places
  <2>4. ServerDown' => backlog' = <<>>
    BY <1>0, <1>1, <1>5 DEF Places, ServerDown
  <2>5. \A i \in DOMAIN backlog' :
         /\ server'[backlog'[i]] = "none" /\ peer'[Srv(backlog'[i])] # "absent"
         /\ \A j \in DOMAIN backlog' : backlog'[i] = backlog'[j] => i = j
    BY <1>0, <1>1, <1>5, <2>3 DEF Places
  <2>6. \A d \in Conn :
         /\ client'[d] = "idle" <=> peer'[Cli(d)] = "absent"
         /\ client'[d] = "idle" => left'[d] = Start(d)' /\ peer'[Srv(d)] = "absent"
         /\ client'[d] = "spinning" => pair' = "simple"
         /\ left'[d] <= Start(d)'
         /\ Gone(Srv(d))' => Gone(Cli(d))'
    BY <1>0, <1>1, <1>5 DEF Places, Gone
  <2> HIDE DEF s0
  <2> QED BY <2>1, <2>2, <2>4, <2>5, <2>6 DEF Places, Housed
<1>8. Wires'
  <2>1. ASSUME NEW s \in Sock
        PROVE /\ Ended(s) => s \in dead'
              /\ s \in closing' <=> s \in dead' /\ peer[s] = "up"
              /\ out'[s] > 0 => peer[s] = "up"
              /\ s \in dead' => in'[s] = 0
              /\ s \in hit' => Gone(s)
              /\ peer[s] = "absent" => out'[s] = 0 /\ in'[s] = 0 /\ got'[s] = 0 /\ s \notin dead'
    <3>1. CASE s = s0
      BY <1>0, <1>1, <1>2, <1>3, <1>4, <3>1 DEF Wires, Gone
    <3>2. CASE s # s0
      BY <1>0, <1>1, <1>2, <1>3, <3>2 DEF Wires
    <3> QED BY <3>1, <3>2
  <2> QED BY <1>0, <1>1, <2>1 DEF Wires, Ended, Gone
<1>9. ASSUME NEW d \in Conn PROVE Balanced(d)
  <2>1. /\ \A s \in {Cli(d), Srv(d)} :
             /\ out[s] \in Nat /\ rcv[s] \in Nat /\ in[s] \in Nat /\ got[s] \in Nat
             /\ out'[s] \in Nat /\ rcv'[s] = rcv[s] /\ in'[s] \in Nat /\ got'[s] \in Nat
        /\ Sent(d) \in Int /\ Sent(d)' = Sent(d) /\ pair # "load"
        /\ hand[d] \in Nat /\ hand'[d] = hand[d]
    BY <1>0, <1>1, <1>2, <1>3, <1>5, Units DEF Counted
  <2>2. There(d) \in Nat /\ There(d)' \in Nat /\ Back(d) \in Nat /\ Back(d)' \in Nat
    BY <2>1 DEF There, Back
  <2>3. CASE d = c
    <3>1. There(c)' + M <= There(c) /\ got'[Srv(c)] = got[Srv(c)] + M
      BY <1>0, <1>1, <1>2, <1>3, <1>5, <2>1, <2>3 DEF There
    <3>2. Back(c)' <= Back(c) + M
      BY <1>0, <1>2, <1>3, <1>5, <2>1, <2>3 DEF Back
    <3> HIDE DEF s0
    <3> QED BY <1>0, <2>1, <2>2, <2>3, <3>1, <3>2 DEF Balanced
  <2>4. CASE d # c
    <3>1. There(d)' = There(d) /\ Back(d)' = Back(d) /\ got'[Srv(d)] = got[Srv(d)]
      BY <1>2, <1>3, <1>5, <2>1, <2>4 DEF There, Back
    <3> QED BY <2>1, <2>2, <3>1 DEF Balanced
  <2> QED BY <2>3, <2>4
<1>10. ServerSurvives'
  BY <1>0, <1>1, <1>2, <1>3, <1>5 DEF ServerSurvives
<1>11. Served'
  BY <1>0, <1>1, <1>3, <1>5 DEF Served
<1>12. Disturbed => Disturbed'
  <2>1. \A d \in Conn : server[d] = "orphan" => server'[d] = "orphan"
    BY <1>1, <1>5
  <2> QED BY <1>1, <2>1 DEF Disturbed, Running
<1>13. NoReset => NoReset'
  BY <1>1 DEF NoReset, HungUp
<1>14. \A s \in Sock : Ended(s) => Ended(s)'
  BY <1>1 DEF Ended
<1> HIDE DEF s0
<1> QED
  BY <1>1, <1>6, <1>7, <1>8, <1>9, <1>10, <1>11, <1>12, <1>13, <1>14, ProgramKeeps

-----------------------------------------------------------------------------
(* The invariant.                                                           *)

LEMMA InitEcho == EchoInit => EchoInv
<1> SUFFICES ASSUME EchoInit PROVE EchoInv
  OBVIOUS
<1>0. /\ \A s \in Sock : /\ peer[s] = "absent" /\ rcv[s] = 0
                         /\ out[s] = 0 /\ in[s] = 0 /\ got[s] = 0
      /\ \A c \in Conn : /\ client[c] = "idle" /\ server[c] = "none" /\ left[c] = Start(c)
                         /\ hand[c] = 0
                         /\ Cli(c) \in Sock /\ Srv(c) \in Sock
                         /\ Start(c) \in Nat /\ M \in Nat
      /\ pair \in Pairs /\ backlog = <<>> /\ events = {} /\ pc = "loop"
      /\ closing = {} /\ dead = {} /\ unwanted = {} /\ hit = {} /\ split = {} /\ cut = {}
  <2>1. \A c \in Conn : Start(c) \in Nat /\ M \in Nat
    BY EchoAssumption DEF Start
  <2> QED BY <2>1, Sockets DEF EchoInit, Init
<1>1. EchoTypeOK
  <2>1. left \in [Conn -> Nat]
    <3>1. left = [c \in Conn |-> Start(c)]
      BY DEF EchoInit
    <3> QED BY <1>0, <3>1
  <2>2. hand \in [Conn -> 0 .. ReadLen]
    BY EchoAssumption DEF EchoInit, ReadLen
  <2> QED BY <1>0, <2>1, <2>2 DEF EchoInit, EchoTypeOK
<1>2. Places
  BY <1>0 DEF Places, Gone, Finished, ServerDown
<1>3. Wires
  BY <1>0 DEF Wires, Ended
<1>4. \A c \in Conn : There(c) = 0 /\ Back(c) = 0 /\ Sent(c) = 0 /\ got[Srv(c)] = 0
  <2>1. ASSUME NEW c \in Conn PROVE There(c) = 0 /\ Back(c) = 0
    <3>1. \A s \in {Cli(c), Srv(c)} : rcv[s] = 0 /\ out[s] = 0 /\ in[s] = 0 /\ got[s] = 0
      BY <1>0
    <3>2. /\ out[Cli(c)] = 0 /\ rcv[Cli(c)] = 0 /\ in[Cli(c)] = 0 /\ got[Cli(c)] = 0
          /\ out[Srv(c)] = 0 /\ rcv[Srv(c)] = 0 /\ in[Srv(c)] = 0 /\ hand[c] = 0
      BY <1>0, <3>1
    <3> QED BY <3>2 DEF There, Back
  <2>2. ASSUME NEW c \in Conn PROVE Sent(c) = 0
    <3>1. Start(c) - left[c] = 0 /\ M \in Nat
      BY <1>0
    <3> QED BY <3>1 DEF Sent
  <2> QED BY <1>0, <2>1, <2>2
<1>5. NoneMade /\ RoundTrip
  BY <1>4 DEF NoneMade, RoundTrip
<1>6. OneAtOnce /\ ServerSurvives /\ Served
  <2>1. OneAtOnce
    <3>1. 0 <= M
      BY EchoAssumption
    <3> QED BY <1>0, <1>4, <3>1 DEF OneAtOnce
  <2> QED BY <1>0, <2>1 DEF ServerSurvives, Served
<1>7. Alone
  <2>1. Turns /\ OwnBatch /\ OwnCall
    BY <1>0 DEF Turns, OwnBatch, OwnCall
  <2>2. NoReset
    BY <1>0 DEF NoReset, HungUp
  <2> QED BY <1>0, <2>1, <2>2 DEF Alone
<1> QED BY <1>1, <1>2, <1>3, <1>5, <1>6, <1>7 DEF EchoInv

LEMMA StutterKeeps == EchoInv /\ UNCHANGED all => EchoInv'
<1> SUFFICES ASSUME EchoInv, UNCHANGED all PROVE EchoInv'
  OBVIOUS
<1>1. EchoTypeOK' /\ Served'
  BY DEF EchoInv, EchoTypeOK, Served
<1>2. Places'
  BY DEF EchoInv, Places, Gone, Start, ServerDown
<1>3. Wires'
  BY DEF EchoInv, Wires, Ended, Gone
<1>4. NoneMade' /\ RoundTrip'
  BY DEF EchoInv, NoneMade, RoundTrip, There, Back, Sent, Start, Whole, Gone
<1>5. OneAtOnce' /\ ServerSurvives'
  BY DEF EchoInv, OneAtOnce, ServerSurvives, There, Sent, Start, Gone
<1>6. Turns => Turns'
  BY DEF Turns, Sent, Start, Gone
<1>7. OwnBatch => OwnBatch'
  BY DEF OwnBatch, Due, Ended, SameConn
<1>8. OwnCall => OwnCall'
  BY DEF OwnCall, Due, Ended, SameConn
<1>9. NoReset => NoReset'
  BY DEF NoReset, HungUp
<1>10. Alone'
  BY <1>6, <1>7, <1>8, <1>9 DEF EchoInv, Alone, Disturbed, Running
<1> QED BY <1>1, <1>2, <1>3, <1>4, <1>5, <1>10 DEF EchoInv

LEMMA StepEcho ==
  IInv /\ AInv /\ IInv' /\ EchoInv /\ [EchoNext]_all => EchoInv'
<1> SUFFICES ASSUME IInv, AInv, IInv', EchoInv, [EchoNext]_all PROVE EchoInv'
  OBVIOUS
<1>1. CASE Forwarder
  BY <1>1, ForwarderKeeps
<1>2. CASE Stop
  BY <1>2, StopKeeps
<1>3. CASE Network
  BY <1>3, NetworkKeeps DEF Network
<1>4. CASE Accepted \/ NoThread
  BY <1>4, ServesKeeps
<1>5. ASSUME NEW c \in Conn, ClientStep(c) PROVE EchoInv'
  BY <1>5, SendKeeps, ClientSigPipeKeeps, LoadRecvKeeps, LoadCloseKeeps, SimpleRecvKeeps,
     SimpleSpinsKeeps DEF ClientStep
<1>6. ASSUME NEW c \in Conn, ServerStep(c) PROVE EchoInv'
  BY <1>6, ThreadReadKeeps, ThreadEchoKeeps, ThreadMisreadsKeeps, ThreadEndsKeeps,
     ThreadSigPipeKeeps, ServerDiesKeeps, SvrEchoKeeps, SvrSpinsKeeps DEF ServerStep
<1>7. ASSUME NEW c \in Conn, Connect(c) \/ Kill(c) \/ Typed(c) PROVE EchoInv'
  BY <1>7, ConnectKeeps, KillKeeps, TypedKeeps
<1>8. CASE UNCHANGED all
  BY <1>8, StutterKeeps
<1> QED BY <1>1, <1>2, <1>3, <1>4, <1>5, <1>6, <1>7, <1>8 DEF EchoNext, Others

LEMMA ProxyKept == EchoSpec => [](IInv /\ AInv)
BY IsProxy, BookKept, PTL

\* The accounts of every connection, the places of the programs and, while nothing
\* disturbs them, whose turn it is: in every state of the forwarder between its
\* programs, for any number of them (client.cpp, threaded.c, tcp_clnt.c, tcp_svr.c).
THEOREM EchoInvariant == EchoSpec => []EchoInv
BY ProxyKept, InitEcho, StepEcho, PTL DEF EchoSpec

\* While no one has closed, every unit a load client has sent is under way, echoed
\* and under way back, or with the client, also when messages come in parts
\* (client.cpp:188-191, proxy_v3.cpp:299-303, threaded.c:125-134).
THEOREM NothingLostOnTheWay == EchoSpec => []RoundTrip
<1>1. EchoInv => RoundTrip
  BY DEF EchoInv
<1> QED BY <1>1, EchoInvariant, PTL

\* A thread of the server sends twice on a connection the forwarder has closed, which
\* ends the whole server, only for a client of which a message came in parts, although
\* the forwarder may close between its read() and its send() (threaded.c:125-134).
THEOREM ThreadsSurvive == EchoSpec => []ServerSurvives
<1>1. EchoInv => ServerSurvives
  BY DEF EchoInv
<1> QED BY <1>1, EchoInvariant, PTL

\* Left to themselves the load clients get every message back before they close, and
\* the forwarder takes no connection down early (client.cpp:191,
\* proxy_v3.cpp:162-169).
THEOREM EveryMessageAnswered == EchoSpec => []WholeAnswers
<1>1. ASSUME EchoInv, pair = "load", ~Disturbed PROVE cut = {} /\ Turns
  BY <1>1 DEF EchoInv, Alone
<1>2. ASSUME EchoInv, pair = "load", Turns, NEW c \in Conn, client[c] = "closed"
      PROVE  got[Cli(c)] = iterations[c] * M
  <2>1. got[Cli(c)] = Sent(c) /\ left[c] = 0
    BY <1>2 DEF Turns
  <2>2. Start(c) = iterations[c] /\ iterations[c] \in Nat /\ M \in Nat
    BY <1>2, EchoAssumption DEF Start
  <2>3. Sent(c) = M * (iterations[c] - 0)
    BY <2>1, <2>2 DEF Sent
  <2>4. \A i, j \in Nat : j * (i - 0) = i * j
    OBVIOUS
  <2> QED BY <2>1, <2>2, <2>3, <2>4
<1>3. EchoInv => WholeAnswers
  BY <1>1, <1>2 DEF WholeAnswers
<1> QED BY <1>3, EchoInvariant, PTL

\* Left to themselves the programs of either pair never make the forwarder send to
\* a socket that was reset (proxy_v3.cpp:303).
LEMMA NoSigPipe ==
  ASSUME IInv, AInv, EchoInv, SigPipe
  PROVE  Disturbed
<1> SUFFICES ASSUME ~Disturbed PROVE FALSE
  OBVIOUS
<1>1. EchoTypeOK /\ TypeOK /\ Places /\ Wires /\ NoneMade /\ RoundTrip /\ Alone
  BY DEF EchoInv, IInv
<1>2. pc = "forwarding" /\ Received > 0 /\ peer[To] = "broken"
  BY DEF SigPipe
<1>3. PICK c \in Conn : \/ From = Cli(c) /\ To = Srv(c)
                        \/ From = Srv(c) /\ To = Cli(c)
  BY <1>2, Sides
<1>4. rcv[From] > 0
  BY <1>2, Sides
<1>5. To \in Sock /\ Ended(To) /\ HungUp(To)
  BY <1>2, <1>3, Sockets DEF Ended, HungUp
<1>6. CASE pair = "load"
  <2>1. Turns
    BY <1>1, <1>6 DEF Alone
  <2>2. /\ ~Ended(Srv(c))
        /\ rcv[Srv(c)] > 0 => ~Ended(Cli(c))
    BY <1>1, <1>6, <2>1, OneSide
  <2> QED BY <1>3, <1>4, <1>5, <2>2
<1>7. CASE pair = "simple"
  BY <1>1, <1>5, <1>7 DEF Alone, NoReset
<1>8. pair \in {"load", "simple"}
  BY <1>1, EchoAssumption DEF EchoTypeOK
<1> QED BY <1>6, <1>7, <1>8

THEOREM ForwarderIsSpared == EchoSpec => ForwarderSurvives
<1>1. IInv /\ AInv /\ EchoInv /\ [EchoNext]_all => [SigPipe => Disturbed]_all
  BY NoSigPipe
<1> QED BY <1>1, ProxyKept, EchoInvariant, PTL DEF EchoSpec, ForwarderSurvives

-----------------------------------------------------------------------------
(* The programs with the forwarder between them implement EchoService.      *)

\* What the place of a load client means while nothing disturbs it.
Placed ==
  IF pair = "simple" \/ Disturbed
  THEN \A c \in Conn : Stage[c] = "lost" /\ Todo[c] = 0
  ELSE \A c \in Conn :
         /\ client[c] \in {"idle", "sending"} => Stage[c] = "idle" /\ Todo[c] = left[c]
         /\ client[c] = "waiting" =>
              /\ Stage[c] = IF got[Srv(c)] = Sent(c) /\ hand[c] = 0 THEN "answered" ELSE "asked"
              /\ Todo[c] = left[c] + 1
         /\ client[c] \notin {"idle", "sending", "waiting"} =>
              Stage[c] = "left" /\ Todo[c] = left[c]

LEMMA PlacedNow == Placed
BY DEF Placed, Stage, Todo

LEMMA PlacedAfter == Placed'
BY PlacedNow, PTL

LEMMA NoneMoves ==
  ASSUME \A c \in Conn : Stage'[c] = Stage[c] /\ Todo'[c] = Todo[c]
  PROVE  UNCHANGED Service!svars
<1>1. /\ Stage = [c \in Conn |-> Stage[c]] /\ Stage' = [c \in Conn |-> Stage'[c]]
      /\ Todo = [c \in Conn |-> Todo[c]] /\ Todo' = [c \in Conn |-> Todo'[c]]
  BY DEF Stage, Todo
<1>2. Stage' = Stage /\ Todo' = Todo
  BY <1>1
<1> QED BY <1>2 DEF Service!svars

LEMMA OneMoves ==
  ASSUME NEW c \in Conn,
         \A d \in Conn \ {c} : Stage'[d] = Stage[d] /\ Todo'[d] = Todo[d]
  PROVE  /\ Stage' = [Stage EXCEPT ![c] = Stage'[c]]
         /\ Todo' = [Todo EXCEPT ![c] = Todo'[c]]
         /\ Todo'[c] = Todo[c] => UNCHANGED Todo
<1>1. /\ Stage = [d \in Conn |-> Stage[d]] /\ Stage' = [d \in Conn |-> Stage'[d]]
      /\ Todo = [d \in Conn |-> Todo[d]] /\ Todo' = [d \in Conn |-> Todo'[d]]
  BY DEF Stage, Todo
<1> QED BY <1>1

\* Who is disturbed loses all its answers at once.
LEMMA AllLost ==
  ASSUME Disturbed'
  PROVE  Service!Lose(Conn)
<1>1. Stage' = [c \in Conn |-> Stage'[c]] /\ Todo' = [c \in Conn |-> Todo'[c]]
  BY DEF Stage, Todo
<1>2. \A c \in Conn : Stage'[c] = "lost" /\ Todo'[c] = 0
  BY PlacedAfter DEF Placed
<1> QED BY <1>1, <1>2 DEF Service!Lose

\* The load programs, before and after a step that disturbs nothing.
Calm ==
  /\ EchoInv /\ EchoInv' /\ IInv
  /\ pair = "load" /\ pair' = "load" /\ ~Disturbed /\ ~Disturbed'

LEMMA CalmParts ==
  ASSUME Calm
  PROVE  /\ EchoTypeOK /\ TypeOK /\ Places /\ Wires /\ NoneMade /\ RoundTrip /\ Turns /\ Turns'
         /\ pair = "load" /\ pair' = "load" /\ ~Disturbed /\ ~Disturbed'
BY DEF Calm, EchoInv, Alone, IInv

\* A step in which no client's own state changes and no waiting client is answered.
LEMMA NobodyMoves ==
  ASSUME Calm, UNCHANGED <<client, left>>,
         \A c \in Conn :
           client[c] = "waiting" => got'[Srv(c)] = got[Srv(c)] /\ hand'[c] = hand[c]
  PROVE  UNCHANGED Service!svars
<1>1. pair' = pair /\ pair # "simple" /\ ~Disturbed /\ ~Disturbed'
  BY CalmParts
<1>2. \A c \in Conn : Sent(c)' = Sent(c)
  BY <1>1, SentSame
<1>3. ASSUME NEW c \in Conn PROVE Stage'[c] = Stage[c] /\ Todo'[c] = Todo[c]
  BY <1>1, <1>2, PlacedNow, PlacedAfter DEF Placed
<1> QED BY <1>3, NoneMoves

\* A client's own step leaves the others where they are.
LEMMA OthersStay ==
  ASSUME Calm, NEW c \in Conn,
         \A d \in Conn \ {c} :
           /\ client'[d] = client[d] /\ left'[d] = left[d]
           /\ got'[Srv(d)] = got[Srv(d)] /\ hand'[d] = hand[d]
  PROVE  \A d \in Conn \ {c} : Stage'[d] = Stage[d] /\ Todo'[d] = Todo[d]
<1>1. pair' = pair /\ pair # "simple" /\ ~Disturbed /\ ~Disturbed'
  BY CalmParts
<1>2. \A d \in Conn \ {c} : Sent(d)' = Sent(d)
  BY <1>1 DEF Sent, Start
<1> QED BY <1>1, <1>2, PlacedNow, PlacedAfter DEF Placed

LEMMA SendAsks ==
  ASSUME Calm, NEW c \in Conn, Send(c)
  PROVE  Service!Ask(c)
<1>0. EchoTypeOK /\ TypeOK /\ Turns' /\ Turns /\ pair = "load" /\ pair' = "load"
      /\ ~Disturbed /\ ~Disturbed'
  BY CalmParts
<1>1. /\ client[c] = "sending" /\ client'[c] = "waiting"
      /\ left[c] > 0 /\ left' = [left EXCEPT ![c] = @ - 1] /\ left[c] \in Nat
      /\ left'[c] = left[c] - 1 /\ got' = got /\ hand' = hand
      /\ \A d \in Conn \ {c} : client'[d] = client[d] /\ left'[d] = left[d]
  BY <1>0 DEF Send, EchoTypeOK
<1>2. got[Srv(c)] # Sent(c)'
  <2>1. Sent(c)' = Sent(c) + M /\ Sent(c) \in Int /\ M \in Nat /\ M > 0
    <3>1. pair' = pair /\ Counted
      BY <1>0, Units
    <3>2. Sent(c)' = Sent(c) + M
      BY <1>0, <1>1, <3>1, SentMore
    <3> QED BY <3>1, <3>2 DEF Counted
  <2>2. got[Srv(c)] <= Sent(c) /\ got[Srv(c)] \in Nat
    <3>1. NoneMade /\ Counted
      BY <1>0, CalmParts, Units
    <3>2. got[Srv(c)] + There(c) <= Sent(c) /\ There(c) \in Nat /\ got[Srv(c)] \in Nat
      BY <3>1, Sockets DEF NoneMade, Counted
    <3> QED BY <2>1, <3>2
  <2> QED BY <2>1, <2>2
<1>3. /\ Stage[c] = "idle" /\ Todo[c] = left[c]
      /\ Stage'[c] = "asked" /\ Todo'[c] = left[c]
  BY <1>0, <1>1, <1>2, PlacedNow, PlacedAfter DEF Placed
<1>4. \A d \in Conn \ {c} : Stage'[d] = Stage[d] /\ Todo'[d] = Todo[d]
  BY <1>1, OthersStay
<1> QED BY <1>1, <1>3, <1>4, OneMoves DEF Service!Ask

LEMMA RecvGets ==
  ASSUME Calm, NEW c \in Conn, LoadRecv(c)
  PROVE  Service!Get(c)
<1>0. EchoTypeOK /\ TypeOK /\ Turns /\ Turns' /\ pair = "load" /\ pair' = "load"
      /\ ~Disturbed /\ ~Disturbed' /\ Cli(c) \in Sock /\ Srv(c) \in Sock
  BY CalmParts, Sockets
<1>1. /\ client[c] = "waiting" /\ client'[c] = "sending" /\ UNCHANGED <<left, hand>>
      /\ left[c] \in Nat
      /\ got' = [got EXCEPT ![Cli(c)] = @ + Taken(Cli(c), M)]
      /\ \A d \in Conn \ {c} : client'[d] = client[d]
  BY <1>0 DEF LoadRecv, Read, EchoTypeOK
<1>2. \A d \in Conn : got'[Srv(d)] = got[Srv(d)]
  BY <1>0, <1>1, Sockets DEF EchoTypeOK
<1>3. Sent(c)' = Sent(c)
  BY <1>0, <1>1, SentSame
\* The client has all its answers after the call, so they were on their way back.
<1>4. got[Srv(c)] = Sent(c) /\ hand[c] = 0
  <2>1. Counted /\ NoneMade /\ RoundTrip /\ Places /\ Wires
    BY <1>0, CalmParts, Units
  <2>2. Whole(c) /\ got[Cli(c)] + M = Sent(c)
    BY <1>0, <1>1, <2>1, AloneWhole DEF Turns, Talking
  <2>3. got[Srv(c)] = Back(c) /\ got[Srv(c)] + There(c) <= Sent(c)
    BY <1>0, <2>1, <2>2 DEF RoundTrip
  <2>4. got'[Cli(c)] = Sent(c)
    BY <1>0, <1>1, <1>3 DEF Turns
  <2>5. got'[Cli(c)] = got[Cli(c)] + Taken(Cli(c), M) /\ Taken(Cli(c), M) <= in[Cli(c)]
        /\ Taken(Cli(c), M) \in Nat
    BY <1>0, <1>1, <2>1, TakenIs DEF EchoTypeOK, Counted
  <2>6. hand[c] + got[Cli(c)] + in[Cli(c)] <= Back(c) /\ There(c) \in Nat /\ Back(c) \in Nat
        /\ got[Cli(c)] \in Nat /\ in[Cli(c)] \in Nat /\ Sent(c) \in Int /\ hand[c] \in Nat
    BY <1>0, <2>1 DEF Back, Counted
  <2> HIDE DEF There, Back, Sent
  <2> QED BY <2>3, <2>4, <2>5, <2>6
<1>5. /\ Stage[c] = "answered" /\ Todo[c] = left[c] + 1
      /\ Stage'[c] = "idle" /\ Todo'[c] = left[c]
  BY <1>0, <1>1, <1>4, PlacedNow, PlacedAfter DEF Placed
<1>6. \A d \in Conn \ {c} : Stage'[d] = Stage[d] /\ Todo'[d] = Todo[d]
  BY <1>1, <1>2, OthersStay
<1>7. Todo'[c] = Todo[c] - 1
  BY <1>1, <1>5
<1> QED BY <1>5, <1>6, <1>7, OneMoves DEF Service!Get, Todo

LEMMA CloseLeaves ==
  ASSUME Calm, NEW c \in Conn, LoadClose(c)
  PROVE  Service!Leave(c)
<1>0. EchoTypeOK /\ pair = "load" /\ pair' = "load" /\ ~Disturbed /\ ~Disturbed'
  BY CalmParts
<1>1. /\ client[c] = "sending" /\ left[c] = 0 /\ client'[c] = "closed"
      /\ UNCHANGED <<left, hand, got>>
      /\ \A d \in Conn \ {c} : client'[d] = client[d]
  BY <1>0 DEF LoadClose, EchoTypeOK
<1>2. /\ Stage[c] = "idle" /\ Todo[c] = 0 /\ Stage'[c] = "left" /\ Todo'[c] = 0
  BY <1>0, <1>1, PlacedNow, PlacedAfter DEF Placed
<1>3. \A d \in Conn \ {c} : Stage'[d] = Stage[d] /\ Todo'[d] = Todo[d]
  BY <1>1, OthersStay
<1> QED BY <1>2, <1>3, OneMoves DEF Service!Leave

\* A thread has read the message a client waits for the answer of, and not sent it.
LEMMA ReadIsAsked ==
  ASSUME Calm, NEW c \in Conn, ThreadRead(c)
  PROVE  UNCHANGED Service!svars
<1>0. EchoTypeOK /\ TypeOK /\ Turns /\ pair = "load" /\ pair' = "load"
      /\ ~Disturbed /\ ~Disturbed' /\ Srv(c) \in Sock /\ NoneMade /\ Counted
  BY CalmParts, Sockets, Units
<1> DEFINE n == Taken(Srv(c), ReadLen)
<1>1. /\ UNCHANGED <<client, left>> /\ n > 0 /\ n \in Nat /\ n <= in[Srv(c)]
      /\ got' = [got EXCEPT ![Srv(c)] = @ + n] /\ hand' = [hand EXCEPT ![c] = n]
  BY <1>0, TakenIs DEF ThreadRead, Read, Counted, ReadLen
<1>2. /\ hand'[c] > 0
      /\ \A d \in Conn \ {c} : got'[Srv(d)] = got[Srv(d)] /\ hand'[d] = hand[d]
  BY <1>0, <1>1, Sockets DEF EchoTypeOK
<1> HIDE DEF n
<1>3. CASE client[c] # "waiting"
  BY <1>1, <1>2, <1>3, NobodyMoves
<1>4. CASE client[c] = "waiting"
  <2>1. got[Srv(c)] # Sent(c)
    <3>1. got[Srv(c)] + There(c) <= Sent(c)
      BY <1>0 DEF NoneMade
    <3>2. There(c) > 0 /\ There(c) \in Nat /\ got[Srv(c)] \in Nat /\ Sent(c) \in Int
      <4>1. /\ out[Cli(c)] \in Nat /\ rcv[Cli(c)] \in Nat /\ in[Srv(c)] \in Nat
            /\ got[Srv(c)] \in Nat /\ Sent(c) \in Int
        BY <1>0, Sockets DEF Counted
      <4> QED BY <1>1, <4>1 DEF There
    <3> HIDE DEF There, Sent
    <3> QED BY <3>1, <3>2
  <2>2. Stage[c] = "asked" /\ Stage'[c] = "asked" /\ Todo'[c] = Todo[c]
    BY <1>0, <1>1, <1>2, <1>4, <2>1, PlacedNow, PlacedAfter DEF Placed
  <2>3. \A d \in Conn \ {c} : Stage'[d] = Stage[d] /\ Todo'[d] = Todo[d]
    BY <1>1, <1>2, OthersStay
  <2> QED BY <2>2, <2>3, NoneMoves
<1> QED BY <1>3, <1>4

LEMMA ThreadAnswers ==
  ASSUME Calm, NEW c \in Conn, ThreadEcho(c)
  PROVE  [Service!Next]_(Service!svars)
<1>0. EchoTypeOK /\ TypeOK /\ Places /\ Wires /\ Turns /\ pair = "load" /\ pair' = "load"
      /\ ~Disturbed /\ ~Disturbed' /\ RoundTrip /\ Counted
  BY CalmParts, Units
<1>1. /\ UNCHANGED <<client, left, got>> /\ server[c] = "echoing" /\ hand'[c] = 0
      /\ \A d \in Conn \ {c} : hand'[d] = hand[d]
  BY <1>0 DEF ThreadEcho, Thread, EchoTypeOK
<1>2. hand[c] > 0
  BY <1>0, <1>1 DEF Places
<1>3. CASE client[c] # "waiting"
  BY <1>1, <1>3, NobodyMoves
<1>4. CASE client[c] = "waiting"
  <2>1. Sent(c)' = Sent(c)
    BY <1>0, <1>1, SentSame
  <2>2. /\ got[Cli(c)] + M = Sent(c) /\ ~Gone(Cli(c))
        /\ got[Srv(c)] + M = Sent(c) \/ got[Srv(c)] = Sent(c)
    BY <1>0, <1>4 DEF Turns
  <2>3. got[Srv(c)] = Back(c)
    BY <1>0, <1>4, <2>2, AloneWhole DEF RoundTrip, Talking
  <2>4. /\ Back(c) >= hand[c] + got[Cli(c)] /\ Back(c) \in Nat /\ hand[c] \in Nat
        /\ got[Cli(c)] \in Nat /\ Sent(c) \in Int /\ M \in Nat
    <3>1. \A s \in {Cli(c), Srv(c)} :
            out[s] \in Nat /\ rcv[s] \in Nat /\ in[s] \in Nat /\ got[s] \in Nat
      BY <1>0, Sockets DEF Counted
    <3> QED BY <1>0, <3>1 DEF Back, Counted
  <2>5. got[Srv(c)] = Sent(c)
    <3> HIDE DEF Back, Sent
    <3> QED BY <1>2, <2>2, <2>3, <2>4
  <2>6. /\ Stage[c] = "asked" /\ Stage'[c] = "answered" /\ Todo'[c] = Todo[c]
    BY <1>0, <1>1, <1>2, <1>4, <2>1, <2>5, PlacedNow, PlacedAfter DEF Placed
  <2>7. \A d \in Conn \ {c} : Stage'[d] = Stage[d] /\ Todo'[d] = Todo[d]
    BY <1>1, OthersStay
  <2>8. Service!Answer(c)
    BY <2>6, <2>7, OneMoves DEF Service!Answer
  <2> QED BY <2>8 DEF Service!Next
<1> QED BY <1>3, <1>4

\* A client that has connected has not asked yet.
LEMMA ConnectIdles ==
  ASSUME Calm, NEW c \in Conn, Connect(c)
  PROVE  UNCHANGED Service!svars
<1>0. EchoTypeOK /\ pair = "load" /\ pair' = "load" /\ ~Disturbed /\ ~Disturbed'
  BY CalmParts
<1>1. /\ client[c] = "idle" /\ client'[c] = "sending" /\ UNCHANGED <<left, hand, got>>
      /\ \A d \in Conn \ {c} : client'[d] = client[d]
  BY <1>0 DEF Connect, EchoTypeOK
<1>2. Stage'[c] = Stage[c] /\ Todo'[c] = Todo[c]
  BY <1>0, <1>1, PlacedNow, PlacedAfter DEF Placed
<1>3. \A d \in Conn \ {c} : Stage'[d] = Stage[d] /\ Todo'[d] = Todo[d]
  BY <1>1, OthersStay
<1> QED BY <1>2, <1>3, NoneMoves

\* Who has been killed, cut off from a thread or stopped stays so, and so do parts.
LEMMA StaysDisturbed ==
  ASSUME IInv, EchoInv, [EchoNext]_all
  PROVE  pair' = pair /\ (Disturbed => Disturbed')
<1>0. EchoTypeOK /\ Places /\ ServerSurvives
  BY DEF EchoInv
<1>1. ~Running => ~Running'
  <2>1. [Next]_vars
    BY StepProxy
  <2> QED BY <2>1 DEF Next, Process, EpollWait, HangUp, CallForwarding, AcceptFails, NoSocket,
              NoHost, Accept, Connected, ConnectFails, RecvSend, SigPipe, ReturnMore,
              ReturnClose, Interrupt, Terminate, Peers, ClientConnect, PeerSend, PeerFin,
              PeerReset, Running, Stopped
<1>2. split \subseteq split' /\ pair' = pair
  BY DEF EchoNext, Others, Forwarder, Stop, Network, Deliver, DeliverFin, DeliverReset, Accepted,
     NoThread, Serves, ClientStep, Send, ClientSigPipe, LoadRecv, LoadClose, SimpleRecv,
     SimpleSpins, ServerStep, ThreadRead, ThreadEcho, ThreadMisreads, ThreadEnds,
     ThreadSigPipe, ServerDies, SvrEcho, SvrSpins, Connect, Kill, Typed, NoteSplit
<1>3. \A c \in Conn : client[c] = "killed" => client'[c] = "killed"
  BY <1>0 DEF EchoNext, Others, Forwarder, Stop, Network, Deliver, DeliverFin, DeliverReset,
     Accepted, NoThread, Serves, ClientStep, Send, ClientSigPipe, LoadRecv, LoadClose,
     SimpleRecv, SimpleSpins, ServerStep, ThreadRead, ThreadEcho, ThreadMisreads, ThreadEnds,
     ThreadSigPipe, ServerDies, SvrEcho, SvrSpins, Connect, Kill, Typed, EchoTypeOK
<1>4. ASSUME split = {}
      PROVE  \A c \in Conn : server[c] = "orphan" => server'[c] = "orphan"
  <2>1. ASSUME Accepted \/ NoThread, NEW c \in Conn, server[c] = "orphan"
        PROVE  server'[c] = "orphan"
    <3>1. PICK how : Serves(how)
      BY <2>1 DEF Accepted, NoThread
    <3>2. backlog # <<>> /\ backlog \in Seq(Conn) /\ Head(backlog) = backlog[1]
          /\ 1 \in DOMAIN backlog
      BY <1>0, <3>1 DEF Serves, EchoTypeOK
    <3>3. server[Head(backlog)] = "none"
      BY <1>0, <3>2 DEF Places
    <3> QED BY <1>0, <2>1, <3>1, <3>3 DEF Serves, EchoTypeOK
  <2>2. ASSUME ~(Accepted \/ NoThread), NEW c \in Conn, server[c] = "orphan"
        PROVE  server'[c] = "orphan"
    <3>1. ~ServerDown
      BY <1>0, <1>4, DownIsSplit
    <3> QED
      BY <1>0, <2>2, <3>1 DEF EchoNext, Others, Forwarder, Stop, Network, Deliver, DeliverFin,
         DeliverReset, ClientStep, Send, ClientSigPipe, LoadRecv, LoadClose, SimpleRecv,
         SimpleSpins, ServerStep, Thread, ThreadRead, ThreadEcho, ThreadMisreads, ThreadEnds,
         ThreadSigPipe, ServerDies, SvrEcho, SvrSpins, Connect, Kill, Typed, EchoTypeOK
  <2> QED BY <2>1, <2>2
<1> QED BY <1>1, <1>2, <1>3, <1>4 DEF Disturbed

LEMMA StepService ==
  IInv /\ EchoInv /\ EchoInv' /\ [EchoNext]_all => [Service!Next]_(Service!svars)
<1> SUFFICES ASSUME IInv, EchoInv, EchoInv', [EchoNext]_all
             PROVE  [Service!Next]_(Service!svars)
  OBVIOUS
<1>1. pair' = pair /\ (Disturbed => Disturbed') /\ pair \in {"load", "simple"}
  BY StaysDisturbed, EchoAssumption DEF EchoInv, EchoTypeOK
<1>2. CASE pair = "simple" \/ Disturbed
  BY <1>1, <1>2, PlacedNow, PlacedAfter, NoneMoves DEF Placed
<1>3. CASE Disturbed'
  BY <1>3, AllLost DEF Service!Next
<1>4. CASE pair = "load" /\ ~Disturbed /\ ~Disturbed'
  <2>0. Calm
    BY <1>1, <1>4 DEF Calm
  <2>1. CASE Forwarder
    BY <2>0, <2>1, NobodyMoves DEF Forwarder
  <2>2. CASE Stop
    BY <2>0, <2>2, NobodyMoves DEF Stop
  <2>3. CASE Network
    BY <2>0, <2>3, NobodyMoves DEF Network, Deliver, DeliverFin, DeliverReset
  <2>4. CASE Accepted \/ NoThread
    BY <2>0, <2>4, NobodyMoves DEF Accepted, NoThread, Serves
  <2>5. ASSUME NEW c \in Conn, ClientStep(c) PROVE Service!Next
    <3>1. ~(SimpleRecv(c) \/ SimpleSpins(c))
      BY <1>4 DEF SimpleRecv, SimpleSpins
    <3>2. ~ClientSigPipe(c)
      BY <2>0, CalmParts DEF ClientSigPipe, Disturbed, EchoTypeOK
    <3>3. Service!Ask(c) \/ Service!Get(c) \/ Service!Leave(c)
      BY <2>0, <2>5, <3>1, <3>2, SendAsks, RecvGets, CloseLeaves DEF ClientStep
    <3> QED BY <3>3 DEF Service!Next
  <2>6. ASSUME NEW c \in Conn, ServerStep(c) PROVE [Service!Next]_(Service!svars)
    <3>1. ~(SvrEcho(c) \/ SvrSpins(c))
      BY <1>4 DEF SvrEcho, SvrSpins
    <3>2. ~(ThreadMisreads(c) \/ ThreadSigPipe(c) \/ ServerDies(c))
      <4>1. EchoTypeOK /\ Places /\ ServerSurvives /\ split = {}
        BY <1>4 DEF EchoInv, Disturbed
      <4>2. ~ThreadSigPipe(c)
        BY <4>1 DEF ThreadSigPipe, Thread, ServerSurvives
      <4>3. ~ServerDies(c)
        BY <4>1, DownIsSplit DEF ServerDies
      <4> QED BY <4>1, <4>2, <4>3 DEF ThreadMisreads
    <3>3. CASE ThreadEnds(c)
      BY <2>0, <3>3, NobodyMoves DEF ThreadEnds
    <3> QED BY <2>0, <2>6, <3>1, <3>2, <3>3, ReadIsAsked, ThreadAnswers DEF ServerStep
  <2>7. ASSUME NEW c \in Conn, Connect(c) PROVE UNCHANGED Service!svars
    BY <2>0, <2>7, ConnectIdles
  <2>8. ASSUME NEW c \in Conn, Kill(c) PROVE FALSE
    BY <2>0, <2>8, CalmParts DEF Kill, Disturbed, EchoTypeOK
  <2>9. ASSUME NEW c \in Conn, Typed(c) PROVE FALSE
    BY <1>4, <2>9 DEF Typed
  <2>10. CASE UNCHANGED all
    BY <2>0, <2>10, NobodyMoves
  <2> QED BY <2>1, <2>2, <2>3, <2>4, <2>5, <2>6, <2>7, <2>8, <2>9, <2>10 DEF EchoNext, Others
<1> QED BY <1>1, <1>2, <1>3, <1>4

\* Through the forwarder the load clients have the service of EchoService, answer by
\* answer, while nothing disturbs the programs: for any number of clients, messages
\* and descriptors (proxy_v3.cpp:156-247, 292-314, client.cpp:186-196,
\* threaded.c:121-137).
THEOREM ForwardedService == EchoSpec => ServesEcho
<1>1. EchoInit => Service!Init
  <2> SUFFICES ASSUME EchoInit PROVE Service!Init
    OBVIOUS
  <2>1. EchoTypeOK /\ \A c \in Conn : client[c] = "idle"
    BY InitEcho DEF EchoInit, EchoInv
  <2>2. \A c \in Conn : Stage[c] \in {"idle", "lost"} /\ Todo[c] \in Nat \cup {0}
    BY <2>1, PlacedNow DEF Placed, EchoTypeOK
  <2>3. Stage = [c \in Conn |-> Stage[c]] /\ Todo = [c \in Conn |-> Todo[c]]
    BY DEF Stage, Todo
  <2> QED BY <2>2, <2>3 DEF Service!Init
<1> QED BY <1>1, StepService, ProxyKept, EchoInvariant, PTL DEF EchoSpec, ServesEcho, Service!Spec
=============================================================================
