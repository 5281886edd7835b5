------------------------ MODULE ProxyBatchProofs --------------------------
(***************************************************************************)
(* What the loop of Proxy promises, for any number of connections and      *)
(* descriptors.  It implements Sessions: every step is an arrival, the     *)
(* taking, establishing or closing of a session, the end of all of them,   *)
(* or changes none.  And an event that outlived its connection can close   *)
(* no other than one made in the same batch (SettledOwnEnd).               *)
(***************************************************************************)
EXTENDS ProxyBatch, ProxyProofs

USE ConstantsAssumption DEF table, call, process, kernel, vars

-----------------------------------------------------------------------------
(* The stage of a session, read off one of its sockets.                     *)

StageOf(c) ==
  IF peer[<<c, "cli">>] = "absent" THEN "absent"
  ELSE IF peer[<<c, "cli">>] = "gone" THEN "closed"
  ELSE IF ~OpenOn(<<c, "cli">>) THEN "waiting"
  ELSE IF pc = "connect" /\ fds[fw_new] = <<c, "cli">> THEN "connecting"
  ELSE "open"

StagesRead == Stage = [c \in Conn |-> StageOf(c)]

\* No session is half open.
LEMMA NoneHalf == IInv => StagesRead
<1> SUFFICES ASSUME IInv PROVE StagesRead
  OBVIOUS
<1>1. \A c \in Conn : /\ <<c, "cli">> \in OpenSocks <=> OpenOn(<<c, "cli">>)
                      /\ <<c, "srv">> \in OpenSocks <=> OpenOn(<<c, "cli">>)
  BY BothOrNeither, OpenSocksOn, SockNotNone DEF IInv
<1> QED BY <1>1 DEF StagesRead, Stage, StageOf

LEMMA NoneHalfNext == IInv' => StagesRead'
BY NoneHalf, PTL

\* One stage changes, or none.
LEMMA OneStage ==
  ASSUME IInv, IInv', NEW d \in Conn, NEW v, StageOf(d)' = v,
         \A c \in Conn : c # d => StageOf(c)' = StageOf(c)
  PROVE  /\ Stage[d] = StageOf(d)
         /\ Stage' = [Stage EXCEPT ![d] = v]
<1>1. Stage = [c \in Conn |-> StageOf(c)] /\ Stage' = [c \in Conn |-> StageOf(c)']
  BY NoneHalf, NoneHalfNext DEF StagesRead
<1> QED BY <1>1

LEMMA NoStage ==
  ASSUME IInv, IInv', \A c \in Conn : StageOf(c)' = StageOf(c), queue' = queue
  PROVE  UNCHANGED <<Stage, queue>>
BY NoneHalf, NoneHalfNext DEF StagesRead

-----------------------------------------------------------------------------
(* The steps.                                                               *)

\* A client comes.
LEMMA ConnectArrives ==
  ASSUME IInv, AInv, IInv', NEW c \in Conn, ClientConnect(c)
  PROVE  Abs!Arrive(c)
<1>1. /\ UNCHANGED <<fds, pc, fw_new>> /\ queue' = Append(queue, c)
      /\ peer[<<c, "cli">>] = "absent" /\ Running
      /\ peer' = [peer EXCEPT ![<<c, "cli">>] = "up"]
      /\ peer \in [Sock -> PeerState] /\ <<c, "cli">> \in Sock
  BY SockNotNone DEF ClientConnect, IInv, TypeOK
<1>2. peer'[<<c, "cli">>] = "up" /\ ~OpenOn(<<c, "cli">>)'
  BY <1>1 DEF AInv, Kept, Live, OpenOn
<1>3. StageOf(c) = "absent" /\ StageOf(c)' = "waiting"
  BY <1>1, <1>2 DEF StageOf
<1>4. \A x \in Conn : x # c => StageOf(x)' = StageOf(x)
  BY <1>1, SockNotNone DEF StageOf, OpenOn
<1>5. Stage[c] = "absent" /\ Stage' = [Stage EXCEPT ![c] = "waiting"]
  BY <1>3, <1>4, OneStage
<1> QED BY <1>1, <1>5 DEF Abs!Arrive

\* accept() takes the first one, and no other is being connected.
LEMMA AcceptTakes ==
  ASSUME IInv, AInv, IInv', Accept
  PROVE  Abs!Take
<1>1. PICK m \in Free : m + 1 \in Free /\ fw_new' = m /\ fw_socket' = m + 1
  BY LowestPair DEF Accept, IInv
<1>2. PICK c \in Conn : c = Head(queue) /\ Queued(c)
  <2>1. /\ Head(queue) \in Conn /\ Head(queue) = queue[1] /\ 1 \in DOMAIN queue
    BY HeadTailProperties, LenProperties, EmptySeq DEF Accept, IInv, TypeOK
  <2> QED BY <2>1 DEF Queued
<1>3. /\ fds' = [fds EXCEPT ![m] = <<c, "cli">>, ![m + 1] = <<c, "srv">>]
      /\ queue # <<>> /\ queue' = Tail(queue) /\ UNCHANGED peer
      /\ pc = "loop" /\ pc' = "connect" /\ Running
      /\ fds \in [Fd -> Sock \cup {None}]
  BY <1>1, <1>2 DEF Accept, IInv, TypeOK, Running, Stopped
<1>4. /\ m \in Fd /\ m + 1 \in Fd /\ m + 1 # m /\ fds[m] = None /\ fds[m + 1] = None
  BY <1>1, FreeFd DEF Free
<1>5. /\ fds'[m] = <<c, "cli">> /\ fds'[m + 1] = <<c, "srv">>
      /\ \A f \in Fd : f # m /\ f # m + 1 => fds'[f] = fds[f]
  BY <1>3, <1>4
<1>6. StageOf(c)' = "connecting"
  <2>1. peer[<<c, "cli">>] \notin {"absent", "gone"}
    BY <1>2, <1>3, SockNotNone DEF AInv, Kept, Live
  <2>2. OpenOn(<<c, "cli">>)'
    BY <1>4, <1>5 DEF OpenOn
  <2> QED BY <1>1, <1>3, <1>5, <2>1, <2>2 DEF StageOf
<1>7. ASSUME NEW x \in Conn, x # c
      PROVE  StageOf(x)' = StageOf(x)
  <2>1. OpenOn(<<x, "cli">>)' <=> OpenOn(<<x, "cli">>)
    <3>1. \A f \in Fd : fds'[f] = <<x, "cli">> <=> fds[f] = <<x, "cli">>
      BY <1>4, <1>5, <1>7, SockNotNone
    <3> QED BY <3>1 DEF OpenOn
  <2>2. fds'[fw_new'] # <<x, "cli">>
    BY <1>1, <1>5, <1>7
  <2> QED BY <1>3, <2>1, <2>2 DEF StageOf
<1>8. \A x \in Conn : StageOf(x) # "connecting"
  BY <1>3 DEF StageOf
<1>9. Stage' = [Stage EXCEPT ![c] = "connecting"]
  BY <1>6, <1>7, OneStage
<1>10. \A x \in Conn : Stage[x] # "connecting"
  BY <1>8, NoneHalf DEF StagesRead
<1> QED BY <1>2, <1>3, <1>9, <1>10 DEF Abs!Take

\* connect() returns.
LEMMA ConnectedEstablishes ==
  ASSUME IInv, AInv, IInv', Connected
  PROVE  \E c \in Conn : Abs!Establish(c)
<1>1. /\ fw_new \in Fd /\ fw_new % 2 = 1 /\ fds[fw_new] # None
      /\ pc = "connect" /\ Running /\ Paired
  BY DEF IInv, TableSet, Connected, Running, Stopped
<1>2. PICK c \in Conn : fds[fw_new] = <<c, "cli">>
  BY <1>1 DEF Paired
<1>3. /\ UNCHANGED <<queue, fds, fw_new>> /\ pc' = "loop"
      /\ peer' = [peer EXCEPT ![<<c, "srv">>] = "up"] /\ peer \in [Sock -> PeerState]
  BY <1>2 DEF Connected, IInv, TypeOK
<1>4. \A x \in Conn : peer'[<<x, "cli">>] = peer[<<x, "cli">>]
  BY <1>3, SockNotNone
<1>5. OpenOn(<<c, "cli">>) /\ peer[<<c, "cli">>] \notin {"absent", "gone"}
  BY <1>1, <1>2, SockNotNone DEF OpenOn, AInv, Kept, Live
<1>6. StageOf(c) = "connecting" /\ StageOf(c)' = "open"
  BY <1>1, <1>2, <1>3, <1>4, <1>5 DEF StageOf, OpenOn
<1>7. \A x \in Conn : x # c => StageOf(x)' = StageOf(x)
  BY <1>1, <1>2, <1>3, <1>4 DEF StageOf, OpenOn
<1>8. Stage[c] = "connecting" /\ Stage' = [Stage EXCEPT ![c] = "open"]
  BY <1>6, <1>7, OneStage
<1> QED BY <1>3, <1>8 DEF Abs!Establish

\* The pair of a descriptor is closed: a whole session ends, or none.
LEMMA PairCloses ==
  ASSUME IInv, AInv, IInv', Running, NEW fd \in Fd, Set(fd), CloseBoth(fd),
         pc # "connect", pc' = "loop"
  PROVE  (\E c \in Conn : Abs!Close(c)) \/ UNCHANGED <<Stage, queue>>
<1>1. Single /\ Kept /\ queue' = queue
  BY DEF AInv, CloseBoth
<1>2. PICK D \in SUBSET Sock :
        /\ D = {} \/ \E c \in Conn : D = {<<c, "cli">>, <<c, "srv">>}
        /\ \A s \in D : OpenOn(s)
        /\ \A s \in Sock : OpenOn(s)' <=> OpenOn(s) /\ s \notin D
        /\ \A s \in Sock : peer'[s] = IF s \in D THEN "gone" ELSE peer[s]
  BY <1>1, CloseBothCloses
<1>3. \A x \in Conn : <<x, "cli">> \notin D => StageOf(x)' = StageOf(x)
  BY <1>2, SockNotNone DEF StageOf
<1>4. CASE D = {}
  BY <1>1, <1>3, <1>4, NoStage
<1>5. ASSUME NEW c \in Conn, D = {<<c, "cli">>, <<c, "srv">>}
      PROVE  Abs!Close(c)
  <2>1. OpenOn(<<c, "cli">>) /\ peer[<<c, "cli">>] \notin {"absent", "gone"}
    BY <1>1, <1>2, <1>5, SockNotNone DEF Kept, Live
  <2>2. StageOf(c) = "open" /\ StageOf(c)' = "closed"
    BY <1>2, <1>5, <2>1, SockNotNone DEF StageOf
  <2>3. \A x \in Conn : x # c => StageOf(x)' = StageOf(x)
    BY <1>3, <1>5
  <2>4. Stage[c] = "open" /\ Stage' = [Stage EXCEPT ![c] = "closed"]
    BY <2>2, <2>3, OneStage
  <2> QED BY <1>1, <2>4 DEF Abs!Close
<1> QED BY <1>2, <1>4, <1>5

\* The process ends, in whatever way.
LEMMA TerminateStops ==
  ASSUME IInv, IInv', NEW how, Terminate(how)
  PROVE  Abs!Stop
<1>1. \A c \in Conn : peer'[<<c, "cli">>] =
                        IF peer[<<c, "cli">>] = "absent" THEN "absent" ELSE "gone"
  BY SockNotNone DEF Terminate
<1>2. \A c \in Conn : /\ StageOf(c)' = IF StageOf(c) = "absent" THEN "absent" ELSE "closed"
  BY <1>1 DEF StageOf
<1>3. Stage = [c \in Conn |-> StageOf(c)] /\ Stage' = [c \in Conn |-> StageOf(c)']
  BY NoneHalf, NoneHalfNext DEF StagesRead
<1>4. Stage' = [c \in Conn |-> IF Stage[c] = "absent" THEN "absent" ELSE "closed"]
  BY <1>2, <1>3
<1> QED BY <1>4 DEF Abs!Stop, Terminate

\* All other steps are nobody's business.
LEMMA RestStutters ==
  ASSUME IInv, IInv',
         \/ \E s \in Sock : PeerSend(s) \/ PeerFin(s) \/ PeerReset(s)
         \/ EpollWait \/ AcceptFails \/ RecvSend \/ ReturnMore
         \/ \E e \in events : CallForwarding(e)
         \/ UNCHANGED vars
  PROVE  UNCHANGED <<Stage, queue>>
<1>1. /\ UNCHANGED <<fds, queue, fw_new>>
      /\ pc = "connect" <=> pc' = "connect"
  BY DEF PeerSend, PeerFin, PeerReset, EpollWait, AcceptFails, RecvSend, ReturnMore, Return,
     CallForwarding
<1>2. ASSUME NEW c \in Conn
      PROVE  /\ peer'[<<c, "cli">>] = "absent" <=> peer[<<c, "cli">>] = "absent"
             /\ peer'[<<c, "cli">>] = "gone" <=> peer[<<c, "cli">>] = "gone"
  BY SockNotNone DEF PeerSend, PeerFin, PeerReset, EpollWait, AcceptFails, RecvSend,
     ReturnMore, CallForwarding, IInv, TypeOK
<1>3. \A c \in Conn : StageOf(c)' = StageOf(c)
  BY <1>1, <1>2 DEF StageOf, OpenOn
<1> QED BY <1>1, <1>3, NoStage

LEMMA StepSessions ==
  ASSUME IInv, AInv, [Next]_vars
  PROVE  [Abs!Next]_<<Stage, queue>>
<1>0. IInv'
  BY StepIInv
<1>1. CASE NoSocket \/ NoHost \/ ConnectFails \/ SigPipe \/ Interrupt
  <2>1. \E how \in Stopped : Terminate(how)
    BY <1>1 DEF NoSocket, NoHost, ConnectFails, SigPipe, Interrupt, Stopped
  <2> QED BY <1>0, <2>1, TerminateStops DEF Abs!Next
<1>2. ASSUME NEW e \in events, HangUp(e)
      PROVE  [Abs!Next]_<<Stage, queue>>
  <2>1. e.fd \in Fd /\ Set(e.fd) /\ CloseBoth(e.fd) /\ pc = "loop" /\ pc' = "loop"
    BY <1>2 DEF HangUp, IInv, TableSet
  <2> QED BY <1>0, <2>1, PairCloses DEF Abs!Next, Running, Stopped
<1>3. CASE ReturnClose
  <2>1. cur \in Fd /\ Set(cur) /\ CloseBoth(cur) /\ pc = "forwarding" /\ pc' = "loop"
    BY <1>3, ReceivedType DEF ReturnClose, Return
  <2> QED BY <1>0, <2>1, PairCloses DEF Abs!Next, Running, Stopped
<1>4. ASSUME NEW c \in Conn, ClientConnect(c)
      PROVE  [Abs!Next]_<<Stage, queue>>
  BY <1>0, <1>4, ConnectArrives DEF Abs!Next
<1>5. CASE Accept
  BY <1>0, <1>5, AcceptTakes DEF Abs!Next
<1>6. CASE Connected
  BY <1>0, <1>6, ConnectedEstablishes DEF Abs!Next
<1>7. CASE \/ \E s \in Sock : PeerSend(s) \/ PeerFin(s) \/ PeerReset(s)
           \/ EpollWait \/ AcceptFails \/ RecvSend \/ ReturnMore
           \/ \E e \in events : CallForwarding(e)
           \/ UNCHANGED vars
  BY <1>0, <1>7, RestStutters
<1> QED BY <1>1, <1>2, <1>3, <1>4, <1>5, <1>6, <1>7 DEF Next, Peers, Process

-----------------------------------------------------------------------------
\* The loop of main() implements Sessions: whole sessions, in order of arrival, one
\* connect() at a time, never revived (proxy_v3.cpp:156-247).
THEOREM ImplementsSessions == Spec => ServesSessions
<1>1. Init => Abs!Init
  <2> SUFFICES ASSUME Init PROVE Abs!Init
    OBVIOUS
  <2>1. \A c \in Conn : StageOf(c) = "absent"
    BY SockNotNone DEF Init, StageOf
  <2>2. Stage = [c \in Conn |-> StageOf(c)]
    BY NoneHalf, InitIInv DEF StagesRead
  <2> QED BY <2>1, <2>2 DEF Init, Abs!Init
<1>2. IInv /\ AInv /\ [Next]_vars => [Abs!Next]_Abs!svars
  BY StepSessions DEF Abs!svars
<1> QED BY <1>1, <1>2, BookKept, PTL DEF Spec, ServesSessions, Abs!Spec

-----------------------------------------------------------------------------
(* Stale events.                                                            *)

\* A descriptor that still has the connection it had when the batch was made.
Known(f) ==
  fds[f] # None /\ fds[f][1] \notin fresh /\ ~(pc = "connect" /\ f \in {fw_new, fw_socket})

\* Its event is no mistake: there is something to read, or the far end is over.
Due(f) == Ended(fds[f]) \/ rcv[fds[f]] > 0

OneEvent == \A e, g \in events : e.fd = g.fd => e = g

EventsDue ==
  \A e \in events : e.fd \in Fd /\ Known(e.fd) => Due(e.fd) /\ (e.hup => Ended(fds[e.fd]))

CallDue ==
  pc = "forwarding" =>
    /\ \A e \in events : e.fd # cur
    /\ Known(cur) => Due(cur) \/ total_sent > 0

\* With IInv and AInv it holds in every state of SpecH (EventsAreDue).
HInv == Running => OneEvent /\ EventsDue /\ CallDue

LEMMA InitHInv == InitH => HInv
BY DEF InitH, Init, HInv, OneEvent, EventsDue, CallDue

\* What a step that is no epoll_wait() leaves of the connections known before.
LEMMA StillKnown ==
  ASSUME IInv, NextH, ~EpollWait, NEW f \in Fd, fds'[f] = fds[f],
         pc = "connect" => pc' # "connect" \/ UNCHANGED <<fw_new, fw_socket>>,
         Known(f)'
  PROVE  Known(f)
<1>1. fresh' = IF pc = "connect" THEN fresh \cup {fds[fw_new][1]} ELSE fresh
  BY DEF NextH
<1>2. CASE pc # "connect"
  BY <1>1, <1>2 DEF Known
<1>3. CASE pc = "connect"
  <2>1. fw_new \in Fd /\ fw_new % 2 = 1 /\ fds[fw_new] # None /\ fw_socket = fw_new + 1
    BY <1>3 DEF IInv, TableSet
  <2>2. fds[fw_socket][1] = fds[fw_new][1]
    BY <2>1 DEF IInv, Paired
  <2> QED BY <1>1, <1>3, <2>2 DEF Known
<1> QED BY <1>2, <1>3

\* Steps that close nothing, open nothing and read nothing.
LEMMA NothingRead ==
  ASSUME IInv, HInv, Running, NextH, ~EpollWait, UNCHANGED fds,
         pc = "connect" => pc' # "connect" \/ UNCHANGED <<fw_new, fw_socket>>,
         events' \subseteq events,
         \A f \in Fd : fds[f] # None =>
            /\ Ended(fds[f]) => peer'[fds[f]] \in {"fin", "reset", "broken"}
            /\ rcv'[fds[f]] >= rcv[fds[f]],
         pc' = "forwarding" => pc = "forwarding" /\ UNCHANGED <<cur, total_sent>>
  PROVE  HInv'
<1>1. \A f \in Fd : fds[f] # None => fds[f] \in Sock /\ rcv[fds[f]] \in Nat
  BY DEF IInv, TypeOK
<1>2. \A f \in Fd : fds[f] # None => (Ended(fds[f]) => Ended(fds[f])')
  BY DEF Ended
<1>3. \A f \in Fd : Known(f)' => Known(f)
  BY StillKnown
<1>4. \A f \in Fd : Known(f) /\ Due(f) => Due(f)'
  <2> SUFFICES ASSUME NEW f \in Fd, Known(f), Due(f) PROVE Due(f)'
    OBVIOUS
  <2>1. fds[f] # None /\ fds'[f] = fds[f]
    BY DEF Known
  <2>2. CASE Ended(fds[f])
    BY <2>1, <2>2 DEF Due, Ended
  <2>3. CASE rcv[fds[f]] > 0
    <3>1. rcv'[fds[f]] >= rcv[fds[f]] /\ rcv[fds[f]] \in Nat
      BY <1>1, <2>1
    <3>2. rcv'[fds[f]] > 0
      <4> DEFINE a == rcv'[fds[f]]
                 b == rcv[fds[f]]
      <4>1. a >= b /\ b > 0 /\ b \in Nat
        BY <2>3, <3>1
      <4>2. a \in Nat
        BY <2>1, <1>1, StepIInv DEF NextH, IInv, TypeOK
      <4> QED BY <4>1, <4>2
    <3> QED BY <2>1, <3>2 DEF Due
  <2> QED BY <2>2, <2>3 DEF Due
<1>5. OneEvent'
  BY DEF HInv, OneEvent
<1>6. EventsDue'
  <2> SUFFICES ASSUME NEW e \in events', e.fd \in Fd, Known(e.fd)'
               PROVE  Due(e.fd)' /\ (e.hup => peer'[fds'[e.fd]] \in {"fin", "reset", "broken"})
    BY DEF EventsDue, Ended
  <2>1. Known(e.fd) /\ fds[e.fd] # None
    BY <1>3 DEF Known
  <2>2. Due(e.fd) /\ (e.hup => Ended(fds[e.fd]))
    BY <2>1 DEF HInv, EventsDue
  <2> QED BY <1>4, <2>1, <2>2
<1>7. CallDue'
  <2> SUFFICES ASSUME pc' = "forwarding"
               PROVE  /\ \A e \in events' : e.fd # cur'
                      /\ Known(cur)' => Due(cur)' \/ total_sent' > 0
    BY DEF CallDue
  <2>1. cur \in Fd /\ cur' = cur /\ total_sent' = total_sent
    BY ReceivedType
  <2>2. (\A e \in events : e.fd # cur) /\ (Known(cur) => Due(cur) \/ total_sent > 0)
    BY DEF HInv, CallDue
  <2>3. PICK f \in Fd : f = cur
    BY <2>1
  <2>4. Known(f)' => Due(f)' \/ total_sent' > 0
    BY <1>3, <1>4, <2>1, <2>2, <2>3
  <2> QED BY <2>1, <2>2, <2>3, <2>4 DEF Known, Due, Ended
<1> QED BY <1>5, <1>6, <1>7 DEF HInv

\* epoll_wait() reports each descriptor once, and for a reason.
LEMMA EpollWaitIsDue ==
  ASSUME IInv, NextH, EpollWait
  PROVE  HInv'
<1>1. /\ events' = Ready /\ pc = "loop" /\ UNCHANGED <<fds, peer, rcv, pc>>
  BY DEF EpollWait
<1>2. ASSUME NEW e \in events'
      PROVE  \/ e.fd = Listener /\ e = ListenerEvent
             \/ /\ e.fd \in Fd \ Free /\ e = [fd |-> e.fd, hup |-> HungUp(fds[e.fd])]
                /\ HungUp(fds[e.fd]) \/ Readable(fds[e.fd])
  BY <1>1 DEF Ready, ConnEvents, ListenEvents, ListenerEvent
<1>3. Listener \notin Fd
  BY DEF Listener, Fd
<1>4. OneEvent'
  BY <1>2, <1>3 DEF OneEvent
<1>5. EventsDue'
  <2> SUFFICES ASSUME NEW e \in events', e.fd \in Fd
               PROVE  Due(e.fd)' /\ (e.hup => peer'[fds'[e.fd]] \in {"fin", "reset", "broken"})
    BY DEF EventsDue, Ended
  <2>1. /\ e = [fd |-> e.fd, hup |-> HungUp(fds[e.fd])]
        /\ HungUp(fds[e.fd]) \/ Readable(fds[e.fd])
    BY <1>2, <1>3
  <2>2. e.hup => HungUp(fds[e.fd])
    BY <2>1
  <2> QED BY <1>1, <2>1, <2>2 DEF Due, Ended, HungUp, Readable
<1> QED BY <1>1, <1>4, <1>5 DEF HInv, CallDue

\* The call of forwarding() for a descriptor whose event is due.
LEMMA CallIsDue ==
  ASSUME IInv, HInv, NextH, NEW e \in events, CallForwarding(e)
  PROVE  HInv'
<1>1. /\ pc = "loop" /\ Running /\ e # ListenerEvent /\ ~EpollWait
      /\ cur' = e.fd /\ events' = events \ {e} /\ pc' = "forwarding"
      /\ UNCHANGED <<fds, peer, rcv>>
  BY DEF CallForwarding, Running, Stopped, EpollWait
<1>2. e.fd \in Fd
  BY StepIInv, <1>1 DEF NextH, IInv, TableSet
<1>3. \A f \in Fd : Known(f)' => Known(f)
  BY <1>1, StillKnown
<1>4. OneEvent'
  BY <1>1 DEF HInv, OneEvent
<1>5. EventsDue'
  BY <1>1, <1>3 DEF HInv, EventsDue, Due, Ended
<1>6. CallDue'
  <2>1. \A g \in events' : g.fd # cur'
    BY <1>1 DEF HInv, OneEvent
  <2>2. PICK f \in Fd : f = e.fd
    BY <1>2
  <2>3. Known(f)' => Due(f)'
    BY <1>1, <1>3, <2>2 DEF HInv, EventsDue, Due, Ended
  <2> QED BY <1>1, <2>1, <2>2, <2>3 DEF CallDue, Known, Due, Ended
<1> QED BY <1>4, <1>5, <1>6 DEF HInv

\* A close leaves the sockets of the descriptors that stay open alone.
LEMMA CloseSpares ==
  ASSUME Single, NEW fd \in Fd, CloseBoth(fd), fds \in [Fd -> Sock \cup {None}]
  PROVE  \A f \in Fd : fds'[f] # None =>
           /\ fds'[f] = fds[f]
           /\ peer'[fds[f]] = peer[fds[f]] /\ rcv'[fds[f]] = rcv[fds[f]]
<1> DEFINE both == {fd_sockets[fd].src, fd_sockets[fd].dst} \cap Fd
           dead == {fds[f] : f \in both}
<1>1. /\ fds' = [f \in Fd |-> IF f \in both THEN None ELSE fds[f]]
      /\ peer' = [s \in Sock |-> IF s \in dead THEN "gone" ELSE peer[s]]
      /\ rcv' = [s \in Sock |-> IF s \in dead THEN 0 ELSE rcv[s]]
  BY DEF CloseBoth
<1> SUFFICES ASSUME NEW f \in Fd, fds'[f] # None
             PROVE  /\ fds'[f] = fds[f]
                    /\ peer'[fds[f]] = peer[fds[f]] /\ rcv'[fds[f]] = rcv[fds[f]]
  OBVIOUS
<1>2. f \notin both /\ fds'[f] = fds[f] /\ fds[f] \in Sock
  BY <1>1
<1>3. fds[f] \notin dead
  BY <1>2 DEF Single
<1> HIDE DEF dead
<1> QED BY <1>1, <1>2, <1>3

LEMMA CloseIsDue ==
  ASSUME IInv, AInv, HInv, NextH, Running, NEW fd \in Fd, CloseBoth(fd), events' \subseteq events,
         pc # "connect", pc' = "loop", ~EpollWait
  PROVE  HInv'
<1>1. \A f \in Fd : fds'[f] # None =>
           /\ fds'[f] = fds[f]
           /\ peer'[fds[f]] = peer[fds[f]] /\ rcv'[fds[f]] = rcv[fds[f]]
  BY CloseSpares DEF AInv, IInv, TypeOK
<1>2. \A f \in Fd : Known(f)' => fds'[f] # None /\ Known(f)
  <2>1. \A f \in Fd : Known(f)' => fds'[f] # None
    BY DEF Known
  <2> QED BY <1>1, <2>1, StillKnown
<1>3. OneEvent'
  BY DEF HInv, OneEvent
<1>4. EventsDue'
  <2> SUFFICES ASSUME NEW e \in events', e.fd \in Fd, Known(e.fd)'
               PROVE  Due(e.fd)' /\ (e.hup => peer'[fds'[e.fd]] \in {"fin", "reset", "broken"})
    BY DEF EventsDue, Ended
  <2>1. fds'[e.fd] # None /\ Known(e.fd)
    BY <1>2
  <2>2. Due(e.fd) /\ (e.hup => Ended(fds[e.fd]))
    BY <2>1 DEF HInv, EventsDue
  <2> QED BY <1>1, <2>1, <2>2 DEF Due, Ended
<1> QED BY <1>3, <1>4 DEF HInv, CallDue

\* What accept() opens is not known yet.
LEMMA AcceptIsDue ==
  ASSUME IInv, HInv, NextH, Accept
  PROVE  HInv'
<1>1. PICK m \in Free : m + 1 \in Free /\ fw_new' = m /\ fw_socket' = m + 1
  BY LowestPair DEF Accept, IInv
<1>2. /\ pc = "loop" /\ pc' = "connect" /\ Running /\ ~EpollWait
      /\ events' \subseteq events /\ UNCHANGED <<peer, rcv>>
  BY DEF Accept, Running, Stopped, EpollWait
<1>3. \A f \in Fd : f # m /\ f # m + 1 => fds'[f] = fds[f]
  BY <1>1 DEF Accept, IInv, TypeOK
<1>4. ASSUME NEW f \in Fd, Known(f)'
      PROVE  fds'[f] = fds[f] /\ Known(f)
  <2>1. f # m /\ f # m + 1
    BY <1>1, <1>2, <1>4 DEF Known
  <2>2. fds'[f] = fds[f]
    BY <1>3, <2>1
  <2> QED BY <1>2, <1>4, <2>2, StillKnown
<1>5. OneEvent'
  BY <1>2 DEF HInv, OneEvent
<1>6. EventsDue'
  BY <1>2, <1>4 DEF HInv, EventsDue, Due, Ended
<1> QED BY <1>2, <1>5, <1>6 DEF HInv, CallDue

\* connect() returns: only the new connection's own socket changes.
LEMMA ConnectedIsDue ==
  ASSUME IInv, AInv, HInv, NextH, Connected
  PROVE  HInv'
<1>1. /\ fw_new \in Fd /\ fw_new % 2 = 1 /\ fds[fw_new] # None
      /\ fw_socket = fw_new + 1 /\ fw_socket \in Fd
      /\ pc = "connect" /\ Running /\ Paired /\ ~EpollWait /\ Single
  BY DEF IInv, AInv, TableSet, Connected, Running, Stopped, EpollWait
<1>2. PICK c \in Conn : fds[fw_new] = <<c, "cli">> /\ fds[fw_socket] = <<c, "srv">>
  BY <1>1 DEF Paired
<1>3. /\ UNCHANGED <<queue, fds, rcv, fw_new, fw_socket, events>> /\ pc' = "loop"
      /\ peer' = [peer EXCEPT ![<<c, "srv">>] = "up"] /\ peer \in [Sock -> PeerState]
  BY <1>2 DEF Connected, IInv, TypeOK
<1>4. peer[<<c, "srv">>] \in {"absent", "gone"}
  BY <1>1, <1>2, SockNotNone DEF AInv, Kept, Live, Connecting
<1>5. \A f \in Fd : fds[f] # None =>
        (Ended(fds[f]) => peer'[fds[f]] \in {"fin", "reset", "broken"})
  BY <1>3, <1>4 DEF Ended, IInv, TypeOK
<1>6. \A f \in Fd : fds[f] # None => rcv[fds[f]] \in Nat
  BY DEF IInv, TypeOK
<1> QED BY <1>1, <1>3, <1>5, <1>6, NothingRead

\* recv() and send(): something was read, and only from the descriptor of the call.
LEMMA RecvSendIsDue ==
  ASSUME IInv, AInv, HInv, NextH, RecvSend
  PROVE  HInv'
<1>1. /\ pc = "forwarding" /\ pc' = "forwarding" /\ Running /\ ~EpollWait /\ Single
      /\ UNCHANGED <<fds, fd_sockets, events, cur>>
      /\ Received > 0 /\ total_sent' = total_sent + Received
      /\ rcv' = [rcv EXCEPT ![From] = @ - Received]
      /\ peer' = [s \in Sock |-> IF s = To /\ peer[s] = "reset" THEN "broken" ELSE peer[s]]
  BY DEF RecvSend, AInv, Running, Stopped, EpollWait
<1>2. cur \in Fd /\ From = fds[cur] /\ From \in Sock /\ Received \in Nat
  BY <1>1, ReceivedType DEF Set, From, IInv, TypeOK
<1>3. total_sent' > 0
  BY <1>1, <1>2 DEF IInv, TypeOK
<1>4. ASSUME NEW f \in Fd, f # cur, fds[f] # None
      PROVE  rcv'[fds[f]] = rcv[fds[f]]
  BY <1>1, <1>2, <1>4 DEF Single, IInv, TypeOK
<1>5. \A s \in Sock : Ended(s) => peer'[s] \in {"fin", "reset", "broken"}
  BY <1>1 DEF Ended
<1>6. \A f \in Fd : fds[f] # None => fds[f] \in Sock
  BY DEF IInv, TypeOK
<1>7. \A f \in Fd : Known(f)' => Known(f)
  BY <1>1, StillKnown
<1>8. OneEvent'
  BY <1>1 DEF HInv, OneEvent
<1>9. EventsDue'
  <2> SUFFICES ASSUME NEW e \in events', e.fd \in Fd, Known(e.fd)'
               PROVE  Due(e.fd)' /\ (e.hup => peer'[fds'[e.fd]] \in {"fin", "reset", "broken"})
    BY DEF EventsDue, Ended
  <2>1. e \in events /\ Known(e.fd) /\ fds[e.fd] # None /\ fds'[e.fd] = fds[e.fd]
    BY <1>1, <1>7 DEF Known
  <2>2. e.fd # cur /\ Due(e.fd) /\ (e.hup => Ended(fds[e.fd]))
    BY <1>1, <2>1 DEF HInv, EventsDue, CallDue
  <2>3. rcv'[fds[e.fd]] = rcv[fds[e.fd]] /\ fds[e.fd] \in Sock
    BY <1>4, <1>6, <2>1, <2>2
  <2> QED BY <1>5, <2>1, <2>2, <2>3 DEF Due, Ended
<1>10. CallDue'
  BY <1>1, <1>3 DEF HInv, CallDue
<1> QED BY <1>8, <1>9, <1>10 DEF HInv

LEMMA StepHInv ==
  ASSUME IInv, AInv, HInv, [NextH]_<<vars, fresh>>
  PROVE  HInv'
<1>1. CASE UNCHANGED <<vars, fresh>>
  BY <1>1 DEF HInv, OneEvent, EventsDue, CallDue, Known, Due, Ended, Running
<1> SUFFICES ASSUME NextH PROVE HInv'
  BY <1>1
<1>2. CASE NoSocket \/ NoHost \/ ConnectFails \/ SigPipe \/ Interrupt
  BY <1>2 DEF NoSocket, NoHost, ConnectFails, SigPipe, Interrupt, Terminate, HInv, Running,
     Stopped
<1>3. CASE EpollWait
  BY <1>3, EpollWaitIsDue
<1>4. ASSUME NEW e \in events, HangUp(e) \/ CallForwarding(e)
      PROVE  HInv'
  <2>1. CASE CallForwarding(e)
    BY <2>1, CallIsDue
  <2>2. CASE HangUp(e)
    <3>1. /\ e.fd \in Fd /\ CloseBoth(e.fd) /\ pc = "loop" /\ pc' = "loop"
          /\ events' \subseteq events /\ ~EpollWait
      BY <2>2 DEF HangUp, IInv, TableSet, EpollWait
    <3> QED BY <3>1, CloseIsDue DEF Running, Stopped
  <2> QED BY <1>4, <2>1, <2>2
<1>5. CASE ReturnClose
  <2>1. /\ cur \in Fd /\ CloseBoth(cur) /\ pc = "forwarding" /\ pc' = "loop"
        /\ events' \subseteq events /\ ~EpollWait
    BY <1>5, ReceivedType DEF ReturnClose, Return, EpollWait
  <2> QED BY <2>1, CloseIsDue DEF Running, Stopped
<1>6. CASE Accept
  BY <1>6, AcceptIsDue
<1>7. CASE Connected
  BY <1>7, ConnectedIsDue
<1>8. CASE RecvSend
  BY <1>8, RecvSendIsDue
<1>9. CASE AcceptFails \/ ReturnMore
  <2>1. /\ UNCHANGED <<fds, rcv>> /\ pc # "connect" /\ Running /\ ~EpollWait
        /\ events' \subseteq events /\ pc' = "loop"
    BY <1>9 DEF AcceptFails, ReturnMore, Return, EpollWait, Running, Stopped
  <2>2. \A s \in Sock : Ended(s) => peer'[s] \in {"fin", "reset", "broken"}
    BY <1>9 DEF AcceptFails, ReturnMore, Ended
  <2>3. \A f \in Fd : fds[f] # None => fds[f] \in Sock /\ rcv[fds[f]] \in Nat
    BY DEF IInv, TypeOK
  <2> QED BY <2>1, <2>2, <2>3, NothingRead
<1>10. CASE Peers
  <2>1. CASE ~Running
    <3>1. UNCHANGED pc
      BY <1>10 DEF Peers, ClientConnect, PeerSend, PeerFin, PeerReset
    <3> QED BY <2>1, <3>1 DEF HInv, Running
  <2>2. CASE Running
    <3>1. UNCHANGED <<fds, pc, fw_new, fw_socket, events, cur, total_sent>>
      BY <1>10 DEF Peers, ClientConnect, PeerSend, PeerFin, PeerReset
    <3>2. ~EpollWait
      BY <1>10 DEF Peers, ClientConnect, PeerSend, PeerFin, PeerReset, EpollWait, Ready, IInv,
         TypeOK
    <3>3. \A s \in Sock : /\ Ended(s) => peer'[s] \in {"fin", "reset", "broken"}
                          /\ rcv'[s] >= rcv[s]
      <4>0. peer \in [Sock -> PeerState] /\ rcv \in [Sock -> Nat]
        BY DEF IInv, TypeOK
      <4>1. ASSUME NEW c \in Conn, ClientConnect(c)
            PROVE  \A s \in Sock : /\ Ended(s) => peer'[s] \in {"fin", "reset", "broken"}
                                   /\ rcv'[s] >= rcv[s]
        <5>1. PICK t \in Sock : peer[t] = "absent" /\ peer' = [peer EXCEPT ![t] = "up"]
          BY <4>1, SockNotNone DEF ClientConnect
        <5>2. rcv' = rcv
          BY <4>1 DEF ClientConnect
        <5> QED BY <4>0, <5>1, <5>2 DEF Ended
      <4>2. ASSUME NEW t \in Sock, PeerSend(t) \/ PeerFin(t) \/ PeerReset(t)
            PROVE  \A s \in Sock : /\ Ended(s) => peer'[s] \in {"fin", "reset", "broken"}
                                   /\ rcv'[s] >= rcv[s]
        BY <4>0, <4>2 DEF PeerSend, PeerFin, PeerReset, Ended
      <4> QED BY <1>10, <4>1, <4>2 DEF Peers
    <3>4. \A f \in Fd : fds[f] # None => fds[f] \in Sock
      BY DEF IInv, TypeOK
    <3> QED BY <2>2, <3>1, <3>2, <3>3, <3>4, NothingRead
  <2> QED BY <2>1, <2>2
<1> QED BY <1>2, <1>3, <1>4, <1>5, <1>6, <1>7, <1>8, <1>9, <1>10 DEF NextH, Next, Process

\* A pending event of a connection made before the batch has its reason: something to
\* read, or an end (proxy_v3.cpp:157-160, 236).
THEOREM EventsAreDue == SpecH => [](IInv /\ AInv /\ HInv)
<1>1. InitH => IInv /\ AInv /\ HInv
  BY InitIInv, InitAInv, InitHInv DEF InitH
<1>2. IInv /\ AInv /\ HInv /\ [NextH]_<<vars, fresh>> => (IInv /\ AInv /\ HInv)'
  <2> SUFFICES ASSUME IInv, AInv, HInv, [NextH]_<<vars, fresh>>
               PROVE  (IInv /\ AInv /\ HInv)'
    OBVIOUS
  <2>1. [Next]_vars
    BY DEF NextH
  <2> QED BY <2>1, StepIInv, StepAInv, StepHInv
<1> QED BY <1>1, <1>2, PTL DEF SpecH

\* Who a close takes down was due: the event or the call was about one of its sockets.
LEMMA StepOwnEnd ==
  ASSUME IInv, AInv, HInv, [NextH]_<<vars, fresh>>, NEW c \in Conn \ fresh,
         Open(c), Running', ~Open(c)'
  PROVE  Ended(<<c, "cli">>) \/ Ended(<<c, "srv">>)
<1>0. /\ OpenOn(<<c, "cli">>) /\ OpenOn(<<c, "srv">>)
      /\ <<c, "cli">> \in Sock /\ <<c, "srv">> \in Sock
  BY OpenSocksOn, SockNotNone DEF Open
<1>1. ASSUME NEW fd \in Fd, Set(fd), CloseBoth(fd), Running, pc # "connect"
      PROVE  Known(fd) /\ fds[fd] \in {<<c, "cli">>, <<c, "srv">>}
  <2>1. fds \in [Fd -> Sock \cup {None}] /\ Paired /\ Single
    BY <1>1 DEF IInv, TypeOK, AInv
  <2>2. Partner(fd) \in Fd /\ {fd_sockets[fd].src, fd_sockets[fd].dst} \cap Fd = {fd, Partner(fd)}
    BY <1>1 DEF Set
  <2>3. fds' = [f \in Fd |-> IF f \in {fd, Partner(fd)} THEN None ELSE fds[f]]
    BY <1>1, <2>2 DEF CloseBoth
  <2>4. fds[fd] # None /\ fds[fd][1] = c
    <3>1. PICK f \in Fd, g \in Fd : fds[f] = <<c, "cli">> /\ fds[g] = <<c, "srv">>
      BY <1>0 DEF OpenOn
    <3>2. f \in {fd, Partner(fd)} \/ g \in {fd, Partner(fd)}
      <4> SUFFICES ASSUME f \notin {fd, Partner(fd)}, g \notin {fd, Partner(fd)} PROVE FALSE
        OBVIOUS
      <4>1. fds'[f] = <<c, "cli">> /\ fds'[g] = <<c, "srv">>
        BY <2>3, <3>1
      <4>2. {<<c, "cli">>, <<c, "srv">>} \subseteq {fds'[h] : h \in {k \in Fd : fds'[k] # None}}
        BY <4>1, SockNotNone
      <4> QED BY <4>2 DEF Open, OpenSocks, Free
    <3>3. PICK h \in {fd, Partner(fd)} : fds[h] \in {<<c, "cli">>, <<c, "srv">>} /\ h \in Fd
      BY <2>2, <3>1, <3>2
    <3>4. PICK x \in Conn :
            \/ /\ h % 2 = 1 /\ h + 1 \in Fd
               /\ fds[h] = <<x, "cli">> /\ fds[h + 1] = <<x, "srv">>
            \/ /\ h % 2 = 0 /\ h - 1 \in Fd
               /\ fds[h - 1] = <<x, "cli">> /\ fds[h] = <<x, "srv">>
      BY <2>1, <3>3, OnPair, SockNotNone
    <3>5. x = c /\ fds[Partner(h)] \in {<<c, "cli">>, <<c, "srv">>}
      BY <3>3, <3>4 DEF Partner
    <3>6. fd = h \/ fd = Partner(h)
      <4>1. fd \in Nat /\ 1 <= fd
        BY FdNat
      <4> QED BY <3>3, <4>1, Parity DEF Partner
    <3> QED BY <3>3, <3>5, <3>6, SockNotNone
  <2>5. fds[fd] \in {<<c, "cli">>, <<c, "srv">>}
    BY <2>1, <2>4 DEF Sock
  <2> QED BY <1>1, <2>4, <2>5 DEF Known
<1>2. ASSUME NEW e \in events, HangUp(e)
      PROVE  Ended(<<c, "cli">>) \/ Ended(<<c, "srv">>)
  <2>1. e.fd \in Fd /\ Set(e.fd) /\ CloseBoth(e.fd) /\ pc = "loop" /\ Running /\ e.hup
    BY <1>2 DEF HangUp, IInv, TableSet, Running, Stopped
  <2>2. Known(e.fd) /\ fds[e.fd] \in {<<c, "cli">>, <<c, "srv">>}
    BY <1>1, <2>1
  <2>3. Ended(fds[e.fd])
    BY <2>1, <2>2 DEF HInv, EventsDue
  <2> QED BY <2>2, <2>3
<1>3. CASE ReturnClose
  <2>1. /\ cur \in Fd /\ Set(cur) /\ CloseBoth(cur) /\ pc = "forwarding" /\ Running
        /\ Received = 0 /\ total_sent = 0
    BY <1>3, ReceivedType DEF ReturnClose, Running, Stopped
  <2>2. Known(cur) /\ fds[cur] \in {<<c, "cli">>, <<c, "srv">>}
    BY <1>1, <2>1
  <2>3. Due(cur)
    BY <2>1, <2>2 DEF HInv, CallDue
  <2>4. From = fds[cur] /\ From # None /\ rcv[From] \in Nat
    BY <1>0, <2>1, <2>2, SockNotNone DEF From, Set, IInv, TypeOK
  <2>5. rcv[fds[cur]] = 0
    BY <2>1, <2>4 DEF Received
  <2>6. Ended(fds[cur])
    BY <2>3, <2>4, <2>5 DEF Due
  <2> QED BY <2>2, <2>6
<1>4. CASE Accept
  <2>1. fds \in [Fd -> Sock \cup {None}] /\ TypeOK /\ Paired
    BY DEF IInv, TypeOK
  <2>2. fw_new' \in Free /\ fw_socket' \in Free
    BY <1>4, <2>1, LowestPair DEF Accept
  <2>3. \A f \in Fd \ Free : fds'[f] = fds[f]
    BY <1>4, <2>1, <2>2 DEF Accept
  <2>4. OpenSocks \subseteq OpenSocks'
    BY <2>1, <2>3 DEF OpenSocks, Free
  <2> QED BY <2>4 DEF Open
<1>5. CASE Peers \/ EpollWait \/ AcceptFails \/ Connected \/ RecvSend \/ ReturnMore
            \/ (\E e \in events : CallForwarding(e)) \/ UNCHANGED vars
  <2>1. UNCHANGED fds
    BY <1>5 DEF Peers, ClientConnect, PeerSend, PeerFin, PeerReset, EpollWait, AcceptFails,
       Connected, RecvSend, ReturnMore, CallForwarding
  <2> QED BY <2>1 DEF Open, OpenSocks, Free
<1>6. ~(NoSocket \/ NoHost \/ ConnectFails \/ SigPipe \/ Interrupt)
  BY DEF NoSocket, NoHost, ConnectFails, SigPipe, Interrupt, Terminate, Running, Stopped
<1> QED BY <1>2, <1>3, <1>4, <1>5, <1>6 DEF NextH, Next, Process

\* A connection made before the batch ends only after one of its own peers ended: an
\* event that outlived its connection hits no other (proxy_v3.cpp:162-168, 236-240).
THEOREM OnlyFreshAreHit == SpecH => SettledOwnEnd
<1>1. IInv /\ AInv /\ HInv /\ [NextH]_<<vars, fresh>> =>
        [\A c \in Conn \ fresh : Open(c) /\ Running' /\ ~Open(c)' =>
            Ended(<<c, "cli">>) \/ Ended(<<c, "srv">>)]_<<vars, fresh>>
  BY StepOwnEnd
<1> QED BY <1>1, EventsAreDue, PTL DEF SpecH, SettledOwnEnd
=============================================================================
