------------------------- MODULE EchoServersProofs -------------------------
(***************************************************************************)
(* EchoServers for any number of clients, processes and messages, with     *)
(* messages in parts, clients that are killed and processes that are       *)
(* interrupted: a client is in one place and is not closed on before its   *)
(* end mark, gets one echo per message, and is served by one worker.  The  *)
(* servers implement EchoService.                                          *)
(***************************************************************************)
EXTENDS EchoServers, FiniteSetTheorems, SequenceTheorems, TLAPS

USE EchoAssumption DEF net, clients, procs

-----------------------------------------------------------------------------
(* Sequences.                                                               *)

Letters == {"1", "0", "x"}

LEMMA ThirdOfThree ==
  ASSUME NEW S, NEW s \in Seq(S), NEW t \in Seq(S), Len(s) = 1, Len(t) = 2
  PROVE  (s \o t)[1] = s[1] /\ (s \o t)[2] = t[1] /\ (s \o t)[3] = t[2]
BY ConcatProperties

\* What a message adds to what is left of the one before.
LEMMA Added ==
  ASSUME NEW s \in Rest, NEW flag \in {"1", "0"}, NEW parts \in {<<flag>>, <<flag, "x">>}
  PROVE  s \o parts \in Flagged(flag)
<1>1. CASE s = <<>>
  BY <1>1 DEF Flagged
<1>2. CASE s = <<"x">> /\ parts = <<flag>>
  <2> DEFINE t == <<"x", flag>>
  <2>1. /\ s \in Seq(Letters) /\ parts \in Seq(Letters) /\ t \in Seq(Letters)
        /\ Len(s) = 1 /\ Len(parts) = 1 /\ Len(t) = 2
        /\ s[1] = "x" /\ parts[1] = flag /\ t[1] = "x" /\ t[2] = flag
    BY <1>2 DEF Letters
  <2>2. s \o parts \in Seq(Letters) /\ Len(s \o parts) = 2
    BY <2>1, ConcatProperties
  <2>3. (s \o parts)[1] = "x" /\ (s \o parts)[2] = flag
    BY <2>1, ConcatProperties
  <2> HIDE DEF t
  <2>4. \A i \in 1 .. 2 : (s \o parts)[i] = t[i]
    BY <2>1, <2>3
  <2>5. s \o parts = t
    BY <2>1, <2>2, <2>4, SeqEqual
  <2> QED BY <2>5 DEF Flagged, t
<1>3. CASE s = <<"x">> /\ parts = <<flag, "x">>
  <2> DEFINE t == <<"x", flag, "x">>
  <2>1. /\ s \in Seq(Letters) /\ parts \in Seq(Letters) /\ t \in Seq(Letters)
        /\ Len(s) = 1 /\ Len(parts) = 2 /\ Len(t) = 3
        /\ s[1] = "x" /\ parts[1] = flag /\ parts[2] = "x"
        /\ t[1] = "x" /\ t[2] = flag /\ t[3] = "x"
    BY <1>3 DEF Letters
  <2>2. s \o parts \in Seq(Letters) /\ Len(s \o parts) = 3
    BY <2>1, ConcatProperties
  <2> HIDE DEF t
  <2>3. /\ (s \o parts)[1] = s[1]
        /\ (s \o parts)[2] = parts[1] /\ (s \o parts)[3] = parts[2]
    BY <2>1, ThirdOfThree
  <2>4. \A i \in 1 .. 3 : (s \o parts)[i] = t[i]
    BY <2>1, <2>3
  <2>5. s \o parts = t
    BY <2>1, <2>2, <2>4, SeqEqual
  <2> QED BY <2>5 DEF Flagged, t
<1> QED BY <1>1, <1>2, <1>3 DEF Rest

\* What is left when the flag at the head is taken.
LEMMA FlagTaken ==
  ASSUME NEW s \in Flagged("1"), Head(s) = "1"
  PROVE  Tail(s) \in Rest
<1>1. CASE s = <<"1">>
  BY <1>1 DEF Rest
<1>2. CASE s = <<"1", "x">>
  BY <1>2 DEF Rest
<1>3. CASE s = <<"x", "1">> \/ s = <<"x", "1", "x">>
  BY <1>3
<1> QED BY <1>1, <1>2, <1>3 DEF Flagged

LEMMA NoRequest ==
  ASSUME NEW s \in Rest \cup Flagged("0"), s # <<>>
  PROVE  Head(s) # "1"
BY DEF Flagged, Rest

LEMMA Words ==
  /\ Rest \subseteq Seq(Letters) /\ Flagged("1") \subseteq Seq(Letters)
  /\ Flagged("0") \subseteq Seq(Letters) /\ <<>> \in Rest
BY DEF Rest, Flagged, Letters

\* Who is queued after one more came, and after the first went.
LEMMA QueueGrows ==
  ASSUME NEW q \in Seq(Client), NEW c \in Client,
         \A i, j \in DOMAIN q : q[i] = q[j] => i = j,
         \A i \in DOMAIN q : q[i] # c
  PROVE  /\ Append(q, c) \in Seq(Client)
         /\ \A i, j \in DOMAIN Append(q, c) : Append(q, c)[i] = Append(q, c)[j] => i = j
         /\ \A x : (\E i \in DOMAIN Append(q, c) : Append(q, c)[i] = x)
                     <=> (x = c \/ \E i \in DOMAIN q : q[i] = x)
<1>1. /\ Append(q, c) \in Seq(Client) /\ Len(q) \in Nat
      /\ DOMAIN q = 1 .. Len(q) /\ DOMAIN Append(q, c) = 1 .. Len(q) + 1
      /\ Append(q, c)[Len(q) + 1] = c
      /\ \A i \in 1 .. Len(q) : Append(q, c)[i] = q[i]
  BY AppendProperties, LenProperties
<1> QED BY <1>1

LEMMA QueueShrinks ==
  ASSUME NEW q \in Seq(Client), q # <<>>,
         \A i, j \in DOMAIN q : q[i] = q[j] => i = j
  PROVE  /\ Tail(q) \in Seq(Client) /\ Head(q) \in Client
         /\ \A i, j \in DOMAIN Tail(q) : Tail(q)[i] = Tail(q)[j] => i = j
         /\ \A x : (\E i \in DOMAIN Tail(q) : Tail(q)[i] = x)
                     <=> (x # Head(q) /\ \E i \in DOMAIN q : q[i] = x)
         /\ \E i \in DOMAIN q : q[i] = Head(q)
<1>1. /\ Tail(q) \in Seq(Client) /\ Head(q) \in Client /\ Head(q) = q[1]
      /\ Len(q) \in Nat \ {0} /\ Len(Tail(q)) = Len(q) - 1
      /\ DOMAIN q = 1 .. Len(q) /\ DOMAIN Tail(q) = 1 .. Len(q) - 1
      /\ \A i \in 1 .. Len(q) - 1 : Tail(q)[i] = q[i + 1]
  BY HeadTailProperties, LenProperties, EmptySeq
<1>2. \A i, j \in DOMAIN Tail(q) : Tail(q)[i] = Tail(q)[j] => i = j
  BY <1>1
<1>3. ASSUME NEW i \in DOMAIN Tail(q)
      PROVE  Tail(q)[i] # Head(q) /\ \E j \in DOMAIN q : q[j] = Tail(q)[i]
  BY <1>1
<1>4. ASSUME NEW j \in DOMAIN q, q[j] # Head(q)
      PROVE  \E i \in DOMAIN Tail(q) : Tail(q)[i] = q[j]
  <2>1. j - 1 \in DOMAIN Tail(q) /\ (j - 1) + 1 = j
    BY <1>1, <1>4
  <2> QED BY <1>1, <2>1
<1>5. \A i \in DOMAIN Tail(q) : \E j \in DOMAIN q : q[j] = Tail(q)[i]
  BY <1>3
<1>6. \A x : (\E i \in DOMAIN Tail(q) : Tail(q)[i] = x)
               <=> (x # Head(q) /\ \E i \in DOMAIN q : q[i] = x)
  BY <1>3, <1>4
<1>7. 1 \in DOMAIN q /\ q[1] = Head(q)
  BY <1>1
<1> QED BY <1>1, <1>2, <1>6, <1>7

\* What was in a socket stays what it was when its head is read.
LEMMA WordTail ==
  ASSUME NEW s \in Seq(Letters), s # <<>>
  PROVE  /\ Tail(s) \in Seq(Letters)
         /\ \A i \in DOMAIN Tail(s) : \E j \in DOMAIN s : s[j] = Tail(s)[i]
<1>1. /\ Tail(s) \in Seq(Letters) /\ Len(s) \in Nat \ {0} /\ Len(Tail(s)) = Len(s) - 1
      /\ DOMAIN s = 1 .. Len(s) /\ DOMAIN Tail(s) = 1 .. Len(s) - 1
      /\ \A i \in 1 .. Len(s) - 1 : Tail(s)[i] = s[i + 1]
  BY HeadTailProperties, LenProperties, EmptySeq
<1> QED BY <1>1

\* A socket of a client whose messages arrive whole has no second parts.
LEMMA WholeRest ==
  ASSUME NEW s \in Rest, \A i \in DOMAIN s : s[i] # "x"
  PROVE  s = <<>>
BY DEF Rest

LEMMA WholeFlag ==
  ASSUME NEW flag \in {"1", "0"}
  PROVE  /\ <<flag>> \in Flagged(flag)
         /\ \A i \in DOMAIN <<flag>> : <<flag>>[i] # "x"
BY DEF Flagged

-----------------------------------------------------------------------------
(* The initial states.                                                      *)

LEMMA InitInvariant == Init => IInv
<1> SUFFICES ASSUME Init PROVE IInv
  OBVIOUS
<1>1. TypeOK
  <2>1. /\ server \in Servers /\ up \subseteq server.procs
        /\ queue \in Seq(Client) /\ inb \in [Client -> Seq({"1", "0", "x"})]
    BY DEF Init
  <2>2. /\ socks \in [Proc -> SUBSET Client] /\ batch \in [Proc -> SUBSET Event]
        /\ serving \in [Proc \cup Client -> Client \cup {None}]
    BY DEF Init
  <2>3. echoes \in [Client -> 0 .. 1] /\ left \in [Client -> Nat]
    <3>1. \A c \in Client : echoes[c] = 0 /\ left[c] \in Nat
      BY DEF Init
    <3>2. echoes = [c \in Client |-> echoes[c]] /\ left = [c \in Client |-> left[c]]
      BY DEF Init
    <3> QED BY <3>1, <3>2
  <2>4. cst \in [Client -> {"new", "refused", "send", "wait", "ended", "done", "cut",
                           "piped", "failed"}]
    BY DEF Init
  <2> QED BY <2>1, <2>2, <2>3, <2>4 DEF TypeOK
<1>2. \A c \in Client : ~Queued(c) /\ Holders(c) = {} /\ Closed(c)
  BY DEF Init, Queued, Holders, Closed
<1>3. Spread
  BY <1>2 DEF Init, Spread, AllUp, Whole
<1>4. Workers
  BY DEF Init, Workers
<1>5. Conversation
  BY <1>2 DEF Init, Conversation, Rest
<1> QED BY <1>1, <1>3, <1>4, <1>5 DEF IInv

-----------------------------------------------------------------------------
(* The clients.                                                             *)

\* Who is queued or held depends on the queue and the sockets.
LEMMA SamePlaces ==
  ASSUME UNCHANGED <<queue, socks>>
  PROVE  \A c \in Client : /\ Queued(c)' = Queued(c) /\ Holders(c)' = Holders(c)
                           /\ Closed(c)' = Closed(c)
BY DEF Queued, Holders, Closed

\* No client comes back from its end.
LEMMA SameWorkers ==
  ASSUME IInv, UNCHANGED <<server, socks, batch, serving>>,
         \A c \in Client : HungUp(c) => HungUp(c)'
  PROVE  Workers'
<1>1. \A p \in Proc : \A e \in batch[p] : e.of # None => e.of \in Client
  BY DEF IInv, TypeOK, Event
<1> QED BY <1>1 DEF IInv, Workers, Holders

LEMMA ConnectStep ==
  ASSUME IInv, NEW c \in Client, Connect(c)
  PROVE  IInv'
<1>1. CASE up = {}
  <2>1. TypeOK'
    BY <1>1 DEF IInv, TypeOK, Connect
  <2>2. Spread'
    <3>1. /\ UNCHANGED <<server, up, queue, socks, batch, serving, inb>>
          /\ cst' = [cst EXCEPT ![c] = "refused"] /\ Closed(c)
      BY <1>1 DEF Connect, IInv, Spread
    <3>2. \A x \in Client : cst'[x] \in {"new", "refused"} => Closed(x)'
      BY <3>1, SamePlaces DEF IInv, TypeOK, Spread
    <3>3. \A x \in Whole : AllUp' /\ Closed(x)' => cst'[x] \notin {"send", "wait"}
      BY <3>1, SamePlaces DEF IInv, TypeOK, Spread, AllUp, Whole
    <3> QED BY <3>1, <3>2, <3>3, SamePlaces DEF IInv, Spread
  <2>3. Workers'
    BY <1>1, SameWorkers DEF IInv, TypeOK, Connect, HungUp
  <2>4. Conversation'
    BY <1>1, SamePlaces DEF IInv, TypeOK, Conversation, Connect
  <2> QED BY <2>1, <2>2, <2>3, <2>4 DEF IInv
<1>2. CASE up # {}
  <2>1. Closed(c) /\ ~Queued(c) /\ Holders(c) = {}
    BY DEF IInv, Spread, Connect, Closed
  <2>2. /\ queue' \in Seq(Client)
        /\ \A i, j \in DOMAIN queue' : queue'[i] = queue'[j] => i = j
        /\ \A x \in Client : Queued(x)' <=> (x = c \/ Queued(x))
    <3>1. queue' = Append(queue, c)
      BY <1>2 DEF Connect
    <3>2. /\ queue \in Seq(Client)
          /\ \A i, j \in DOMAIN queue : queue[i] = queue[j] => i = j
          /\ \A i \in DOMAIN queue : queue[i] # c
      BY <2>1 DEF IInv, TypeOK, Spread, Queued
    <3> QED BY <3>1, <3>2, QueueGrows DEF Queued
  <2>3. \A x \in Client : Holders(x)' = Holders(x)
    BY <1>2 DEF Connect, Holders
  <2>4. \A x \in Client : Closed(x)' <=> (x # c /\ Closed(x))
    BY <2>2, <2>3 DEF Closed
  <2>5. TypeOK'
    BY <1>2, <2>2 DEF IInv, TypeOK, Connect
  <2>6. Spread'
    <3>1. /\ UNCHANGED <<server, up, socks, batch, serving, inb>>
          /\ cst' = [cst EXCEPT ![c] = "send"]
      BY <1>2 DEF Connect
    <3>2. \A x \in Client : cst'[x] \in {"new", "refused"} => Closed(x)'
      BY <2>4, <3>1 DEF IInv, TypeOK, Spread
    <3>3. \A x \in Whole : AllUp' /\ Closed(x)' => cst'[x] \notin {"send", "wait"}
      BY <2>4, <3>1 DEF IInv, TypeOK, Spread, AllUp, Whole
    <3>4. \A x \in Client : (Queued(x)' => Holders(x)' = {}) /\ (Closed(x)' => inb'[x] = <<>>)
      BY <2>1, <2>2, <2>3, <2>4, <3>1 DEF IInv, Spread
    <3> QED BY <2>2, <3>1, <3>2, <3>3, <3>4 DEF IInv, Spread
  <2>7. Workers'
    BY <1>2, SameWorkers DEF IInv, TypeOK, Connect, HungUp
  <2>8. Conversation'
    BY <1>2, <2>4 DEF IInv, TypeOK, Conversation, Connect
  <2> QED BY <2>5, <2>6, <2>7, <2>8 DEF IInv
<1> QED BY <1>1, <1>2

\* What a message does to its client's socket.
LEMMA Message ==
  ASSUME IInv, NEW c \in Client, NEW flag \in {"1", "0"}, inb[c] \in Rest, Arrives(c, flag)
  PROVE  /\ inb' \in [Client -> Seq(Letters)]
         /\ \A x \in Client \ {c} : inb'[x] = inb[x]
         /\ Closed(c) => inb'[c] = <<>>
         /\ ~Closed(c) => inb'[c] \in Flagged(flag)
         /\ c \in Whole => \A i \in DOMAIN inb'[c] : inb'[c][i] # "x"
<1>1. PICK parts \in {<<flag>>} \cup (IF c \in MayPart THEN {<<flag, "x">>} ELSE {}) :
        inb' = IF Closed(c) THEN inb ELSE [inb EXCEPT ![c] = @ \o parts]
  BY DEF Arrives
<1>2. inb \in [Client -> Seq(Letters)]
  BY DEF IInv, TypeOK, Letters
<1>3. CASE Closed(c)
  BY <1>1, <1>2, <1>3 DEF IInv, Spread, Conversation
<1>4. CASE ~Closed(c)
  <2>1. inb[c] \o parts \in Flagged(flag)
    BY <1>1, Added
  <2>2. Flagged(flag) \subseteq Seq(Letters)
    BY Words
  <2>3. inb'[c] = inb[c] \o parts /\ \A x \in Client \ {c} : inb'[x] = inb[x]
    BY <1>1, <1>2, <1>4
  <2>4. inb' \in [Client -> Seq(Letters)]
    BY <1>1, <1>2, <1>4, <2>1, <2>2
  <2>5. ASSUME c \in Whole
        PROVE  \A i \in DOMAIN inb'[c] : inb'[c][i] # "x"
    <3>1. inb[c] = <<>>
      BY <2>5, WholeRest DEF IInv, Conversation
    <3>2. parts = <<flag>>
      BY <1>1, <2>5 DEF Whole
    <3>3. inb'[c] = <<flag>>
      BY <2>3, <3>1, <3>2
    <3> QED BY <3>3, WholeFlag
  <2> QED BY <1>4, <2>1, <2>3, <2>4, <2>5
<1> QED BY <1>3, <1>4

LEMMA WriteStep ==
  ASSUME IInv, NEW c \in Client, Write(c)
  PROVE  IInv'
<1>1. inb[c] \in Rest /\ echoes[c] = 0
  BY DEF IInv, Conversation, Write
<1>2. /\ inb' \in [Client -> Seq(Letters)]
      /\ \A x \in Client \ {c} : inb'[x] = inb[x]
      /\ Closed(c) => inb'[c] = <<>>
      /\ ~Closed(c) => inb'[c] \in Flagged("1")
      /\ c \in Whole => \A i \in DOMAIN inb'[c] : inb'[c][i] # "x"
  BY <1>1, Message DEF Write
<1>3. TypeOK'
  BY <1>2 DEF IInv, TypeOK, Write, Letters
<1>4. Spread'
  BY <1>2, SamePlaces DEF IInv, TypeOK, Spread, Write, AllUp, Whole
<1>5. Workers'
  BY SameWorkers DEF IInv, TypeOK, Write, HungUp
<1>6. Conversation'
  BY <1>1, <1>2, SamePlaces DEF IInv, TypeOK, Conversation, Write
<1> QED BY <1>3, <1>4, <1>5, <1>6 DEF IInv

LEMMA WriteEndStep ==
  ASSUME IInv, NEW c \in Client, WriteEnd(c)
  PROVE  IInv'
<1>1. inb[c] \in Rest /\ echoes[c] = 0
  BY DEF IInv, Conversation, WriteEnd
<1>2. /\ inb' \in [Client -> Seq(Letters)]
      /\ \A x \in Client \ {c} : inb'[x] = inb[x]
      /\ Closed(c) => inb'[c] = <<>>
      /\ ~Closed(c) => inb'[c] \in Flagged("0")
      /\ c \in Whole => \A i \in DOMAIN inb'[c] : inb'[c][i] # "x"
  BY <1>1, Message DEF WriteEnd
<1>3. TypeOK'
  BY <1>2 DEF IInv, TypeOK, WriteEnd, Letters
<1>4. Spread'
  BY <1>2, SamePlaces DEF IInv, TypeOK, Spread, WriteEnd, AllUp, Whole
<1>5. Workers'
  BY SameWorkers DEF IInv, TypeOK, WriteEnd, HungUp
<1>6. Conversation'
  BY <1>1, <1>2, SamePlaces, Words DEF IInv, TypeOK, Conversation, WriteEnd
<1> QED BY <1>3, <1>4, <1>5, <1>6 DEF IInv

LEMMA ReadStep ==
  ASSUME IInv, NEW c \in Client, Read(c)
  PROVE  IInv'
<1>1. left[c] > 0
  BY DEF IInv, Conversation, Read
<1>2. inb[c] \in Rest
  BY Words DEF IInv, Spread, Conversation, Read, TypeOK
<1>3. TypeOK'
  BY <1>1 DEF IInv, TypeOK, Read
<1>4. Spread'
  BY SamePlaces DEF IInv, TypeOK, Spread, Read, AllUp, Whole
<1>5. Workers'
  BY SameWorkers DEF IInv, TypeOK, Read, HungUp
<1>6. Conversation'
  BY <1>2, SamePlaces DEF IInv, TypeOK, Conversation, Read
<1> QED BY <1>3, <1>4, <1>5, <1>6 DEF IInv

\* What a reset leaves of what was in a socket.
LEMMA WordCut ==
  ASSUME NEW s \in Seq(Letters), NEW n \in 0 .. Len(s)
  PROVE  /\ SubSeq(s, 1, n) \in Seq(Letters)
         /\ \A i \in DOMAIN SubSeq(s, 1, n) : i \in DOMAIN s /\ SubSeq(s, 1, n)[i] = s[i]
         /\ s = <<>> => SubSeq(s, 1, n) = <<>>
<1>1. /\ Len(s) \in Nat /\ DOMAIN s = 1 .. Len(s)
      /\ \A i \in 1 .. n : s[i] \in Letters
  BY LenProperties, ElementOfSeq
<1>2. /\ SubSeq(s, 1, n) \in Seq(Letters) /\ Len(SubSeq(s, 1, n)) = n
      /\ \A i \in 1 .. n : SubSeq(s, 1, n)[i] = s[i]
  BY <1>1, SubSeqProperties
<1>3. DOMAIN SubSeq(s, 1, n) = 1 .. n
  BY <1>2, LenProperties
<1>4. s = <<>> => SubSeq(s, 1, n) = <<>>
  BY <1>2, EmptySeq
<1> QED BY <1>1, <1>2, <1>3, <1>4

LEMMA ResetCuts ==
  ASSUME IInv, NEW c \in Client, NEW n \in Kept(c), Keep(c, n)
  PROVE  /\ inb' \in [Client -> Seq(Letters)]
         /\ \A x \in Client \ {c} : inb'[x] = inb[x]
         /\ inb[c] = <<>> => inb'[c] = <<>>
         /\ c \in Whole => \A i \in DOMAIN inb'[c] : inb'[c][i] # "x"
<1>1. inb \in [Client -> Seq(Letters)] /\ inb[c] \in Seq(Letters)
  BY DEF IInv, TypeOK, Letters
<1>2. n \in 0 .. Len(inb[c])
  BY <1>1, LenProperties DEF Kept
<1> DEFINE rest == SubSeq(inb[c], 1, n)
<1>3. /\ rest \in Seq(Letters)
      /\ \A i \in DOMAIN rest : i \in DOMAIN inb[c] /\ rest[i] = inb[c][i]
      /\ inb[c] = <<>> => rest = <<>>
  BY <1>1, <1>2, WordCut
<1>4. inb' = [inb EXCEPT ![c] = rest]
  BY DEF Keep
<1> HIDE DEF rest
<1>5. inb'[c] = rest /\ \A x \in Client \ {c} : inb'[x] = inb[x]
  BY <1>1, <1>4
<1>6. inb' \in [Client -> Seq(Letters)]
  BY <1>1, <1>3, <1>4
<1>7. c \in Whole => \A i \in DOMAIN rest : rest[i] # "x"
  BY <1>3 DEF IInv, Conversation
<1> QED BY <1>3, <1>5, <1>6, <1>7

\* The ways a client ends.
LEMMA ClientEnds ==
  ASSUME IInv, NEW c \in Client, ClientSigPipe(c) \/ CloseClient(c) \/ Fail(c)
  PROVE  IInv'
<1>1. /\ UNCHANGED <<server, up, queue, socks, batch, serving, echoes, left>>
      /\ \/ cst[c] \in {"send", "wait"} /\ cst' = [cst EXCEPT ![c] = "piped"]
         \/ cst[c] \in {"send", "wait"} /\ cst' = [cst EXCEPT ![c] = "failed"]
         \/ cst[c] = "ended" /\ cst' = [cst EXCEPT ![c] = "done"]
         \/ cst[c] = "ended" /\ cst' = [cst EXCEPT ![c] = "cut"]
      /\ UNCHANGED inb \/ \E n \in Kept(c) : Keep(c, n)
  BY DEF ClientSigPipe, CloseClient, Fail
<1>2. /\ inb' \in [Client -> Seq(Letters)]
      /\ \A x \in Client \ {c} : inb'[x] = inb[x]
      /\ inb[c] = <<>> => inb'[c] = <<>>
      /\ c \in Whole => \A i \in DOMAIN inb'[c] : inb'[c][i] # "x"
  BY <1>1, ResetCuts DEF IInv, TypeOK, Conversation, Letters
<1>3. TypeOK'
  BY <1>1, <1>2 DEF IInv, TypeOK, Letters
<1>4. Spread'
  BY <1>1, <1>2, SamePlaces DEF IInv, TypeOK, Spread, AllUp, Whole
<1>5. Workers'
  BY <1>1, SameWorkers DEF IInv, TypeOK, HungUp
<1>6. Conversation'
  BY <1>1, <1>2, SamePlaces DEF IInv, TypeOK, Conversation
<1> QED BY <1>3, <1>4, <1>5, <1>6 DEF IInv

-----------------------------------------------------------------------------
(* The processes.                                                           *)

\* What epoll_wait() or select() returns: one event of each socket, or none.
LEMMA Waiting ==
  ASSUME IInv, NEW p \in Proc, EpollWait(p) \/ Select(p)
  PROVE  IInv'
<1>1. /\ server.kind # "thread" /\ Idle(p)
      /\ UNCHANGED <<server, up, net, clients, socks, serving>>
  BY DEF EpollWait, Select
<1>2. \A c \in Client : HungUp(c) \in BOOLEAN
  BY DEF HungUp
<1>3. socks[p] \subseteq Client /\ None \notin Client /\ p \in Proc
  BY DEF IInv, TypeOK
<1>4. /\ batch' = [q \in Proc |-> batch'[q]] /\ \A q \in Proc \ {p} : batch'[q] = batch[q]
      /\ \A e \in batch'[p] :
           \/ e = [of |-> None, hup |-> FALSE]
           \/ \E c \in socks[p] : e = [of |-> c, hup |-> HungUp(c)]
           \/ \E c \in socks[p] : e = [of |-> c, hup |-> FALSE]
      /\ \A e, f \in batch'[p] : e.of = f.of => e = f
  <2>1. CASE EpollWait(p)
    <3>1. batch' = [batch EXCEPT ![p] = ListenerReady \cup
            {[of |-> c, hup |-> HungUp(c)] :
                c \in {d \in socks[p] : HungUp(d) \/ inb[d] # <<>>}}]
      BY <2>1 DEF EpollWait
    <3>2. batch'[p] = ListenerReady \cup
            {[of |-> c, hup |-> HungUp(c)] :
                c \in {d \in socks[p] : HungUp(d) \/ inb[d] # <<>>}}
      BY <3>1 DEF IInv, TypeOK
    <3>3. \A e \in batch'[p] :
            \/ e = [of |-> None, hup |-> FALSE]
            \/ \E c \in socks[p] : e = [of |-> c, hup |-> HungUp(c)]
      BY <3>2 DEF ListenerReady
    <3>4. \A e \in batch'[p] :
            \/ e.of = None /\ e = [of |-> None, hup |-> FALSE]
            \/ e.of \in socks[p] /\ e = [of |-> e.of, hup |-> HungUp(e.of)]
      BY <3>3
    <3>5. batch' = [q \in Proc |-> batch'[q]] /\ \A q \in Proc \ {p} : batch'[q] = batch[q]
      BY <3>1 DEF IInv, TypeOK
    <3>6. \A e, f \in batch'[p] : e.of = f.of => e = f
      BY <1>3, <3>4
    <3> QED BY <3>3, <3>5, <3>6
  <2>2. CASE Select(p)
    <3>1. batch' = [batch EXCEPT ![p] = ListenerReady \cup
            {[of |-> c, hup |-> FALSE] :
                c \in {d \in socks[p] : HungUp(d) \/ inb[d] # <<>>}}]
      BY <2>2 DEF Select
    <3>2. batch'[p] = ListenerReady \cup
            {[of |-> c, hup |-> FALSE] :
                c \in {d \in socks[p] : HungUp(d) \/ inb[d] # <<>>}}
      BY <3>1 DEF IInv, TypeOK
    <3>3. \A e \in batch'[p] :
            \/ e = [of |-> None, hup |-> FALSE]
            \/ \E c \in socks[p] : e = [of |-> c, hup |-> FALSE]
      BY <3>2 DEF ListenerReady
    <3>4. \A e \in batch'[p] :
            \/ e.of = None /\ e = [of |-> None, hup |-> FALSE]
            \/ e.of \in socks[p] /\ e = [of |-> e.of, hup |-> FALSE]
      BY <3>3
    <3>5. batch' = [q \in Proc |-> batch'[q]] /\ \A q \in Proc \ {p} : batch'[q] = batch[q]
      BY <3>1 DEF IInv, TypeOK
    <3>6. \A e, f \in batch'[p] : e.of = f.of => e = f
      BY <1>3, <3>4
    <3> QED BY <3>3, <3>5, <3>6
  <2> QED BY <2>1, <2>2
<1>5. \A e \in batch'[p] :
        /\ e \in Event
        /\ e.hup => e.of # None /\ HungUp(e.of)
        /\ e.of # None => e.of \in socks[p]
  <2> SUFFICES ASSUME NEW e \in batch'[p]
               PROVE  /\ e \in Event
                      /\ e.hup => e.of # None /\ HungUp(e.of)
                      /\ e.of # None => e.of \in socks[p]
    OBVIOUS
  <2>1. CASE e = [of |-> None, hup |-> FALSE]
    BY <2>1 DEF Event
  <2>2. ASSUME NEW c \in socks[p], e = [of |-> c, hup |-> HungUp(c)]
        PROVE  /\ e \in Event /\ e.of = c /\ c # None
               /\ e.hup => HungUp(c)
    BY <1>2, <1>3, <2>2 DEF Event
  <2>3. ASSUME NEW c \in socks[p], e = [of |-> c, hup |-> FALSE]
        PROVE  /\ e \in Event /\ e.of = c /\ c # None /\ ~e.hup
    BY <1>3, <2>3 DEF Event
  <2> QED BY <1>4, <2>1, <2>2, <2>3
<1>6. TypeOK'
  BY <1>1, <1>4, <1>5 DEF IInv, TypeOK
<1>7. Spread'
  BY <1>1, <1>4, SamePlaces DEF IInv, TypeOK, Spread, AllUp, Whole, Idle
<1>8. \A c \in Client : HungUp(c)' = HungUp(c) /\ Holders(c)' = Holders(c)
  BY <1>1 DEF HungUp, Holders
<1>9. \A q \in Proc : \A e \in batch[q] : e.of # None => e.of \in Client
  BY DEF IInv, TypeOK, Event
<1>10. Workers'
  BY <1>1, <1>3, <1>4, <1>5, <1>8, <1>9 DEF IInv, TypeOK, Workers, Idle
<1>11. Conversation'
  BY <1>1, SamePlaces DEF IInv, Conversation
<1> QED BY <1>6, <1>7, <1>10, <1>11 DEF IInv

\* A client goes from the queue to one socket.
LEMMA Taken ==
  ASSUME IInv, NEW p \in Proc, p \in up, queue # <<>>, NEW h, h = Head(queue),
         socks' = [socks EXCEPT ![p] = @ \cup {Head(queue)}],
         queue' = Tail(queue)
  PROVE  /\ h \in Client /\ queue' \in Seq(Client)
         /\ \A i, j \in DOMAIN queue' : queue'[i] = queue'[j] => i = j
         /\ Queued(h) /\ Holders(h) = {} /\ h \in socks'[p]
         /\ \A c \in Client : Queued(c)' <=> (Queued(c) /\ c # h)
         /\ \A c \in Client : Closed(c)' <=> Closed(c)
         /\ \A c \in Client : c # h => Holders(c)' = Holders(c)
         /\ \A q \in Proc \ {p} : socks'[q] = socks[q]
<1>1. /\ h \in Client /\ queue' \in Seq(Client)
      /\ \A i, j \in DOMAIN queue' : queue'[i] = queue'[j] => i = j
      /\ Queued(h)
      /\ \A c \in Client : Queued(c)' <=> (Queued(c) /\ c # h)
  <2>1. /\ queue \in Seq(Client) /\ queue # <<>>
        /\ \A i, j \in DOMAIN queue : queue[i] = queue[j] => i = j
    BY DEF IInv, TypeOK, Spread
  <2> QED BY <2>1, QueueShrinks DEF Queued
<1>2. Holders(h) = {}
  BY <1>1 DEF IInv, Spread
<1>3. /\ socks' \in [Proc -> SUBSET Client]
      /\ socks'[p] = socks[p] \cup {h}
      /\ \A q \in Proc \ {p} : socks'[q] = socks[q]
  BY <1>1 DEF IInv, TypeOK
<1>4. /\ p \in Holders(h)' /\ h \in socks'[p]
      /\ \A c \in Client : c # h => Holders(c)' = Holders(c)
  BY <1>3 DEF Holders
<1>5. \A c \in Client : Closed(c)' <=> Closed(c)
  BY <1>1, <1>2, <1>4 DEF Closed
<1> QED BY <1>1, <1>2, <1>3, <1>4, <1>5

LEMMA AcceptStep ==
  ASSUME IInv, NEW p \in Proc, Accept(p)
  PROVE  IInv'
<1>1. PICK e \in batch[p] :
        /\ Turn(p, e) /\ e.of = None /\ queue # <<>>
        /\ socks' = [socks EXCEPT ![p] = @ \cup {Head(queue)}]
        /\ queue' = Tail(queue)
        /\ batch' = [batch EXCEPT ![p] = @ \ {e}]
        /\ UNCHANGED <<server, up, inb, echoes, clients, serving>>
  BY DEF Accept
<1>2. p \in up
  BY <1>1 DEF IInv, Spread
<1>3. PICK h :
        /\ h = Head(queue) /\ h \in Client /\ queue' \in Seq(Client)
        /\ \A i, j \in DOMAIN queue' : queue'[i] = queue'[j] => i = j
        /\ Queued(h) /\ Holders(h) = {} /\ h \in socks'[p]
        /\ \A c \in Client : Queued(c)' <=> (Queued(c) /\ c # h)
        /\ \A c \in Client : Closed(c)' <=> Closed(c)
        /\ \A c \in Client : c # h => Holders(c)' = Holders(c)
        /\ \A q \in Proc \ {p} : socks'[q] = socks[q]
  BY <1>1, <1>2, Taken
<1>4. TypeOK'
  BY <1>1, <1>3 DEF IInv, TypeOK
<1>5. Spread'
  BY <1>1, <1>2, <1>3 DEF IInv, TypeOK, Spread, AllUp, Whole, Holders
<1>6. Workers'
  BY <1>1, <1>3 DEF IInv, TypeOK, Workers, HungUp, Holders
<1>7. Conversation'
  BY <1>1, <1>3 DEF IInv, Conversation
<1> QED BY <1>4, <1>5, <1>6, <1>7 DEF IInv

LEMMA StartThreadStep ==
  ASSUME IInv, NEW p \in Proc, StartThread(p)
  PROVE  IInv'
<1>1. PICK h :
        /\ h = Head(queue) /\ h \in Client /\ queue' \in Seq(Client)
        /\ \A i, j \in DOMAIN queue' : queue'[i] = queue'[j] => i = j
        /\ Queued(h) /\ Holders(h) = {} /\ h \in socks'[p]
        /\ \A c \in Client : Queued(c)' <=> (Queued(c) /\ c # h)
        /\ \A c \in Client : Closed(c)' <=> Closed(c)
        /\ \A c \in Client : c # h => Holders(c)' = Holders(c)
        /\ \A q \in Proc \ {p} : socks'[q] = socks[q]
  BY Taken DEF StartThread
<1>2. TypeOK'
  BY <1>1 DEF IInv, TypeOK, StartThread
<1>3. Spread'
  BY <1>1 DEF IInv, TypeOK, Spread, AllUp, Whole, Holders, StartThread
<1>4. Workers'
  BY <1>1 DEF IInv, TypeOK, Workers, HungUp, Holders, StartThread
<1>5. Conversation'
  BY <1>1 DEF IInv, Conversation, StartThread
<1> QED BY <1>2, <1>3, <1>4, <1>5 DEF IInv

LEMMA AcceptAgainStep ==
  ASSUME IInv, NEW p \in Proc, AcceptAgain(p)
  PROVE  IInv'
<1>1. PICK e \in batch[p] : batch' = [batch EXCEPT ![p] = @ \ {e}]
  BY DEF AcceptAgain
<1>2. UNCHANGED <<server, up, net, clients, socks, serving>>
  BY DEF AcceptAgain
<1>3. TypeOK'
  BY <1>1, <1>2 DEF IInv, TypeOK
<1>4. Spread'
  BY <1>1, <1>2, SamePlaces DEF IInv, TypeOK, Spread, AllUp, Whole
<1>5. Workers'
  BY <1>1, <1>2 DEF IInv, TypeOK, Workers, HungUp, Holders
<1>6. Conversation'
  BY <1>2, SamePlaces DEF IInv, Conversation
<1> QED BY <1>3, <1>4, <1>5, <1>6 DEF IInv

LEMMA HangUpStep ==
  ASSUME IInv, NEW p \in Proc, HangUp(p)
  PROVE  IInv'
<1>1. PICK e \in batch[p] :
        /\ Turn(p, e) /\ e.hup
        /\ socks' = [socks EXCEPT ![p] = @ \ {e.of}]
        /\ inb' = [inb EXCEPT ![e.of] = <<>>]
        /\ batch' = [batch EXCEPT ![p] = @ \ {e}]
        /\ UNCHANGED <<server, up, queue, echoes, clients, serving>>
  BY DEF HangUp
<1>2. /\ e.of \in Client /\ HungUp(e.of) /\ e.of \in socks[p] /\ server.kind # "thread"
      /\ e.of # serving[p]
  BY <1>1 DEF IInv, TypeOK, Workers, Event
<1>3. \A c \in Client : Queued(c)' = Queued(c)
  BY <1>1 DEF Queued
<1>4. Holders(e.of)' = {}
  BY <1>1, <1>2 DEF IInv, TypeOK, Spread, Holders
<1>5. \A c \in Client : c # e.of => Holders(c)' = Holders(c)
  BY <1>1 DEF IInv, TypeOK, Holders
<1>6. \A c \in Client : Closed(c)' <=> (c = e.of \/ Closed(c))
  BY <1>2, <1>3, <1>4, <1>5 DEF IInv, Spread, Closed, Holders
<1>7. /\ inb' \in [Client -> Seq(Letters)] /\ inb'[e.of] = <<>>
      /\ \A c \in Client : c # e.of => inb'[c] = inb[c]
  <2>1. inb \in [Client -> Seq(Letters)] /\ <<>> \in Seq(Letters)
    BY DEF IInv, TypeOK, Letters
  <2> HIDE DEF Letters
  <2> QED BY <1>1, <1>2, <2>1
<1>8. TypeOK'
  BY <1>1, <1>7 DEF IInv, TypeOK, Letters
<1>9. Spread'
  <2>1. /\ \A i, j \in DOMAIN queue' : queue'[i] = queue'[j] => i = j
        /\ \A q, r \in Proc : socks'[q] \cap socks'[r] # {} => q = r
        /\ \A q \in Proc \ up' : socks'[q] = {} /\ batch'[q] = {} /\ serving'[q] = None
    BY <1>1 DEF IInv, TypeOK, Spread
  <2>2. \A c \in Client : Queued(c)' => Holders(c)' = {}
    BY <1>3, <1>4, <1>5 DEF IInv, Spread
  <2>3. \A c \in Client : Closed(c)' => inb'[c] = <<>>
    BY <1>6, <1>7 DEF IInv, Spread
  <2>4. \A c \in Client : cst'[c] \in {"new", "refused"} => Closed(c)'
    BY <1>1, <1>6 DEF IInv, Spread
  <2>5. \A c \in Whole : AllUp' /\ Closed(c)' => cst'[c] \notin {"send", "wait"}
    BY <1>1, <1>2, <1>6 DEF IInv, Spread, AllUp, Whole, HungUp
  <2> QED BY <2>1, <2>2, <2>3, <2>4, <2>5 DEF Spread
<1>10. Workers'
  BY <1>1, <1>2, <1>4, <1>5 DEF IInv, TypeOK, Spread, Workers, HungUp, Event
<1>11. Conversation'
  BY <1>1, <1>2, <1>6, <1>7, Words DEF IInv, Conversation, HungUp
<1> QED BY <1>8, <1>9, <1>10, <1>11 DEF IInv

LEMMA ServeStep ==
  ASSUME IInv, NEW p \in Proc, Serve(p)
  PROVE  IInv'
<1>1. PICK e \in batch[p] :
        /\ Turn(p, e) /\ e.of # None
        /\ serving' = [serving EXCEPT ![p] = e.of]
        /\ batch' = [batch EXCEPT ![p] = @ \ {e}]
        /\ UNCHANGED <<server, up, net, clients, socks>>
  BY DEF Serve
<1>2. e.of \in Client /\ e.of \in socks[p] /\ server.kind # "thread" /\ p \in up
  BY <1>1 DEF IInv, TypeOK, Workers, Spread, Event
<1>3. TypeOK'
  BY <1>1, <1>2 DEF IInv, TypeOK
<1>4. Spread'
  BY <1>1, <1>2, SamePlaces DEF IInv, TypeOK, Spread, AllUp, Whole
<1>5. Workers'
  BY <1>1, <1>2 DEF IInv, TypeOK, Workers, HungUp, Holders
<1>6. Conversation'
  BY <1>1, SamePlaces DEF IInv, Conversation
<1> QED BY <1>3, <1>4, <1>5, <1>6 DEF IInv

-----------------------------------------------------------------------------
(* EchoProcess(), in a process or in a thread.                              *)

\* A worker that reads has a client whose connection is open.
LEMMA ReaderHasClient ==
  ASSUME IInv, NEW w \in Proc \cup Client, Reading(w)
  PROVE  /\ serving[w] \in Client /\ inb[serving[w]] \in Seq(Letters) \ {<<>>}
         /\ ~Closed(serving[w])
         /\ Holders(serving[w]) # {} /\ ~Queued(serving[w])
         /\ cst[serving[w]] \notin {"new", "refused"}
<1>1. serving[w] \in Client /\ inb[serving[w]] \in Seq(Letters) /\ inb[serving[w]] # <<>>
  BY DEF IInv, TypeOK, Reading, Letters
<1>2. Holders(serving[w]) # {}
  <2>1. CASE w \in Proc
    BY <1>1, <2>1 DEF IInv, Workers, Reading, Holders
  <2>2. CASE w \in Client
    BY <1>1, <2>2 DEF IInv, Workers, Reading
  <2> QED BY <2>1, <2>2
<1>3. ~Queued(serving[w]) /\ ~Closed(serving[w])
  BY <1>1, <1>2 DEF IInv, Spread, Closed
<1> QED BY <1>1, <1>2, <1>3 DEF IInv, Spread

LEMMA EchoStep ==
  ASSUME IInv, NEW w \in Proc \cup Client, Echo(w)
  PROVE  IInv'
<1> DEFINE c == serving[w]
<1>1. /\ c \in Client /\ inb[c] \in Seq(Letters) /\ inb[c] # <<>> /\ ~Closed(c)
      /\ cst[c] \notin {"new", "refused"}
  BY ReaderHasClient DEF Echo
<1>2. PICK d \in Client : d = c
  BY <1>1
<1>3. /\ Head(inb[d]) = "1"
      /\ inb' = [inb EXCEPT ![d] = Tail(@)]
      /\ echoes' = [echoes EXCEPT ![d] = IF HungUp(d) THEN @ ELSE @ + 1]
      /\ UNCHANGED <<server, up, queue, clients, procs>>
  BY <1>2 DEF Echo, Take
<1> HIDE DEF c
<1>4. /\ Tail(inb[d]) \in Seq(Letters)
      /\ \A i \in DOMAIN Tail(inb[d]) : \E j \in DOMAIN inb[d] : inb[d][j] = Tail(inb[d])[i]
  BY <1>1, <1>2, WordTail
<1>5. cst[d] = "wait" => Tail(inb[d]) \in Rest /\ echoes[d] = 0
  BY <1>1, <1>2, <1>3, FlagTaken, NoRequest DEF IInv, Conversation
<1>6. cst[d] \notin {"send", "ended"}
  BY <1>1, <1>2, <1>3, NoRequest DEF IInv, Conversation
<1>7. /\ inb' \in [Client -> Seq(Letters)] /\ inb'[d] = Tail(inb[d])
      /\ \A x \in Client \ {d} : inb'[x] = inb[x]
  <2>1. inb \in [Client -> Seq(Letters)]
    BY DEF IInv, TypeOK, Letters
  <2> HIDE DEF Letters
  <2> QED BY <1>3, <1>4, <2>1
<1>8. /\ echoes' \in [Client -> 0 .. 1]
      /\ \A x \in Client \ {d} : echoes'[x] = echoes[x]
      /\ cst[d] = "wait" => echoes'[d] = 1
      /\ cst[d] \in {"done", "cut"} => echoes'[d] = 0
  BY <1>1, <1>2, <1>3, <1>5, <1>6 DEF IInv, TypeOK, Conversation, HungUp
<1>9. TypeOK'
  BY <1>3, <1>7, <1>8 DEF IInv, TypeOK, Letters
<1>10. Spread'
  BY <1>1, <1>2, <1>3, <1>7, SamePlaces DEF IInv, Spread, AllUp, Whole
<1>11. Workers'
  BY <1>3, SameWorkers DEF HungUp
<1>12. Conversation'
  BY <1>1, <1>2, <1>3, <1>4, <1>5, <1>6, <1>7, <1>8, SamePlaces DEF IInv, Conversation
<1> QED BY <1>9, <1>10, <1>11, <1>12 DEF IInv

\* Nothing but the flag is in the socket of a client whose messages arrive whole.
LEMMA WholeWaits ==
  ASSUME IInv, NEW c \in Whole, ~Closed(c), cst[c] \in {"send", "wait"}
  PROVE  \/ inb[c] = <<>>
         \/ cst[c] = "wait" /\ inb[c] = <<"1">> /\ echoes[c] = 0
<1>1. c \in Client /\ \A i \in DOMAIN inb[c] : inb[c][i] # "x"
  BY DEF IInv, Conversation, Whole
<1>2. CASE inb[c] \in Rest
  BY <1>1, <1>2, WholeRest
<1>3. CASE inb[c] \in Flagged("1")
  <2>1. inb[c] # <<"x", "1">> /\ inb[c] # <<"1", "x">> /\ inb[c] # <<"x", "1", "x">>
    BY <1>1
  <2> QED BY <1>1, <1>3, <2>1 DEF IInv, Conversation, Flagged, Rest
<1> QED BY <1>1, <1>2, <1>3 DEF IInv, Conversation

LEMMA EndMarkStep ==
  ASSUME IInv, NEW w \in Proc \cup Client, EndMark(w)
  PROVE  IInv'
<1> DEFINE c == serving[w]
<1>1. /\ c \in Client /\ inb[c] \in Seq(Letters) /\ inb[c] # <<>> /\ ~Closed(c)
      /\ ~Queued(c) /\ cst[c] \notin {"new", "refused"}
  BY ReaderHasClient DEF EndMark
<1>2. PICK d \in Client : d = c
  BY <1>1
<1>3. /\ Head(inb[d]) # "1"
      /\ inb' = [inb EXCEPT ![d] = <<>>]
      /\ socks' = [p \in Proc |-> socks[p] \ {d}]
      /\ serving' = [serving EXCEPT ![w] = None]
      /\ UNCHANGED <<server, up, queue, echoes, clients, batch>>
  BY <1>2 DEF EndMark
<1>4. serving[w] = d
  BY <1>2
<1> HIDE DEF c
<1>5. /\ \A x \in Client : Queued(x)' = Queued(x)
      /\ Holders(d)' = {}
      /\ \A x \in Client : x # d => Holders(x)' = Holders(x)
  BY <1>3 DEF Queued, Holders
<1>6. \A x \in Client : Closed(x)' <=> (x = d \/ Closed(x))
  BY <1>1, <1>2, <1>5 DEF Closed
<1>7. /\ inb' \in [Client -> Seq(Letters)] /\ inb'[d] = <<>>
      /\ \A x \in Client : x # d => inb'[x] = inb[x]
  <2>1. inb \in [Client -> Seq(Letters)] /\ <<>> \in Seq(Letters)
    BY DEF IInv, TypeOK, Letters
  <2> HIDE DEF Letters
  <2> QED BY <1>3, <2>1
<1>8. TypeOK'
  BY <1>3, <1>7 DEF IInv, TypeOK, Letters
<1>9. Spread'
  <2>1. /\ \A i, j \in DOMAIN queue' : queue'[i] = queue'[j] => i = j
        /\ \A q, r \in Proc : socks'[q] \cap socks'[r] # {} => q = r
        /\ \A q \in Proc \ up' : socks'[q] = {} /\ batch'[q] = {} /\ serving'[q] = None
    BY <1>3 DEF IInv, TypeOK, Spread
  <2>2. \A x \in Client : Queued(x)' => Holders(x)' = {}
    BY <1>5 DEF IInv, Spread
  <2>3. \A x \in Client : Closed(x)' => inb'[x] = <<>>
    BY <1>6, <1>7 DEF IInv, Spread
  <2>4. \A x \in Client : cst'[x] \in {"new", "refused"} => Closed(x)'
    BY <1>3, <1>6 DEF IInv, Spread
  <2>5. d \in Whole => cst[d] \notin {"send", "wait"}
    BY <1>1, <1>2, <1>3, WholeWaits
  <2>6. \A x \in Whole : AllUp' /\ Closed(x)' => cst'[x] \notin {"send", "wait"}
    BY <1>3, <1>6, <2>5 DEF IInv, Spread, AllUp, Whole
  <2> QED BY <2>1, <2>2, <2>3, <2>4, <2>6 DEF Spread
<1>10. Workers'
  <2>1. /\ \A p \in Proc : \A e \in batch'[p] :
             /\ e.hup => e.of # None /\ HungUp(e.of)'
             /\ e.of # None => e.of \in socks[p] /\ e.of # serving[p] /\ e.of # serving'[p]
             /\ \A f \in batch'[p] : e.of = f.of => e = f
        /\ server'.kind = "thread" => \A p \in Proc : batch'[p] = {} /\ serving'[p] = None
    BY <1>3 DEF IInv, TypeOK, Workers, HungUp
  <2>2. \A p \in Proc : \A e \in batch'[p] : e.of # d
    BY <1>3, <1>4, <2>1 DEF IInv, TypeOK, Workers, Spread
  <2>3. \A v \in Proc \cup Client : serving'[v] # None =>
          v # w /\ serving'[v] = serving[v] /\ serving[v] # d
    BY <1>3, <1>4 DEF IInv, TypeOK, Workers, Spread
  <2>4. \A p \in Proc : serving'[p] # None => serving'[p] \in socks'[p]
    BY <1>3, <2>3 DEF IInv, TypeOK, Workers
  <2>5. \A x \in Client : serving'[x] # None =>
          serving'[x] = x /\ Holders(x)' # {} /\ server'.kind = "thread"
    BY <1>3, <1>5, <2>3 DEF IInv, TypeOK, Workers
  <2>6. \A p \in Proc : \A e \in batch'[p] : e.of # None => e.of \in socks'[p]
    BY <1>3, <2>1, <2>2
  <2> QED BY <2>1, <2>4, <2>5, <2>6 DEF Workers
<1>11. Conversation'
  <2>1. \A x \in Client : x # d => (Closed(x)' <=> Closed(x))
    BY <1>6
  <2>2. cst[d] = "wait" => left[d] > 0 /\ echoes[d] \in 0 .. 1
    BY DEF IInv, TypeOK, Conversation
  <2>3. Closed(d)'
    BY <1>6
  <2> QED BY <1>3, <1>7, <2>1, <2>2, <2>3, Words DEF IInv, Conversation
<1> QED BY <1>8, <1>9, <1>10, <1>11 DEF IInv

-----------------------------------------------------------------------------
(* SIGINT.                                                                  *)

\* Whoever the process had, in its sockets or in the last queue, is closed on.
LEMMA Interrupted ==
  ASSUME IInv, NEW p \in Proc, Interrupt(p)
  PROVE  \A c \in Client :
           /\ Queued(c)' => Queued(c) /\ up # {p}
           /\ Holders(c)' = Holders(c) \ {p}
           /\ Closed(c) => Closed(c)'
           /\ Closed(c)' => inb'[c] = <<>>
           /\ \/ inb'[c] = inb[c]
              \/ inb'[c] = <<>> /\ Closed(c)'
<1> SUFFICES ASSUME NEW c \in Client
             PROVE  /\ Queued(c)' => Queued(c) /\ up # {p}
                    /\ Holders(c)' = Holders(c) \ {p}
                    /\ Closed(c) => Closed(c)'
                    /\ Closed(c)' => inb'[c] = <<>>
                    /\ \/ inb'[c] = inb[c]
                       \/ inb'[c] = <<>> /\ Closed(c)'
  OBVIOUS
<1>1. /\ socks' = [socks EXCEPT ![p] = {}]
      /\ queue' = IF up = {p} THEN <<>> ELSE queue
      /\ inb'[c] = IF c \in socks[p] \/ (up = {p} /\ Queued(c)) THEN <<>> ELSE inb[c]
  BY DEF Interrupt
<1>2. /\ Queued(c)' => Queued(c) /\ up # {p}
      /\ Queued(c) /\ up # {p} => Queued(c)'
  BY <1>1 DEF Queued
<1>3. Holders(c)' = Holders(c) \ {p}
  BY <1>1 DEF IInv, TypeOK, Holders
<1>4. /\ c \in socks[p] => Holders(c) = {p} /\ ~Queued(c)
      /\ Queued(c) => Holders(c) = {}
      /\ Closed(c) => inb[c] = <<>>
      /\ c \notin socks[p] => p \notin Holders(c)
  BY DEF IInv, Spread, Holders
<1> QED BY <1>1, <1>2, <1>3, <1>4 DEF Closed

LEMMA InterruptStep ==
  ASSUME IInv, NEW p \in Proc, Interrupt(p)
  PROVE  IInv'
<1>1. /\ p \in up /\ up' = up \ {p}
      /\ socks' = [socks EXCEPT ![p] = {}]
      /\ batch' = [batch EXCEPT ![p] = {}]
      /\ serving' = [w \in Proc \cup Client |->
                       IF w = p \/ server.kind = "thread" THEN None ELSE serving[w]]
      /\ queue' = IF up = {p} THEN <<>> ELSE queue
      /\ inb' = [c \in Client |-> inb'[c]]
      /\ UNCHANGED <<server, echoes, clients>>
  BY DEF Interrupt
<1>2. \A c \in Client :
        /\ Queued(c)' => Queued(c) /\ up # {p}
        /\ Holders(c)' = Holders(c) \ {p}
        /\ Closed(c) => Closed(c)'
        /\ Closed(c)' => inb'[c] = <<>>
        /\ \/ inb'[c] = inb[c]
           \/ inb'[c] = <<>> /\ Closed(c)'
  BY Interrupted
<1>3. inb' \in [Client -> Seq(Letters)]
  <2>1. inb \in [Client -> Seq(Letters)] /\ <<>> \in Seq(Letters)
    BY DEF IInv, TypeOK, Letters
  <2> HIDE DEF Letters
  <2> QED BY <1>1, <1>2, <2>1
<1>4. TypeOK'
  BY <1>1, <1>3 DEF IInv, TypeOK, Letters
<1>5. Spread'
  <2>1. /\ \A i, j \in DOMAIN queue' : queue'[i] = queue'[j] => i = j
        /\ \A q, r \in Proc : socks'[q] \cap socks'[r] # {} => q = r
        /\ \A q \in Proc \ up' : socks'[q] = {} /\ batch'[q] = {} /\ serving'[q] = None
    BY <1>1 DEF IInv, TypeOK, Spread
  <2>2. \A c \in Client : Queued(c)' => Holders(c)' = {}
    BY <1>2 DEF IInv, Spread
  <2>3. \A c \in Client : cst'[c] \in {"new", "refused"} => Closed(c)'
    BY <1>1, <1>2 DEF IInv, Spread
  <2>4. ~AllUp'
    BY <1>1 DEF IInv, TypeOK, AllUp
  <2> QED BY <1>2, <2>1, <2>2, <2>3, <2>4 DEF Spread
<1>6. Workers'
  <2>1. \A q \in Proc : q # p =>
          batch'[q] = batch[q] /\ socks'[q] = socks[q] /\ serving'[q] \in {serving[q], None}
    BY <1>1 DEF IInv, TypeOK
  <2>2. batch'[p] = {} /\ serving'[p] = None
    BY <1>1 DEF IInv, TypeOK
  <2>3. \A q \in Proc : \A e \in batch'[q] :
          /\ e.hup => e.of # None /\ HungUp(e.of)'
          /\ e.of # None => e.of \in socks'[q] /\ e.of # serving'[q]
          /\ \A f \in batch'[q] : e.of = f.of => e = f
    BY <1>1, <2>1, <2>2 DEF IInv, Workers, HungUp
  <2>4. \A q \in Proc : serving'[q] # None => serving'[q] \in socks'[q]
    BY <2>1, <2>2 DEF IInv, Workers
  <2>5. \A c \in Client : serving'[c] = None
    BY <1>1 DEF IInv, Workers
  <2>6. server'.kind = "thread" => \A q \in Proc : batch'[q] = {} /\ serving'[q] = None
    BY <1>1, <2>1, <2>2 DEF IInv, Workers
  <2> QED BY <2>3, <2>4, <2>5, <2>6 DEF Workers
<1>7. Conversation'
  <2> SUFFICES ASSUME NEW c \in Client
               PROVE  /\ cst'[c] \in {"new", "refused", "send"} =>
                           inb'[c] \in Rest /\ echoes'[c] = 0
                      /\ cst'[c] = "wait" =>
                           /\ left'[c] > 0
                           /\ \/ inb'[c] \in Flagged("1") /\ echoes'[c] = 0
                              \/ inb'[c] \in Rest /\ echoes'[c] = 1
                              \/ Closed(c)' /\ echoes'[c] = 0
                      /\ cst'[c] = "ended" =>
                           inb'[c] \in Rest \cup Flagged("0") /\ echoes'[c] = 0
                      /\ cst'[c] \in {"done", "cut"} => echoes'[c] = 0
                      /\ c \in Whole => \A i \in DOMAIN inb'[c] : inb'[c][i] # "x"
    BY DEF Conversation
  <2>1. CASE inb'[c] = inb[c]
    BY <1>1, <1>2, <2>1 DEF IInv, Conversation
  <2>2. CASE inb'[c] = <<>> /\ Closed(c)'
    BY <1>1, <2>2, Words DEF IInv, Conversation
  <2> QED BY <1>2, <2>1, <2>2
<1> QED BY <1>4, <1>5, <1>6, <1>7 DEF IInv

-----------------------------------------------------------------------------
(* The theorems.                                                            *)

\* Every step of a client, a process, a thread or SIGINT keeps the sockets, the
\* workers and the conversations in order (client.c, epoll.c, select.c, threaded.c).
THEOREM Invariant == Spec => []IInv
<1>1. IInv /\ [Next]_vars => IInv'
  <2> SUFFICES ASSUME IInv, [Next]_vars
               PROVE  IInv'
    OBVIOUS
  <2>1. ASSUME NEW c \in Client, ClientStep(c) \/ Fail(c) \/ ThreadStep(c)
        PROVE  IInv'
    BY <2>1, ConnectStep, WriteStep, ReadStep, WriteEndStep, ClientEnds, EchoStep,
       EndMarkStep
    DEF ClientStep, ThreadStep
  <2>2. ASSUME NEW p \in Proc, ProcStep(p) \/ Interrupt(p)
        PROVE  IInv'
    BY <2>2, Waiting, AcceptStep, AcceptAgainStep, HangUpStep, ServeStep,
       StartThreadStep, EchoStep, EndMarkStep, InterruptStep
    DEF ProcStep
  <2>3. CASE UNCHANGED vars
    <3>1. UNCHANGED <<server, up, queue, socks, batch, serving, inb, echoes, left, cst>>
      BY <2>3 DEF vars
    <3>2. TypeOK'
      BY <3>1 DEF IInv, TypeOK
    <3>3. Spread'
      BY <3>1, SamePlaces DEF IInv, Spread, AllUp, Whole
    <3>4. Workers'
      BY <3>1, SameWorkers DEF HungUp
    <3>5. Conversation'
      BY <3>1, SamePlaces DEF IInv, Conversation
    <3> QED BY <3>2, <3>3, <3>4, <3>5 DEF IInv
  <2> QED BY <2>1, <2>2, <2>3 DEF Next
<1> QED BY InitInvariant, <1>1, PTL DEF Spec

\* Each open client is served by one worker of the process that accepted it, and an
\* ended process leaves no socket behind (epoll.c:119-148, threaded.c:77-93).
THEOREM OneWorkerEach == Spec => []OwnClient
<1>1. IInv => OwnClient
  <2> SUFFICES ASSUME IInv PROVE OwnClient
    OBVIOUS
  <2>1. \A p \in Proc : serving[p] # None => serving[p] \in socks[p]
    BY DEF IInv, Workers
  <2>2. ASSUME NEW v \in Proc \cup Client, NEW w \in Proc \cup Client,
               serving[v] # None, serving[v] = serving[w]
        PROVE  v = w
    <3>1. CASE v \in Proc /\ w \in Proc
      BY <2>1, <2>2, <3>1 DEF IInv, Spread
    <3>2. CASE v \in Client /\ w \in Client
      BY <2>2, <3>2 DEF IInv, Workers
    <3>3. CASE (v \in Proc /\ w \in Client) \/ (v \in Client /\ w \in Proc)
      BY <2>2, <3>3 DEF IInv, Workers
    <3> QED BY <3>1, <3>2, <3>3
  <2>3. \A c \in Client : Holders(c) \subseteq up
    BY DEF IInv, Spread, Holders
  <2> QED BY <2>1, <2>2, <2>3 DEF OwnClient
<1> QED BY Invariant, <1>1, PTL

\* A client whose messages arrive whole has its request unread or its echo on the
\* way, never both or neither, and its end mark is not echoed (epoll.c:176-209).
THEOREM OneEchoEach == Spec => []AnsweredOnce
<1>1. IInv => AnsweredOnce
  <2> SUFFICES ASSUME IInv, NEW c \in Whole
               PROVE  /\ AllUp /\ cst[c] = "wait" => Len(inb[c]) + echoes[c] = 1
                      /\ cst[c] \in {"send", "ended", "done", "cut"} => echoes[c] = 0
    BY DEF AnsweredOnce
  <2>1. c \in Client
    BY DEF Whole
  <2>2. cst[c] \in {"send", "ended", "done", "cut"} => echoes[c] = 0
    BY <2>1 DEF IInv, Conversation
  <2>3. ASSUME AllUp, cst[c] = "wait"
        PROVE  Len(inb[c]) + echoes[c] = 1
    <3>1. ~Closed(c)
      BY <2>3 DEF IInv, Spread
    <3>2. CASE inb[c] = <<"1">> /\ echoes[c] = 0
      BY <3>2
    <3>3. CASE inb[c] = <<>>
      <4>1. inb[c] \notin Flagged("1")
        BY <3>3 DEF Flagged
      <4>2. echoes[c] = 1
        BY <2>1, <2>3, <3>1, <4>1 DEF IInv, Conversation
      <4> QED BY <3>3, <4>2
    <3> QED BY <2>3, <3>1, <3>2, <3>3, WholeWaits
  <2> QED BY <2>2, <2>3
<1> QED BY Invariant, <1>1, PTL

\* Unless a process is interrupted, nobody closes on a client whose messages arrive
\* whole before its end mark (epoll.c:119-148, select.c:93-117).
THEOREM NobodyDropped == Spec => []Attended
<1>1. IInv => Attended
  <2> SUFFICES ASSUME IInv, NEW c \in Whole, AllUp, cst[c] \in {"send", "wait", "ended"}
               PROVE  \/ Queued(c) /\ Holders(c) = {}
                      \/ ~Queued(c) /\ Cardinality(Holders(c)) = 1
                      \/ cst[c] = "ended" /\ inb[c] = <<>> /\ Closed(c)
    BY DEF Attended
  <2>1. c \in Client
    BY DEF Whole
  <2>2. CASE Queued(c)
    BY <2>1, <2>2 DEF IInv, Spread
  <2>3. CASE ~Queued(c) /\ Holders(c) = {}
    BY <2>1, <2>3 DEF IInv, Spread, Closed
  <2>4. ASSUME ~Queued(c), NEW p \in Holders(c)
        PROVE  Cardinality(Holders(c)) = 1
    <3>1. Holders(c) = {p}
      BY <2>4 DEF IInv, Spread, Holders
    <3> QED BY <3>1, FS_Singleton
  <2> QED BY <2>2, <2>3, <2>4
<1> QED BY Invariant, <1>1, PTL

-----------------------------------------------------------------------------
(* The servers implement EchoService.                                       *)

\* What the place of a client means while all processes are up.
Placed ==
  AllUp =>
    \A c \in Whole :
      /\ cst[c] \in {"failed", "refused"} => Stage[c] = "lost" /\ Todo[c] = 0
      /\ cst[c] \in {"new", "send"} => Stage[c] = "idle" /\ Todo[c] = left[c]
      /\ cst[c] = "wait" /\ echoes[c] = 0 => Stage[c] = "asked" /\ Todo[c] = left[c]
      /\ cst[c] = "wait" /\ echoes[c] # 0 => Stage[c] = "answered" /\ Todo[c] = left[c]
      /\ cst[c] \in {"ended", "done", "cut", "piped"} => Stage[c] = "left" /\ Todo[c] = left[c]

LEMMA PlacedNow == Placed
BY DEF Placed, Stage, Todo

LEMMA PlacedAfter == Placed'
BY PlacedNow, PTL

LEMMA NoneMoves ==
  ASSUME \A c \in Whole : Stage'[c] = Stage[c] /\ Todo'[c] = Todo[c]
  PROVE  UNCHANGED Service!svars
<1>1. /\ Stage = [c \in Whole |-> Stage[c]] /\ Stage' = [c \in Whole |-> Stage'[c]]
      /\ Todo = [c \in Whole |-> Todo[c]] /\ Todo' = [c \in Whole |-> Todo'[c]]
  BY DEF Stage, Todo
<1>2. Stage' = Stage /\ Todo' = Todo
  BY <1>1
<1> QED BY <1>2 DEF Service!svars

LEMMA OneMoves ==
  ASSUME NEW c \in Whole,
         \A d \in Whole \ {c} : Stage'[d] = Stage[d] /\ Todo'[d] = Todo[d]
  PROVE  /\ Stage' = [Stage EXCEPT ![c] = Stage'[c]]
         /\ Todo' = [Todo EXCEPT ![c] = Todo'[c]]
         /\ Todo'[c] = Todo[c] => UNCHANGED Todo
<1>1. /\ Stage = [d \in Whole |-> Stage[d]] /\ Stage' = [d \in Whole |-> Stage'[d]]
      /\ Todo = [d \in Whole |-> Todo[d]] /\ Todo' = [d \in Whole |-> Todo'[d]]
  BY DEF Stage, Todo
<1> QED BY <1>1

\* Who loses all its answers at once.
LEMMA AllLost ==
  ASSUME \A c \in Whole : Stage'[c] = "lost" /\ Todo'[c] = 0
  PROVE  Service!Lose(Whole)
<1>1. Stage' = [c \in Whole |-> Stage'[c]] /\ Todo' = [c \in Whole |-> Todo'[c]]
  BY DEF Stage, Todo
<1> QED BY <1>1 DEF Service!Lose

\* A step that leaves everybody's conversation alone.
LEMMA NobodyMoves ==
  ASSUME UNCHANGED <<server, up, echoes, left, cst>>
  PROVE  UNCHANGED Service!svars
<1>1. \A c \in Whole : Stage'[c] = Stage[c] /\ Todo'[c] = Todo[c]
  BY DEF Stage, Todo, AllUp
<1> QED BY <1>1, NoneMoves

\* A client's own step.
LEMMA ClientService ==
  ASSUME IInv, AllUp, NEW c \in Client, ClientStep(c) \/ Fail(c)
  PROVE  [Service!Next]_(Service!svars)
<1>1. UNCHANGED <<server, up>> /\ AllUp'
  BY DEF AllUp, ClientStep, Connect, Write, Read, WriteEnd, CloseClient, ClientSigPipe, Fail,
     vars
<1>2. \A d \in Client \ {c} :
        cst'[d] = cst[d] /\ left'[d] = left[d] /\ echoes'[d] = echoes[d]
  BY DEF IInv, TypeOK, ClientStep, Connect, Write, Read, WriteEnd, CloseClient, ClientSigPipe,
     Fail
<1>3. \A d \in Whole \ {c} : Stage'[d] = Stage[d] /\ Todo'[d] = Todo[d]
  BY <1>1, <1>2 DEF Stage, Todo, AllUp, Whole
<1>4. CASE c \notin Whole
  BY <1>3, <1>4, NoneMoves
<1>5. CASE c \in Whole
  <2>1. /\ cst \in [Client -> {"new", "refused", "send", "wait", "ended", "done", "cut",
                              "piped", "failed"}]
        /\ left[c] \in Nat
    BY DEF IInv, TypeOK
  <2>2. /\ Stage' = [Stage EXCEPT ![c] = Stage'[c]]
        /\ Todo' = [Todo EXCEPT ![c] = Todo'[c]]
        /\ Todo'[c] = Todo[c] => UNCHANGED Todo
    BY <1>3, <1>5, OneMoves
  <2>3. cst[c] \in {"send", "wait"} => ~Closed(c)
    BY <1>5 DEF IInv, Spread
  <2>4. ASSUME cst'[c] \in {"failed", "refused"} PROVE Service!Next
    <3>1. Stage'[c] = "lost" /\ Todo'[c] = 0
      BY <1>1, <1>5, <2>4, PlacedAfter DEF Placed
    <3>2. Stage' = [d \in Whole |-> Stage'[d]] /\ Todo' = [d \in Whole |-> Todo'[d]]
      BY DEF Stage, Todo
    <3>3. Service!Lose({c})
      BY <1>3, <3>1, <3>2 DEF Service!Lose
    <3> QED BY <1>5, <3>3 DEF Service!Next
  <2>5. CASE Connect(c)
    <3>1. CASE up = {}
      <4>1. cst'[c] = "refused"
        BY <2>1, <2>5, <3>1 DEF Connect
      <4> QED BY <2>4, <4>1
    <3>2. CASE up # {}
      <4>1. cst[c] = "new" /\ cst'[c] = "send" /\ left' = left
        BY <2>1, <2>5, <3>2 DEF Connect
      <4>2. Stage'[c] = Stage[c] /\ Todo'[c] = Todo[c]
        BY <1>1, <1>5, <4>1, PlacedNow, PlacedAfter DEF Placed
      <4> QED BY <1>3, <4>2, NoneMoves
    <3> QED BY <3>1, <3>2
  <2>6. CASE Write(c)
    <3>1. cst[c] = "send" /\ left[c] > 0 /\ cst'[c] = "wait" /\ UNCHANGED <<left, echoes>>
      BY <2>1, <2>6 DEF Write
    <3>2. echoes[c] = 0
      BY <3>1 DEF IInv, Conversation
    <3>3. /\ Stage[c] = "idle" /\ Todo[c] = left[c]
          /\ Stage'[c] = "asked" /\ Todo'[c] = left[c]
      BY <1>1, <1>5, <3>1, <3>2, PlacedNow, PlacedAfter DEF Placed
    <3>4. Service!Ask(c)
      BY <2>2, <3>1, <3>3 DEF Service!Ask
    <3> QED BY <1>5, <3>4 DEF Service!Next
  <2>7. CASE Read(c)
    <3>1. /\ cst[c] = "wait" /\ echoes[c] # 0 /\ cst'[c] = "send"
          /\ left'[c] = left[c] - 1
      BY <2>1, <2>3, <2>7 DEF Read, IInv, TypeOK
    <3>2. /\ Stage[c] = "answered" /\ Todo[c] = left[c]
          /\ Stage'[c] = "idle" /\ Todo'[c] = left'[c]
      BY <1>1, <1>5, <3>1, PlacedNow, PlacedAfter DEF Placed
    <3>3. Service!Get(c)
      BY <1>5, <2>2, <3>1, <3>2 DEF Service!Get, Todo
    <3> QED BY <1>5, <3>3 DEF Service!Next
  <2>8. CASE WriteEnd(c)
    <3>1. cst[c] = "send" /\ left[c] = 0 /\ cst'[c] = "ended" /\ left' = left
      BY <2>1, <2>8 DEF WriteEnd
    <3>2. /\ Stage[c] = "idle" /\ Todo[c] = left[c]
          /\ Stage'[c] = "left" /\ Todo'[c] = left[c]
      BY <1>1, <1>5, <3>1, PlacedNow, PlacedAfter DEF Placed
    <3>3. Service!Leave(c)
      BY <2>2, <3>1, <3>2 DEF Service!Leave
    <3> QED BY <1>5, <3>3 DEF Service!Next
  <2>9. CASE CloseClient(c)
    <3>1. cst[c] = "ended" /\ cst'[c] \in {"done", "cut"} /\ left' = left
      BY <2>1, <2>9 DEF CloseClient
    <3>2. Stage'[c] = Stage[c] /\ Todo'[c] = Todo[c]
      BY <1>1, <1>5, <3>1, PlacedNow, PlacedAfter DEF Placed
    <3> QED BY <1>3, <3>2, NoneMoves
  <2>10. ~ClientSigPipe(c)
    BY <2>3 DEF ClientSigPipe
  <2>11. CASE Fail(c)
    <3>1. cst'[c] = "failed"
      BY <2>1, <2>11 DEF Fail
    <3> QED BY <2>4, <3>1
  <2> QED BY <2>5, <2>6, <2>7, <2>8, <2>9, <2>10, <2>11 DEF ClientStep
<1> QED BY <1>4, <1>5

\* The echo of a worker.
LEMMA EchoAnswers ==
  ASSUME IInv, AllUp, NEW w \in Proc \cup Client, Echo(w)
  PROVE  [Service!Next]_(Service!svars)
<1>1. PICK c \in Client : c = serving[w]
  BY ReaderHasClient DEF Echo
<1>2. /\ inb[c] \in Seq(Letters) /\ inb[c] # <<>> /\ Head(inb[c]) = "1"
      /\ cst[c] \notin {"new", "refused"}
      /\ echoes' = [echoes EXCEPT ![c] = IF HungUp(c) THEN @ ELSE @ + 1]
      /\ UNCHANGED <<server, up, left, cst>> /\ AllUp'
  BY <1>1, ReaderHasClient DEF Echo, AllUp, clients
<1>3. \A d \in Client \ {c} : echoes'[d] = echoes[d]
  BY <1>2 DEF IInv, TypeOK
<1>4. \A d \in Whole \ {c} : Stage'[d] = Stage[d] /\ Todo'[d] = Todo[d]
  BY <1>2, <1>3 DEF Stage, Todo, AllUp, Whole
<1>5. CASE c \in Whole /\ cst[c] = "wait"
  <2>1. echoes[c] = 0 /\ echoes'[c] = 1
    BY <1>2, <1>5, NoRequest, ReaderHasClient, <1>1 DEF IInv, Conversation, HungUp, TypeOK, Echo
  <2>2. /\ Stage[c] = "asked" /\ Todo[c] = left[c]
        /\ Stage'[c] = "answered" /\ Todo'[c] = left[c]
    BY <1>2, <1>5, <2>1, PlacedNow, PlacedAfter DEF Placed
  <2>3. Service!Answer(c)
    BY <1>4, <1>5, <2>2, OneMoves DEF Service!Answer
  <2> QED BY <1>5, <2>3 DEF Service!Next
<1>6. CASE c \notin Whole \/ cst[c] # "wait"
  <2>1. c \in Whole => Stage'[c] = Stage[c] /\ Todo'[c] = Todo[c]
    BY <1>2, <1>6 DEF Stage, Todo, AllUp
  <2> QED BY <1>4, <2>1, NoneMoves
<1> QED BY <1>5, <1>6

LEMMA StepService == IInv /\ IInv' /\ [Next]_vars => [Service!Next]_(Service!svars)
<1> SUFFICES ASSUME IInv, IInv', [Next]_vars PROVE [Service!Next]_(Service!svars)
  OBVIOUS
<1>1. UNCHANGED server /\ up' \subseteq up
  BY DEF Next, ClientStep, Connect, Write, Read, WriteEnd, CloseClient, ClientSigPipe, Fail,
     ThreadStep, ProcStep, EpollWait, Select, Accept, AcceptAgain, HangUp, Serve, StartThread,
     Echo, EndMark, Interrupt, vars
<1>2. CASE ~AllUp
  <2>1. ~AllUp'
    BY <1>1, <1>2 DEF AllUp, IInv, TypeOK
  <2>2. \A c \in Whole : Stage'[c] = Stage[c] /\ Todo'[c] = Todo[c]
    BY <1>2, <2>1 DEF Stage, Todo
  <2> QED BY <2>2, NoneMoves
<1>3. CASE AllUp
  <2>1. ASSUME NEW c \in Client, ClientStep(c) \/ Fail(c)
        PROVE  [Service!Next]_(Service!svars)
    BY <1>3, <2>1, ClientService
  <2>2. ASSUME NEW w \in Proc \cup Client, Echo(w)
        PROVE  [Service!Next]_(Service!svars)
    BY <1>3, <2>2, EchoAnswers
  <2>3. ASSUME NEW w \in Proc \cup Client, EndMark(w)
        PROVE  [Service!Next]_(Service!svars)
    BY <2>3, NobodyMoves DEF EndMark
  <2>4. ASSUME NEW p \in Proc,
               EpollWait(p) \/ Select(p) \/ Accept(p) \/ AcceptAgain(p) \/ HangUp(p)
                 \/ Serve(p) \/ StartThread(p)
        PROVE  [Service!Next]_(Service!svars)
    BY <2>4, NobodyMoves
    DEF EpollWait, Select, Accept, AcceptAgain, HangUp, Serve, StartThread
  <2>5. ASSUME NEW p \in Proc, Interrupt(p) PROVE [Service!Next]_(Service!svars)
    <3>1. ~AllUp'
      BY <1>3, <2>5 DEF AllUp, Interrupt
    <3>2. \A c \in Whole : Stage'[c] = "lost" /\ Todo'[c] = 0
      BY <3>1 DEF Stage, Todo
    <3> QED BY <3>2, AllLost DEF Service!Next
  <2>6. CASE UNCHANGED vars
    BY <2>6, NobodyMoves DEF vars
  <2> QED BY <2>1, <2>2, <2>3, <2>4, <2>5, <2>6 DEF Next, ThreadStep, ProcStep
<1> QED BY <1>2, <1>3

\* All the servers, the shared select server too, answer every request of a client
\* once, after it came, and none of their clients leaves with an answer missing,
\* unless it was killed or refused or a process was interrupted (client.c:183-205,
\* epoll.c:176-209).
THEOREM ImplementsService == Spec => ServesEcho
<1>1. Init => Service!Init
  <2> SUFFICES ASSUME Init PROVE Service!Init
    OBVIOUS
  <2>1. AllUp /\ \A c \in Client : cst[c] = "new"
    BY DEF Init, AllUp
  <2>2. \A c \in Whole : Stage[c] = "idle" /\ Todo[c] = left[c] /\ left[c] \in Iterations
    BY <2>1, PlacedNow DEF Placed, Init, Whole
  <2>3. Stage = [c \in Whole |-> Stage[c]] /\ Todo = [c \in Whole |-> Todo[c]]
    BY DEF Stage, Todo
  <2> QED BY <2>2, <2>3 DEF Service!Init
<1> QED BY <1>1, StepService, Invariant, PTL DEF Spec, ServesEcho, Service!Spec
=============================================================================
