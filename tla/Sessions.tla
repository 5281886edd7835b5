------------------------------ MODULE Sessions ------------------------------
(***************************************************************************)
(* What the port forwarder promises the clients of one port, without       *)
(* descriptors, events or sockets: a session is a client connection        *)
(* together with the server connection opened for it.  Sessions are taken  *)
(* in the order the clients came, one at a time; a session is open on both *)
(* sides or on neither, is closed as a whole, and never comes back.        *)
(***************************************************************************)
EXTENDS Sequences

CONSTANT Conn

VARIABLES
  stage,    \* of each session
  waiting   \* sessions that came and were not taken yet, in order

svars == <<stage, waiting>>

Init ==
  /\ stage = [c \in Conn |-> "absent"]
  /\ waiting = <<>>

Arrive(c) ==
  /\ stage[c] = "absent"
  /\ stage' = [stage EXCEPT ![c] = "waiting"]
  /\ waiting' = Append(waiting, c)

\* The target machine is contacted for one session at a time.
Take ==
  /\ waiting # <<>>
  /\ \A c \in Conn : stage[c] # "connecting"
  /\ stage' = [stage EXCEPT ![Head(waiting)] = "connecting"]
  /\ waiting' = Tail(waiting)

Establish(c) ==
  /\ stage[c] = "connecting"
  /\ stage' = [stage EXCEPT ![c] = "open"]
  /\ UNCHANGED waiting

Close(c) ==
  /\ stage[c] = "open"
  /\ stage' = [stage EXCEPT ![c] = "closed"]
  /\ UNCHANGED waiting

\* The forwarder ends and takes every session with it.
Stop ==
  /\ stage' = [c \in Conn |-> IF stage[c] = "absent" THEN "absent" ELSE "closed"]
  /\ waiting' = <<>>

Next ==
  \/ \E c \in Conn : Arrive(c) \/ Establish(c) \/ Close(c)
  \/ Take
  \/ Stop

Spec == Init /\ [][Next]_svars
=============================================================================
