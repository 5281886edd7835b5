---------------------------- MODULE EchoService ----------------------------
(***************************************************************************)
(* What an echo server promises the load clients, without sockets,         *)
(* processes, threads or a forwarder in between: every request is answered *)
(* once, after it was made, and a client leaves when it has no more to     *)
(* ask.  A client may be lost, at any time or from the beginning; what     *)
(* comes of it is not said.  Who implements the service says when that is. *)
(***************************************************************************)
EXTENDS Naturals

CONSTANTS
  Client,
  Iterations   \* numbers of requests a client may have

VARIABLES
  stage,   \* of each client
  todo     \* answers it has still to get

svars == <<stage, todo>>

Init ==
  /\ stage \in [Client -> {"idle", "lost"}]
  /\ todo \in [Client -> Iterations \cup {0}]

Ask(c) ==
  /\ stage[c] = "idle"
  /\ todo[c] > 0
  /\ stage' = [stage EXCEPT ![c] = "asked"]
  /\ UNCHANGED todo

Answer(c) ==
  /\ stage[c] = "asked"
  /\ stage' = [stage EXCEPT ![c] = "answered"]
  /\ UNCHANGED todo

Get(c) ==
  /\ stage[c] = "answered"
  /\ stage' = [stage EXCEPT ![c] = "idle"]
  /\ todo' = [todo EXCEPT ![c] = @ - 1]

Leave(c) ==
  /\ stage[c] = "idle"
  /\ todo[c] = 0
  /\ stage' = [stage EXCEPT ![c] = "left"]
  /\ UNCHANGED todo

Lose(some) ==
  /\ stage' = [c \in Client |-> IF c \in some THEN "lost" ELSE stage[c]]
  /\ todo' = [c \in Client |-> IF c \in some THEN 0 ELSE todo[c]]

Next ==
  \/ \E c \in Client : Ask(c) \/ Answer(c) \/ Get(c) \/ Leave(c)
  \/ \E some \in SUBSET Client : Lose(some)

Spec == Init /\ [][Next]_svars
=============================================================================
