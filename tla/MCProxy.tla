------------------------------ MODULE MCProxy ------------------------------
(* Small instances of Proxy and of its refinement for TLC. *)
EXTENDS ProxySessions

CONSTANTS c1, c2, c3

One == {c1}
Two == {c1, c2}
Three == {c1, c2, c3}

\* The peers owe nothing, so in the liveness run only those of c1 do all they may:
\* of the others only the client c2 does more than connect, it sends and ends.
OnlySome ==
  \A s \in {c2, c3} \X {"cli", "srv"} :
    /\ peer'[s] \in {"reset", "broken"} => peer[s] # "up"
    /\ s # <<c2, "cli">> => rcv'[s] <= rcv[s] /\ (peer'[s] = "fin" => peer[s] = "fin")

=============================================================================
