--------------------------- MODULE MCEchoServers ---------------------------
(* Small instances of EchoServers for TLC. *)
EXTENDS EchoServers

CONSTANTS c1, c2, c3, p1, p2

Two   == {c1, c2}
Three == {c1, c2, c3}
Pair  == {p1, p2}

\* epoll.c, epollv2.c, select.c and threaded.c.
Sound ==
  {[kind |-> "epoll", procs |-> {p1}], [kind |-> "epoll", procs |-> Pair],
   [kind |-> "select", procs |-> {p1}], [kind |-> "thread", procs |-> {p1}]}

\* selectv2.c.
SharedBlocking == {[kind |-> "select", procs |-> Pair]}

Once == {1}
OneOrTwo == {1, 2}
First == {c1}
Second == {c2}
FirstProc == {p1}
=============================================================================
