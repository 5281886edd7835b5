----------------------------- MODULE ProxyBatch -----------------------------
(***************************************************************************)
(* Proxy with a history variable: the connections established since the    *)
(* last epoll_wait().  The events of a batch speak of descriptors; between *)
(* epoll_wait() and the handling of an event the descriptor may have been  *)
(* closed and given to a connection the event knows nothing about.         *)
(***************************************************************************)
EXTENDS ProxySessions

VARIABLE fresh   \* connections established since the last epoll_wait()

InitH == Init /\ fresh = {}

NextH ==
  /\ Next
  /\ fresh' = IF EpollWait THEN {}
              ELSE IF pc = "connect" THEN fresh \cup {fds[fw_new][1]}
              ELSE fresh

SpecH == InitH /\ [][NextH]_<<vars, fresh>>

\* A running process takes down a connection it had when the batch began only
\* after one of that connection's own peers ended; only a connection made in
\* the same batch can be hit by an event that was not its own.
SettledOwnEnd ==
  [][\A c \in Conn \ fresh : Open(c) /\ Running' /\ ~Open(c)' =>
        Ended(<<c, "cli">>) \/ Ended(<<c, "srv">>)]_<<vars, fresh>>
=============================================================================
