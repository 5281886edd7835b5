--------------------------- MODULE ProxySessions ---------------------------
(***************************************************************************)
(* The loop of Proxy implements Sessions: the stage of a session is read   *)
(* off the accept queue, the descriptors and the place of the process.  A  *)
(* session open on one side only ("half") is no stage of Sessions.         *)
(***************************************************************************)
EXTENDS Proxy

Stage ==
  LET open == OpenSocks IN
  [c \in Conn |->
     IF peer[<<c, "cli">>] = "absent" THEN "absent"
     ELSE IF peer[<<c, "cli">>] = "gone" THEN "closed"
     ELSE IF <<c, "cli">> \notin open THEN "waiting"
     ELSE IF <<c, "srv">> \notin open THEN "half"
     ELSE IF pc = "connect" /\ fds[fw_new] = <<c, "cli">> THEN "connecting"
     ELSE "open"]

Abs == INSTANCE Sessions WITH stage <- Stage, waiting <- queue

\* The forwarder serves whole sessions, in order of arrival, one connect() at a
\* time, and never revives one (main(), proxy_v3.cpp:156-247).
ServesSessions == Abs!Spec
=============================================================================
