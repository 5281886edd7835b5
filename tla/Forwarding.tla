----------------------------- MODULE Forwarding -----------------------------
(***************************************************************************)
(* What forwarding() (proxy_v3.cpp:292-314) does to the bytes of ONE       *)
(* direction of a connection: it receives at bp, which moves on, but       *)
(* always sends from the start of buf, and it does not look at what send() *)
(* returns.  A byte is its position in the sender's stream, so the far end *)
(* has been served faithfully iff its i-th byte is i.                      *)
(***************************************************************************)
EXTENDS Naturals, Sequences

CONSTANTS
  BUFLEN,   \* size of buf
  SndBuf,   \* room in the kernel's send buffer of the destination socket
  Stream    \* (bound) bytes the sender has to send

ASSUME ForwardingAssumption ==
  BUFLEN \in Nat \ {0} /\ SndBuf \in Nat \ {0} /\ Stream \in Nat

VARIABLES
  sent,      \* bytes the sender has sent: 1 .. sent
  taken,     \* bytes recv() has returned: 1 .. taken
  buf,       \* buf, position by position; 0 is a byte no recv() of this call wrote
  bp,        \* offset of bp in buf; also BUFLEN - bytes_to_read and total_sent
  got,       \* bytes accepted by send(), in order
  drained,   \* how many of got have left the send buffer
  pc,        \* "main" outside forwarding(), "forwarding" inside it
  clean      \* (history) every send() so far was a call's first and complete

vars == <<sent, taken, buf, bp, got, drained, pc, clean>>

Pos == 0 .. BUFLEN - 1

TypeOK ==
  /\ sent \in 0 .. Stream
  /\ taken \in 0 .. sent
  /\ buf \in [Pos -> 0 .. taken]
  /\ bp \in 0 .. BUFLEN
  /\ got \in Seq(0 .. taken)
  /\ drained \in 0 .. Len(got)
  /\ pc \in {"main", "forwarding"}
  /\ clean \in BOOLEAN

Init ==
  /\ sent = 0 /\ taken = 0
  /\ buf = [p \in Pos |-> 0]
  /\ bp = 0
  /\ got = <<>> /\ drained = 0
  /\ pc = "main"
  /\ clean = TRUE

-----------------------------------------------------------------------------
\* The sender's next byte arrives, also while forwarding() runs.
Arrive ==
  /\ sent < Stream
  /\ sent' = sent + 1
  /\ UNCHANGED <<taken, buf, bp, got, drained, pc, clean>>

\* The destination takes a byte out of the send buffer.
Drain ==
  /\ drained < Len(got)
  /\ drained' = drained + 1
  /\ UNCHANGED <<sent, taken, buf, bp, got, pc, clean>>

\* main() calls forwarding() for a readable socket: a new buf, of which nothing is set.
Call ==
  /\ pc = "main"
  /\ taken < sent
  /\ pc' = "forwarding"
  /\ bp' = 0
  /\ buf' = [p \in Pos |-> 0]
  /\ UNCHANGED <<sent, taken, got, drained, clean>>

AtMost(a, b) == IF a <= b THEN a ELSE b

\* recv(sock.src, bp, bytes_to_read, 0) on a non-blocking socket.
n == AtMost(sent - taken, BUFLEN - bp)

\* What a non-blocking send() of n bytes accepts.
Accepted == AtMost(n, SndBuf - (Len(got) - drained))

\* Variant: the last byte of a recv() is cut off.
BufAfterShort == [p \in Pos |-> IF p \in bp .. bp + n - 2 THEN taken + 1 + p - bp
                                                          ELSE buf[p]]

\* buf after recv() wrote n bytes at bp.
BufAfter == [p \in Pos |-> IF p \in bp .. bp + n - 1 THEN taken + 1 + p - bp
                                                     ELSE buf[p]]

\* The k bytes send(sock.dst, buf, ...) takes: from the start of buf.
FromStart(b, k) == [i \in 1 .. k |-> b[i - 1]]

RecvSend ==
  /\ pc = "forwarding"
  /\ n > 0
  /\ buf' = BufAfter
  /\ taken' = taken + n
  /\ bp' = bp + n
  /\ got' = got \o FromStart(BufAfter, Accepted)
  /\ clean' = (clean /\ bp = 0 /\ Accepted = n)
  /\ UNCHANGED <<sent, drained, pc>>

\* recv() returns 0 or EAGAIN.
Return ==
  /\ pc = "forwarding"
  /\ n = 0
  /\ pc' = "main"
  /\ UNCHANGED <<sent, taken, buf, bp, got, drained, clean>>

Next == Arrive \/ Drain \/ Call \/ RecvSend \/ Return

Spec == Init /\ [][Next]_vars

-----------------------------------------------------------------------------
(* Properties.                                                              *)

\* The far end has the bytes of the near end, in order, none missing inside.
Faithful == \A i \in DOMAIN got : got[i] = i

\* Nothing is dropped between the two sockets: as many bytes were sent on as were
\* received.
NothingDropped == Len(got) = taken

\* As long as every call of forwarding() needed a single recv() whose bytes one
\* send() took, the far end has exactly the bytes that were received.
CleanIsFaithful == clean => Faithful /\ NothingDropped

\* Even a garbled stream is not longer than what was received, and a byte that is not
\* set (0) is never sent: send() stays in what the recv()s of this call wrote.
NothingInvented ==
  Len(got) <= taken /\ \A i \in DOMAIN got : got[i] \in 1 .. taken

\* What makes both inductive: while forwarding() runs, what lies before bp in buf
\* was received.
IInv ==
  /\ TypeOK
  /\ Len(got) <= taken
  /\ \A i \in DOMAIN got : got[i] \in 1 .. taken
  /\ \A p \in Pos : p < bp => buf[p] \in 1 .. taken
  /\ CleanIsFaithful
=============================================================================
