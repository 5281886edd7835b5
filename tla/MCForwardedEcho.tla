-------------------------- MODULE MCForwardedEcho --------------------------
(* Small instances of ForwardedEcho for TLC. *)
EXTENDS ForwardedEcho

CONSTANTS c1, c2

One == {c1}
Two == {c1, c2}

TwoAndOne == [c \in Two |-> IF c = c1 THEN 2 ELSE 1]
=============================================================================
