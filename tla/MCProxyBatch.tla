---------------------------- MODULE MCProxyBatch ----------------------------
(* A small instance of ProxyBatch for TLC. *)
EXTENDS ProxyBatch

CONSTANTS c1, c2

Two == {c1, c2}
=============================================================================
