------------------------- MODULE MCFactorProcesses -------------------------
(* Small instances of FactorProcesses for TLC. *)
EXTENDS FactorProcesses

CONSTANTS k1, k2, k3

Three == {k1, k2, k3}

Garbage == {0, 1}   \* i holds what was on the stack
=============================================================================
