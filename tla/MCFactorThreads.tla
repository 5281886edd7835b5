-------------------------- MODULE MCFactorThreads --------------------------
(* Small instances of FactorThreads for TLC. *)
EXTENDS FactorThreads

CONSTANTS t1, t2, t3, t4, t5

Two   == {t1, t2}
Five  == {t1, t2, t3, t4, t5}
=============================================================================
