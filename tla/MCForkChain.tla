---------------------------- MODULE MCForkChain ----------------------------
(* Small instances of ForkChain for TLC. *)
EXTENDS ForkChain

CONSTANTS a, b, c, d, e

Ports == {a, b, c, d, e}

\* Tables: none, one line, five lines (as ip_list.txt has), a port named twice, a
\* line that does not parse in the middle and in front.
Tables == {<<>>, <<a>>, <<a, b, c, d, e>>, <<a, b, a>>, <<a, b, Bad, d>>, <<Bad, a>>}

OneTaken == {b}
UpToThree == 0 .. 3
Garbage == {-1, 0, 2}
=============================================================================
