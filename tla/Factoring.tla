----------------------------- MODULE Factoring -----------------------------
(***************************************************************************)
(* What both factoring programs promise ("Programs to obtain the factors   *)
(* of a number", About.txt): divisors of N are found one at a time, none   *)
(* twice, and the result is shown only when all of them were found.        *)
(***************************************************************************)
EXTENDS Naturals

CONSTANT N

Divisors == {d \in 1 .. N : N % d = 0}

VARIABLES
  found,   \* divisors found so far
  shown    \* the result was printed

fvars == <<found, shown>>

Init == found = {} /\ shown = FALSE

Find ==
  /\ ~shown
  /\ \E d \in Divisors \ found : found' = found \cup {d}
  /\ UNCHANGED shown

Show ==
  /\ ~shown
  /\ found = Divisors
  /\ shown' = TRUE
  /\ UNCHANGED found

Next == Find \/ Show

Spec == Init /\ [][Next]_fvars
=============================================================================
