-------------------------- MODULE FactorProcesses --------------------------
(***************************************************************************)
(* The factoring program with processes (Division Multiple Threads-        *)
(* Processes/factor_processes_vf2.c): the parent writes the candidates to  *)
(* pipe p, the children write the divisors among them to pipe r, and the   *)
(* parent collects them.  A zero ends a stream: one per child in p, one    *)
(* per child and one of the parent's own in r.  A write to a full pipe and *)
(* a read from an empty one block; every process holds both ends of both   *)
(* pipes, so no read ever sees an end of file.                             *)
(***************************************************************************)
EXTENDS Naturals, Sequences, FiniteSets

CONSTANTS
  Child,   \* the forked processes
  N,       \* the number to be factored
  PCap,    \* MSGSIZE messages pipe p holds
  RCap,    \* MSGSIZE messages pipe r holds
  InitI    \* what the uninitialised i of main() may hold

ASSUME ProcessesAssumption ==
  /\ IsFiniteSet(Child) /\ Child # {}
  /\ N \in Nat
  /\ PCap \in Nat \ {0}
  /\ RCap \in Nat \ {0}
  /\ InitI \subseteq Nat

Children == Cardinality(Child)

VARIABLES
  p, r,     \* the pipes
  d,        \* the next candidate the parent writes
  zeros,    \* zeros the parent has written to p
  count,    \* zeros the parent has read from r
  dest,     \* dest[0] .. dest[i-1], what will be printed; 0 where never set
  junk,     \* i when the program started: the elements of dest never set
  parent,   \* where the parent is, or how it ended
  pc,       \* where each child is
  hand      \* inbuf of each child

vars == <<p, r, d, zeros, count, dest, junk, parent, pc, hand>>

TypeOK ==
  /\ p \in Seq(0 .. N) /\ Len(p) <= PCap
  /\ r \in Seq(0 .. N) /\ Len(r) <= RCap
  /\ d \in 1 .. N + 1
  /\ zeros \in 0 .. Children
  /\ count \in 0 .. Children + 1
  /\ dest \in Seq(0 .. N)
  /\ junk \in InitI
  /\ parent \in {"fork", "write", "own", "read", "printed", "failed"}
  /\ pc \in [Child -> {"unborn", "read", "write", "last", "done"}]
  /\ hand \in [Child -> 0 .. N]

Init ==
  /\ p = <<>> /\ r = <<>>
  /\ d = 1 /\ zeros = 0 /\ count = 0
  /\ junk \in InitI
  /\ dest = [k \in 1 .. junk |-> 0]
  /\ parent = "fork"
  /\ pc = [c \in Child |-> "unborn"]
  /\ hand = [c \in Child |-> 0]

Divides(x) == N % x = 0

-----------------------------------------------------------------------------
(* The parent.                                                              *)

\* A child runs as soon as it is forked.
Fork(c) ==
  /\ parent = "fork"
  /\ pc[c] = "unborn"
  /\ pc' = [pc EXCEPT ![c] = "read"]
  /\ parent' = IF \A e \in Child \ {c} : pc[e] # "unborn" THEN "write" ELSE "fork"
  /\ UNCHANGED <<junk, p, r, d, zeros, count, dest, hand>>

\* fork() < 0: return 1, whatever was forked before.
ForkFails ==
  /\ parent = "fork"
  /\ parent' = "failed"
  /\ UNCHANGED <<junk, p, r, d, zeros, count, dest, pc, hand>>

\* Variant: a full pipe does not block, the message is dropped.
WriteNumberDrops ==
  /\ parent = "write"
  /\ d <= N
  /\ p' = IF Len(p) < PCap THEN Append(p, d) ELSE p
  /\ d' = d + 1
  /\ UNCHANGED <<junk, r, zeros, count, dest, parent, pc, hand>>

WriteNumber ==
  /\ parent = "write"
  /\ d <= N
  /\ Len(p) < PCap
  /\ p' = Append(p, d)
  /\ d' = d + 1
  /\ UNCHANGED <<junk, r, zeros, count, dest, parent, pc, hand>>

\* Variant: one zero for all children.
WriteOneZero ==
  /\ parent = "write"
  /\ d = N + 1
  /\ Len(p) < PCap
  /\ p' = Append(p, 0)
  /\ zeros' = zeros + 1
  /\ parent' = "own"
  /\ UNCHANGED <<junk, r, d, count, dest, pc, hand>>

WriteZero ==
  /\ parent = "write"
  /\ d = N + 1
  /\ Len(p) < PCap
  /\ p' = Append(p, 0)
  /\ zeros' = zeros + 1
  /\ parent' = IF zeros' = Children THEN "own" ELSE "write"
  /\ UNCHANGED <<junk, r, d, count, dest, pc, hand>>

\* The parent's own zero in r.
WriteOwnZero ==
  /\ parent = "own"
  /\ Len(r) < RCap
  /\ r' = Append(r, 0)
  /\ parent' = "read"
  /\ UNCHANGED <<junk, p, d, zeros, count, dest, pc, hand>>

\* Variant: the parent counts one zero per child only.
LastZeroEarly == Children

\* while (count < 5): one zero per child, and the parent's.
LastZero == Children + 1

\* Variant: what is read is stored without another look, the zeros too.
CollectAll ==
  /\ parent = "read"
  /\ r # <<>>
  /\ dest' = Append(dest, Head(r))
  /\ count' = count + IF Head(r) = 0 THEN 1 ELSE 0
  /\ r' = Tail(r)
  /\ parent' = IF count' = LastZero THEN "printed" ELSE "read"
  /\ UNCHANGED <<junk, p, d, zeros, pc, hand>>

Collect ==
  /\ parent = "read"
  /\ r # <<>>
  /\ dest' = IF Head(r) # 0 /\ Divides(Head(r)) THEN Append(dest, Head(r)) ELSE dest
  /\ count' = count + IF Head(r) = 0 THEN 1 ELSE 0
  /\ r' = Tail(r)
  /\ parent' = IF count' = LastZero THEN "printed" ELSE "read"
  /\ UNCHANGED <<junk, p, d, zeros, pc, hand>>

-----------------------------------------------------------------------------
(* A child.                                                                 *)

Take(c) ==
  /\ pc[c] = "read"
  /\ p # <<>>
  /\ hand' = [hand EXCEPT ![c] = Head(p)]
  /\ p' = Tail(p)
  /\ pc' = [pc EXCEPT ![c] = IF Head(p) = 0 THEN "last"
                             ELSE IF Divides(Head(p)) THEN "write" ELSE "read"]
  /\ UNCHANGED <<junk, r, d, zeros, count, dest, parent>>

WriteDivisor(c) ==
  /\ pc[c] = "write"
  /\ Len(r) < RCap
  /\ r' = Append(r, hand[c])
  /\ pc' = [pc EXCEPT ![c] = "read"]
  /\ UNCHANGED <<junk, p, d, zeros, count, dest, parent, hand>>

WriteLast(c) ==
  /\ pc[c] = "last"
  /\ Len(r) < RCap
  /\ r' = Append(r, 0)
  /\ pc' = [pc EXCEPT ![c] = "done"]
  /\ UNCHANGED <<junk, p, d, zeros, count, dest, parent, hand>>

ParentStep ==
  \/ \E c \in Child : Fork(c)
  \/ ForkFails
  \/ WriteNumber \/ WriteZero \/ WriteOwnZero \/ Collect

ChildStep(c) == Take(c) \/ WriteDivisor(c) \/ WriteLast(c)

Next == ParentStep \/ \E c \in Child : ChildStep(c)

Spec == Init /\ [][Next]_vars

\* Every process is scheduled.
FairSpec ==
  /\ Spec
  /\ WF_vars(ParentStep)
  /\ \A c \in Child : WF_vars(ChildStep(c))

-----------------------------------------------------------------------------
(* Properties.                                                              *)

Divisors == {x \in 1 .. N : Divides(x)}
Times(x, s) == Cardinality({k \in DOMAIN s : s[k] = x})

\* The children that have a divisor in hand, that got their zero, that are through.
Holding(x) == {c \in Child : pc[c] = "write" /\ hand[c] = x}
GotZero == {c \in Child : pc[c] \in {"last", "done"}}
Done == {c \in Child : pc[c] = "done"}

\* A divisor is never lost and never doubled on its way: it is still to be
\* written, or in p, or in the hand of one child, or in r, or in dest, and only
\* in one of these places, once (lines 118-123, 138-152, 167-176).
InOnePlace ==
  \A x \in Divisors :
    (IF x >= d THEN 1 ELSE 0) + Times(x, p) + Times(x, r) + Times(x, dest)
      + Cardinality(Holding(x)) = 1

\* The last zero the parent waits for is the last message of all: once it is in r
\* no candidate is left in p and no child has anything to write, although all
\* children and the parent share one pipe (lines 132-152, 189-192).
ZerosComeLast ==
  parent = "read" =>
    (count < LastZero /\
     (count + Times(0, r) = LastZero =>
        p = <<>> /\ \A c \in Child : pc[c] = "done"))

\* What makes InOnePlace and ZerosComeLast inductive.  The zeros are accounted for:
\* those of p went to children, those of r came from them and from the parent;
\* a zero is the last message of each pipe once everything was written to it.
Zeros ==
  /\ zeros = Times(0, p) + Cardinality(GotZero)
  /\ count + Times(0, r) =
       Cardinality(Done) + IF parent \in {"read", "printed"} THEN 1 ELSE 0
  /\ zeros > 0 /\ p # <<>> => p[Len(p)] = 0
  /\ parent \in {"read", "printed"} /\ Done = Child /\ r # <<>> => r[Len(r)] = 0

\* How far the parent is in its own loops, and what is in dest and in hand.
Phases ==
  /\ parent \in {"fork", "failed"} => d = 1 /\ zeros = 0
  /\ parent = "write" => zeros < Children /\ (zeros > 0 => d = N + 1)
  /\ parent \in {"own", "read", "printed"} => zeros = Children /\ d = N + 1
  /\ parent = "read" => count <= Children
  /\ parent = "printed" => count = Children + 1
  /\ junk <= Len(dest)
  /\ \A k \in 1 .. junk : dest[k] = 0
  /\ \A k \in junk + 1 .. Len(dest) : dest[k] \in Divisors
  /\ \A c \in Child : pc[c] = "write" => hand[c] \in Divisors

IInv == TypeOK /\ InOnePlace /\ Zeros /\ Phases

\* What was collected, after the elements that were never set.
Collected == [k \in 1 .. Len(dest) - junk |-> dest[junk + k]]

\* From element i on, i being what it was at the start, what is printed is every
\* divisor, once, in whatever order; nothing is left in a pipe and every child is
\* through (lines 135-165, 189-192).
PrintsDivisors ==
  parent = "printed" =>
    /\ {Collected[k] : k \in DOMAIN Collected} = Divisors
    /\ Len(Collected) = Cardinality(Divisors)
    /\ p = <<>> /\ r = <<>>
    /\ \A c \in Child : pc[c] = "done"

\* Unless a fork failed, the divisors are printed: nobody waits for ever.
Terminates == <>(parent \in {"printed", "failed"})

Abs == INSTANCE Factoring WITH found <- {Collected[k] : k \in DOMAIN Collected},
                               shown <- parent = "printed"

\* The program implements Factoring, apart from the elements never set.
ImplementsFactoring == Abs!Spec
=============================================================================
