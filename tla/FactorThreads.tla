--------------------------- MODULE FactorThreads ---------------------------
(***************************************************************************)
(* The threaded factoring program (Division Multiple Threads-Processes/    *)
(* factor_threads_vf.c): main() fills the queue q with the next candidates *)
(* and starts the threads; every thread takes candidates under printfLock, *)
(* but looks at count without it; main() joins them and refills.           *)
(***************************************************************************)
EXTENDS Naturals, Sequences

CONSTANTS
  Thread,      \* thread1 ... thread5
  N,           \* the number to be factored
  MAX_QUEUE,   \* length of q
  None         \* nobody holds printfLock

ASSUME ThreadsAssumption ==
  /\ N \in Nat
  /\ MAX_QUEUE \in Nat \ {0}
  /\ Thread # {}
  /\ None \notin Thread

VARIABLES
  counter,     \* next candidate
  q,           \* q[0] .. q[MAX_QUEUE-1]; 0 marks the end of the candidates
  count,       \* index of the next candidate in q
  dest,        \* dest[0] .. dest[i-1]: the divisors found
  printfLock,  \* its owner
  pc,          \* where each thread is
  main         \* "fill", "join" or "printed"

vars == <<counter, q, count, dest, printfLock, pc, main>>

Index == 0 .. MAX_QUEUE - 1

Divides(d) == N % d = 0

TypeOK ==
  /\ counter \in 1 .. N + 1
  /\ q \in [Index -> 0 .. N]
  /\ count \in 0 .. MAX_QUEUE
  /\ dest \in Seq(1 .. N)
  /\ printfLock \in Thread \cup {None}
  /\ pc \in [Thread -> {"check", "lock", "test", "advance", "done"}]
  /\ main \in {"fill", "join", "printed"}

\* mpz_init() sets the elements of q to 0.
Init ==
  /\ counter = 1
  /\ q = [k \in Index |-> 0]
  /\ count = 0
  /\ dest = <<>>
  /\ printfLock = None
  /\ pc = [t \in Thread |-> "done"]
  /\ main = "fill"

-----------------------------------------------------------------------------
(* main()                                                                   *)

AtMost(a, b) == IF a <= b THEN a ELSE b

\* Variant: the last candidate is left out of the queue.
BatchShort == [k \in Index |-> IF counter + k < N THEN counter + k ELSE 0]

\* The next MAX_QUEUE candidates, and zeros after N.
Batch == [k \in Index |-> IF counter + k <= N THEN counter + k ELSE 0]

Fill ==
  /\ main = "fill"
  /\ counter <= N
  /\ q' = Batch
  /\ counter' = AtMost(counter + MAX_QUEUE, N + 1)
  /\ count' = 0
  /\ pc' = [t \in Thread |-> "check"]
  /\ main' = "join"
  /\ UNCHANGED <<dest, printfLock>>

\* The five pthread_join().
Join ==
  /\ main = "join"
  /\ \A t \in Thread : pc[t] = "done"
  /\ main' = "fill"
  /\ UNCHANGED <<counter, q, count, dest, printfLock, pc>>

\* The while loop is over; dest is printed.
PrintDest ==
  /\ main = "fill"
  /\ counter > N
  /\ main' = "printed"
  /\ UNCHANGED <<counter, q, count, dest, printfLock, pc>>

-----------------------------------------------------------------------------
(* factor()                                                                 *)

\* while (count < MAX_QUEUE), without the lock.
Check(t) ==
  /\ pc[t] = "check"
  /\ pc' = [pc EXCEPT ![t] = IF count < MAX_QUEUE THEN "lock" ELSE "done"]
  /\ UNCHANGED <<counter, q, count, dest, printfLock, main>>

\* Variant: the lock is not waited for.
LockNot(t) ==
  /\ pc[t] = "lock"
  /\ printfLock' = t
  /\ pc' = [pc EXCEPT ![t] = "test"]
  /\ UNCHANGED <<counter, q, count, dest, main>>

Lock(t) ==
  /\ pc[t] = "lock"
  /\ printfLock = None
  /\ printfLock' = t
  /\ pc' = [pc EXCEPT ![t] = "test"]
  /\ UNCHANGED <<counter, q, count, dest, main>>

\* q[count] as the thread that holds the lock finds it.  q is the last variable
\* of the program's .bss, and the bytes behind it up to the page end are zero,
\* so q[MAX_QUEUE] reads as 0 too.
Candidate == IF count < MAX_QUEUE THEN q[count] ELSE 0

\* Variant: the thread returns with the lock held.
EndMarkerKeepsLock(t) ==
  /\ pc[t] = "test"
  /\ Candidate = 0
  /\ pc' = [pc EXCEPT ![t] = "done"]
  /\ UNCHANGED <<counter, q, count, dest, printfLock, main>>

\* The end marker: unlock and return.
EndMarker(t) ==
  /\ pc[t] = "test"
  /\ Candidate = 0
  /\ printfLock' = None
  /\ pc' = [pc EXCEPT ![t] = "done"]
  /\ UNCHANGED <<counter, q, count, dest, main>>

\* mpz_mod() and, for a divisor, the new element of dest.
Test(t) ==
  /\ pc[t] = "test"
  /\ Candidate # 0
  /\ dest' = IF Divides(Candidate) THEN Append(dest, Candidate) ELSE dest
  /\ pc' = [pc EXCEPT ![t] = "advance"]
  /\ UNCHANGED <<counter, q, count, printfLock, main>>

\* count++ and unlock.
Advance(t) ==
  /\ pc[t] = "advance"
  /\ count' = count + 1
  /\ printfLock' = None
  /\ pc' = [pc EXCEPT ![t] = "check"]
  /\ UNCHANGED <<counter, q, dest, main>>

ThreadStep(t) == Check(t) \/ Lock(t) \/ EndMarker(t) \/ Test(t) \/ Advance(t)
MainStep == Fill \/ Join \/ PrintDest

Next == MainStep \/ \E t \in Thread : ThreadStep(t)

Spec == Init /\ [][Next]_vars

\* The scheduler runs every thread, and main(), again and again.
FairSpec ==
  /\ Spec
  /\ WF_vars(MainStep)
  /\ \A t \in Thread : WF_vars(ThreadStep(t))

-----------------------------------------------------------------------------
(* Properties.                                                              *)

\* The last candidate whose test is over; during a batch, q[0] is its first.
TestedUpTo ==
  IF main # "join" THEN counter - 1
  ELSE IF \E t \in Thread : pc[t] = "advance" THEN q[0] + count
  ELSE q[0] + count - 1

Found == {dest[i] : i \in DOMAIN dest}

\* At every moment dest holds exactly the divisors among the candidates tested so
\* far: none is skipped when a batch ends, none is tested twice (lines 135-161).
ExactSoFar == Found = {d \in 1 .. TestedUpTo : Divides(d)}

\* The divisors are found in increasing order, whatever the threads do: the test
\* and count++ are one critical section (lines 137-159).
Increasing == \A i, j \in DOMAIN dest : i < j => dest[i] < dest[j]

\* What makes the three properties above and below inductive.  The lock is held by
\* the thread in the critical section; during a batch q is as it was filled; a
\* thread that advances has a candidate, and one that is done found none.
CriticalSection == \A t \in Thread : pc[t] \in {"test", "advance"} <=> printfLock = t

QueueFilled ==
  main = "join" =>
    /\ q[0] \in 1 .. N
    /\ counter = AtMost(q[0] + MAX_QUEUE, N + 1)
    /\ q = [k \in Index |-> IF q[0] + k <= N THEN q[0] + k ELSE 0]
    /\ q[0] + count <= N + 1

NoneLeft ==
  \A t \in Thread :
    /\ pc[t] = "advance" => count < MAX_QUEUE /\ q[count] # 0
    /\ pc[t] = "done" /\ main = "join" => Candidate = 0
    /\ main # "join" => pc[t] = "done"

\* Nothing is tested, recorded or skipped twice, at any moment.
IInv ==
  /\ TypeOK
  /\ CriticalSection
  /\ QueueFilled
  /\ NoneLeft
  /\ main = "printed" => counter = N + 1
  /\ ExactSoFar
  /\ Increasing

\* The result printed is the complete list of divisors.
PrintsDivisors ==
  main = "printed" => Found = {d \in 1 .. N : Divides(d)}

\* "Creates queue where the threads will get the values" (line 88): a candidate is
\* read from the queue and from nowhere else.
ReadsInQueue == \A t \in Thread : pc[t] = "test" => count < MAX_QUEUE

\* The program ends: no batch leaves a thread waiting for the lock for ever.
Terminates == <>(main = "printed")

Abs == INSTANCE Factoring WITH found <- Found, shown <- main = "printed"

\* The program implements Factoring: every test finds a divisor not found before
\* or nothing, and dest is printed when it is complete.
ImplementsFactoring == Abs!Spec
=============================================================================
