------------------------ MODULE FactorThreadsProofs ------------------------
(***************************************************************************)
(* FactorThreads for every number, every length of the queue and every set *)
(* of threads: IInv is inductive, so dest always holds exactly the         *)
(* divisors tested so far, in increasing order, and the list that is       *)
(* printed is complete.                                                    *)
(***************************************************************************)
EXTENDS FactorThreads, SequenceTheorems, TLAPS

USE ThreadsAssumption DEF Index

\* A batch of q as a candidate of the lock holder sees it.
LEMMA CandidateValue ==
  ASSUME TypeOK, QueueFilled, main = "join", Candidate # 0
  PROVE  /\ count < MAX_QUEUE
         /\ q[count] = Candidate
         /\ Candidate = q[0] + count
         /\ q[0] + count <= N
BY DEF TypeOK, QueueFilled, Candidate

\* The sequence s holds the divisors up to h, sorted.
Exact(s, h) ==
  /\ s \in Seq(1 .. N)
  /\ {s[k] : k \in DOMAIN s} = {x \in 1 .. h : Divides(x)}
  /\ \A k, l \in DOMAIN s : k < l => s[k] < s[l]

\* Appending a divisor beyond all tested ones keeps the record exact.
LEMMA Record ==
  ASSUME NEW s, NEW h \in Nat, h + 1 <= N, Exact(s, h),
         NEW s2,
         s2 = IF Divides(h + 1) THEN Append(s, h + 1) ELSE s
  PROVE  Exact(s2, h + 1)
<1> USE DEF Exact
<1>1. CASE ~Divides(h + 1)
  <2>1. {x \in 1 .. h + 1 : Divides(x)} = {x \in 1 .. h : Divides(x)}
    BY <1>1
  <2> QED BY <1>1, <2>1
<1>2. CASE Divides(h + 1)
  <2>1. s2 = Append(s, h + 1) /\ h + 1 \in 1 .. N
    BY <1>2
  <2>2a. Len(s) \in Nat /\ DOMAIN s = 1 .. Len(s)
    OBVIOUS
  <2>2b. s2 \in Seq(1 .. N) /\ Len(s2) = Len(s) + 1
    <3> HIDE ThreadsAssumption
    <3> DEFINE S == 1 .. N
    <3>1. s \in Seq(S) /\ h + 1 \in S
      BY <2>1
    <3> HIDE DEF S
    <3>2. Append(s, h + 1) \in Seq(S) /\ Len(Append(s, h + 1)) = Len(s) + 1
      BY <3>1, AppendProperties
    <3> QED BY <2>1, <3>2 DEF S
  <2>2. s2 \in Seq(1 .. N) /\ Len(s2) = Len(s) + 1 /\ DOMAIN s2 = 1 .. Len(s) + 1
    BY <2>2b
  <2>3. \A k \in 1 .. Len(s) : s2[k] = s[k] /\ s[k] \in 1 .. h
    BY <2>1
  <2>4. s2[Len(s) + 1] = h + 1
    BY <2>1
  <2>5. {s2[k] : k \in DOMAIN s2} = {s[k] : k \in DOMAIN s} \cup {h + 1}
    BY <2>2, <2>2a, <2>3, <2>4
  <2>6. {x \in 1 .. h + 1 : Divides(x)} = {x \in 1 .. h : Divides(x)} \cup {h + 1}
    BY <1>2
  <2>7. \A k, l \in DOMAIN s2 : k < l => s2[k] < s2[l]
    BY <2>2, <2>3, <2>4
  <2> QED BY <2>2, <2>5, <2>6, <2>7
<1> QED BY <1>1, <1>2

LEMMA InitIInv == Init => IInv
<1> SUFFICES ASSUME Init PROVE IInv
  OBVIOUS
<1>1. TypeOK
  BY DEF Init, TypeOK
<1>2. TestedUpTo = 0 /\ Found = {}
  BY DEF Init, TestedUpTo, Found
<1>3. ExactSoFar /\ Increasing
  BY <1>2 DEF Init, ExactSoFar, Increasing
<1> QED
  BY <1>1, <1>3 DEF Init, IInv, CriticalSection, QueueFilled, NoneLeft

\* Every step of main() and of a thread keeps the invariant.
LEMMA StepIInv == IInv /\ [Next]_vars => IInv'
<1> SUFFICES ASSUME IInv, [Next]_vars PROVE IInv'
  OBVIOUS
<1> USE DEF IInv
<1>1. CASE Fill
  <2>1. counter' \in 1 .. N + 1 /\ Batch \in [Index -> 0 .. N]
    BY <1>1 DEF Fill, TypeOK, AtMost, Batch
  <2>2. TypeOK'
    BY <1>1, <2>1 DEF Fill, TypeOK
  <2>3. q'[0] = counter
    BY <1>1 DEF Fill, TypeOK, Batch
  <2>4. QueueFilled'
    BY <1>1, <2>3 DEF Fill, TypeOK, Batch, QueueFilled, AtMost
  <2>5. CriticalSection'
    BY <1>1 DEF Fill, CriticalSection, NoneLeft, TypeOK
  <2>6. NoneLeft'
    BY <1>1 DEF Fill, NoneLeft
  <2>7. TestedUpTo' = TestedUpTo
    BY <1>1, <2>3 DEF Fill, TypeOK, TestedUpTo
  <2>8. ExactSoFar' /\ Increasing'
    BY <1>1, <2>7 DEF Fill, ExactSoFar, Found, Increasing
  <2> QED BY <1>1, <2>2, <2>4, <2>5, <2>6, <2>8 DEF Fill
<1>2. CASE Join
  <2>1. PICK t \in Thread : pc[t] = "done"
    BY <1>2 DEF Join
  <2>2. Candidate = 0
    BY <1>2, <2>1 DEF Join, NoneLeft
  <2>2a. /\ counter = AtMost(q[0] + MAX_QUEUE, N + 1)
         /\ q[0] \in 1 .. N
         /\ q[0] + count <= N + 1
         /\ count \in 0 .. MAX_QUEUE
    BY <1>2 DEF Join, QueueFilled, TypeOK
  <2>3. counter = q[0] + count
    <3>1. CASE count = MAX_QUEUE
      BY <2>2a, <3>1 DEF AtMost
    <3>2. CASE count < MAX_QUEUE
      <4>1. q[count] = 0 /\ count \in Index
        BY <2>2, <2>2a, <3>2 DEF Candidate
      <4>2. q[0] + count > N
        BY <1>2, <4>1, <2>2a DEF Join, QueueFilled
      <4> QED BY <2>2a, <3>2, <4>2 DEF AtMost
    <3> QED BY <2>2a, <3>1, <3>2
  <2>4. TestedUpTo' = TestedUpTo
    BY <1>2, <2>3 DEF Join, TestedUpTo, TypeOK, QueueFilled
  <2>5. TypeOK' /\ CriticalSection' /\ QueueFilled' /\ NoneLeft'
    BY <1>2 DEF Join, TypeOK, CriticalSection, QueueFilled, NoneLeft
  <2>6. ExactSoFar' /\ Increasing'
    BY <1>2, <2>4 DEF Join, ExactSoFar, Found, Increasing
  <2> QED BY <1>2, <2>5, <2>6 DEF Join
<1>3. CASE PrintDest
  <2>1. counter' = N + 1
    BY <1>3 DEF PrintDest, TypeOK
  <2>2. TypeOK' /\ CriticalSection' /\ QueueFilled' /\ NoneLeft'
    BY <1>3 DEF PrintDest, TypeOK, CriticalSection, QueueFilled, NoneLeft
  <2>3. ExactSoFar' /\ Increasing'
    BY <1>3 DEF PrintDest, ExactSoFar, Found, Increasing, TestedUpTo
  <2> QED BY <2>1, <2>2, <2>3
<1>4. ASSUME NEW t \in Thread, Check(t) PROVE IInv'
  <2>1. main = "join"
    BY <1>4 DEF Check, NoneLeft
  <2>2. TypeOK' /\ CriticalSection' /\ QueueFilled'
    BY <1>4 DEF Check, TypeOK, CriticalSection, QueueFilled
  <2>3. NoneLeft'
    BY <1>4, <2>1 DEF Check, NoneLeft, Candidate, TypeOK
  <2>4. TestedUpTo' = TestedUpTo
    BY <1>4 DEF Check, TestedUpTo, TypeOK
  <2>5. ExactSoFar' /\ Increasing'
    BY <1>4, <2>4 DEF Check, ExactSoFar, Found, Increasing
  <2> QED BY <1>4, <2>1, <2>2, <2>3, <2>5 DEF Check
<1>5. ASSUME NEW t \in Thread, Lock(t) PROVE IInv'
  <2>1. main = "join"
    BY <1>5 DEF Lock, NoneLeft
  <2>2. TypeOK' /\ CriticalSection' /\ QueueFilled'
    BY <1>5 DEF Lock, TypeOK, CriticalSection, QueueFilled
  <2>3. NoneLeft'
    BY <1>5, <2>1 DEF Lock, NoneLeft, Candidate, TypeOK
  <2>4. TestedUpTo' = TestedUpTo
    BY <1>5 DEF Lock, TestedUpTo, TypeOK
  <2>5. ExactSoFar' /\ Increasing'
    BY <1>5, <2>4 DEF Lock, ExactSoFar, Found, Increasing
  <2> QED BY <1>5, <2>1, <2>2, <2>3, <2>5 DEF Lock
<1>6. ASSUME NEW t \in Thread, EndMarker(t) PROVE IInv'
  <2>1. main = "join"
    BY <1>6 DEF EndMarker, NoneLeft
  <2>2. TypeOK' /\ CriticalSection' /\ QueueFilled'
    BY <1>6 DEF EndMarker, TypeOK, CriticalSection, QueueFilled
  <2>3. NoneLeft'
    BY <1>6, <2>1 DEF EndMarker, NoneLeft, Candidate, TypeOK
  <2>4. TestedUpTo' = TestedUpTo
    BY <1>6 DEF EndMarker, TestedUpTo, TypeOK
  <2>5. ExactSoFar' /\ Increasing'
    BY <1>6, <2>4 DEF EndMarker, ExactSoFar, Found, Increasing
  <2> QED BY <1>6, <2>1, <2>2, <2>3, <2>5 DEF EndMarker
<1>7. ASSUME NEW t \in Thread, Test(t) PROVE IInv'
  <2>1. main = "join" /\ main' = "join"
    BY <1>7 DEF Test, NoneLeft
  <2>2. /\ count < MAX_QUEUE
        /\ q[count] = Candidate
        /\ Candidate = q[0] + count
        /\ q[0] + count <= N
    BY <1>7, <2>1, CandidateValue DEF Test
  <2>3. \A u \in Thread : pc[u] # "advance"
    BY <1>7 DEF Test, CriticalSection
  <2>4. /\ TestedUpTo = q[0] + count - 1
        /\ TestedUpTo \in Nat
        /\ TestedUpTo + 1 = Candidate
    BY <2>1, <2>2, <2>3 DEF TestedUpTo, TypeOK, QueueFilled
  <2>5. TestedUpTo' = TestedUpTo + 1
    BY <1>7, <2>1, <2>4 DEF Test, TestedUpTo, TypeOK
  <2>6. dest' = IF Divides(TestedUpTo + 1) THEN Append(dest, TestedUpTo + 1) ELSE dest
    BY <1>7, <2>4 DEF Test
  <2>7. Exact(dest', TestedUpTo + 1)
    <3>1. Exact(dest, TestedUpTo)
      BY DEF Exact, TypeOK, ExactSoFar, Found, Increasing
    <3>2. TestedUpTo + 1 <= N
      BY <2>2, <2>4
    <3> HIDE DEF IInv
    <3> QED BY <2>4, <2>6, <3>1, <3>2, Record
  <2>8. ExactSoFar' /\ Increasing'
    BY <2>5, <2>7 DEF Exact, ExactSoFar, Found, Increasing
  <2>9. TypeOK'
    BY <1>7, <2>7 DEF Exact, Test, TypeOK
  <2>10. CriticalSection' /\ QueueFilled'
    BY <1>7 DEF Test, TypeOK, CriticalSection, QueueFilled
  <2>11. NoneLeft'
    BY <1>7, <2>1, <2>2 DEF Test, NoneLeft, Candidate, TypeOK
  <2> QED BY <2>1, <2>8, <2>9, <2>10, <2>11
<1>8. ASSUME NEW t \in Thread, Advance(t) PROVE IInv'
  <2>1. main = "join" /\ main' = "join"
    BY <1>8 DEF Advance, NoneLeft
  <2>2. count < MAX_QUEUE /\ q[count] # 0 /\ Candidate # 0
    BY <1>8 DEF Advance, NoneLeft, Candidate
  <2>3. q[0] + count <= N /\ q[0] \in 1 .. N
    BY <2>1, <2>2, CandidateValue DEF QueueFilled
  <2>4. \A u \in Thread : pc'[u] # "advance"
    BY <1>8 DEF Advance, CriticalSection, TypeOK
  <2>5. TestedUpTo' = TestedUpTo
    BY <1>8, <2>1, <2>3, <2>4 DEF Advance, TestedUpTo, TypeOK
  <2>6. ExactSoFar' /\ Increasing'
    BY <1>8, <2>5 DEF Advance, ExactSoFar, Found, Increasing
  <2>7. TypeOK' /\ CriticalSection'
    BY <1>8, <2>2 DEF Advance, TypeOK, CriticalSection
  <2>8. QueueFilled'
    BY <1>8, <2>1, <2>3 DEF Advance, QueueFilled, TypeOK
  <2>9. NoneLeft'
    BY <1>8, <2>1, <2>2, <2>4 DEF Advance, NoneLeft, TypeOK
  <2> QED BY <2>1, <2>6, <2>7, <2>8, <2>9
<1>9. CASE UNCHANGED vars
  <2>1. TypeOK' /\ CriticalSection' /\ QueueFilled' /\ NoneLeft'
    BY <1>9 DEF vars, TypeOK, CriticalSection, QueueFilled, NoneLeft, Candidate
  <2>2. ExactSoFar' /\ Increasing'
    BY <1>9 DEF vars, ExactSoFar, Found, Increasing, TestedUpTo
  <2> QED BY <1>9, <2>1, <2>2 DEF vars
<1> QED
  BY <1>1, <1>2, <1>3, <1>4, <1>5, <1>6, <1>7, <1>8, <1>9
  DEF Next, MainStep, ThreadStep

\* The whole invariant, for every N, MAX_QUEUE and set of threads.
THEOREM Invariant == Spec => []IInv
<1> QED BY InitIInv, StepIInv, PTL DEF Spec

\* dest holds exactly the divisors among the candidates tested so far, sorted.
THEOREM ExactAndSorted == Spec => [](ExactSoFar /\ Increasing)
<1>1. IInv => ExactSoFar /\ Increasing
  BY DEF IInv
<1> QED BY <1>1, Invariant, PTL

\* The list the program prints is the list of all divisors of N.
THEOREM PrintsAllDivisors == Spec => []PrintsDivisors
<1>1. IInv => PrintsDivisors
  BY DEF IInv, PrintsDivisors, ExactSoFar, TestedUpTo, TypeOK
<1> QED BY <1>1, Invariant, PTL
-----------------------------------------------------------------------------
\* A step that leaves dest and main alone is a stutter of Factoring.
LEMMA Stutter ==
  ASSUME UNCHANGED <<dest, main = "printed">>
  PROVE  UNCHANGED Abs!fvars
BY DEF Abs!fvars, Found

LEMMA StepFactoring == IInv /\ [Next]_vars => [Abs!Next]_(Abs!fvars)
<1> SUFFICES ASSUME IInv, [Next]_vars PROVE [Abs!Next]_(Abs!fvars)
  OBVIOUS
<1>1. CASE Fill \/ Join \/ UNCHANGED vars
  <2>1. UNCHANGED <<dest, main = "printed">>
    BY <1>1 DEF Fill, Join, vars
  <2> QED BY <2>1, Stutter
<1>2. CASE PrintDest
  <2>1. Found = Abs!Divisors
    BY <1>2 DEF PrintDest, IInv, TypeOK, ExactSoFar, TestedUpTo, Divides, Abs!Divisors
  <2>2. Found' = Found
    BY <1>2 DEF PrintDest, Found
  <2>3. Abs!Show
    BY <1>2, <2>1, <2>2 DEF PrintDest, Abs!Show
  <2> QED BY <2>3 DEF Abs!Next
<1>3. ASSUME NEW t \in Thread, Check(t) \/ Lock(t) \/ EndMarker(t) \/ Advance(t)
      PROVE  [Abs!Next]_(Abs!fvars)
  <2>1. UNCHANGED <<dest, main = "printed">>
    BY <1>3 DEF Check, Lock, EndMarker, Advance
  <2> QED BY <2>1, Stutter
<1>4. ASSUME NEW t \in Thread, Test(t) PROVE [Abs!Next]_(Abs!fvars)
  <2>1. main = "join" /\ main' = "join"
    BY <1>4 DEF IInv, Test, NoneLeft
  <2>2. CASE ~Divides(Candidate)
    <3>1. UNCHANGED <<dest, main = "printed">>
      BY <1>4, <2>2 DEF Test
    <3> QED BY <3>1, Stutter
  <2>3. CASE Divides(Candidate)
    <3>1. Candidate = q[0] + count /\ q[0] + count <= N
      BY <1>4, <2>1, CandidateValue DEF IInv, Test
    <3>2. \A u \in Thread : pc[u] # "advance"
      BY <1>4 DEF IInv, Test, CriticalSection
    <3>3. Found = {x \in 1 .. Candidate - 1 : Divides(x)} /\ Candidate \in 1 .. N
      BY <2>1, <3>1, <3>2 DEF IInv, ExactSoFar, TestedUpTo, QueueFilled, TypeOK
    <3>4. Candidate \in Abs!Divisors \ Found
      BY <2>3, <3>3 DEF Divides, Abs!Divisors
    <3>5. Found' = Found \cup {Candidate}
      <4>1. dest \in Seq(1 .. N) /\ dest' = Append(dest, Candidate)
        BY <1>4, <2>3 DEF Test, IInv, TypeOK
      <4>2. Found' = {Append(dest, Candidate)[k] : k \in 1 .. Len(dest) + 1}
        BY <3>3, <4>1, LenProperties, AppendProperties, SMTT(30) DEF Found
      <4>3. Found = {dest[k] : k \in 1 .. Len(dest)} /\ Len(dest) \in Nat
        BY <4>1, LenProperties DEF Found
      <4>4. /\ \A k \in 1 .. Len(dest) : Append(dest, Candidate)[k] = dest[k]
            /\ Append(dest, Candidate)[Len(dest) + 1] = Candidate
        BY <3>3, <4>1, AppendProperties
      <4> QED BY <4>2, <4>3, <4>4
    <3>6. Abs!Find
      BY <2>1, <3>4, <3>5 DEF Abs!Find
    <3> QED BY <3>6 DEF Abs!Next
  <2> QED BY <2>2, <2>3
<1> QED
  BY <1>1, <1>2, <1>3, <1>4 DEF Next, MainStep, ThreadStep

\* Every behaviour of the threads is one of Factoring.
THEOREM Refinement == Spec => ImplementsFactoring
<1>1. Init => Abs!Init
  BY DEF Init, Abs!Init, Found
<1> QED
  BY <1>1, StepFactoring, Invariant, PTL DEF Spec, ImplementsFactoring, Abs!Spec
=============================================================================
