-------------------------- MODULE ForwardingProofs --------------------------
(***************************************************************************)
(* Forwarding for every buffer length, send buffer and stream.             *)
(***************************************************************************)
EXTENDS Forwarding, SequenceTheorems, TLAPS

USE ForwardingAssumption

\* What one recv() and one send() can move.
LEMMA Amounts ==
  ASSUME TypeOK
  PROVE  /\ n \in 0 .. BUFLEN - bp
         /\ n <= sent - taken
         /\ n > 0 => Accepted <= n
         /\ Accepted \in Int
BY LenProperties DEF TypeOK, n, Accepted, AtMost

\* The first k bytes of a buffer, as a sequence.
LEMMA FromStartProperties ==
  ASSUME NEW b, NEW k \in Int, k <= BUFLEN, NEW S,
         \A p \in Pos : p < k => b[p] \in S
  PROVE  /\ FromStart(b, k) \in Seq(S)
         /\ Len(FromStart(b, k)) = IF k >= 0 THEN k ELSE 0
         /\ \A i \in 1 .. k : FromStart(b, k)[i] = b[i - 1]
<1>1. \A i \in 1 .. k : i - 1 \in Pos /\ i - 1 < k
  BY DEF Pos
<1> DEFINE m == IF k >= 0 THEN k ELSE 0
<1>2. m \in Nat /\ 1 .. k = 1 .. m
  OBVIOUS
<1>3. FromStart(b, k) \in [1 .. m -> S]
  BY <1>1, <1>2 DEF FromStart
<1>4. FromStart(b, k) \in Seq(S) /\ Len(FromStart(b, k)) = m
  BY <1>2, <1>3
<1> QED BY <1>4 DEF FromStart

LEMMA FunctionIsSeq ==
  ASSUME NEW S, NEW m \in Nat, NEW f \in [1 .. m -> S]
  PROVE  f \in Seq(S)
OBVIOUS

LEMMA InitIInv == Init => IInv
BY DEF Init, IInv, TypeOK, Pos, CleanIsFaithful, Faithful, NothingDropped

LEMMA StepIInv == IInv /\ [Next]_vars => IInv'
<1> SUFFICES ASSUME IInv, [Next]_vars PROVE IInv'
  OBVIOUS
<1>0. TypeOK
  BY DEF IInv
<1>1. CASE Arrive \/ Drain \/ Call \/ Return \/ UNCHANGED vars
  <2>1. TypeOK'
    BY <1>0, <1>1 DEF Arrive, Drain, Call, Return, vars, TypeOK
  <2>2. UNCHANGED <<got, taken, clean>>
    BY <1>1 DEF Arrive, Drain, Call, Return, vars
  <2>3. \A p \in Pos : p < bp' => buf'[p] \in 1 .. taken'
    <3>1. (bp' = bp /\ buf' = buf) \/ bp' = 0
      BY <1>1 DEF Arrive, Drain, Call, Return, vars
    <3> QED BY <2>2, <3>1 DEF IInv, Pos
  <2> QED BY <2>1, <2>2, <2>3 DEF IInv, CleanIsFaithful, Faithful, NothingDropped
<1>2. CASE RecvSend
  <2> DEFINE k == Accepted
             more == FromStart(BufAfter, k)
  <2>1. /\ n \in 1 .. BUFLEN - bp /\ n <= sent - taken
        /\ k \in Int /\ k <= n
    BY <1>0, <1>2, Amounts DEF RecvSend
  <2>2. /\ bp \in 0 .. BUFLEN /\ bp + n <= BUFLEN
        /\ taken \in Nat /\ sent \in 0 .. Stream
        /\ Len(got) \in Nat /\ DOMAIN got = 1 .. Len(got)
    BY <1>0, <2>1, LenProperties DEF TypeOK
  <2>3. taken' = taken + n /\ bp' = bp + n /\ buf' = BufAfter
    BY <1>2 DEF RecvSend
  <2>4. \A p \in Pos : BufAfter[p] = IF p \in bp .. bp + n - 1 THEN taken + 1 + p - bp
                                                              ELSE buf[p]
    BY DEF BufAfter
  <2>5. \A p \in Pos : p < bp + n => BufAfter[p] \in 1 .. taken + n
    BY <2>1, <2>2, <2>4, SMTT(30) DEF IInv, Pos
  <2>6. \A p \in Pos : BufAfter[p] \in 0 .. taken + n
    <3>1. \A p \in Pos : buf[p] \in 0 .. taken
      BY <1>0 DEF TypeOK
    <3> SUFFICES ASSUME NEW p \in Pos PROVE BufAfter[p] \in 0 .. taken + n
      OBVIOUS
    <3>2. CASE p \in bp .. bp + n - 1
      BY <2>1, <2>2, <2>4, <3>2
    <3>3. CASE p \notin bp .. bp + n - 1
      BY <2>1, <2>2, <2>4, <3>1, <3>3
    <3> QED BY <3>2, <3>3
  <2>7. /\ more \in Seq(1 .. taken + n)
        /\ Len(more) = IF k >= 0 THEN k ELSE 0
        /\ \A i \in 1 .. k : more[i] = BufAfter[i - 1]
    <3>1. \A p \in Pos : p < k => BufAfter[p] \in 1 .. taken + n
      BY <2>1, <2>2, <2>5 DEF Pos
    <3>2. k <= BUFLEN
      BY <2>1, <2>2
    <3> HIDE DEF k
    <3> QED BY <2>1, <3>1, <3>2, FromStartProperties
  <2>8. got' = got \o more
    BY <1>2 DEF RecvSend
  <2> HIDE DEF k, more
  <2>9. got \in Seq(1 .. taken + n)
    <3>1. \A i \in 1 .. Len(got) : got[i] \in 1 .. taken + n
      BY <2>1, <2>2 DEF IInv
    <3>2. got \in Seq(0 .. taken)
      BY <1>0 DEF TypeOK
    <3>3. got \in [1 .. Len(got) -> 1 .. taken + n]
      BY <2>2, <3>1, <3>2, LenProperties
    <3> QED BY <2>2, <3>3, FunctionIsSeq
  <2>10. /\ got' \in Seq(1 .. taken + n)
         /\ Len(got') = Len(got) + Len(more)
         /\ \A i \in 1 .. Len(got) + Len(more) :
              got'[i] = IF i <= Len(got) THEN got[i] ELSE more[i - Len(got)]
    BY <2>7, <2>8, <2>9, ConcatProperties
  <2>11. Len(more) \in 0 .. n
    BY <2>1, <2>7
  <2>12. /\ Len(got') <= taken'
         /\ DOMAIN got' = 1 .. Len(got')
         /\ \A i \in DOMAIN got' : got'[i] \in 1 .. taken'
    <3>1. Len(got) <= taken
      BY DEF IInv
    <3> QED BY <2>1, <2>2, <2>3, <2>10, <2>11, <3>1, LenProperties
  <2>13. TypeOK'
    <3>1. buf' \in [Pos -> 0 .. taken']
      BY <2>3, <2>6 DEF BufAfter
    <3>2. got' \in Seq(0 .. taken')
      <4>1. got' \in [1 .. Len(got') -> 0 .. taken']
        BY <2>1, <2>2, <2>3, <2>10, <2>12, LenProperties
      <4>2. Len(got') \in Nat
        BY <2>2, <2>10, <2>11
      <4> QED BY <4>1, <4>2, FunctionIsSeq
    <3>3. taken' \in 0 .. sent' /\ bp' \in 0 .. BUFLEN /\ sent' \in 0 .. Stream
      BY <1>2, <2>1, <2>2, <2>3 DEF RecvSend
    <3>4. drained' \in 0 .. Len(got')
      BY <1>0, <1>2, <2>2, <2>10, <2>11 DEF RecvSend, TypeOK
    <3>5. pc' \in {"main", "forwarding"} /\ clean' \in BOOLEAN
      BY <1>0, <1>2 DEF RecvSend, TypeOK
    <3> QED BY <3>1, <3>2, <3>3, <3>4, <3>5 DEF TypeOK
  <2>14. CleanIsFaithful'
    <3> SUFFICES ASSUME clean' PROVE Faithful' /\ NothingDropped'
      BY DEF CleanIsFaithful
    <3>1. clean /\ bp = 0 /\ k = n
      BY <1>2 DEF RecvSend, k
    <3>2. Len(got) = taken /\ \A i \in 1 .. Len(got) : got[i] = i
      BY <2>2, <3>1 DEF IInv, CleanIsFaithful, Faithful, NothingDropped
    <3>3. Len(more) = n /\ \A i \in 1 .. n : more[i] = taken + i
      <4>1. \A i \in 1 .. n : more[i] = BufAfter[i - 1] /\ i - 1 \in Pos
        BY <2>1, <2>2, <2>7, <3>1 DEF Pos
      <4>2. \A i \in 1 .. n : BufAfter[i - 1] = taken + i
        <5> TAKE i \in 1 .. n
        <5>0. n \in Nat /\ bp = 0
          BY <2>1, <3>1
        <5>1. i - 1 \in bp .. bp + n - 1 /\ i - 1 \in Pos
          BY <4>1, <5>0
        <5>2. BufAfter[i - 1] = taken + 1 + (i - 1) - bp
          BY <2>4, <5>1
        <5> QED BY <2>1, <2>2, <3>1, <5>2
      <4> QED BY <2>1, <2>7, <3>1, <4>1, <4>2
    <3>4. \A i \in 1 .. taken + n : got'[i] = i
      <4> TAKE i \in 1 .. taken + n
      <4>1. got'[i] = IF i <= taken THEN got[i] ELSE more[i - taken]
        BY <2>10, <3>2, <3>3
      <4>2. CASE i <= taken
        BY <2>2, <3>2, <4>1, <4>2
      <4>3. CASE ~(i <= taken)
        <5>1. i - taken \in 1 .. n
          BY <2>1, <2>2, <4>3
        <5> QED BY <2>2, <3>3, <4>1, <4>3, <5>1
      <4> QED BY <4>2, <4>3
    <3> QED BY <2>2, <2>3, <2>10, <2>12, <3>2, <3>3, <3>4 DEF Faithful, NothingDropped
  <2>15. \A p \in Pos : p < bp' => buf'[p] \in 1 .. taken'
    BY <2>3, <2>5
  <2> QED BY <2>12, <2>13, <2>14, <2>15 DEF IInv
<1> QED BY <1>1, <1>2 DEF Next

THEOREM Invariant == Spec => []IInv
<1> QED BY InitIInv, StepIInv, PTL DEF Spec

\* As long as no call of forwarding() needed a second recv() and no send() was
\* short, the far end has exactly what the forwarder received.
THEOREM CleanCallsAreFaithful == Spec => []CleanIsFaithful
<1>1. IInv => CleanIsFaithful
  BY DEF IInv
<1> QED BY <1>1, Invariant, PTL

\* Whatever the timing, no more bytes are sent than received, and no byte of buf
\* that was never received is sent.
THEOREM SendsOnlyReceived == Spec => []NothingInvented
<1>1. IInv => NothingInvented
  BY DEF IInv, NothingInvented
<1> QED BY <1>1, Invariant, PTL
=============================================================================
