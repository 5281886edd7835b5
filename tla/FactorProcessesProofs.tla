----------------------- MODULE FactorProcessesProofs -----------------------
(***************************************************************************)
(* FactorProcesses for any number, any children and pipes of any capacity: *)
(* no divisor is lost or doubled on its way through two pipes and several  *)
(* processes, the zeros end the reading neither early nor late, and what   *)
(* is printed is what Factoring asks for.                                  *)
(***************************************************************************)
EXTENDS FactorProcesses, FiniteSetTheorems, SequenceTheorems, TLAPS

USE ProcessesAssumption

-----------------------------------------------------------------------------
(* Counting in sequences.                                                   *)

Places(x, s) == {k \in DOMAIN s : s[k] = x}

LEMMA PlacesFinite ==
  ASSUME NEW S, NEW s \in Seq(S), NEW x
  PROVE  /\ IsFiniteSet(Places(x, s))
         /\ Times(x, s) = Cardinality(Places(x, s))
         /\ Times(x, s) \in Nat
         /\ Times(x, s) = 0 <=> \A k \in 1 .. Len(s) : s[k] # x
<1>1. DOMAIN s = 1 .. Len(s) /\ Len(s) \in Nat
  BY LenProperties
<1>2. IsFiniteSet(1 .. Len(s))
  BY <1>1, FS_Interval
<1>3. Places(x, s) \in SUBSET (1 .. Len(s))
  BY <1>1 DEF Places
<1>4. IsFiniteSet(Places(x, s))
  BY <1>2, <1>3, FS_Subset
<1>5. Times(x, s) = Cardinality(Places(x, s))
  BY DEF Times, Places
<1>6. Times(x, s) = 0 <=> Places(x, s) = {}
  BY <1>4, <1>5, FS_EmptySet
<1>7. Places(x, s) = {} <=> \A k \in 1 .. Len(s) : s[k] # x
  BY <1>1 DEF Places
<1> QED BY <1>4, <1>5, <1>6, <1>7, FS_CardinalityType

LEMMA TimesEmpty == \A x : Times(x, <<>>) = 0
<1> TAKE x
<1>1. {k \in DOMAIN <<>> : <<>>[k] = x} = {}
  BY DOMAIN <<>> = {}
<1> QED BY <1>1, FS_EmptySet DEF Times

\* A message written.
LEMMA TimesAppend ==
  ASSUME NEW S, NEW s \in Seq(S), NEW e \in S, NEW x
  PROVE  Times(x, Append(s, e)) = Times(x, s) + IF e = x THEN 1 ELSE 0
<1>1. Append(s, e) \in Seq(S) /\ Len(Append(s, e)) = Len(s) + 1 /\ Len(s) \in Nat
  BY AppendProperties, LenProperties
<1>2. DOMAIN s = 1 .. Len(s) /\ DOMAIN Append(s, e) = 1 .. Len(s) + 1
  BY <1>1, LenProperties
<1>3. /\ \A k \in 1 .. Len(s) : Append(s, e)[k] = s[k]
      /\ Append(s, e)[Len(s) + 1] = e
  BY <1>1, AppendProperties
<1>4. /\ Places(x, Append(s, e)) =
           Places(x, s) \cup IF e = x THEN {Len(s) + 1} ELSE {}
      /\ Len(s) + 1 \notin Places(x, s)
  BY <1>1, <1>2, <1>3 DEF Places
<1>5. Cardinality(Places(x, Append(s, e))) =
        Cardinality(Places(x, s)) + IF e = x THEN 1 ELSE 0
  <2>1. CASE e = x
    <3>1. Places(x, Append(s, e)) = Places(x, s) \cup {Len(s) + 1}
      BY <1>4, <2>1
    <3>2. IsFiniteSet(Places(x, s))
      BY PlacesFinite
    <3> QED BY <1>4, <2>1, <3>1, <3>2, FS_AddElement
  <2>2. CASE e # x
    <3>1. Places(x, Append(s, e)) = Places(x, s)
      BY <1>4, <2>2
    <3> QED BY <2>2, <3>1, PlacesFinite
  <2> QED BY <2>1, <2>2
<1> QED BY <1>1, <1>5, PlacesFinite

\* A message read.
LEMMA TimesTail ==
  ASSUME NEW S, NEW s \in Seq(S), s # <<>>, NEW x
  PROVE  Times(x, s) = Times(x, Tail(s)) + IF Head(s) = x THEN 1 ELSE 0
<1>1. /\ Tail(s) \in Seq(S) /\ Len(Tail(s)) = Len(s) - 1
      /\ Len(s) \in Nat \ {0} /\ Head(s) = s[1]
      /\ \A k \in 1 .. Len(s) - 1 : Tail(s)[k] = s[k + 1]
  BY HeadTailProperties, LenProperties, EmptySeq
<1>2. DOMAIN s = 1 .. Len(s) /\ DOMAIN Tail(s) = 1 .. Len(s) - 1
  BY <1>1, LenProperties
<1> DEFINE A == Places(x, Tail(s))
           B == Places(x, s) \ {1}
           f == [k \in A |-> k + 1]
<1>3. \A k \in A : k \in Nat /\ k + 1 \in B
  BY <1>1, <1>2 DEF Places
<1>4. \A j \in B : j \in Nat /\ j - 1 \in A /\ (j - 1) + 1 = j
  BY <1>1, <1>2 DEF Places
<1>5. f \in Bijection(A, B)
  <2>1. f \in [A -> B]
    BY <1>3
  <2>2. \A j, k \in A : f[j] = f[k] => j = k
    BY <1>3
  <2>3. \A j \in B : \E k \in A : f[k] = j
    BY <1>4
  <2> QED BY <2>1, <2>2, <2>3, Zenon DEF Bijection, Injection, Surjection, IsInjective
<1>6. Cardinality(A) = Cardinality(B)
  <2>1. IsFiniteSet(A)
    BY <1>1, PlacesFinite
  <2>2. ExistsBijection(A, B)
    BY <1>5 DEF ExistsBijection
  <2> HIDE DEF A, B
  <2> QED BY <2>1, <2>2, FS_Bijection
<1>7. Cardinality(B) = Cardinality(Places(x, s)) - IF Head(s) = x THEN 1 ELSE 0
  <2>1. 1 \in Places(x, s) <=> Head(s) = x
    BY <1>1, <1>2 DEF Places
  <2>2. Cardinality(B) =
          IF 1 \in Places(x, s) THEN Cardinality(Places(x, s)) - 1
                                ELSE Cardinality(Places(x, s))
    BY PlacesFinite, FS_RemoveElement
  <2>3. Cardinality(Places(x, s)) \in Nat
    BY PlacesFinite
  <2> QED BY <2>1, <2>2, <2>3
<1>8. Times(x, s) = Cardinality(Places(x, s)) /\ Times(x, s) \in Nat
  BY PlacesFinite
<1>9. Times(x, Tail(s)) = Cardinality(A) /\ Times(x, Tail(s)) \in Nat
  BY <1>1, PlacesFinite
<1> QED BY <1>6, <1>7, <1>8, <1>9

-----------------------------------------------------------------------------
(* Counting the children.                                                   *)

LEMMA ChildrenFinite ==
  ASSUME NEW T \in SUBSET Child
  PROVE  /\ IsFiniteSet(T) /\ Cardinality(T) \in Nat
         /\ Cardinality(T) <= Children
         /\ Cardinality(T) = Children => T = Child
         /\ \A c \in Child : c \notin T => Cardinality(T \cup {c}) = Cardinality(T) + 1
         /\ \A c \in Child : c \in T => Cardinality(T \ {c}) = Cardinality(T) - 1
<1>1. IsFiniteSet(T) /\ Cardinality(T) <= Children /\ (Cardinality(T) = Children => T = Child)
  BY FS_Subset DEF Children
<1> QED BY <1>1, FS_CardinalityType, FS_AddElement, FS_RemoveElement

LEMMA ChildrenNumber == Children \in Nat /\ Children > 0 /\ Cardinality({}) = 0
BY FS_CardinalityType, FS_EmptySet DEF Children

LEMMA SomeChildren ==
  /\ GotZero \in SUBSET Child /\ Done \in SUBSET Child /\ Done \subseteq GotZero
  /\ \A x : Holding(x) \in SUBSET Child
BY DEF GotZero, Done, Holding

LEMMA SameChildren ==
  ASSUME UNCHANGED <<pc, hand>>
  PROVE  /\ \A x : Holding(x)' = Holding(x)
         /\ GotZero' = GotZero /\ Done' = Done
BY DEF Holding, GotZero, Done

\* What is a divisor, and the numbers the counting is about.
LEMMA Numbers ==
  ASSUME TypeOK
  PROVE  /\ \A x : Times(x, p) \in Nat /\ Times(x, r) \in Nat /\ Times(x, dest) \in Nat
         /\ \A x : Cardinality(Holding(x)) \in Nat
         /\ Cardinality(GotZero) \in Nat /\ Cardinality(Done) \in Nat
         /\ \A x \in Divisors : x \in Nat /\ x > 0 /\ x <= N /\ Divides(x)
         /\ zeros \in Nat /\ count \in Nat /\ d \in Nat /\ N \in Nat /\ Children \in Nat
<1>1. \A x : Times(x, p) \in Nat /\ Times(x, r) \in Nat /\ Times(x, dest) \in Nat
  BY PlacesFinite DEF TypeOK
<1>2. /\ \A x : Cardinality(Holding(x)) \in Nat
      /\ Cardinality(GotZero) \in Nat /\ Cardinality(Done) \in Nat
  BY SomeChildren, ChildrenFinite
<1> QED BY <1>1, <1>2, ChildrenNumber DEF TypeOK, Divisors

\* Where x is, and how often.
At(x) ==
  (IF x >= d THEN 1 ELSE 0) + Times(x, p) + Times(x, r) + Times(x, dest)
    + Cardinality(Holding(x))

LEMMA MovingOn == InOnePlace /\ (\A x \in Divisors : At(x)' = At(x)) => InOnePlace'
BY DEF InOnePlace, At, Divisors

-----------------------------------------------------------------------------
(* The invariant, action by action.                                         *)

LEMMA InitIInv == Init => IInv
<1> SUFFICES ASSUME Init PROVE IInv
  OBVIOUS
<1>1. junk \in Nat /\ dest \in Seq(0 .. N) /\ Len(dest) = junk
  BY DEF Init
<1>2. \A k \in 1 .. junk : dest[k] = 0
  BY DEF Init
<1>3. TypeOK
  BY <1>1, ChildrenNumber DEF Init, TypeOK
<1>4. (\A x : Holding(x) = {}) /\ GotZero = {} /\ Done = {}
  BY DEF Init, Holding, GotZero, Done
<1>5. InOnePlace
  <2> SUFFICES ASSUME NEW x \in Divisors
               PROVE (IF x >= d THEN 1 ELSE 0) + Times(x, p) + Times(x, r)
                       + Times(x, dest) + Cardinality(Holding(x)) = 1
    BY DEF InOnePlace
  <2>1. Times(x, dest) = 0
    BY <1>1, <1>2, <1>3, PlacesFinite, Numbers
  <2>2. Times(x, p) = 0 /\ Times(x, r) = 0 /\ Cardinality(Holding(x)) = 0
    BY <1>4, TimesEmpty, ChildrenNumber DEF Init
  <2>3. x >= d
    BY <1>3, Numbers DEF Init
  <2> QED BY <2>1, <2>2, <2>3
<1>6. Zeros
  BY <1>4, TimesEmpty, ChildrenNumber DEF Init, Zeros
<1>7. Phases
  BY <1>1, <1>2 DEF Init, Phases
<1> QED BY <1>3, <1>5, <1>6, <1>7 DEF IInv

LEMMA ForkKeeps ==
  ASSUME IInv, (\E c \in Child : Fork(c)) \/ ForkFails
  PROVE  IInv'
<1>1. /\ UNCHANGED <<junk, p, r, d, zeros, count, dest, hand>>
      /\ parent = "fork" /\ parent' \in {"fork", "write", "failed"}
  BY DEF Fork, ForkFails
<1>2. TypeOK'
  BY <1>1 DEF IInv, TypeOK, Fork, ForkFails
<1>3. (\A x : Holding(x)' = Holding(x)) /\ GotZero' = GotZero /\ Done' = Done
  BY <1>1 DEF Fork, ForkFails, Holding, GotZero, Done, IInv, TypeOK
<1>4. InOnePlace'
  BY <1>1, <1>3 DEF IInv, InOnePlace, Divisors
<1>5. Zeros'
  BY <1>1, <1>3 DEF IInv, Zeros
<1>6. \A c \in Child : pc'[c] = "write" => pc[c] = "write"
  BY DEF Fork, ForkFails, IInv, TypeOK
<1>7. Phases'
  BY <1>1, <1>6, ChildrenNumber DEF IInv, Phases, Divisors
<1> QED BY <1>2, <1>4, <1>5, <1>7 DEF IInv

LEMMA WriteNumberKeeps ==
  ASSUME IInv, WriteNumber
  PROVE  IInv'
<1>1. /\ parent = "write" /\ d <= N /\ p' = Append(p, d) /\ d' = d + 1
      /\ UNCHANGED <<junk, r, zeros, count, dest, parent, pc, hand>>
      /\ p \in Seq(0 .. N) /\ d \in 0 .. N /\ Len(p) < PCap
  BY DEF WriteNumber, IInv, TypeOK
<1>2. TypeOK'
  BY <1>1, AppendProperties DEF IInv, TypeOK
<1>3. \A x : Times(x, p') = Times(x, p) + IF d = x THEN 1 ELSE 0
  BY <1>1, TimesAppend
<1>4. (\A x : Holding(x)' = Holding(x)) /\ GotZero' = GotZero /\ Done' = Done
  BY <1>1, SameChildren
<1>5. ASSUME NEW x \in Divisors PROVE At(x)' = At(x)
  <2>1. x \in Nat /\ x > 0 /\ x <= N /\ Times(x, p) \in Nat /\ Times(x, r) \in Nat
    BY Numbers DEF IInv
  <2>2. Times(x, p') = Times(x, p) + IF d = x THEN 1 ELSE 0
    BY <1>1, <1>3
  <2>3. Holding(x)' = Holding(x)
    BY <1>4
  <2> QED BY <1>1, <2>1, <2>2, <2>3, Numbers DEF IInv, At
<1>6. zeros = 0 /\ d > 0
  BY <1>1, Numbers DEF IInv, Phases, TypeOK
<1>7. Zeros'
  BY <1>1, <1>3, <1>4, <1>6, Numbers, SMTT(30) DEF IInv, Zeros
<1>8. Phases'
  BY <1>1, <1>6 DEF IInv, Phases, Divisors
<1> QED BY <1>2, <1>5, <1>7, <1>8, MovingOn DEF IInv

LEMMA WriteZeroKeeps ==
  ASSUME IInv, WriteZero
  PROVE  IInv'
<1>1. /\ parent = "write" /\ d = N + 1 /\ p' = Append(p, 0) /\ zeros' = zeros + 1
      /\ parent' = IF zeros' = Children THEN "own" ELSE "write"
      /\ UNCHANGED <<junk, r, d, count, dest, pc, hand>>
      /\ p \in Seq(0 .. N) /\ 0 \in 0 .. N /\ Len(p) < PCap /\ zeros < Children
  BY DEF WriteZero, IInv, TypeOK, Phases
<1>2. TypeOK'
  BY <1>1, AppendProperties, ChildrenNumber DEF IInv, TypeOK
<1>3. /\ \A x : Times(x, p') = Times(x, p) + IF 0 = x THEN 1 ELSE 0
      /\ p'[Len(p')] = 0
  BY <1>1, TimesAppend, AppendProperties, LenProperties
<1>4. (\A x : Holding(x)' = Holding(x)) /\ GotZero' = GotZero /\ Done' = Done
  BY <1>1, SameChildren
<1>5. ASSUME NEW x \in Divisors PROVE At(x)' = At(x)
  <2>1. x \in Nat /\ x > 0 /\ x <= N /\ Times(x, p) \in Nat /\ Times(x, r) \in Nat
    BY Numbers DEF IInv
  <2>2. Times(x, p') = Times(x, p)
    BY <1>1, <1>3, <2>1
  <2>3. Holding(x)' = Holding(x)
    BY <1>4
  <2> QED BY <1>1, <2>1, <2>2, <2>3, Numbers DEF IInv, At
<1>6. Zeros'
  BY <1>1, <1>3, <1>4, Numbers, SMTT(30) DEF IInv, Zeros
<1>7. Phases'
  BY <1>1, Numbers DEF IInv, Phases, Divisors
<1> QED BY <1>2, <1>5, <1>6, <1>7, MovingOn DEF IInv

LEMMA WriteOwnZeroKeeps ==
  ASSUME IInv, WriteOwnZero
  PROVE  IInv'
<1>1. /\ parent = "own" /\ r' = Append(r, 0) /\ parent' = "read"
      /\ UNCHANGED <<junk, p, d, zeros, count, dest, pc, hand>>
      /\ r \in Seq(0 .. N) /\ 0 \in 0 .. N /\ Len(r) < RCap
  BY DEF WriteOwnZero, IInv, TypeOK
<1>2. TypeOK'
  BY <1>1, AppendProperties DEF IInv, TypeOK
<1>3. /\ \A x : Times(x, r') = Times(x, r) + IF 0 = x THEN 1 ELSE 0
      /\ r'[Len(r')] = 0
  BY <1>1, TimesAppend, AppendProperties, LenProperties
<1>4. (\A x : Holding(x)' = Holding(x)) /\ GotZero' = GotZero /\ Done' = Done
  BY <1>1, SameChildren
<1>5. ASSUME NEW x \in Divisors PROVE At(x)' = At(x)
  <2>1. x \in Nat /\ x > 0 /\ x <= N /\ Times(x, p) \in Nat /\ Times(x, r) \in Nat
    BY Numbers DEF IInv
  <2>2. Times(x, r') = Times(x, r)
    BY <1>1, <1>3, <2>1
  <2>3. Holding(x)' = Holding(x)
    BY <1>4
  <2> QED BY <1>1, <2>1, <2>2, <2>3, Numbers DEF IInv, At
<1>6. Zeros'
  BY <1>1, <1>3, <1>4, Numbers DEF IInv, Zeros
<1>7. count <= Children
  <2>1. Cardinality(Done) <= Children
    BY SomeChildren, ChildrenFinite
  <2>2. count + Times(0, r) = Cardinality(Done)
    BY <1>1, Numbers DEF IInv, Zeros
  <2> QED BY <2>1, <2>2, Numbers DEF IInv
<1>8. Phases'
  BY <1>1, <1>7 DEF IInv, Phases, Divisors
<1> QED BY <1>2, <1>5, <1>6, <1>8, MovingOn DEF IInv

\* The tail of a sequence ends as the sequence does.
LEMMA TailEnd ==
  ASSUME NEW S, NEW s \in Seq(S), s # <<>>, Tail(s) # <<>>
  PROVE  Tail(s)[Len(Tail(s))] = s[Len(s)]
<1>1. /\ Tail(s) \in Seq(S) /\ Len(Tail(s)) = Len(s) - 1 /\ Len(s) \in Nat
      /\ \A k \in 1 .. Len(s) - 1 : Tail(s)[k] = s[k + 1]
  BY HeadTailProperties, LenProperties
<1>2. Len(Tail(s)) \in Nat /\ Len(Tail(s)) # 0
  BY <1>1, LenProperties, EmptySeq
<1> QED BY <1>1, <1>2

LEMMA CollectKeeps ==
  ASSUME IInv, Collect
  PROVE  IInv'
<1> DEFINE e == Head(r)
           new == e # 0 /\ Divides(e)
<1>1. /\ parent = "read" /\ r # <<>> /\ r' = Tail(r)
      /\ dest' = IF new THEN Append(dest, e) ELSE dest
      /\ count' = count + IF e = 0 THEN 1 ELSE 0
      /\ parent' = IF count' = Children + 1 THEN "printed" ELSE "read"
      /\ UNCHANGED <<junk, p, d, zeros, pc, hand>>
      /\ r \in Seq(0 .. N) /\ dest \in Seq(0 .. N) /\ count <= Children
      /\ e \in 0 .. N /\ Tail(r) \in Seq(0 .. N) /\ Len(Tail(r)) = Len(r) - 1
      /\ Len(dest) \in Nat /\ junk \in Nat
  BY HeadTailProperties, LenProperties DEF Collect, LastZero, IInv, TypeOK, Phases
<1>2. TypeOK'
  <2>1. dest' \in Seq(0 .. N)
    BY <1>1, AppendProperties
  <2>2. r' \in Seq(0 .. N) /\ Len(r') <= RCap
    BY <1>1, LenProperties DEF IInv, TypeOK
  <2>3. count' \in 0 .. Children + 1 /\ parent' \in {"read", "printed"}
    BY <1>1, ChildrenNumber, Numbers, SMTT(30) DEF IInv
  <2> QED BY <1>1, <2>1, <2>2, <2>3 DEF IInv, TypeOK
<1>3. \A x : Times(x, r) = Times(x, r') + IF e = x THEN 1 ELSE 0
  BY <1>1, TimesTail
<1>4. (\A x : Holding(x)' = Holding(x)) /\ GotZero' = GotZero /\ Done' = Done
  BY <1>1, SameChildren
<1>5. ASSUME NEW x \in Divisors PROVE At(x)' = At(x)
  <2>1. x > 0 /\ Divides(x) /\ Times(x, r) \in Nat /\ Times(x, r') \in Nat
    BY <1>2, Numbers, PlacesFinite DEF IInv, TypeOK
  <2>2. Times(x, dest') = Times(x, dest) + IF e = x THEN 1 ELSE 0
    <3>1. CASE new
      BY <1>1, <3>1, TimesAppend
    <3>2. CASE ~new
      <4>1. e # x
        BY <2>1, <3>2
      <4> QED BY <1>1, <3>2, <4>1, Numbers DEF IInv
    <3> QED BY <3>1, <3>2
  <2>3. Times(x, r) = Times(x, r') + IF e = x THEN 1 ELSE 0
    BY <1>3
  <2>4. Holding(x)' = Holding(x)
    BY <1>4
  <2>5. /\ Times(x, p) \in Nat /\ Times(x, r) \in Nat /\ Times(x, dest) \in Nat
        /\ Cardinality(Holding(x)) \in Nat /\ x \in Nat /\ d \in Nat
    BY Numbers DEF IInv
  <2>6. UNCHANGED <<d, p>>
    BY <1>1
  <2> QED BY <2>1, <2>2, <2>3, <2>4, <2>5, <2>6 DEF At
<1>6. Zeros'
  <2>1. Times(0, r) = Times(0, r') + (IF e = 0 THEN 1 ELSE 0) /\ Times(0, r') \in Nat
    BY <1>1, <1>3, PlacesFinite
  <2>2. count' + Times(0, r') = Cardinality(Done) + 1
    BY <1>1, <2>1, Numbers, SMTT(30) DEF IInv, Zeros
  <2>3. Done = Child /\ r' # <<>> => r'[Len(r')] = 0
    BY <1>1, TailEnd DEF IInv, Zeros
  <2>4. parent' \in {"read", "printed"}
    BY <1>1
  <2> QED BY <1>1, <1>4, <2>2, <2>3, <2>4 DEF IInv, Zeros
<1>7. Phases'
  <2>1. /\ parent' = "read" => count' <= Children
        /\ parent' = "printed" => count' = Children + 1
    BY <1>1, Numbers, ChildrenNumber DEF IInv
  <2>2. /\ junk <= Len(dest')
        /\ \A k \in 1 .. junk : dest'[k] = 0
        /\ \A k \in junk + 1 .. Len(dest') : dest'[k] \in Divisors
    <3>1. CASE new
      <4>1. e \in Divisors
        BY <1>1, <3>1, Numbers DEF IInv, Divisors
      <4>2. /\ Len(dest') = Len(dest) + 1 /\ dest'[Len(dest) + 1] = e
            /\ \A k \in 1 .. Len(dest) : dest'[k] = dest[k]
        BY <1>1, <3>1, AppendProperties
      <4> QED BY <1>1, <4>1, <4>2 DEF IInv, Phases
    <3>2. CASE ~new
      BY <1>1, <3>2 DEF IInv, Phases
    <3> QED BY <3>1, <3>2
  <2> QED BY <1>1, <2>1, <2>2 DEF IInv, Phases, Divisors
<1> QED BY <1>2, <1>5, <1>6, <1>7, MovingOn DEF IInv

LEMMA TakeKeeps ==
  ASSUME IInv, NEW c \in Child, Take(c)
  PROVE  IInv'
<1> DEFINE e == Head(p)
<1>1. /\ pc[c] = "read" /\ p # <<>> /\ p' = Tail(p)
      /\ hand' = [hand EXCEPT ![c] = e]
      /\ pc' = [pc EXCEPT ![c] = IF e = 0 THEN "last"
                                 ELSE IF Divides(e) THEN "write" ELSE "read"]
      /\ UNCHANGED <<junk, r, d, zeros, count, dest, parent>>
      /\ p \in Seq(0 .. N) /\ e \in 0 .. N
      /\ Tail(p) \in Seq(0 .. N) /\ Len(Tail(p)) = Len(p) - 1
      /\ pc \in [Child -> {"unborn", "read", "write", "last", "done"}]
      /\ hand \in [Child -> 0 .. N]
  BY HeadTailProperties, LenProperties DEF Take, IInv, TypeOK
<1>2. TypeOK'
  BY <1>1, LenProperties DEF IInv, TypeOK
<1>3. \A x : Times(x, p) = Times(x, p') + IF e = x THEN 1 ELSE 0
  BY <1>1, TimesTail
<1>4. /\ GotZero' = IF e = 0 THEN GotZero \cup {c} ELSE GotZero
      /\ Done' = Done /\ c \notin GotZero /\ c \notin Done
  BY <1>1 DEF GotZero, Done
<1>5. ASSUME NEW x \in Divisors PROVE At(x)' = At(x)
  <2>1. x > 0 /\ Divides(x) /\ Times(x, p) \in Nat /\ Times(x, p') \in Nat
    BY <1>2, Numbers, PlacesFinite DEF IInv, TypeOK
  <2>2. Holding(x)' = IF e = x THEN Holding(x) \cup {c} ELSE Holding(x)
    BY <1>1, <2>1 DEF Holding
  <2>3. c \notin Holding(x)
    BY <1>1 DEF Holding
  <2>4. Cardinality(Holding(x)') = Cardinality(Holding(x)) + IF e = x THEN 1 ELSE 0
    BY <2>2, <2>3, SomeChildren, ChildrenFinite
  <2>5. Times(x, p) = Times(x, p') + IF e = x THEN 1 ELSE 0
    BY <1>3
  <2>6. /\ Times(x, p) \in Nat /\ Times(x, r) \in Nat /\ Times(x, dest) \in Nat
        /\ Cardinality(Holding(x)) \in Nat /\ x \in Nat /\ d \in Nat
    BY Numbers DEF IInv
  <2>7. UNCHANGED <<d, r, dest>>
    BY <1>1
  <2> QED BY <2>1, <2>4, <2>5, <2>6, <2>7 DEF At
<1>6. Zeros'
  <2>1. Times(0, p) = Times(0, p') + (IF e = 0 THEN 1 ELSE 0) /\ Times(0, p') \in Nat
    BY <1>1, <1>3, PlacesFinite
  <2>2. Cardinality(GotZero') = Cardinality(GotZero) + IF e = 0 THEN 1 ELSE 0
    BY <1>4, SomeChildren, ChildrenFinite
  <2>3. zeros > 0 /\ p' # <<>> => p'[Len(p')] = 0
    BY <1>1, TailEnd DEF IInv, Zeros
  <2>4. zeros = Times(0, p') + Cardinality(GotZero')
    BY <2>1, <2>2, Numbers DEF IInv, Zeros
  <2>5. parent \in {"read", "printed"} /\ Done = Child => r = <<>> \/ r[Len(r)] = 0
    BY DEF IInv, Zeros
  <2>6. count + Times(0, r) = Cardinality(Done) + IF parent \in {"read", "printed"} THEN 1 ELSE 0
    BY DEF IInv, Zeros
  <2> QED BY <1>1, <1>4, <2>3, <2>4, <2>5, <2>6 DEF Zeros
<1>7. Phases'
  <2>1. ASSUME NEW b \in Child, pc'[b] = "write" PROVE hand'[b] \in Divisors
    <3>1. CASE b = c
      BY <1>1, <2>1, <3>1, Numbers DEF IInv, Divisors
    <3>2. CASE b # c
      BY <1>1, <2>1, <3>2 DEF IInv, Phases
    <3> QED BY <3>1, <3>2
  <2> QED BY <1>1, <2>1 DEF IInv, Phases, Divisors
<1> QED BY <1>2, <1>5, <1>6, <1>7, MovingOn DEF IInv

LEMMA WriteDivisorKeeps ==
  ASSUME IInv, NEW c \in Child, WriteDivisor(c)
  PROVE  IInv'
<1> DEFINE e == hand[c]
<1>1. /\ pc[c] = "write" /\ r' = Append(r, e)
      /\ pc' = [pc EXCEPT ![c] = "read"]
      /\ UNCHANGED <<junk, p, d, zeros, count, dest, parent, hand>>
      /\ r \in Seq(0 .. N) /\ e \in 0 .. N /\ Len(r) < RCap
      /\ pc \in [Child -> {"unborn", "read", "write", "last", "done"}]
      /\ e \in Divisors
  BY DEF WriteDivisor, IInv, TypeOK, Phases
<1>2. TypeOK'
  BY <1>1, AppendProperties DEF IInv, TypeOK
<1>3. \A x : Times(x, r') = Times(x, r) + IF e = x THEN 1 ELSE 0
  BY <1>1, TimesAppend
<1>4. GotZero' = GotZero /\ Done' = Done /\ Done # Child
  BY <1>1 DEF GotZero, Done
<1>5. ASSUME NEW x \in Divisors PROVE At(x)' = At(x)
  <2>1. Times(x, r) \in Nat
    BY Numbers DEF IInv
  <2>2. /\ Holding(x)' = IF e = x THEN Holding(x) \ {c} ELSE Holding(x)
        /\ e = x => c \in Holding(x)
    BY <1>1 DEF Holding
  <2>3. Cardinality(Holding(x)') = Cardinality(Holding(x)) - IF e = x THEN 1 ELSE 0
    BY <2>2, SomeChildren, ChildrenFinite
  <2>4. Times(x, r') = Times(x, r) + IF e = x THEN 1 ELSE 0
    BY <1>3
  <2>5. /\ Times(x, p) \in Nat /\ Times(x, r) \in Nat /\ Times(x, dest) \in Nat
        /\ Cardinality(Holding(x)) \in Nat /\ x \in Nat /\ d \in Nat
    BY Numbers DEF IInv
  <2>6. UNCHANGED <<d, p, dest>>
    BY <1>1
  <2> QED BY <2>1, <2>3, <2>4, <2>5, <2>6 DEF At
<1>6. Zeros'
  <2>1. Times(0, r') = Times(0, r)
    BY <1>1, <1>3, Numbers, SMTT(30) DEF IInv
  <2> QED BY <1>1, <1>4, <2>1 DEF IInv, Zeros
<1>7. Phases'
  BY <1>1 DEF IInv, Phases, Divisors
<1> QED BY <1>2, <1>5, <1>6, <1>7, MovingOn DEF IInv

LEMMA WriteLastKeeps ==
  ASSUME IInv, NEW c \in Child, WriteLast(c)
  PROVE  IInv'
<1>1. /\ pc[c] = "last" /\ r' = Append(r, 0)
      /\ pc' = [pc EXCEPT ![c] = "done"]
      /\ UNCHANGED <<junk, p, d, zeros, count, dest, parent, hand>>
      /\ r \in Seq(0 .. N) /\ 0 \in 0 .. N /\ Len(r) < RCap
      /\ pc \in [Child -> {"unborn", "read", "write", "last", "done"}]
  BY DEF WriteLast, IInv, TypeOK
<1>2. TypeOK'
  BY <1>1, AppendProperties DEF IInv, TypeOK
<1>3. /\ \A x : Times(x, r') = Times(x, r) + IF 0 = x THEN 1 ELSE 0
      /\ r'[Len(r')] = 0
  BY <1>1, TimesAppend, AppendProperties, LenProperties
<1>4. /\ GotZero' = GotZero /\ Done' = Done \cup {c} /\ c \notin Done
      /\ \A x : Holding(x)' = Holding(x)
  BY <1>1 DEF GotZero, Done, Holding
<1>5. ASSUME NEW x \in Divisors PROVE At(x)' = At(x)
  <2>1. x > 0 /\ Times(x, r) \in Nat
    BY Numbers DEF IInv
  <2>2. Times(x, r') = Times(x, r)
    BY <1>3, <2>1
  <2>3. Holding(x)' = Holding(x)
    BY <1>4
  <2> QED BY <1>1, <2>1, <2>2, <2>3, Numbers DEF IInv, At
<1>6. Zeros'
  <2>1. Cardinality(Done') = Cardinality(Done) + 1
    BY <1>4, SomeChildren, ChildrenFinite
  <2>2. Times(0, r') = Times(0, r) + 1
    BY <1>3
  <2> QED BY <1>1, <1>3, <1>4, <2>1, <2>2, Numbers, SMTT(30) DEF IInv, Zeros
<1>7. Phases'
  BY <1>1 DEF IInv, Phases, Divisors
<1> QED BY <1>2, <1>5, <1>6, <1>7, MovingOn DEF IInv

LEMMA StepIInv == IInv /\ [Next]_vars => IInv'
<1> SUFFICES ASSUME IInv, [Next]_vars PROVE IInv'
  OBVIOUS
<1>1. CASE UNCHANGED vars
  BY <1>1 DEF vars, IInv, TypeOK, InOnePlace, Holding, Divisors, Zeros, GotZero, Done, Phases
<1> QED
  BY <1>1, ForkKeeps, WriteNumberKeeps, WriteZeroKeeps, WriteOwnZeroKeeps, CollectKeeps,
     TakeKeeps, WriteDivisorKeeps, WriteLastKeeps
  DEF Next, ParentStep, ChildStep

-----------------------------------------------------------------------------
(* What the invariant says at the end.                                      *)

\* When all zeros are in, everything else was before them.
LEMMA AllThrough ==
  ASSUME IInv, parent \in {"read", "printed"}, count + Times(0, r) = Children + 1
  PROVE  p = <<>> /\ Done = Child
<1>1. Done = Child
  <2>1. Cardinality(Done) = Children
    BY Numbers DEF IInv, Zeros
  <2> QED BY <2>1, SomeChildren, ChildrenFinite
<1>2. Cardinality(GotZero) = Children
  BY <1>1, SomeChildren DEF Children
<1>3. Times(0, p) = 0 /\ zeros > 0
  BY <1>2, Numbers, ChildrenNumber DEF IInv, Zeros, Phases
<1>4. p = <<>> \/ (Len(p) \in 1 .. Len(p) /\ p[Len(p)] = 0)
  BY <1>3, LenProperties, EmptySeq DEF IInv, Zeros, TypeOK
<1>5. p = <<>>
  BY <1>3, <1>4, PlacesFinite DEF IInv, TypeOK
<1> QED BY <1>1, <1>5

LEMMA ReadToTheEnd == IInv => ZerosComeLast
<1> SUFFICES ASSUME IInv, parent = "read" PROVE
       count < LastZero /\
         (count + Times(0, r) = LastZero => p = <<>> /\ \A c \in Child : pc[c] = "done")
  BY DEF ZerosComeLast
<1>1. count < LastZero
  BY Numbers DEF IInv, Phases, LastZero
<1>2. ASSUME count + Times(0, r) = LastZero PROVE p = <<>> /\ \A c \in Child : pc[c] = "done"
  <2>1. p = <<>> /\ Done = Child
    BY <1>2, AllThrough DEF LastZero
  <2> QED BY <2>1 DEF Done
<1> QED BY <1>1, <1>2

LEMMA CollectedElements ==
  ASSUME IInv
  PROVE  /\ Len(dest) - junk \in Nat
         /\ Collected \in [1 .. Len(dest) - junk -> Divisors]
         /\ Collected \in Seq(Divisors) /\ Len(Collected) = Len(dest) - junk
         /\ \A k \in 1 .. Len(dest) - junk : Collected[k] = dest[junk + k]
<1>1. /\ Len(dest) \in Nat /\ junk \in Nat /\ junk <= Len(dest)
      /\ \A k \in junk + 1 .. Len(dest) : dest[k] \in Divisors
  BY LenProperties DEF IInv, TypeOK, Phases
<1>2. Len(dest) - junk \in Nat
  BY <1>1
<1>3. \A k \in 1 .. Len(dest) - junk : junk + k \in junk + 1 .. Len(dest)
  BY <1>1
<1>4. Collected \in [1 .. Len(dest) - junk -> Divisors]
  BY <1>1, <1>3 DEF Collected
<1>5. Collected \in Seq(Divisors) /\ Len(Collected) = Len(dest) - junk
  BY <1>2, <1>4
<1> QED BY <1>2, <1>4, <1>5 DEF Collected

LEMMA PrintedAtTheEnd == IInv => PrintsDivisors
<1> SUFFICES ASSUME IInv, parent = "printed"
             PROVE  /\ {Collected[k] : k \in DOMAIN Collected} = Divisors
                    /\ Len(Collected) = Cardinality(Divisors)
                    /\ p = <<>> /\ r = <<>>
                    /\ \A c \in Child : pc[c] = "done"
  BY DEF PrintsDivisors
<1> DEFINE n == Len(dest) - junk
<1>1. Times(0, r) = 0 /\ count + Times(0, r) = Children + 1
  <2>1. Cardinality(Done) <= Children
    BY SomeChildren, ChildrenFinite
  <2> QED BY <2>1, Numbers DEF IInv, Zeros, Phases
<1>2. p = <<>> /\ Done = Child
  BY <1>1, AllThrough
<1>3. r = <<>>
  <2>1. r = <<>> \/ (Len(r) \in 1 .. Len(r) /\ r[Len(r)] = 0)
    BY <1>2, LenProperties, EmptySeq DEF IInv, Zeros, TypeOK
  <2> QED BY <1>1, <2>1, PlacesFinite DEF IInv, TypeOK
<1>4. ASSUME NEW x \in Divisors PROVE Times(x, dest) = 1
  <2>1. Holding(x) = {}
    BY <1>2 DEF Holding, Done
  <2>2. Cardinality(Holding(x)) = 0 /\ Times(x, p) = 0 /\ Times(x, r) = 0
    BY <1>2, <1>3, <2>1, TimesEmpty, ChildrenNumber
  <2>3. ~(x >= d)
    BY Numbers DEF IInv, Phases
  <2> QED BY <2>2, <2>3, Numbers DEF IInv, InOnePlace
<1>5. ASSUME NEW x \in Divisors PROVE \E k \in 1 .. n : Collected[k] = x
  <2>1. PICK j \in 1 .. Len(dest) : dest[j] = x
    BY <1>4, PlacesFinite DEF IInv, TypeOK
  <2>2. j > junk
    BY <2>1, Numbers, LenProperties, SMTT(30) DEF IInv, TypeOK, Phases
  <2>3. j - junk \in 1 .. n /\ junk + (j - junk) = j
    BY <2>1, <2>2, LenProperties DEF IInv, TypeOK
  <2> QED BY <2>1, <2>3, CollectedElements
<1>6. ASSUME NEW j \in 1 .. n, NEW k \in 1 .. n, Collected[j] = Collected[k] PROVE j = k
  <2>0. /\ Len(dest) \in Nat /\ DOMAIN dest = 1 .. Len(dest) /\ junk \in Nat
        /\ dest[junk + j] = Collected[j] /\ dest[junk + k] = Collected[j]
    BY <1>6, CollectedElements, LenProperties DEF IInv, TypeOK
  <2>1. /\ junk + j \in Places(Collected[j], dest)
        /\ junk + k \in Places(Collected[j], dest)
    BY <2>0 DEF Places
  <2>2. Cardinality(Places(Collected[j], dest)) = 1 /\ IsFiniteSet(Places(Collected[j], dest))
    BY <1>4, CollectedElements, PlacesFinite DEF IInv, TypeOK
  <2>3. PICK y : Places(Collected[j], dest) = {y}
    BY <2>2, FS_Singleton
  <2> QED BY <2>1, <2>3, CollectedElements, LenProperties DEF IInv, TypeOK
<1>7. Collected \in Bijection(1 .. n, Divisors)
  <2>1. \A j, k \in 1 .. n : Collected[j] = Collected[k] => j = k
    BY <1>6
  <2>2. \A x \in Divisors : \E k \in 1 .. n : Collected[k] = x
    BY <1>5
  <2> QED BY <2>1, <2>2, CollectedElements, Zenon DEF Bijection, Injection, Surjection, IsInjective
<1>8. Cardinality(Divisors) = n
  <2>1. IsFiniteSet(1 .. n) /\ Cardinality(1 .. n) = n
    BY CollectedElements, FS_Interval
  <2> QED BY <1>7, <2>1, FS_Bijection DEF ExistsBijection
<1>9. {Collected[k] : k \in DOMAIN Collected} = Divisors
  BY <1>5, CollectedElements
<1> QED BY <1>2, <1>3, <1>8, <1>9, CollectedElements DEF Done

-----------------------------------------------------------------------------
(* Results.                                                                 *)

\* The inductive invariant holds.
THEOREM Invariant == Spec => []IInv
<1> QED BY InitIInv, StepIInv, PTL DEF Spec

\* No divisor is lost or doubled between the parent, the pipes and the children.
THEOREM NoneLostOrDoubled == Spec => []InOnePlace
<1>1. IInv => InOnePlace
  BY DEF IInv
<1> QED BY <1>1, Invariant, PTL

\* The zeros end the parent's reading neither early nor late.
THEOREM ZerosEndTheReading == Spec => []ZerosComeLast
<1> QED BY Invariant, ReadToTheEnd, PTL

\* What is printed is every divisor once, and nothing is left behind.
THEOREM AllDivisorsPrinted == Spec => []PrintsDivisors
<1> QED BY Invariant, PrintedAtTheEnd, PTL

-----------------------------------------------------------------------------
(* The program implements Factoring.                                        *)

Found == {Collected[k] : k \in DOMAIN Collected}

LEMMA FoundInDest == IInv => Found = {dest[k] : k \in junk + 1 .. Len(dest)}
<1> SUFFICES ASSUME IInv PROVE Found = {dest[k] : k \in junk + 1 .. Len(dest)}
  OBVIOUS
<1>1. Len(dest) \in Nat /\ junk \in Nat
  BY LenProperties DEF IInv, TypeOK
<1>2. \A j \in junk + 1 .. Len(dest) :
        j - junk \in 1 .. Len(dest) - junk /\ junk + (j - junk) = j
  BY <1>1
<1>3. \A k \in 1 .. Len(dest) - junk : junk + k \in junk + 1 .. Len(dest)
  BY <1>1
<1> QED BY <1>2, <1>3, CollectedElements DEF Found

LEMMA Stutter ==
  ASSUME UNCHANGED <<junk, dest, parent = "printed">>
  PROVE  UNCHANGED Abs!fvars
BY DEF Abs!fvars, Collected

LEMMA CollectFinds == IInv /\ Collect => [Abs!Next]_(Abs!fvars)
<1> SUFFICES ASSUME IInv, Collect PROVE [Abs!Next]_(Abs!fvars)
  OBVIOUS
<1> DEFINE e == Head(r)
<1>1. /\ parent = "read" /\ r # <<>> /\ r \in Seq(0 .. N) /\ dest \in Seq(0 .. N)
      /\ junk \in Nat /\ junk' = junk /\ e \in 0 .. N /\ e = r[1] /\ 1 \in 1 .. Len(r)
      /\ Len(dest) \in Nat /\ junk <= Len(dest)
  BY HeadTailProperties, LenProperties, EmptySeq, SMTT(30) DEF Collect, IInv, TypeOK, Phases
<1>2. CASE e # 0 /\ Divides(e)
  <2>1. e \in Divisors /\ dest' = Append(dest, e) /\ parent' # "printed"
    BY <1>1, <1>2, Numbers DEF Collect, IInv, Divisors, Phases, LastZero
  <2>2. Times(e, dest) = 0
    <3>1. Times(e, r) > 0
      BY <1>1, Numbers, PlacesFinite DEF IInv
    <3>2. At(e) = 1
      BY <2>1 DEF IInv, InOnePlace, At
    <3>3. /\ Times(e, p) \in Nat /\ Times(e, r) \in Nat /\ Times(e, dest) \in Nat
          /\ Cardinality(Holding(e)) \in Nat
      BY Numbers DEF IInv
    <3> QED BY <3>1, <3>2, <3>3 DEF At
  <2>3. e \notin Found
    <3>1. \A k \in 1 .. Len(dest) : dest[k] # e
      BY <1>1, <2>2, PlacesFinite
    <3>2. junk + 1 .. Len(dest) \subseteq 1 .. Len(dest)
      BY <1>1
    <3> QED BY <3>1, <3>2, FoundInDest
  <2>4. Found' = Found \cup {e}
    <3>1. Found' = {dest'[k] : k \in junk + 1 .. Len(dest')}
      <4>1. IInv'
        BY CollectKeeps
      <4>2. (Found = {dest[k] : k \in junk + 1 .. Len(dest)})'
        BY <4>1, FoundInDest, PTL
      <4> QED BY <1>1, <4>2
    <3>2. /\ Len(dest') = Len(dest) + 1 /\ dest'[Len(dest) + 1] = e
          /\ \A k \in 1 .. Len(dest) : dest'[k] = dest[k]
      BY <1>1, <2>1, AppendProperties
    <3>3. junk + 1 .. Len(dest) + 1 = (junk + 1 .. Len(dest)) \cup {Len(dest) + 1}
      BY <1>1
    <3>4. Found = {dest[k] : k \in junk + 1 .. Len(dest)}
      BY FoundInDest
    <3>5. junk + 1 .. Len(dest) \subseteq 1 .. Len(dest)
      BY <1>1
    <3> QED BY <3>1, <3>2, <3>3, <3>4, <3>5
  <2>5. Abs!Find
    BY <1>1, <2>1, <2>3, <2>4 DEF Abs!Find, Abs!Divisors, Divisors, Divides, Found
  <2> QED BY <2>5 DEF Abs!Next
<1>3. CASE ~(e # 0 /\ Divides(e)) /\ parent' = "read"
  <2>1. UNCHANGED <<junk, dest, parent = "printed">>
    BY <1>1, <1>3 DEF Collect
  <2> QED BY <2>1, Stutter
<1>4. CASE ~(e # 0 /\ Divides(e)) /\ parent' = "printed"
  <2>1. Collected' = Collected
    BY <1>1, <1>4 DEF Collect, Collected
  <2>2. Found' = Divisors'
    <3>1. IInv'
      BY CollectKeeps
    <3>2. PrintsDivisors'
      BY <3>1, PrintedAtTheEnd, PTL
    <3> QED BY <1>4, <3>2 DEF PrintsDivisors, Found
  <2>3. Abs!Show
    BY <1>1, <1>4, <2>1, <2>2 DEF Abs!Show, Abs!Divisors, Divisors, Divides, Found
  <2> QED BY <2>3 DEF Abs!Next
<1> QED BY <1>1, <1>2, <1>3, <1>4 DEF Collect

LEMMA StepFactoring == IInv /\ [Next]_vars => [Abs!Next]_(Abs!fvars)
<1> SUFFICES ASSUME IInv, [Next]_vars, ~Collect PROVE [Abs!Next]_(Abs!fvars)
  BY CollectFinds
<1>1. UNCHANGED <<junk, dest, parent = "printed">>
  BY DEF Next, ParentStep, ChildStep, Fork, ForkFails, WriteNumber, WriteZero, WriteOwnZero,
     Take, WriteDivisor, WriteLast, vars
<1> QED BY <1>1, Stutter

\* Every behaviour of the processes is one of Factoring, apart from the elements of
\* dest that were never set.
THEOREM Refinement == Spec => ImplementsFactoring
<1>1. Init => Abs!Init
  <2> SUFFICES ASSUME Init PROVE Abs!Init
    OBVIOUS
  <2>1. IInv /\ Len(dest) = junk /\ junk \in Nat
    BY InitIInv DEF Init
  <2>2. Found = {}
    BY <2>1, CollectedElements DEF Found
  <2> QED BY <2>2 DEF Init, Abs!Init, Found
<1> QED
  BY <1>1, StepFactoring, Invariant, PTL DEF Spec, ImplementsFactoring, Abs!Spec
=============================================================================
