--------------------------- MODULE ForkChainProofs ---------------------------
(***************************************************************************)
(* ForkChain for every table, every number of clients and of forks, and    *)
(* every value the uninitialised i may hold: IInv is inductive, so numbers *)
(* are never shared, never outside the table, and no process is missing    *)
(* unless a fork failed.                                                   *)
(***************************************************************************)
EXTENDS ForkChain, SequenceTheorems, TLAPS

USE ForkAssumption

LEMMA TableRead ==
  ASSUME NEW f \in Files, NEW t \in GetForwardTable(f)
  PROVE  t \in Seq(Port)
<1>1. PICK n \in 0 .. Len(f) : (\A l \in 1 .. n : f[l] # Bad) /\ t = SubSeq(f, 1, n)
  BY DEF GetForwardTable
<1>2. f \in Seq(Port \cup {Bad})
  OBVIOUS
<1>3. \A l \in 1 .. n : f[l] \in Port
  BY <1>1, <1>2
<1>4. t = [l \in 1 .. n |-> f[l]]
  BY <1>1, <1>2, SubSeqProperties
<1> QED BY <1>3, <1>4

LEMMA InitInv == Init => IInv
<1> SUFFICES ASSUME Init PROVE IInv
  OBVIOUS
<1> USE DEF IInv, TypeOK, Process, FirstProcess
<1>1. CASE ProxyInit
  <2>1. table \in Seq(Port)
    BY <1>1, TableRead DEF ProxyInit
  <2>2. CASE table = <<>>
    <3>1. procs = <<>> /\ DOMAIN procs = {} /\ limit = 0
      BY <1>1, <2>2 DEF ProxyInit
    <3> QED BY <1>1, <2>1, <2>2, <3>1 DEF ProxyInit
  <2>3. CASE table # <<>>
    <3>1. procs = <<[i |-> 1, pid |-> "zero", no |-> -1, pc |-> "forking"]>>
      BY <1>1, <2>3 DEF ProxyInit
    <3>2. procs \in Seq(Process) /\ Len(procs) = 1 /\ DOMAIN procs = {1}
            /\ procs[1] = [i |-> 1, pid |-> "zero", no |-> -1, pc |-> "forking"]
      BY <3>1
    <3>3. InPlace(procs[1], 1, 1)
      BY <1>1, <3>2 DEF ProxyInit, InPlace, Final
    <3>4. Holds(procs[1])
      BY <3>2 DEF Holds
    <3> QED BY <1>1, <2>1, <2>3, <3>2, <3>3, <3>4 DEF ProxyInit
  <2> QED BY <2>2, <2>3
<1>2. CASE ClientInit \/ ServerInit
  <2>1. procs = <<[i |-> start, pid |-> "zero", no |-> 0, pc |-> "forking"]>>
          /\ start \in Int /\ limit \in Int /\ table \in Seq(Port)
          /\ kind \in {"client", "server"}
          /\ (kind = "server" => start = 0 /\ limit = PROCESSES)
    <3>1. CASE ClientInit
      <4>1. start \in JunkI /\ \E clients \in Requested : limit = clients - 1
        BY <3>1 DEF ClientInit
      <4>2. JunkI \subseteq Int /\ Requested \subseteq Int
        BY ForkAssumption
      <4>3. table \in Seq(Port)
        BY <3>1 DEF ClientInit
      <4>4. start \in Int
        BY <4>1, <4>2
      <4>5. limit \in Int
        BY <4>1, <4>2
      <4> QED BY <3>1, <4>3, <4>4, <4>5 DEF ClientInit
    <3>2. CASE ServerInit
      BY <3>2 DEF ServerInit
    <3> QED BY <1>2, <3>1, <3>2
  <2>2. procs \in Seq(Process) /\ Len(procs) = 1 /\ DOMAIN procs = {1} /\ procs # <<>>
          /\ procs[1] = [i |-> start, pid |-> "zero", no |-> 0, pc |-> "forking"]
    BY <2>1
  <2>3. InPlace(procs[1], 1, 1)
    BY <2>1, <2>2 DEF InPlace, Final
  <2> QED BY <2>1, <2>2, <2>3
<1> QED BY <1>1, <1>2 DEF Init

\* A step that gives process k the new state r.
LEMMA Update ==
  ASSUME IInv, NEW k \in DOMAIN procs, NEW r \in Process,
         procs' = [procs EXCEPT ![k] = r],
         UNCHANGED <<kind, table, start, limit>>,
         InPlace(r, k, Len(procs)),
         kind = "proxy" /\ r.pc = "serving" =>
           ForwardPort(r) \notin Taken /\ ~Listening(ForwardPort(r)),
         kind = "proxy" /\ r.pc = "refused" =>
           ForwardPort(r) \in Taken \/ Listening(ForwardPort(r)),
         procs[k].pc \in {"serving", "ended"} => r.pc = "ended" /\ r.no = procs[k].no
  PROVE  IInv'
<1>1. /\ procs \in Seq(Process) /\ procs' \in Seq(Process)
      /\ Len(procs') = Len(procs) /\ DOMAIN procs' = DOMAIN procs
      /\ procs'[k] = r
      /\ \A j \in DOMAIN procs : j # k => procs'[j] = procs[j]
  BY DEF IInv, TypeOK
<1>2. TypeOK'
  BY <1>1 DEF IInv, TypeOK
<1>3. \A j \in DOMAIN procs' : InPlace(procs[j], j, Len(procs))'
  <2> SUFFICES ASSUME NEW j \in DOMAIN procs PROVE InPlace(procs[j], j, Len(procs))'
    BY <1>1
  <2>1. CASE j = k
    BY <1>1, <2>1 DEF InPlace, Final
  <2>2. CASE j # k
    BY <1>1, <2>2 DEF IInv, InPlace, Final
  <2> QED BY <2>1, <2>2
<1>4. ASSUME kind = "proxy", NEW j \in DOMAIN procs PROVE Holds(procs[j])'
  <2>1. \A p : ForwardPort(p)' = ForwardPort(p)
    BY DEF ForwardPort
  <2>2. procs'[j].pc = "serving" => ForwardPort(procs'[j]) \notin Taken
    BY <1>1, <1>4 DEF IInv, Holds
  <2>3. ASSUME procs'[j].pc = "refused"
        PROVE  \/ ForwardPort(procs'[j]) \in Taken
               \/ \E l \in DOMAIN procs : /\ procs[l].pc \in {"serving", "ended"}
                                          /\ ForwardPort(procs[l]) = ForwardPort(procs'[j])
    BY <1>1, <1>4, <2>3 DEF IInv, Holds, Listening
  <2>4. ASSUME NEW l \in DOMAIN procs, procs[l].pc \in {"serving", "ended"}
        PROVE  procs'[l].pc \in {"serving", "ended"} /\ ForwardPort(procs'[l]) = ForwardPort(procs[l])
    BY <1>1, <2>4 DEF ForwardPort
  <2> QED BY <1>1, <2>1, <2>2, <2>3, <2>4 DEF Holds, ForwardPort
<1>5. ASSUME kind = "proxy", NEW j \in DOMAIN procs, NEW l \in DOMAIN procs,
             procs'[j].pc = "serving", procs'[l].pc = "serving",
             ForwardPort(procs'[j]) = ForwardPort(procs'[l])
      PROVE  j = l
  BY <1>1, <1>5 DEF IInv, Listening
<1>6. procs' = <<>> <=> procs = <<>>
  BY <1>1
<1> QED
  <2>1. \A p : ForwardPort(p)' = ForwardPort(p)
    BY DEF ForwardPort
  <2> QED BY <1>1, <1>2, <1>3, <1>4, <1>5, <1>6, <2>1 DEF IInv, ForwardPort

\* What IInv says of one process, for the steps that give it a new state.
LEMMA Of ==
  ASSUME IInv, NEW k \in DOMAIN procs
  PROVE  /\ procs[k] \in Process /\ k \in Nat /\ k >= 1 /\ k <= Len(procs)
         /\ InPlace(procs[k], k, Len(procs))
         /\ start \in Int /\ limit \in Int
BY DEF IInv, TypeOK

\* The number both sides of a fork() keep is the older one's.
LEMMA NumberOf ==
  ASSUME IInv, NEW k \in DOMAIN procs, procs[k].pc = "forking", procs[k].pid = "zero"
  PROVE  /\ Number(procs[k]) \in Int
         /\ kind # "server" => Number(procs[k]) = Final(k)
<1>1. procs[k].no \in Int /\ procs[k].i = start + k - 1 /\ start \in Int /\ k \in Nat
  BY Of DEF InPlace, Process
<1>2. CASE kind = "proxy"
  BY <1>1, <1>2 DEF IInv, Number, PortNo, Final
<1>3. CASE kind = "client"
  BY <1>1, <1>3, Of DEF InPlace, Number, ClientNo, Final
<1>4. CASE kind = "server"
  BY <1>1, <1>4 DEF Number
<1> QED BY <1>2, <1>3, <1>4 DEF IInv, TypeOK

LEMMA ForkKeeps == ASSUME IInv, NEW k \in DOMAIN procs, Fork(k) PROVE IInv'
<1> DEFINE p == procs[k]
           a == Pass(p, "positive", Number(p))
           b == Pass(p, "zero", Number(p))
           n == Len(procs)
<1>1. /\ procs \in Seq(Process) /\ p \in Process /\ n \in Nat /\ k = n
      /\ p.pc = "forking" /\ p.i < limit /\ p.pid = "zero" /\ p.i = start + k - 1
      /\ UNCHANGED <<kind, table, start, limit>>
  <2>1. p.pc = "forking" /\ p.i < limit /\ p.pid = "zero" /\ UNCHANGED <<kind, table, start, limit>>
    BY DEF Fork, Looping
  <2>2. procs \in Seq(Process) /\ n \in Nat
    BY DEF IInv, TypeOK
  <2> QED BY <2>1, <2>2, Of DEF InPlace
<1>2. Number(p) \in Int /\ (kind # "server" => Number(p) = Final(k))
  BY <1>1, NumberOf
<1>3. /\ a \in Process /\ a.i = p.i + 1 /\ a.pid = "positive"
      /\ a.no = Number(p) /\ a.pc = "forking"
      /\ b \in Process /\ b.i = p.i + 1 /\ b.pid = "zero"
      /\ b.no = Number(p) /\ b.pc = "forking"
  <2>1. p \in Process /\ p.pc = "forking" /\ Number(p) \in Int
    BY <1>1, <1>2
  <2>2. /\ a \in Process /\ a.i = p.i + 1 /\ a.pid = "positive"
        /\ a.no = Number(p) /\ a.pc = "forking"
    BY <2>1 DEF Pass, Process
  <2>3. /\ b \in Process /\ b.i = p.i + 1 /\ b.pid = "zero"
        /\ b.no = Number(p) /\ b.pc = "forking"
    BY <2>1 DEF Pass, Process
  <2> QED BY <2>2, <2>3
<1>4. procs' = Append([procs EXCEPT ![k] = a], b)
  BY DEF Fork
<1> HIDE DEF p, a, b
<1>5. /\ procs' \in Seq(Process) /\ Len(procs') = n + 1 /\ DOMAIN procs' = 1 .. n + 1
      /\ procs'[n] = a /\ procs'[n + 1] = b
      /\ \A j \in 1 .. n - 1 : procs'[j] = procs[j]
  BY <1>1, <1>3, <1>4
<1>6. TypeOK'
  BY <1>1, <1>5 DEF IInv, TypeOK
<1>7. ASSUME NEW j \in DOMAIN procs' PROVE InPlace(procs[j], j, Len(procs))'
  <2>1. CASE j \in 1 .. n - 1
    BY <1>1, <1>5, <2>1 DEF IInv, InPlace, Final
  <2>2. CASE j = n
    BY <1>1, <1>2, <1>3, <1>5, <2>2 DEF IInv, TypeOK, InPlace, Final
  <2>3. CASE j = n + 1
    BY <1>1, <1>2, <1>3, <1>5, <2>3 DEF IInv, TypeOK, InPlace, Final
  <2> QED BY <1>1, <1>5, <2>1, <2>2, <2>3
<1>8. ASSUME NEW j \in DOMAIN procs', procs'[j].pc # "forking"
      PROVE  j \in DOMAIN procs /\ procs'[j] = procs[j]
  BY <1>1, <1>3, <1>5, <1>8
<1>9. ASSUME NEW j \in DOMAIN procs, procs[j].pc # "forking"
      PROVE  j \in DOMAIN procs' /\ procs'[j] = procs[j]
  BY <1>1, <1>5, <1>9 DEF p
<1>10. ASSUME kind = "proxy", NEW j \in DOMAIN procs' PROVE Holds(procs[j])'
  <2>1. CASE procs'[j].pc = "forking"
    BY <2>1 DEF Holds
  <2>2. CASE procs'[j].pc # "forking"
    <3>1. j \in DOMAIN procs /\ procs'[j] = procs[j] /\ Holds(procs[j])
      BY <1>8, <1>10, <2>2 DEF IInv
    <3> QED BY <1>1, <1>9, <3>1 DEF Holds, ForwardPort
  <2> QED BY <2>1, <2>2
<1>11. ASSUME kind = "proxy", NEW j \in DOMAIN procs', NEW l \in DOMAIN procs',
              procs'[j].pc = "serving", procs'[l].pc = "serving",
              ForwardPort(procs[j])' = ForwardPort(procs[l])'
       PROVE  j = l
  <2>1. j \in DOMAIN procs /\ procs'[j] = procs[j] /\ l \in DOMAIN procs /\ procs'[l] = procs[l]
    BY <1>8, <1>11
  <2>2. ForwardPort(procs[j]) = ForwardPort(procs[l])
    BY <1>1, <1>11, <2>1 DEF ForwardPort
  <2>3. \A u, v \in DOMAIN procs :
          /\ procs[u].pc = "serving" /\ procs[v].pc = "serving"
          /\ ForwardPort(procs[u]) = ForwardPort(procs[v])
          => u = v
    BY <1>11 DEF IInv
  <2> QED BY <1>11, <2>1, <2>2, <2>3
<1>12. procs # <<>> /\ procs' # <<>>
  BY <1>1, <1>5
<1> QED
  BY <1>1, <1>6, <1>7, <1>10, <1>11, <1>12 DEF IInv

LEMMA ForkFailsKeeps == ASSUME IInv, NEW k \in DOMAIN procs, ForkFails(k) PROVE IInv'
<1> DEFINE p == procs[k]
           r == Pass(p, "minus", Number(p))
<1>1. p \in Process /\ p.pc = "forking" /\ p.i < limit /\ p.pid = "zero"
  BY Of DEF ForkFails, Looping
<1>2. Number(p) \in Int /\ (kind # "server" => Number(p) = Final(k))
  BY <1>1, NumberOf
<1>3. r \in Process /\ r.i = p.i + 1 /\ r.pid = "minus" /\ r.no = Number(p) /\ r.pc = "forking"
  <2>1. p \in Process /\ p.pc = "forking" /\ Number(p) \in Int
    BY <1>1, <1>2
  <2> QED BY <2>1 DEF Pass, Process
<1>4. InPlace(r, k, Len(procs))
  BY <1>1, <1>2, <1>3, Of DEF InPlace, Process
<1>5. procs' = [procs EXCEPT ![k] = r] /\ UNCHANGED <<kind, table, start, limit>>
  BY DEF ForkFails
<1> QED BY <1>1, <1>3, <1>4, <1>5, Update

LEMMA PassByKeeps == ASSUME IInv, NEW k \in DOMAIN procs, PassBy(k) PROVE IInv'
<1> DEFINE p == procs[k]
           r == Pass(p, p.pid, p.no)
<1>1. p \in Process /\ p.pc = "forking" /\ p.i < limit /\ p.pid # "zero"
  BY Of DEF PassBy, Looping
<1>2. r \in Process /\ r.i = p.i + 1 /\ r.pid = p.pid /\ r.no = p.no /\ r.pc = "forking"
  BY <1>1 DEF Pass, Process
<1>3. InPlace(r, k, Len(procs))
  BY <1>1, <1>2, Of DEF InPlace, Process
<1>4. procs' = [procs EXCEPT ![k] = r] /\ UNCHANGED <<kind, table, start, limit>>
  BY DEF PassBy
<1> QED BY <1>1, <1>2, <1>3, <1>4, Update

LEMMA LeaveKeeps == ASSUME IInv, NEW k \in DOMAIN procs, Leave(k) PROVE IInv'
<1> DEFINE p == procs[k]
           r == [p EXCEPT !.no = LastNumber(p), !.pc = "opening"]
<1>1. p \in Process /\ p.pc = "forking" /\ p.i >= limit
  BY Of DEF Leave
<1>2. /\ LastNumber(p) \in Int
      /\ kind # "server" => LastNumber(p) = Final(k)
  BY <1>1, Of DEF IInv, TypeOK, InPlace, LastNumber, Final, Process
<1>3. r \in Process /\ r.i = p.i /\ r.pid = p.pid /\ r.no = LastNumber(p) /\ r.pc = "opening"
  BY <1>1, <1>2 DEF Process
<1>4. InPlace(r, k, Len(procs))
  BY <1>1, <1>2, <1>3, Of DEF InPlace, Process
<1>5. procs' = [procs EXCEPT ![k] = r] /\ UNCHANGED <<kind, table, start, limit>>
  BY DEF Leave
<1> QED BY <1>1, <1>3, <1>4, <1>5, Update

\* The steps after the loop change pc alone.
LEMMA PcKeeps ==
  ASSUME IInv, NEW k \in DOMAIN procs, procs[k].pc # "forking",
         NEW w \in {"serving", "refused", "ended"},
         procs' = [procs EXCEPT ![k].pc = w],
         UNCHANGED <<kind, table, start, limit>>,
         kind = "proxy" /\ w = "serving" =>
           ForwardPort(procs[k]) \notin Taken /\ ~Listening(ForwardPort(procs[k])),
         kind = "proxy" /\ w = "refused" =>
           ForwardPort(procs[k]) \in Taken \/ Listening(ForwardPort(procs[k])),
         procs[k].pc \in {"serving", "ended"} => w = "ended"
  PROVE  IInv'
<1> DEFINE r == [procs[k] EXCEPT !.pc = w]
<1>1. procs[k] \in Process
  BY Of
<1>2. r \in Process /\ r.i = procs[k].i /\ r.pid = procs[k].pid /\ r.no = procs[k].no /\ r.pc = w
  BY <1>1 DEF Process
<1>3. InPlace(r, k, Len(procs))
  BY <1>2, Of DEF InPlace
<1>4. procs' = [procs EXCEPT ![k] = r]
  OBVIOUS
<1>5. ForwardPort(r) = ForwardPort(procs[k])
  BY <1>2 DEF ForwardPort
<1> HIDE DEF r
<1> QED BY <1>2, <1>3, <1>4, <1>5, Update

LEMMA NextInv == IInv /\ [Next]_vars => IInv'
<1> SUFFICES ASSUME IInv, [Next]_vars PROVE IInv'
  OBVIOUS
<1>1. CASE UNCHANGED vars
  BY <1>1 DEF vars, IInv, TypeOK, InPlace, Final, Holds, ForwardPort
<1>2. ASSUME NEW k \in DOMAIN procs, Step(k) \/ End(k) PROVE IInv'
  <2>1. CASE Fork(k)
    BY <2>1, ForkKeeps
  <2>2. CASE ForkFails(k)
    BY <2>2, ForkFailsKeeps
  <2>3. CASE PassBy(k)
    BY <2>3, PassByKeeps
  <2>4. CASE Leave(k)
    BY <2>4, LeaveKeeps
  <2>5. CASE Listen(k)
    BY <2>5, PcKeeps DEF Listen, Opening, Become
  <2>6. CASE Refused(k)
    BY <2>6, PcKeeps DEF Refused, Opening, Become
  <2>7. CASE Start(k)
    BY <2>7, PcKeeps DEF Start, Opening, Become
  <2>8. CASE OpenFails(k)
    BY <2>8, PcKeeps DEF OpenFails, Opening, Become
  <2>9. CASE End(k)
    BY <2>9, PcKeeps DEF End
  <2> QED BY <1>2, <2>1, <2>2, <2>3, <2>4, <2>5, <2>6, <2>7, <2>8, <2>9 DEF Step
<1> QED BY <1>1, <1>2 DEF Next

-----------------------------------------------------------------------------

\* Process k has its final number as soon as it is out of the loop.
LEMMA OutNumber ==
  ASSUME IInv, kind # "server", NEW k \in DOMAIN procs, Out(k)
  PROVE  procs[k].no = Final(k) /\ k \in 1 .. Len(procs)
BY Of DEF InPlace, Out

\* No process is born after line limit, and the last one is born on it.
LEMMA Born ==
  ASSUME IInv, NEW k \in DOMAIN procs
  PROVE  /\ k # 1 => start + k - 1 <= limit
         /\ ChainOver /\ k = Len(procs) => start + k - 1 >= limit
<1>1. k \in Nat /\ Len(procs) \in Nat /\ DOMAIN procs = 1 .. Len(procs)
        /\ start \in Int /\ limit \in Int
  BY DEF IInv, TypeOK
<1>2. ASSUME k # 1 PROVE start + k - 1 <= limit
  <2>1. k - 1 \in DOMAIN procs /\ k - 1 < Len(procs) /\ k - 1 \in Nat
    BY <1>1, <1>2
  <2>2. procs[k - 1].pid # "zero"
    BY <1>1, <2>1, Of DEF InPlace
  <2>3. start + (k - 1) <= limit
    BY <2>1, <2>2, Of DEF InPlace
  <2> QED BY <1>1, <2>3
<1>3. ASSUME ChainOver, k = Len(procs) PROVE start + k - 1 >= limit
  <2>1. procs[k].pid = "zero" /\ procs[k].pc # "forking"
    BY <1>1, <1>3, Of DEF InPlace, Process, ChainOver, Out
  <2> QED BY <1>1, <2>1, Of DEF InPlace
<1> QED BY <1>2, <1>3

LEMMA Distinct == IInv => DistinctNumbers
BY OutNumber, Of DEF DistinctNumbers, Final

LEMMA InLines == IInv => InTable
<1> SUFFICES ASSUME IInv, kind = "proxy", NEW k \in DOMAIN procs, Out(k)
             PROVE  procs[k].no + 1 \in DOMAIN table
  BY DEF InTable
<1>1. procs[k].no = k - 1 /\ k \in Nat /\ k >= 1
  BY OutNumber, Of DEF Final
<1>2. start = 1 /\ limit = Len(table) /\ table # <<>> /\ table \in Seq(Port)
  <2>1. procs # <<>>
    BY DEF IInv, TypeOK
  <2> QED BY <2>1 DEF IInv, TypeOK
<1>3. k <= Len(table)
  BY <1>1, <1>2, Born
<1> QED BY <1>1, <1>2, <1>3

LEMMA Enough == IInv => AsManyAsAsked
<1> SUFFICES ASSUME IInv PROVE AsManyAsAsked
  OBVIOUS
<1> DEFINE n == Len(procs)
<1>1. n \in Nat /\ DOMAIN procs = 1 .. n /\ start \in Int /\ limit \in Int
        /\ kind \in {"proxy", "client", "server"} /\ Len(table) \in Nat
  BY DEF IInv, TypeOK
<1>2. CASE n = 0
  BY <1>1, <1>2 DEF IInv, TypeOK, AsManyAsAsked, Wanted
<1>3. CASE n > 0
  <2>1. n \in DOMAIN procs
    BY <1>1, <1>3
  <2>2. n # 1 => start + n - 1 <= limit
    BY <2>1, Born
  <2>3. ChainOver => start + n - 1 >= limit
    BY <2>1, Born
  <2>4. kind = "proxy" => start = 1 /\ limit = Len(table) /\ Len(table) > 0
    BY <1>1, <1>3 DEF IInv, TypeOK
  <2>5. kind = "server" => start = 0 /\ limit = PROCESSES /\ PROCESSES \in Nat
    BY DEF IInv
  <2> QED BY <1>1, <1>3, <2>2, <2>3, <2>4, <2>5, SMTT(30) DEF AsManyAsAsked, Wanted
<1> QED BY <1>1, <1>2, <1>3

LEMMA Covered == IInv => PortsCovered
<1> SUFFICES ASSUME IInv, kind = "proxy", ChainOver,
                    \A k \in DOMAIN procs : procs[k].pc \in {"serving", "refused"},
                    NEW n \in DOMAIN table, table[n] \notin Taken
             PROVE  \E j \in DOMAIN procs :
                      \A k \in DOMAIN procs :
                        procs[k].pc = "serving" /\ ForwardPort(procs[k]) = table[n] <=> k = j
  BY DEF PortsCovered
<1>1. n \in DOMAIN procs
  <2>1. Len(procs) = Len(table)
    BY Enough DEF AsManyAsAsked, Wanted
  <2> QED BY <2>1 DEF IInv, TypeOK
<1>2. ForwardPort(procs[n]) = table[n]
  <2>1. procs[n].no = n - 1 /\ n \in Nat
    BY <1>1, OutNumber, Of DEF ChainOver, Final
  <2> QED BY <2>1 DEF ForwardPort
<1>3. PICK j \in DOMAIN procs : procs[j].pc = "serving" /\ ForwardPort(procs[j]) = table[n]
  <2>1. CASE procs[n].pc = "serving"
    BY <1>1, <1>2, <2>1
  <2>2. CASE procs[n].pc = "refused"
    BY <1>1, <1>2, <2>2 DEF IInv, Holds
  <2> QED BY <1>1, <2>1, <2>2
<1>4. \A k \in DOMAIN procs :
        procs[k].pc = "serving" /\ ForwardPort(procs[k]) = table[n] => k = j
  BY <1>3 DEF IInv
<1> QED BY <1>3, <1>4

\* IInv holds of every reachable state: the place of every process in the chain
\* (proxy_v3.cpp:107-139, client.c:95-104, epollv2.c:100-104).
THEOREM Invariant == Spec => []IInv
BY InitInv, NextInv, PTL DEF Spec

\* No line of the table and no client number is given twice, for every table,
\* every number asked for and every initial value of i (proxy_v3.cpp:107-116).
THEOREM NumbersAreDistinct == Spec => []DistinctNumbers
BY Invariant, Distinct, PTL

\* forwardList is never read outside the lines it has (proxy_v3.cpp:116).
THEOREM AlwaysInTable == Spec => []InTable
BY Invariant, InLines, PTL

\* No process is missing unless a fork failed, and none is too many
\* (proxy_v3.cpp:107, client.c:95, epollv2.c:100).
THEOREM NoneMissing == Spec => []AsManyAsAsked
BY Invariant, Enough, PTL

\* Every free port of the table has exactly one listener once all processes have
\* tried, if none failed (proxy_v3.cpp:107-139).
THEOREM EveryPortOnce == Spec => []PortsCovered
BY Invariant, Covered, PTL
=============================================================================
