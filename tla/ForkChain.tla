------------------------------ MODULE ForkChain ------------------------------
(***************************************************************************)
(* How the programs of the repository become several processes: a loop in  *)
(* which the youngest process forks and every older one has stopped        *)
(* forking, since fork() left a pid other than 0 in it.                    *)
(*                                                                         *)
(*   "proxy"   proxy_v3.cpp: a process per line of the forwarding table,   *)
(*             each of which then listens on the port of its line          *)
(*   "client"  client.c, client.cpp: a process per load client, numbered   *)
(*   "server"  epollv2.c, selectv2.c: processes on one listener, which was *)
(*             opened before the loop                                      *)
(***************************************************************************)
EXTENDS Integers, Sequences

CONSTANTS
  Port,       \* ports of this machine
  Bad,        \* a line of the table that does not parse
  Files,      \* contents the forwarding table may have: sequences of lines
  Taken,      \* ports another program listens on
  Requested,  \* numbers of clients a load client may be asked for
  PROCESSES,  \* of the servers: forks, not processes
  JunkI       \* what the uninitialised i of the load clients may hold

ASSUME ForkAssumption ==
  /\ Bad \notin Port
  /\ Files \subseteq Seq(Port \cup {Bad})
  /\ Taken \subseteq Port
  /\ Requested \subseteq Int
  /\ PROCESSES \in Nat
  /\ JunkI \subseteq Int

VARIABLES
  kind,    \* which program runs
  table,   \* forwardList of the proxy: the source ports
  start,   \* the first value of i
  limit,   \* the loop ends when i reaches it
  procs    \* the processes in the order of their birth

vars == <<kind, table, start, limit, procs>>

\* "refused": bind() found the port in use.  "ended": every other end.
Process ==
  [i : Int, pid : {"zero", "positive", "minus"}, no : Int,
   pc : {"forking", "opening", "serving", "refused", "ended"}]

TypeOK ==
  /\ kind \in {"proxy", "client", "server"}
  /\ table \in Seq(Port)
  /\ start \in Int
  /\ limit \in Int
  /\ procs \in Seq(Process)

-----------------------------------------------------------------------------
\* getForwardTable(): the lines up to the first one that does not parse.
GetForwardTable(file) ==
  {SubSeq(file, 1, n) : n \in {m \in 0 .. Len(file) :
                                /\ \A l \in 1 .. m : file[l] # Bad
                                /\ m < Len(file) => file[m + 1] = Bad}}

FirstProcess(n) == [i |-> start, pid |-> "zero", no |-> n, pc |-> "forking"]

\* An empty table ends the program before it forks.
ProxyInit ==
  /\ kind = "proxy"
  /\ table \in UNION {GetForwardTable(f) : f \in Files}
  /\ start = 1
  /\ limit = Len(table)
  /\ procs = IF table = <<>> THEN <<>> ELSE <<FirstProcess(-1)>>

\* i is compared and counted, but nothing ever set it.
ClientInit ==
  /\ kind = "client"
  /\ table = <<>>
  /\ start \in JunkI
  /\ limit \in {clients - 1 : clients \in Requested}
  /\ procs = <<FirstProcess(0)>>

ServerInit ==
  /\ kind = "server"
  /\ table = <<>>
  /\ start = 0
  /\ limit = PROCESSES
  /\ procs = <<FirstProcess(0)>>

Init == ProxyInit \/ ClientInit \/ ServerInit

-----------------------------------------------------------------------------
(* The loop.                                                                *)

\* portNo and client_no as both sides of a fork() see them.
PortNo(p)   == p.i - 1
ClientNo(p) == p.no + 1

Number(p) ==
  CASE kind = "proxy" -> PortNo(p)
    [] kind = "client" -> ClientNo(p)
    [] OTHER -> p.no

Looping(k) == procs[k].pc = "forking" /\ procs[k].i < limit

\* A pass of the loop leaves n in process p and pid as fork() returned it.
Pass(p, pid, n) == [i |-> p.i + 1, pid |-> pid, no |-> n, pc |-> p.pc]

Fork(k) ==
  LET p == procs[k] IN
  /\ Looping(k)
  /\ p.pid = "zero"
  /\ procs' = Append([procs EXCEPT ![k] = Pass(p, "positive", Number(p))],
                     Pass(p, "zero", Number(p)))
  /\ UNCHANGED <<kind, table, start, limit>>

\* fork() returns -1, which nobody looks at: not 0, so the chain is over.
ForkFails(k) ==
  LET p == procs[k] IN
  /\ Looping(k)
  /\ p.pid = "zero"
  /\ procs' = [procs EXCEPT ![k] = Pass(p, "minus", Number(p))]
  /\ UNCHANGED <<kind, table, start, limit>>

\* Variant: if(pid==0) is missing, so a parent forks again.
PassByForks(k) ==
  LET p == procs[k] IN
  /\ Looping(k)
  /\ p.pid # "zero"
  /\ procs' = Append([procs EXCEPT ![k] = Pass(p, "positive", Number(p))],
                     Pass(p, "zero", Number(p)))
  /\ UNCHANGED <<kind, table, start, limit>>

PassBy(k) ==
  LET p == procs[k] IN
  /\ Looping(k)
  /\ p.pid # "zero"
  /\ procs' = [procs EXCEPT ![k] = Pass(p, p.pid, p.no)]
  /\ UNCHANGED <<kind, table, start, limit>>

\* Variants: the last load client takes no number of its own; every parent takes one.
LastNumberKept(p) == IF p.pid = "zero" /\ kind = "proxy" THEN p.no + 1 ELSE p.no
LastNumberAll(p) == IF p.pid # "minus" /\ kind # "server" THEN p.no + 1 ELSE p.no

\* The last process has no fork() behind it that counted for it.
LastNumber(p) == IF p.pid = "zero" /\ kind # "server" THEN p.no + 1 ELSE p.no

Leave(k) ==
  LET p == procs[k] IN
  /\ p.pc = "forking"
  /\ p.i >= limit
  /\ procs' = [procs EXCEPT ![k] = [p EXCEPT !.no = LastNumber(p), !.pc = "opening"]]
  /\ UNCHANGED <<kind, table, start, limit>>

-----------------------------------------------------------------------------
(* After the loop.                                                          *)

ForwardPort(p) == table[p.no + 1]   \* forwardList[portNo].srcport

Listening(port) ==
  \E p \in {procs[j] : j \in DOMAIN procs} :
    p.pc = "serving" /\ ForwardPort(p) = port

Opening(k) == procs[k].pc = "opening"

Become(k, where) ==
  /\ procs' = [procs EXCEPT ![k].pc = where]
  /\ UNCHANGED <<kind, table, start, limit>>

\* socket(), bind() and listen() of the process's own port.
Listen(k) ==
  /\ kind = "proxy"
  /\ Opening(k)
  /\ ForwardPort(procs[k]) \notin Taken
  /\ ~Listening(ForwardPort(procs[k]))
  /\ Become(k, "serving")

\* SO_REUSEADDR does not let two sockets listen on one port: bind() fails.
Refused(k) ==
  /\ kind = "proxy"
  /\ Opening(k)
  /\ ForwardPort(procs[k]) \in Taken \/ Listening(ForwardPort(procs[k]))
  /\ Become(k, "refused")

\* A load client connects; a server process makes its epoll or select set.
Start(k) == kind # "proxy" /\ Opening(k) /\ Become(k, "serving")

\* Any call fails: ErrorMessage() ends this process.
OpenFails(k) == Opening(k) /\ Become(k, "ended")

\* SIGINT, the end of a client's work, or an error later on.
End(k) ==
  /\ procs[k].pc = "serving"
  /\ procs' = [procs EXCEPT ![k].pc = "ended"]
  /\ UNCHANGED <<kind, table, start, limit>>

Step(k) ==
  \/ Fork(k) \/ ForkFails(k) \/ PassBy(k) \/ Leave(k)
  \/ Listen(k) \/ Refused(k) \/ Start(k) \/ OpenFails(k)

Next == \E k \in DOMAIN procs : Step(k) \/ End(k)

Spec == Init /\ [][Next]_vars

-----------------------------------------------------------------------------
(* Properties.                                                              *)

Out(k) == procs[k].pc # "forking"
ChainOver == \A k \in DOMAIN procs : Out(k) /\ procs[k].pid # "minus"

\* No two processes get the same line of the table or the same client number,
\* although a number is copied with each fork and corrected at the end, and
\* whichever fork fails (proxy_v3.cpp:107-116, client.c:95-104).
DistinctNumbers ==
  kind # "server" =>
    \A j, k \in DOMAIN procs : Out(j) /\ Out(k) /\ j # k => procs[j].no # procs[k].no

\* forwardList[portNo] is always a line of the table, for every length of it
\* and also in a process whose fork failed (proxy_v3.cpp:116, 131).
InTable ==
  kind = "proxy" =>
    \A k \in DOMAIN procs : Out(k) => procs[k].no + 1 \in DOMAIN table

\* A process per line of the table, PROCESSES + 1 server processes, and as many
\* clients as asked for when the uninitialised i happens to be 0: never more, and
\* fewer only if a fork failed (proxy_v3.cpp:107, client.c:95, epollv2.c:100).
Wanted ==
  CASE kind = "proxy" -> Len(table)
    [] kind = "server" -> PROCESSES + 1
    [] OTHER -> IF limit > start THEN limit - start + 1 ELSE 1

AsManyAsAsked ==
  /\ Len(procs) <= Wanted
  /\ ChainOver => Len(procs) = Wanted

\* When no fork failed and no process ended, every port of the table that was
\* free has exactly one listener, also when the table names a port twice
\* (proxy_v3.cpp:107-139).
PortsCovered ==
  kind = "proxy" /\ ChainOver
    /\ (\A k \in DOMAIN procs : procs[k].pc \in {"serving", "refused"}) =>
    \A n \in DOMAIN table : table[n] \notin Taken =>
      \E j \in DOMAIN procs :
        \A k \in DOMAIN procs :
          procs[k].pc = "serving" /\ ForwardPort(procs[k]) = table[n] <=> k = j

\* What makes the properties above inductive: where process p, the k-th of n, is.
\* Only the youngest may still fork, i counted with the births, and its number is
\* one behind until the next fork() or Leave makes up for it.
Final(k) == IF kind = "proxy" THEN k - 1 ELSE k

InPlace(p, k, n) ==
  /\ p.pid = "positive" <=> k < n
  /\ p.pid = "zero" => p.i = start + k - 1
  /\ p.pid # "zero" => start + k <= limit
  /\ p.pc # "forking" => p.i >= limit
  /\ kind # "server" =>
       p.no = IF p.pc = "forking" /\ p.pid = "zero" THEN Final(k) - 1 ELSE Final(k)

\* A process of the proxy listens on its port alone; one that was refused found
\* the port in use.
Holds(p) ==
  /\ p.pc = "serving" => ForwardPort(p) \notin Taken
  /\ p.pc = "refused" =>
       \/ ForwardPort(p) \in Taken
       \/ \E j \in DOMAIN procs : /\ procs[j].pc \in {"serving", "ended"}
                                  /\ ForwardPort(procs[j]) = ForwardPort(p)

IInv ==
  /\ TypeOK
  /\ kind = "proxy" => /\ start = 1 /\ limit = Len(table)
                       /\ procs = <<>> <=> table = <<>>
  /\ kind = "server" => start = 0 /\ limit = PROCESSES
  /\ kind # "proxy" => procs # <<>>
  /\ \A k \in DOMAIN procs : InPlace(procs[k], k, Len(procs))
  /\ kind = "proxy" =>
       /\ \A k \in DOMAIN procs : Holds(procs[k])
       /\ \A j, k \in DOMAIN procs :
            procs[j].pc = "serving" /\ procs[k].pc = "serving"
              /\ ForwardPort(procs[j]) = ForwardPort(procs[k]) => j = k
=============================================================================
