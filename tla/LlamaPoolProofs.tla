--------------------------- MODULE LlamaPoolProofs ---------------------------
(***************************************************************************)
(* TLAPS proofs about LlamaPool, for any numbers of requests, models,      *)
(* timers and starts.                                                      *)
(*                                                                         *)
(* The argument: the only process that runs is the one of self._instance,  *)
(* so who may stop a process is decided by the count of that one instance; *)
(* and the count of every instance, also of one that was replaced while    *)
(* requests used it, is the number of those requests.  A step that starts  *)
(* a server first vacates the pool (Vacated): nothing runs any more, and   *)
(* what it stopped had no user.                                            *)
(***************************************************************************)
EXTENDS LlamaPool, FiniteSetTheorems, TLAPS

(***************************************************************************)
(* The inductive invariant.                                                *)
(***************************************************************************)
ServersInOrder == \E n \in 0 .. MaxStarts : DOMAIN server = 1 .. n

Holds ==
  /\ \A q \in Requests : req[q].pc \in {"enter", "wait"} => req[q].model \in Models
  /\ \A q \in Requests : req[q].pc = "using" => req[q].on \in DOMAIN server
  /\ \A t \in Timers : timer[t].state # "off" => timer[t].of \in DOMAIN server

Typed == TypeOK /\ ServersInOrder /\ Holds

IInv == Typed /\ LeasesCounted /\ LoadedIsOurs

Users(i) == {q \in Requests : req[q].pc = "using" /\ req[q].on = i}

\* The step stops no process that somebody uses.
Spares ==
  \A i \in DOMAIN server :
    server[i].proc = "up" /\ server[i].active > 0 => server'[i].proc # "stopped"

\* ss is the pool's history with whatever ran stopped or dead.
Vacated(ss) ==
  /\ DOMAIN ss = DOMAIN server /\ ss \in [DOMAIN server -> Server]
  /\ \A i \in DOMAIN server :
       /\ ss[i].active = server[i].active
       /\ ss[i].proc # "up"
       /\ server[i].proc = "up" /\ server[i].active > 0 => ss[i].proc # "stopped"

\* Timers are canceled, or age, and are not set again.
TimersKept ==
  /\ timer' \in [Timers -> Timer]
  /\ \A t \in Timers : timer'[t].state # "off" =>
       timer[t].state # "off" /\ timer'[t].of = timer[t].of

-----------------------------------------------------------------------------
(***************************************************************************)
(* Counting.                                                               *)
(***************************************************************************)
LEMMA UsersFinite ==
  ASSUME NEW S \in SUBSET Requests
  PROVE  IsFiniteSet(S) /\ Cardinality(S) \in 0 .. Cardinality(Requests)
<1>1. IsFiniteSet(S) /\ Cardinality(S) <= Cardinality(Requests)
  BY RequestsAssumption, FS_Subset
<1>2. Cardinality(S) \in Nat /\ Cardinality(Requests) \in Nat
  BY <1>1, RequestsAssumption, FS_CardinalityType
<1>3. QED
  BY <1>1, <1>2

\* The counts are right while the instances keep their users.
LEMMA CountsFrame ==
  ASSUME LeasesCounted, DOMAIN server' = DOMAIN server,
         \A i \in DOMAIN server : server'[i].active = server[i].active,
         \A i \in DOMAIN server : Users(i)' = Users(i)
  PROVE  LeasesCounted'
BY DEF LeasesCounted, Users

\* A step that moves one request that uses nothing, before or after.
LEMMA UsersFrame ==
  ASSUME Typed, NEW q \in Requests, req[q].pc # "using", req'[q].pc # "using",
         \A p \in Requests \ {q} : req'[p] = req[p]
  PROVE  \A i : Users(i)' = Users(i)
BY DEF Users

LEMMA CanceledTyped ==
  ASSUME Typed
  PROVE  /\ Canceled \in [Timers -> Timer]
         /\ \A t \in Timers : Canceled[t] = timer[t] \/ Canceled[t] = Off
BY StartsAssumption DEF Typed, TypeOK, Canceled, Off, Timer, Ids

LEMMA UsedTyped ==
  ASSUME NEW ts \in [Timers -> Timer]
  PROVE  /\ Used(ts) \in [Timers -> Timer]
         /\ \A t \in Timers : Used(ts)[t].state = ts[t].state /\ Used(ts)[t].of = ts[t].of
BY DEF Used, Timer

-----------------------------------------------------------------------------
(***************************************************************************)
(* Starting and leasing.                                                   *)
(***************************************************************************)
\* Stopping an instance nobody uses vacates the pool.
LEMMA TerminatedVacates ==
  ASSUME IInv, inst = None \/ server[inst].active = 0
  PROVE  Vacated(Terminated(server, inst))
<1>1. server \in [DOMAIN server -> Server] /\ inst \in DOMAIN server \cup {None}
  BY DEF IInv, Typed, TypeOK
<1>2. DOMAIN server \subseteq 1 .. MaxStarts
  BY DEF IInv, Typed, TypeOK, Ids
<1>3. \A i \in DOMAIN server : server[i].proc = "up" => i = inst /\ inst # None
  BY <1>2, NoneFresh DEF IInv, LoadedIsOurs
<1>4. CASE inst # None /\ server[inst].proc = "up"
  <2>1. Terminated(server, inst) = [server EXCEPT ![inst].proc = "stopped", ![inst].idle = FALSE]
    BY <1>4 DEF Terminated
  <2> DEFINE ss == Terminated(server, inst)
  <2>2. inst \in DOMAIN server /\ server[inst].active = 0 /\ server[inst] \in Server
    BY <1>1, <1>4
  <2>3. /\ DOMAIN ss = DOMAIN server
        /\ \A i \in DOMAIN server \ {inst} : ss[i] = server[i]
        /\ ss[inst].active = 0 /\ ss[inst].proc = "stopped" /\ ss[inst] \in Server
    BY <1>1, <2>1, <2>2 DEF Server
  <2>4. ss \in [DOMAIN server -> Server]
    BY <1>1, <2>1, <2>3
  <2>5. QED
    BY <1>3, <2>2, <2>3, <2>4 DEF Vacated
<1>5. CASE ~(inst # None /\ server[inst].proc = "up")
  <2>1. Terminated(server, inst) = server
    BY <1>5 DEF Terminated
  <2>2. QED
    BY <1>1, <1>3, <1>5, <2>1 DEF Vacated
<1>6. QED
  BY <1>4, <1>5

\* So does the death of the instance.
LEMMA DeathVacates ==
  ASSUME IInv, inst # None
  PROVE  Vacated([server EXCEPT ![inst].proc = "dead"])
<1>1. server \in [DOMAIN server -> Server] /\ inst \in DOMAIN server
  BY DEF IInv, Typed, TypeOK
<1>2. \A i \in DOMAIN server : server[i].proc = "up" => i = inst
  BY DEF IInv, LoadedIsOurs
<1>3. QED
  BY <1>1, <1>2 DEF Vacated, Server

\* What a lease does: it waits, leases the server that runs, or starts one
\* in a vacated pool.
LEMMA LeaseSteps ==
  ASSUME IInv, NEW q \in Requests, Enter(q) \/ Wake(q)
  PROVE  /\ req[q].pc \in {"enter", "wait"}
         /\ TimersKept /\ ref' \in Timers \cup {None}
         /\ \/ UNCHANGED <<server, inst>> /\ req' = [req EXCEPT ![q].pc = "wait"]
            \/ inst # None /\ LeaseIt(q, inst)
            \/ \E ss : Vacated(ss) /\ StartIn(q, ss)
<1> DEFINE Vacates == \E ss : Vacated(ss) /\ StartIn(q, ss)
<1>1. /\ timer \in [Timers -> Timer] /\ ref \in Timers \cup {None}
      /\ Canceled \in [Timers -> Timer]
      /\ \A t \in Timers : Canceled[t] = timer[t] \/ Canceled[t].state = "off"
  BY CanceledTyped DEF IInv, Typed, TypeOK, Off
<1>2. /\ timer' = Canceled => TimersKept
      /\ timer' = Used(timer) => TimersKept
      /\ timer' = Used(Canceled) => TimersKept
  BY <1>1, UsedTyped DEF TimersKept
<1>3. \A ss : StartIn(q, ss) => timer' = Canceled
  BY DEF StartIn
<1>4. ASSUME inst = None \/ server[inst].active = 0, Exchange(q, inst) PROVE Vacates /\ TimersKept
  BY <1>2, <1>3, <1>4, TerminatedVacates DEF Exchange
<1>5. ASSUME NEW ts \in {timer, Canceled}, NEW r \in Timers \cup {None},
             ~Blocked(inst, req[q].model), Acquire(q, inst, ts, r)
      PROVE  /\ TimersKept /\ ref' \in Timers \cup {None}
             /\ (inst # None /\ LeaseIt(q, inst)) \/ Vacates
  <2>1. CASE inst # None /\ Same(inst, req[q].model)
    <3>1. CASE LeaseIt(q, inst) /\ timer' = Used(ts) /\ ref' = r
      BY <1>2, <2>1, <3>1
    <3>2. CASE StartIn(q, [server EXCEPT ![inst].proc = "dead"]) /\ ref' = None
      BY <1>2, <1>3, <2>1, <3>2, DeathVacates
    <3>3. QED
      BY <1>5, <2>1, <3>1, <3>2 DEF Acquire
  <2>2. CASE ~(inst # None /\ Same(inst, req[q].model))
    <3>1. Exchange(q, inst) /\ ref' = None
      BY <1>5, <2>2 DEF Acquire
    <3>2. inst = None \/ server[inst].active = 0
      <4>1. inst \in DOMAIN server => server[inst].active \in Nat
        BY RequestsAssumption, FS_CardinalityType DEF IInv, Typed, TypeOK, Server
      <4>2. QED
        BY <1>5, <2>2, <4>1 DEF Blocked, IInv, Typed, TypeOK
    <3>3. QED
      BY <1>4, <3>1, <3>2
  <2>3. QED
    BY <2>1, <2>2
<1>6. CASE Enter(q)
  <2>1. CASE Blocked(inst, req[q].model)
    BY <1>2, <1>6, <2>1 DEF Enter
  <2>2. CASE ~Blocked(inst, req[q].model) /\ inst # None /\ server[inst].active = 0 /\ server[inst].idle
    BY <1>4, <1>6, <2>2 DEF Enter
  <2>3. CASE /\ ~Blocked(inst, req[q].model)
             /\ ~(inst # None /\ server[inst].active = 0 /\ server[inst].idle)
    BY <1>5, <1>6, <2>3 DEF Enter
  <2>4. QED
    BY <1>6, <2>1, <2>2, <2>3 DEF Enter
<1>7. CASE Wake(q)
  BY <1>1, <1>5, <1>7 DEF Wake
<1>8. QED
  BY <1>6, <1>7

\* A server started in a vacated pool is the only one that runs, with the
\* request that started it as its one user.
LEMMA StartStep ==
  ASSUME IInv, NEW q \in Requests, req[q].pc \in {"enter", "wait"}, NEW ss, Vacated(ss),
         StartIn(q, ss), TimersKept, ref' \in Timers \cup {None}
  PROVE  IInv' /\ Spares
<1> DEFINE new == Cardinality(DOMAIN ss) + 1
<1>1. PICK n \in 0 .. MaxStarts - 1 : DOMAIN server = 1 .. n /\ new = n + 1
  <2>1. PICK n \in 0 .. MaxStarts : DOMAIN server = 1 .. n
    BY DEF IInv, Typed, ServersInOrder
  <2>2. DOMAIN ss = 1 .. n
    BY <2>1 DEF Vacated
  <2>3. Cardinality(1 .. n) = n
    <3>1. n \in Nat /\ 1 \in Int /\ n \in Int
      BY StartsAssumption
    <3>2. Cardinality(1 .. n) = IF 1 > n THEN 0 ELSE n - 1 + 1
      BY <3>1, FS_Interval
    <3>3. QED
      BY <3>1, <3>2
  <2>4. new \in 1 .. MaxStarts
    BY DEF StartIn, Ids
  <2>5. QED
    BY <2>1, <2>2, <2>3, <2>4, StartsAssumption
<1>2. PICK p \in {"up", "stopped", "leaked"}, a \in {0, 1} :
        /\ server' = Started(ss, NewServer(req[q].model, p, a))
        /\ \/ p = "up" /\ a = 1 /\ inst' = new /\ req' = [req EXCEPT ![q].pc = "using", ![q].on = new]
           \/ p # "up" /\ a = 0 /\ inst' = None /\ req' = [req EXCEPT ![q] = NoRequest]
  BY DEF StartIn
<1>3. /\ DOMAIN server' = 1 .. n + 1
      /\ server'[n + 1] = NewServer(req[q].model, p, a)
      /\ \A i \in DOMAIN server : server'[i] = ss[i]
  <2>1. DOMAIN ss = DOMAIN server /\ DOMAIN server = 1 .. n /\ new = n + 1
    BY <1>1 DEF Vacated
  <2>2. server' = [i \in 1 .. n + 1 |-> IF i \in 1 .. n THEN ss[i] ELSE NewServer(req[q].model, p, a)]
    <3>1. 1 .. n \cup {n + 1} = 1 .. n + 1
      OBVIOUS
    <3>2. QED
      BY <1>2, <2>1, <3>1 DEF Started
  <2>3. QED
    BY <2>1, <2>2
<1>4. req \in [Requests -> Request] /\ \A x \in Requests \ {q} : req'[x] = req[x]
  BY <1>2 DEF IInv, Typed, TypeOK
<1>5. req' \in [Requests -> Request]
  BY <1>1, <1>2, <1>4, StartsAssumption DEF Request, Ids, NoRequest
<1>6. \A i \in DOMAIN server : Users(i)' = Users(i)
  BY <1>1, <1>2, <1>4 DEF Users, Request, NoRequest
<1>7. Users(n + 1)' = IF a = 1 THEN {q} ELSE {}
  <2>1. \A x \in Requests : req[x].pc = "using" => req[x].on # n + 1
    BY <1>1 DEF IInv, Typed, Holds
  <2>2. QED
    BY <1>1, <1>2, <1>4, <2>1 DEF Users, Request, NoRequest
<1>8. LeasesCounted'
  <2>1. Cardinality(Users(n + 1)') = a
    BY <1>2, <1>7, FS_EmptySet, FS_Singleton
  <2>2. server'[n + 1].active = a
    BY <1>3 DEF NewServer
  <2>3. \A i \in DOMAIN server : server'[i].active = Cardinality(Users(i)')
    BY <1>3, <1>6 DEF IInv, LeasesCounted, Users, Vacated
  <2>4. \A i \in DOMAIN server' : i \in DOMAIN server \/ i = n + 1
    BY <1>1, <1>3
  <2>5. QED
    BY <2>1, <2>2, <2>3, <2>4 DEF LeasesCounted, Users
<1>9. LoadedIsOurs'
  <2>1. \A i \in DOMAIN server : server'[i].proc # "up"
    BY <1>3 DEF Vacated
  <2>2. server'[n + 1].proc = p
    BY <1>3 DEF NewServer
  <2>3. \A i \in DOMAIN server' : i \in DOMAIN server \/ i = n + 1
    BY <1>1, <1>3
  <2>4. p = "up" => inst' = n + 1
    BY <1>1, <1>2
  <2>5. QED
    BY <2>1, <2>2, <2>3, <2>4 DEF LoadedIsOurs
<1>10. /\ DOMAIN server' \subseteq Ids /\ DOMAIN server \subseteq DOMAIN server'
       /\ server' \in [DOMAIN server' -> Server]
  <2>1. req[q].model \in Models
    BY DEF IInv, Typed, Holds
  <2>2. a \in 0 .. Cardinality(Requests)
    <3>1. Cardinality({q}) = 1 /\ Cardinality({}) = 0
      BY FS_EmptySet, FS_Singleton
    <3>2. QED
      BY <1>2, <3>1, UsersFinite
  <2>3. NewServer(req[q].model, p, a) \in Server
    BY <1>2, <2>1, <2>2 DEF NewServer, Server
  <2>4. \A i \in DOMAIN server' : server'[i] \in Server
    BY <1>1, <1>3, <2>3 DEF Vacated
  <2>5. server' = [i \in DOMAIN server' |-> server'[i]]
    BY <1>2 DEF Started
  <2>6. DOMAIN server' \subseteq Ids /\ DOMAIN server \subseteq DOMAIN server'
    BY <1>1, <1>3, StartsAssumption DEF Ids
  <2>7. QED
    BY <2>4, <2>5, <2>6
<1>11. TypeOK'
  BY <1>1, <1>2, <1>3, <1>5, <1>10 DEF TypeOK, TimersKept
<1>12. ServersInOrder'
  <2>1. n + 1 \in 0 .. MaxStarts
    BY <1>1, StartsAssumption
  <2>2. QED
    BY <1>3, <2>1 DEF ServersInOrder
<1>13. Holds'
  <2>1. \A x \in Requests : req'[x].pc \in {"enter", "wait"} => req'[x].model \in Models
    BY <1>2, <1>4 DEF IInv, Typed, Holds, Request, NoRequest
  <2>2. \A x \in Requests : req'[x].pc = "using" => req'[x].on \in DOMAIN server'
    BY <1>1, <1>2, <1>3, <1>4, <1>10 DEF IInv, Typed, Holds, Request, NoRequest
  <2>3. \A t \in Timers : timer'[t].state # "off" => timer'[t].of \in DOMAIN server'
    BY <1>10 DEF IInv, Typed, Holds, TimersKept
  <2>4. QED
    BY <2>1, <2>2, <2>3 DEF Holds
<1>14. Spares
  BY <1>3 DEF Spares, Vacated
<1>15. QED
  BY <1>8, <1>9, <1>11, <1>12, <1>13, <1>14 DEF IInv, Typed

\* A request that leases the server that runs is one more user of it.
LEMMA LeaseStep ==
  ASSUME IInv, NEW q \in Requests, req[q].pc \in {"enter", "wait"}, inst # None,
         LeaseIt(q, inst), TimersKept, ref' \in Timers \cup {None}
  PROVE  IInv' /\ Spares
<1>1. inst \in DOMAIN server /\ inst' = inst /\ server \in [DOMAIN server -> Server]
  BY DEF LeaseIt, IInv, Typed, TypeOK
<1>2. server' = [server EXCEPT ![inst].active = @ + 1, ![inst].idle = FALSE]
  BY DEF LeaseIt
<1>3. /\ req \in [Requests -> Request] /\ inst \in Ids
      /\ req' = [req EXCEPT ![q].pc = "using", ![q].on = inst]
  BY <1>1 DEF LeaseIt, IInv, Typed, TypeOK
<1>4. req' \in [Requests -> Request] /\ \A x \in Requests \ {q} : req'[x] = req[x]
  BY <1>3 DEF Request
<1>5. req'[q].pc = "using" /\ req'[q].on = inst
  BY <1>3 DEF Request
<1>6. DOMAIN server' = DOMAIN server /\ \A i \in DOMAIN server \ {inst} : server'[i] = server[i]
  BY <1>1, <1>2
<1>7. /\ server'[inst].active = server[inst].active + 1
      /\ server'[inst].proc = server[inst].proc
      /\ server'[inst].model = server[inst].model
      /\ server'[inst].idle \in BOOLEAN
  BY <1>1, <1>2 DEF Server
<1>8. \A i \in DOMAIN server' : server'[i].active = Cardinality(Users(i)')
  <2> SUFFICES ASSUME NEW i \in DOMAIN server PROVE server'[i].active = Cardinality(Users(i)')
    BY <1>6
  <2>1. server[i].active = Cardinality(Users(i)) /\ IsFiniteSet(Users(i))
    BY UsersFinite DEF IInv, LeasesCounted, Users
  <2>2. CASE i = inst
    <3>1. Users(i)' = Users(i) \cup {q} /\ q \notin Users(i)
      BY <1>4, <1>5, <2>2 DEF Users
    <3>2. Cardinality(Users(i)') = Cardinality(Users(i)) + 1
      BY <2>1, <3>1, FS_AddElement
    <3>3. QED
      BY <1>7, <2>1, <2>2, <3>2
  <2>3. CASE i # inst
    <3>1. Users(i)' = Users(i)
      BY <1>4, <1>5, <2>3 DEF Users
    <3>2. QED
      BY <1>6, <2>1, <2>3, <3>1
  <2>4. QED
    BY <2>2, <2>3
<1>9. LeasesCounted'
  BY <1>8 DEF LeasesCounted, Users
<1>10. server'[inst].active \in 0 .. Cardinality(Requests)
  <2>1. Users(inst)' \in SUBSET Requests
    BY DEF Users
  <2>2. Cardinality(Users(inst)') \in 0 .. Cardinality(Requests)
    BY <2>1, UsersFinite
  <2>3. QED
    BY <1>1, <1>6, <1>8, <2>2
<1>11. server' \in [DOMAIN server -> Server]
  <2>1. server'[inst] \in Server
    BY <1>1, <1>2, <1>7, <1>10 DEF Server
  <2>2. QED
    BY <1>1, <1>2, <2>1
<1>12. TypeOK' /\ ServersInOrder'
  BY <1>1, <1>4, <1>6, <1>11 DEF IInv, Typed, TypeOK, ServersInOrder, TimersKept
<1>13. Holds'
  BY <1>1, <1>4, <1>5, <1>6 DEF IInv, Typed, Holds, TimersKept
<1>14. LoadedIsOurs' /\ Spares
  BY <1>1, <1>6, <1>7 DEF IInv, LoadedIsOurs, Spares
<1>15. QED
  BY <1>9, <1>12, <1>13, <1>14 DEF IInv, Typed

-----------------------------------------------------------------------------
(***************************************************************************)
(* The other steps.                                                        *)
(***************************************************************************)
\* A request that waits joins the queue; one that arrives uses nothing.
LEMMA QueueStep ==
  ASSUME IInv, NEW q \in Requests, req[q].pc # "using", UNCHANGED <<server, inst>>,
         NEW r \in Request, r.pc # "using", r.pc \in {"enter", "wait"} => r.model \in Models,
         req' = [req EXCEPT ![q] = r], TimersKept, ref' \in Timers \cup {None}
  PROVE  IInv' /\ Spares
<1>1. req' \in [Requests -> Request] /\ req'[q] = r /\ \A p \in Requests \ {q} : req'[p] = req[p]
  BY DEF IInv, Typed, TypeOK
<1>2. \A i : Users(i)' = Users(i)
  BY <1>1, UsersFrame DEF IInv
<1>3. LeasesCounted'
  BY <1>2, CountsFrame DEF IInv
<1>4. TypeOK' /\ ServersInOrder'
  BY <1>1 DEF IInv, Typed, TypeOK, ServersInOrder, TimersKept
<1>5. Holds'
  BY <1>1 DEF IInv, Typed, Holds, TimersKept
<1>6. LoadedIsOurs' /\ Spares
  BY DEF IInv, LoadedIsOurs, Spares
<1>7. QED
  BY <1>3, <1>4, <1>5, <1>6 DEF IInv, Typed

\* A step of the timers, the process or an operator: requests and counts
\* stay, and what it stops has no user.
LEMMA PoolStep ==
  ASSUME IInv, req' = req, DOMAIN server' = DOMAIN server, server' \in [DOMAIN server -> Server],
         \A i \in DOMAIN server : server'[i].active = server[i].active,
         timer' \in [Timers -> Timer], ref' \in Timers \cup {None},
         \A t \in Timers : timer'[t].state # "off" => timer'[t].of \in DOMAIN server,
         inst' \in DOMAIN server \cup {None}, LoadedIsOurs', Spares
  PROVE  IInv' /\ Spares
<1>1. \A i \in DOMAIN server : Users(i)' = Users(i)
  BY DEF Users
<1>2. LeasesCounted'
  BY <1>1, CountsFrame DEF IInv
<1>3. TypeOK' /\ ServersInOrder' /\ Holds'
  BY DEF IInv, Typed, TypeOK, ServersInOrder, Holds
<1>4. QED
  BY <1>2, <1>3 DEF IInv, Typed

\* Schedule sets a timer for an instance that exists.
LEMMA ScheduleTyped ==
  ASSUME IInv, NEW i \in DOMAIN server, Schedule(i)
  PROVE  /\ timer' \in [Timers -> Timer] /\ ref' \in Timers
         /\ \A t \in Timers : timer'[t].state # "off" => timer'[t].of \in DOMAIN server
<1> DEFINE free == {t \in Timers : Canceled[t].state = "off"}
<1>1. PICK t \in Timers :
        timer' = [Used(Canceled) EXCEPT ![t] = [state |-> "armed", fresh |-> TRUE, of |-> i]] /\ ref' = t
  <2>1. (CHOOSE x \in free : TRUE) \in free
    BY DEF Schedule
  <2>2. QED
    BY <2>1 DEF Schedule
<1>2. Canceled \in [Timers -> Timer]
  BY CanceledTyped DEF IInv
<1>3. /\ Used(Canceled) \in [Timers -> Timer]
      /\ \A x \in Timers : Used(Canceled)[x].state # "off" => Used(Canceled)[x].of \in DOMAIN server
  BY <1>2, CanceledTyped, UsedTyped DEF IInv, Typed, Holds, Off
<1>4. [state |-> "armed", fresh |-> TRUE, of |-> i] \in Timer
  BY DEF Timer, IInv, Typed, TypeOK
<1>5. QED
  BY <1>1, <1>3, <1>4

\* A request that ends is taken off the count of the instance it used.
LEMMA FinishStep ==
  ASSUME IInv, NEW q \in Requests, Finish(q)
  PROVE  IInv' /\ Spares
<1> DEFINE i == req[q].on
<1>1. /\ i \in DOMAIN server /\ server \in [DOMAIN server -> Server]
      /\ req[q].pc = "using" /\ inst' = inst
  BY DEF Finish, IInv, Typed, TypeOK, Holds
<1>2. server' = [server EXCEPT ![i].active = @ - 1, ![i].idle = FALSE]
  BY DEF Finish, Decremented
<1>3. /\ req' \in [Requests -> Request] /\ req'[q] = NoRequest
      /\ \A x \in Requests \ {q} : req'[x] = req[x]
  BY DEF Finish, NoRequest, IInv, Typed, TypeOK, Request
<1>4. /\ DOMAIN server' = DOMAIN server
      /\ \A j \in DOMAIN server \ {i} : server'[j] = server[j]
      /\ server'[i].active = server[i].active - 1
      /\ server'[i].proc = server[i].proc
  BY <1>1, <1>2 DEF Server
<1>5. \A j \in DOMAIN server : server'[j].active = Cardinality({x \in Requests : req'[x].pc = "using" /\ req'[x].on = j})
  <2> SUFFICES ASSUME NEW j \in DOMAIN server
               PROVE  server'[j].active = Cardinality({x \in Requests : req'[x].pc = "using" /\ req'[x].on = j})
    OBVIOUS
  <2> DEFINE Left == {x \in Requests : req'[x].pc = "using" /\ req'[x].on = j}
  <2>1. server[j].active = Cardinality(Users(j)) /\ IsFiniteSet(Users(j))
    BY UsersFinite DEF IInv, LeasesCounted, Users
  <2>2. CASE j = i
    <3>1. Left = Users(j) \ {q} /\ q \in Users(j)
      BY <1>1, <1>3, <2>2 DEF Users, NoRequest
    <3>2. Cardinality(Left) = Cardinality(Users(j)) - 1
      BY <2>1, <3>1, FS_RemoveElement
    <3>3. QED
      BY <1>4, <2>1, <2>2, <3>2
  <2>3. CASE j # i
    <3>1. Left = Users(j)
      BY <1>1, <1>3, <2>3 DEF Users, NoRequest
    <3>2. QED
      BY <1>4, <2>1, <2>3, <3>1
  <2>4. QED
    BY <2>2, <2>3
<1>6. LeasesCounted'
  BY <1>4, <1>5 DEF LeasesCounted
<1>7. server' \in [DOMAIN server -> Server]
  <2>1. server'[i].active \in 0 .. Cardinality(Requests)
    BY <1>1, <1>5, UsersFinite
  <2>2. server'[i] \in Server
    BY <1>1, <1>2, <1>4, <2>1 DEF Server
  <2>3. QED
    BY <1>1, <1>2, <2>2
<1>8. /\ timer' \in [Timers -> Timer] /\ ref' \in Timers \cup {None}
      /\ \A t \in Timers : timer'[t].state # "off" => timer'[t].of \in DOMAIN server
  <2>1. CASE Schedule(i)
    BY <1>1, <2>1, ScheduleTyped
  <2>2. CASE ref' = ref /\ (timer' = Used(timer) \/ timer' = timer)
    BY <2>2, UsedTyped DEF IInv, Typed, TypeOK, Holds
  <2>3. QED
    BY <2>1, <2>2 DEF Finish
<1>9. TypeOK' /\ ServersInOrder'
  BY <1>1, <1>3, <1>4, <1>7, <1>8 DEF IInv, Typed, TypeOK, ServersInOrder
<1>10. Holds'
  BY <1>3, <1>4, <1>8 DEF IInv, Typed, Holds, NoRequest
<1>11. LoadedIsOurs' /\ Spares
  BY <1>1, <1>4 DEF IInv, LoadedIsOurs, Spares
<1>12. QED
  BY <1>6, <1>9, <1>10, <1>11 DEF IInv, Typed

\* The pool stops its instance only when nobody uses it, and has none then.
LEMMA StopStep ==
  ASSUME IInv, inst # None, server[inst].active = 0, server' = Terminated(server, inst),
         inst' = None, req' = req, timer' \in [Timers -> Timer], ref' \in Timers \cup {None},
         \A t \in Timers : timer'[t].state # "off" => timer'[t].of \in DOMAIN server
  PROVE  IInv' /\ Spares
<1>1. Vacated(server')
  BY TerminatedVacates
<1>2. /\ DOMAIN server' = DOMAIN server /\ server' \in [DOMAIN server -> Server]
      /\ \A i \in DOMAIN server : server'[i].active = server[i].active /\ server'[i].proc # "up"
  BY <1>1 DEF Vacated
<1>3. LoadedIsOurs' /\ Spares
  BY <1>1, <1>2 DEF LoadedIsOurs, Spares, Vacated
<1>4. QED
  BY <1>2, <1>3, PoolStep

LEMMA TimerStep ==
  ASSUME IInv, NEW t \in Timers, Fire(t) \/ Expire(t)
  PROVE  IInv' /\ Spares
<1>1. /\ timer \in [Timers -> Timer] /\ ref \in Timers \cup {None}
      /\ inst \in DOMAIN server \cup {None} /\ DOMAIN server \subseteq Ids
      /\ server \in [DOMAIN server -> Server]
      /\ \A x \in Timers : timer[x].state # "off" => timer[x].of \in DOMAIN server
  BY DEF IInv, Typed, TypeOK, Holds
<1>2. LoadedIsOurs /\ (server' = server => Spares)
  BY DEF IInv, LoadedIsOurs, Spares
<1>3. Off \in Timer
  BY StartsAssumption DEF Off, Timer, Ids
<1>4. CASE Fire(t)
  <2>1. UNCHANGED <<server, inst, ref, req>> /\ timer' = [timer EXCEPT ![t].state = "due"]
    BY <1>4 DEF Fire
  <2>2. timer' \in [Timers -> Timer] /\ \A x \in Timers : timer'[x].of = timer[x].of
    BY <1>1, <2>1 DEF Timer
  <2>3. \A x \in Timers : timer'[x].state # "off" => timer[x].state # "off"
    BY <1>1, <1>4, <2>1 DEF Fire, Timer
  <2>4. LoadedIsOurs'
    BY <1>2, <2>1 DEF LoadedIsOurs
  <2>5. QED
    BY <1>1, <1>2, <2>1, <2>2, <2>3, <2>4, PoolStep
<1>5. CASE Expire(t)
  <2>1. req' = req
    BY <1>5 DEF Expire
  <2>2. ASSUME timer' = [timer EXCEPT ![t] = Off]
        PROVE  /\ timer' \in [Timers -> Timer]
               /\ \A x \in Timers : timer'[x].state # "off" => timer'[x].of \in DOMAIN server
    BY <1>1, <1>3, <2>2 DEF Off
  <2>3. CASE NothingToExpire(server[timer[t].of].model)
    <3>1. timer' = [timer EXCEPT ![t] = Off] /\ ref' = None /\ UNCHANGED <<server, inst>>
      BY <1>5, <2>3 DEF Expire
    <3>2. LoadedIsOurs'
      BY <1>2, <3>1 DEF LoadedIsOurs
    <3>3. QED
      BY <1>1, <1>2, <2>1, <2>2, <3>1, <3>2, PoolStep
  <2>4. CASE ~NothingToExpire(server[timer[t].of].model) /\ server[inst].idle
    <3>1. /\ timer' = [timer EXCEPT ![t] = Off] /\ ref' = None
          /\ server' = Terminated(server, inst) /\ inst' = None
      BY <1>5, <2>4 DEF Expire
    <3>2. inst # None /\ server[inst].active = 0
      <4>1. inst # None /\ ~(server[inst].active > 0)
        BY <2>4 DEF NothingToExpire
      <4>2. server[inst].active \in Nat
        BY <1>1, <4>1, RequestsAssumption, FS_CardinalityType DEF Server
      <4>3. QED
        BY <4>1, <4>2
    <3>3. QED
      BY <2>1, <2>2, <3>1, <3>2, StopStep
  <2>5. CASE ~NothingToExpire(server[timer[t].of].model) /\ ~server[inst].idle
    <3>1. /\ timer' = [timer EXCEPT ![t] = [state |-> "armed", fresh |-> TRUE, of |-> inst]]
          /\ ref' = t /\ UNCHANGED <<server, inst>>
      BY <1>5, <2>5 DEF Expire
    <3>2. inst \in DOMAIN server
      BY <1>1, <2>5 DEF NothingToExpire
    <3>3. [state |-> "armed", fresh |-> TRUE, of |-> inst] \in Timer
      BY <1>1, <3>2 DEF Timer
    <3>4. /\ timer' \in [Timers -> Timer]
          /\ \A x \in Timers : timer'[x].state # "off" => timer'[x].of \in DOMAIN server
      BY <1>1, <3>1, <3>2, <3>3
    <3>5. LoadedIsOurs'
      BY <1>2, <3>1 DEF LoadedIsOurs
    <3>6. QED
      BY <1>1, <1>2, <2>1, <3>1, <3>4, <3>5, PoolStep
  <2>6. QED
    BY <2>3, <2>4, <2>5
<1>6. QED
  BY <1>4, <1>5

LEMMA UnloadStep ==
  ASSUME IInv, NEW m \in Models, Unload(m)
  PROVE  IInv' /\ Spares
<1>1. /\ inst # None /\ server[inst].active = 0 /\ server' = Terminated(server, inst)
      /\ inst' = None /\ req' = req /\ timer' = Canceled /\ ref' = None
  BY DEF Unload
<1>2. timer' \in [Timers -> Timer] /\ ref' \in Timers \cup {None}
  BY <1>1, CanceledTyped DEF IInv
<1>3. \A t \in Timers : timer'[t].state # "off" => timer'[t].of \in DOMAIN server
  BY <1>1, CanceledTyped DEF IInv, Typed, Holds, Off
<1>4. QED
  BY <1>1, <1>2, <1>3, StopStep

LEMMA ProcessStep ==
  ASSUME IInv, Age \/ Exit
  PROVE  IInv' /\ Spares
<1>1. /\ inst \in DOMAIN server /\ server \in [DOMAIN server -> Server]
      /\ timer \in [Timers -> Timer] /\ ref \in Timers \cup {None}
      /\ \A t \in Timers : timer[t].state # "off" => timer[t].of \in DOMAIN server
  BY DEF Age, Exit, IInv, Typed, TypeOK, Holds
<1>2. UNCHANGED <<inst, timer, ref, req>>
  BY DEF Age, Exit
<1>3. /\ DOMAIN server' = DOMAIN server /\ server' \in [DOMAIN server -> Server]
      /\ \A i \in DOMAIN server :
           /\ server'[i].active = server[i].active
           /\ server'[i].proc = server[i].proc \/ server'[i].proc = "dead"
  <2>1. \/ server' = [server EXCEPT ![inst].idle = TRUE]
        \/ server' = [server EXCEPT ![inst].proc = "dead"]
    BY DEF Age, Exit
  <2>2. DOMAIN server' = DOMAIN server /\ \A i \in DOMAIN server \ {inst} : server'[i] = server[i]
    BY <1>1, <2>1
  <2>3. /\ server'[inst] \in Server
        /\ server'[inst].active = server[inst].active
        /\ server'[inst].proc = server[inst].proc \/ server'[inst].proc = "dead"
    <3>1. PICK s : s = server[inst]
      OBVIOUS
    <3>2. s \in Server
      BY <1>1, <3>1
    <3>3. CASE server' = [server EXCEPT ![inst].idle = TRUE]
      <4>1. server'[inst] = [s EXCEPT !.idle = TRUE]
        BY <1>1, <3>1, <3>3
      <4>2. QED
        BY <3>1, <3>2, <4>1 DEF Server
    <3>4. CASE server' = [server EXCEPT ![inst].proc = "dead"]
      <4>1. server'[inst] = [s EXCEPT !.proc = "dead"]
        BY <1>1, <3>1, <3>4
      <4>2. QED
        BY <3>1, <3>2, <4>1 DEF Server
    <3>5. QED
      BY <2>1, <3>3, <3>4
  <2>4. server' \in [DOMAIN server -> Server]
    BY <1>1, <2>1, <2>2, <2>3
  <2>5. QED
    BY <2>2, <2>3, <2>4
<1>4. LoadedIsOurs' /\ Spares
  BY <1>2, <1>3 DEF IInv, LoadedIsOurs, Spares
<1>5. QED
  BY <1>1, <1>2, <1>3, <1>4, PoolStep

LEMMA PoolInvStep == IInv /\ [Next]_vars => IInv' /\ Spares
<1> SUFFICES ASSUME IInv, [Next]_vars PROVE IInv' /\ Spares
  OBVIOUS
<1>1. timer' = timer /\ ref' = ref => TimersKept /\ ref' \in Timers \cup {None}
  BY DEF TimersKept, IInv, Typed, TypeOK
<1>2. ASSUME NEW q \in Requests, NEW m \in Models, Arrive(q, m) PROVE IInv' /\ Spares
  <2> DEFINE r == [pc |-> "enter", model |-> m, on |-> None]
  <2>1. r \in Request /\ r.pc = "enter" /\ r.model \in Models
    BY DEF Request
  <2>2. /\ req[q].pc # "using" /\ req' = [req EXCEPT ![q] = r]
        /\ UNCHANGED <<server, inst, timer, ref>>
    BY <1>2 DEF Arrive
  <2> HIDE DEF r
  <2>3. QED
    BY <1>1, <2>1, <2>2, QueueStep
<1>3. ASSUME NEW q \in Requests, Enter(q) \/ Wake(q) PROVE IInv' /\ Spares
  <2>1. /\ req[q].pc \in {"enter", "wait"}
        /\ TimersKept /\ ref' \in Timers \cup {None}
        /\ \/ UNCHANGED <<server, inst>> /\ req' = [req EXCEPT ![q].pc = "wait"]
           \/ inst # None /\ LeaseIt(q, inst)
           \/ \E ss : Vacated(ss) /\ StartIn(q, ss)
    BY <1>3, LeaseSteps
  <2>2. CASE UNCHANGED <<server, inst>> /\ req' = [req EXCEPT ![q].pc = "wait"]
    <3> DEFINE r == [req[q] EXCEPT !.pc = "wait"]
    <3>1. r \in Request /\ r.pc = "wait" /\ r.model = req[q].model /\ req[q].model \in Models
      BY <2>1 DEF IInv, Typed, TypeOK, Holds, Request
    <3>2. req' = [req EXCEPT ![q] = r]
      BY <2>2
    <3> HIDE DEF r
    <3>3. QED
      BY <2>1, <2>2, <3>1, <3>2, QueueStep
  <2>3. QED
    BY <2>1, <2>2, LeaseStep, StartStep
<1>4. CASE UNCHANGED vars
  <2>1. \A i : Users(i)' = Users(i)
    BY <1>4 DEF Users, vars
  <2>2. LeasesCounted'
    BY <1>4, <2>1, CountsFrame DEF vars, IInv
  <2>3. LoadedIsOurs' /\ Spares /\ Typed'
    BY <1>4 DEF vars, IInv, LoadedIsOurs, Spares, Typed, TypeOK, ServersInOrder, Holds
  <2>4. QED
    BY <2>2, <2>3 DEF IInv
<1>5. QED
  BY <1>2, <1>3, <1>4, FinishStep, TimerStep, UnloadStep, ProcessStep DEF Next

LEMMA PoolInvInit == Init => IInv
<1> SUFFICES ASSUME Init PROVE IInv
  OBVIOUS
<1>1. DOMAIN server = {}
  BY DEF Init
<1>2. TypeOK
  BY <1>1, StartsAssumption DEF Init, TypeOK, Off, Timer, Ids, NoRequest, Request
<1>3. ServersInOrder
  <2>1. DOMAIN server = 1 .. 0 /\ 0 \in 0 .. MaxStarts
    BY <1>1, StartsAssumption
  <2>2. QED
    BY <2>1 DEF ServersInOrder
<1>4. Holds
  BY DEF Init, Holds, NoRequest, Off
<1>5. LeasesCounted /\ LoadedIsOurs
  BY <1>1 DEF LeasesCounted, LoadedIsOurs
<1>6. QED
  BY <1>2, <1>3, <1>4, <1>5 DEF IInv, Typed

-----------------------------------------------------------------------------
(***************************************************************************)
(* The theorems.                                                           *)
(***************************************************************************)
\* The inductive invariant holds of every reachable state of the pool.
THEOREM PoolInvariant == Spec => []IInv
<1>1. IInv /\ [Next]_vars => IInv'
  BY PoolInvStep
<1>2. QED
  BY PoolInvInit, <1>1, PTL DEF Spec

\* The pool's fields, its timers and its requests keep their types; no count
\* of a server goes below zero or above the requests there are.
THEOREM PoolTypeCorrect == Spec => []TypeOK
<1>1. IInv => TypeOK
  BY DEF IInv, Typed
<1>2. QED
  BY PoolInvariant, <1>1, PTL

\* active_requests of every server is the number of requests that use it,
\* also of one that was replaced while they used it.
THEOREM LeasesAreCounted == Spec => []LeasesCounted
<1>1. IInv => LeasesCounted
  BY DEF IInv
<1>2. QED
  BY PoolInvariant, <1>1, PTL

\* At most one server runs, and it is the pool's: however servers die, are
\* exchanged, unloaded and expired, none is forgotten while it runs.
THEOREM OneServerLoaded == Spec => []LoadedIsOurs
<1>1. IInv => LoadedIsOurs
  BY DEF IInv
<1>2. QED
  BY PoolInvariant, <1>1, PTL

\* No unload, no late timer and no request for another model terminates a
\* process that a request uses.
THEOREM BusyServersSpared == Spec => NeverStopBusy
<1>1. IInv /\ [Next]_vars => [Spares]_vars
  BY PoolInvStep
<1>2. QED
  BY PoolInvariant, <1>1, PTL DEF Spec, NeverStopBusy, Spares

=============================================================================
