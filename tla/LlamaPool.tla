----------------------------- MODULE LlamaPool ------------------------------
(***************************************************************************)
(* LlamaServerPool: one llama-server process, kept loaded between the      *)
(* generation requests of one model, exchanged when another model is asked *)
(* for and nobody uses it, and unloaded by a timer when it was idle.  Every *)
(* section under the condition's lock is one action; a timer's callback    *)
(* may be waiting for that lock while others have it.  The row the pool    *)
(* writes for operators (runtime_model_instances) is left out, its failure *)
(* while a server starts is not.                                           *)
(***************************************************************************)
EXTENDS Naturals, FiniteSets

CONSTANTS
  Requests,   \* requests being served at once
  Models,     \* revision, path and digest of a GGUF file
  Timers,     \* bound: timers that are armed or whose callback waits
  MaxStarts,  \* bound: processes started
  None

ASSUME StartsAssumption == MaxStarts \in Nat \ {0}
ASSUME RequestsAssumption == IsFiniteSet(Requests)
ASSUME NoneFresh == None \notin 1 .. MaxStarts

VARIABLES
  server,  \* the processes started, in order, with their _Instance
  inst,    \* self._instance
  timer,   \* threading.Timer objects
  ref,     \* self._idle_timer
  req      \* the requests

vars == <<server, inst, timer, ref, req>>

Ids    == 1 .. MaxStarts
Server == [model  : Models,
           proc   : {"up", "dead", "stopped", "leaked"},
           active : 0 .. Cardinality(Requests),
           idle   : BOOLEAN]  \* idle seconds have passed since last_used_at
Timer  == [state : {"off", "armed", "due"},
           fresh : BOOLEAN,   \* scheduled since the last use of
           of    : Ids]       \* this instance
Request == [pc : {"idle", "enter", "wait", "using"}, model : Models \cup {None}, on : Ids \cup {None}]

NoRequest == [pc |-> "idle", model |-> None, on |-> None]

TypeOK ==
  /\ DOMAIN server \subseteq Ids /\ server \in [DOMAIN server -> Server]
  /\ inst \in DOMAIN server \cup {None}
  /\ timer \in [Timers -> Timer]
  /\ ref \in Timers \cup {None}
  /\ req \in [Requests -> Request]

Off == [state |-> "off", fresh |-> FALSE, of |-> 1]

Init ==
  /\ server = [i \in {} |-> {}]
  /\ inst = None
  /\ timer = [t \in Timers |-> Off]
  /\ ref = None
  /\ req = [q \in Requests |-> NoRequest]

-----------------------------------------------------------------------------
\* _cancel_idle_locked: a callback that started is not called back.
Canceled ==
  [t \in Timers |-> IF t = ref /\ timer[t].state = "armed"
                    THEN Off ELSE timer[t]]

\* The timers after an instance was used.
Used(ts) == [t \in Timers |-> [ts[t] EXCEPT !.fresh = FALSE]]

\* _same
Same(i, m) == server[i].model = m /\ server[i].proc = "up"

\* _terminate
Terminated(ss, i) ==
  IF i # None /\ ss[i].proc = "up" THEN [ss EXCEPT ![i].proc = "stopped", ![i].idle = FALSE] ELSE ss

\* Seeded fault: the first lease of a server is counted by _start and by lease.
NewServerTwice(m, proc, active) ==
  [model |-> m, proc |-> proc, active |-> 2 * active, idle |-> FALSE]

NewServer(m, proc, active) == [model |-> m, proc |-> proc, active |-> active, idle |-> FALSE]

Started(ss, s) ==
  [i \in DOMAIN ss \cup {Cardinality(DOMAIN ss) + 1} |->
     IF i \in DOMAIN ss THEN ss[i] ELSE s]

LeaseIt(q, i) ==
  /\ inst' = i
  /\ server' = [server EXCEPT ![i].active = @ + 1, ![i].idle = FALSE]
  /\ req' = [req EXCEPT ![q].pc = "using", ![q].on = i]

\* _start in the place of the servers ss: ready; exited, timed out or with
\* its "ready" row refused, and terminated; or with its "starting" row
\* refused, and forgotten.
StartIn(q, ss) ==
  LET m == req[q].model  new == Cardinality(DOMAIN ss) + 1 IN
  /\ new \in Ids
  /\ \/ /\ server' = Started(ss, NewServer(m, "up", 1))
        /\ inst' = new
        /\ req' = [req EXCEPT ![q].pc = "using", ![q].on = new]
     \/ \E p \in {"stopped", "leaked"} :
          /\ server' = Started(ss, NewServer(m, p, 0))
          /\ inst' = None
          /\ req' = [req EXCEPT ![q] = NoRequest]
  /\ timer' = Canceled

\* Seeded fault: the server that is exchanged is forgotten, not stopped.
ExchangeOnly(q, i) == StartIn(q, server)

Exchange(q, i) == StartIn(q, Terminated(server, i))

\* The rest of lease once the loop ended with instance i, the timers ts and
\* _idle_timer r: it is leased, it dies between the two looks at it and is
\* replaced, or it is exchanged.
Acquire(q, i, ts, r) ==
  IF i # None /\ Same(i, req[q].model)
  THEN \/ LeaseIt(q, i) /\ timer' = Used(ts) /\ ref' = r
       \/ StartIn(q, [server EXCEPT ![i].proc = "dead"]) /\ ref' = None
  ELSE Exchange(q, i) /\ ref' = None

Blocked(i, m) == i # None /\ server[i].active > 0 /\ ~Same(i, m)

Arrive(q, m) ==
  /\ req[q].pc = "idle"
  /\ req' = [req EXCEPT ![q] = [pc |-> "enter", model |-> m, on |-> None]]
  /\ UNCHANGED <<server, inst, timer, ref>>

Enter(q) ==
  /\ req[q].pc = "enter"
  /\ IF Blocked(inst, req[q].model)
     THEN /\ req' = [req EXCEPT ![q].pc = "wait"]
          /\ timer' = Canceled
          /\ ref' = None
          /\ UNCHANGED <<server, inst>>
     ELSE IF inst # None /\ server[inst].active = 0 /\ server[inst].idle
     THEN Exchange(q, inst) /\ ref' = None
     ELSE Acquire(q, inst, Canceled, None)

\* Notified, or five seconds later; a timer that was armed meanwhile goes on.
Wake(q) ==
  /\ req[q].pc = "wait"
  /\ ~Blocked(inst, req[q].model)
  /\ Acquire(q, inst, timer, ref)

-----------------------------------------------------------------------------
\* Seeded fault: the timer is canceled and never started again.
CancelSchedule(i) ==
  /\ timer' = Used(Canceled)
  /\ ref' = None

\* _schedule_idle_locked
Schedule(i) ==
  LET free == {t \in Timers : Canceled[t].state = "off"}
      t    == CHOOSE x \in free : TRUE
  IN
  /\ free # {}
  /\ timer' = [Used(Canceled) EXCEPT ![t] = [state |-> "armed", fresh |-> TRUE, of |-> i]]
  /\ ref' = t

\* Seeded fault: the count of the pool's instance is taken down.
DecrementCurrent(q) ==
  IF inst = None THEN server
  ELSE [server EXCEPT ![inst].active = IF @ = 0 THEN 0 ELSE @ - 1, ![inst].idle = FALSE]

Decremented(q) ==
  [server EXCEPT ![req[q].on].active = @ - 1, ![req[q].on].idle = FALSE]

\* generate returns or raises: the lease ends.
Finish(q) ==
  LET i == req[q].on IN
  /\ req[q].pc = "using"
  /\ server' = Decremented(q)
  /\ IF inst = i /\ server'[i].active = 0 THEN Schedule(i)
     ELSE timer' = (IF inst = i THEN Used(timer) ELSE timer) /\ UNCHANGED ref
  /\ req' = [req EXCEPT ![q] = NoRequest]
  /\ UNCHANGED inst

\* The deadline of a timer: no earlier than the instance it was set for has
\* been idle, unless that was used again.
Fire(t) ==
  /\ timer[t].state = "armed"
  /\ timer[t].fresh /\ inst = timer[t].of => server[inst].idle
  /\ timer' = [timer EXCEPT ![t].state = "due"]
  /\ UNCHANGED <<server, inst, ref, req>>

\* Seeded fault: the callback does not look whether somebody uses the server.
IgnoresUse(m) == inst = None \/ server[inst].model # m

NothingToExpire(m) ==
  \/ inst = None
  \/ server[inst].model # m
  \/ server[inst].active > 0

\* _expire_scheduled: the callback gets the lock.
Expire(t) ==
  /\ timer[t].state = "due"
  /\ IF NothingToExpire(server[timer[t].of].model) \/ server[inst].idle
     THEN /\ timer' = [timer EXCEPT ![t] = Off]
          /\ ref' = None
          /\ IF NothingToExpire(server[timer[t].of].model) THEN UNCHANGED <<server, inst>>
             ELSE server' = Terminated(server, inst) /\ inst' = None
     ELSE /\ timer' = [timer EXCEPT ![t] = [state |-> "armed", fresh |-> TRUE, of |-> inst]]
          /\ ref' = t
          /\ UNCHANGED <<server, inst>>
  /\ UNCHANGED req

\* POST .../llama/unload
Unload(m) ==
  /\ inst # None
  /\ server[inst].model = m
  /\ server[inst].active = 0
  /\ server' = Terminated(server, inst)
  /\ inst' = None
  /\ timer' = Canceled
  /\ ref' = None
  /\ UNCHANGED req

Age ==
  /\ inst # None
  /\ ~server[inst].idle
  /\ server' = [server EXCEPT ![inst].idle = TRUE]
  /\ UNCHANGED <<inst, timer, ref, req>>

\* The process exits on its own.
Exit ==
  /\ inst # None
  /\ server[inst].proc = "up"
  /\ server' = [server EXCEPT ![inst].proc = "dead"]
  /\ UNCHANGED <<inst, timer, ref, req>>

Next ==
  \/ \E q \in Requests : (\E m \in Models : Arrive(q, m)) \/ Enter(q) \/ Wake(q) \/ Finish(q)
  \/ \E t \in Timers : Fire(t) \/ Expire(t)
  \/ \E m \in Models : Unload(m)
  \/ Age
  \/ Exit

\* Time passes, timers fire and their callbacks get the lock.
Fairness == WF_vars(Age) /\ \A t \in Timers : WF_vars(Fire(t)) /\ WF_vars(Expire(t))

Spec == Init /\ [][Next]_vars /\ Fairness

-----------------------------------------------------------------------------
(***************************************************************************)
(* Properties.                                                             *)
(***************************************************************************)
\* The count that keeps a server loaded is the number of requests that use
\* it, also after the server they use was replaced.
LeasesCounted ==
  \A i \in DOMAIN server :
    server[i].active = Cardinality({q \in Requests : req[q].pc = "using" /\ req[q].on = i})

\* A server that runs is the pool's: none that was exchanged or expired keeps
\* its memory.  (A process whose "starting" row is refused is leaked.)
LoadedIsOurs == \A i \in DOMAIN server : server[i].proc = "up" => i = inst

\* A timer that fired late, an unload or a request for another model never
\* stops a server somebody uses.
NeverStopBusy ==
  [][\A i \in DOMAIN server :
       server[i].proc = "up" /\ server[i].active > 0 => server'[i].proc # "stopped"]_vars

\* However timers are canceled, lost and fire late, a server nobody uses is
\* unloaded unless somebody comes to use it.
IdleUnloads ==
  \A i \in Ids :
    (inst = i /\ server[i].active = 0) ~> (inst # i \/ server[i].active > 0)
=============================================================================
