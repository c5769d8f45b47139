----------------------------- MODULE PaymentsProofs -----------------------------
(***************************************************************************)
(* TLAPS proofs about Payments, for any orders, payments, buyers, keys,    *)
(* places and requests.                                                    *)
(*                                                                         *)
(* The argument: a request and an order only ever name a payment that was  *)
(* made for that order (CallsKnown, RowsKnown), and the transaction that   *)
(* applies a status read it from that payment (ApplyingKnown), so what is  *)
(* granted was paid.  What follows about the end of an order rests on the  *)
(* order's claim: a web checkout's payment may be stored over an agent's,  *)
(* but one checkout at a time creates a payment for an order, and what it  *)
(* holds is no other's (ClaimHeld, HeldFresh).                             *)
(***************************************************************************)
EXTENDS Payments, FiniteSetTheorems, WellFoundedInduction, TLAPS

(***************************************************************************)
(* What names what.                                                        *)
(***************************************************************************)
AgentSteps == {"look", "agent create", "agent store", "ready", "failed"}

\* The order, the key and the payment a request holds.
CallKnown(c) ==
  /\ call[c].pc # "idle" => call[c].order \in DOMAIN order
  /\ call[c].pc \in {"store", "agent store"} =>
       /\ call[c].pid \in DOMAIN invoice /\ invoice[call[c].pid].order = call[c].order
       /\ call[c].status \in invoice[call[c].pid].said
  /\ call[c].pc \in AgentSteps =>
       call[c].key \in DOMAIN commerce /\ commerce[call[c].key].order = call[c].order

CallsKnown == \A c \in Calls : CallKnown(c)

\* An order stores a payment made for it; one without was not paid.
RowKnown(o) ==
  IF order[o].pid = None THEN order[o].status \in {"open", "lapsed"}
  ELSE order[o].pid \in DOMAIN invoice /\ invoice[order[o].pid].order = o

RowsKnown == \A o \in DOMAIN order : RowKnown(o)

CommerceKnown == \A k \in DOMAIN commerce : commerce[k].order \in DOMAIN order

PlacesKnown ==
  \A n \in 1 .. Places : IF place[n].status = "open" THEN place[n].order = None
                         ELSE place[n].order \in DOMAIN order

\* A status that is applied was reported for the payment the order stores.
ApplyingKnown ==
  \A o \in DOMAIN applying :
    order[o].pid # None /\ applying[o].status \in invoice[order[o].pid].said

\* Terms end somewhere, so the next one has a start.
TermsBounded ==
  \E b \in Nat : /\ \A i \in DOMAIN sub : sub[i].end <= b
                 /\ \A o \in DOMAIN campaign : campaign[o].start <= b
                 /\ \A o \in DOMAIN applying : applying[o].start <= b

\* Every grant names a payment.
GrantsKnown ==
  /\ DOMAIN sub \subseteq DOMAIN invoice
  /\ \A k \in DOMAIN commerce : commerce[k].receipt # None => commerce[k].receipt \in DOMAIN invoice

IInv ==
  /\ TypeOK /\ CallsKnown /\ RowsKnown /\ CommerceKnown /\ PlacesKnown /\ ApplyingKnown
  /\ TermsBounded /\ GrantsKnown /\ GrantsArePaid

-----------------------------------------------------------------------------
(***************************************************************************)
(* Numbers, and the triggers.                                              *)
(***************************************************************************)
LEMMA LeastNumber ==
  ASSUME NEW T, T \subseteq Nat, T # {}
  PROVE  \E m \in T : \A k \in T : m <= k
<1>1. PICK m \in T : \A y \in T : ~ (<<y, m>> \in OpToRel(<, Nat))
  BY NatLessThanWellFounded, WFMin
<1>2. \A y \in T : ~ (y < m)
  BY <1>1 DEF OpToRel
<1>3. QED
  BY <1>2

LEMMA MaxOfBounded ==
  ASSUME NEW S, S \subseteq Nat, S # {}, NEW b \in Nat, \A y \in S : y <= b
  PROVE  Max(S) \in S /\ Max(S) \in 0 .. b
<1> DEFINE T == {m \in Nat : \A y \in S : y <= m}
<1>1. PICK m \in T : \A k \in T : m <= k
  <2>1. T \subseteq Nat /\ b \in T
    OBVIOUS
  <2> HIDE DEF T
  <2>2. QED
    BY <2>1, LeastNumber
<1>2. m \in S
  <2>1. SUFFICES ASSUME m \notin S PROVE FALSE
    OBVIOUS
  <2>2. \A y \in S : y < m
    BY <2>1
  <2>3. PICK y \in S : y \in Nat /\ m \in Nat /\ y < m
    BY <2>2
  <2>4. m - 1 \in T
    <3>1. m - 1 \in Nat /\ \A z \in S : z <= m - 1
      BY <2>2, <2>3
    <3>2. QED
      BY <3>1
  <2>5. QED
    BY <1>1, <2>4
<1>3. \E x \in S : \A y \in S : x >= y
  BY <1>2
<1>4. Max(S) \in S
  BY <1>3 DEF Max
<1>5. \A x \in S : x \in 0 .. b
  OBVIOUS
<1>6. QED
  BY <1>4, <1>5

LEMMA MinOfNumbers ==
  ASSUME NEW S, S \subseteq Nat, S # {}
  PROVE  Min(S) \in S
<1>1. \E x \in S : \A y \in S : x <= y
  BY LeastNumber
<1>2. QED
  BY <1>1 DEF Min

\* A place that is given to a new order was open.
LEMMA PlaceIsOpen ==
  ASSUME OpenNumbers # {}
  PROVE  Min(OpenNumbers) \in 1 .. Places /\ Swept[Min(OpenNumbers)].status = "open"
<1>1. OpenNumbers \subseteq Nat
  BY PlacesAreNumbers DEF OpenNumbers
<1>2. Min(OpenNumbers) \in OpenNumbers
  BY <1>1, MinOfNumbers
<1>3. QED
  BY <1>2 DEF OpenNumbers

LEMMA SweptPlaces ==
  ASSUME TypeOK
  PROVE  /\ Swept \in [1 .. Places -> Place]
         /\ \A n \in 1 .. Places : \/ Swept[n] = place[n]
                                   \/ place[n].status = "reserved" /\ Swept[n] = OpenPlace
BY DEF TypeOK, TablesTypeOK, Swept, OpenPlace, Place

\* What the triggers do to a commerce order when rows of orders change.
LEMMA CapturedRows ==
  ASSUME TypeOK, CommerceKnown, NEW new, DOMAIN new = DOMAIN order, new \in [DOMAIN order -> OrderRow]
  PROVE  /\ DOMAIN Captured(new) = DOMAIN commerce
         /\ Captured(new) \in [DOMAIN commerce -> Commerce]
         /\ \A k \in DOMAIN commerce :
              LET c == commerce[k]  row == new[c.order]  old == order[c.order]  d == Captured(new)[k] IN
              /\ d.order = c.order /\ d.attempts = c.attempts
              /\ row = old => d = c
              /\ d.receipt = IF row.status = "finished" /\ old.status # "finished" /\ c.receipt = None
                             THEN row.pid ELSE c.receipt
<1>1. DOMAIN Captured(new) = DOMAIN commerce
  BY DEF Captured
<1>2. ASSUME NEW k \in DOMAIN commerce
      PROVE  LET c == commerce[k]  row == new[c.order]  old == order[c.order]  d == Captured(new)[k] IN
             /\ d \in Commerce /\ d.order = c.order /\ d.attempts = c.attempts
             /\ row = old => d = c
             /\ d.receipt = IF row.status = "finished" /\ old.status # "finished" /\ c.receipt = None
                            THEN row.pid ELSE c.receipt
  <2> DEFINE c == commerce[k]
             row == new[c.order]
             old == order[c.order]
             st == IF row # old /\ row.pid # None THEN "ready" ELSE c.state
             rc == IF row.status = "finished" /\ old.status # "finished" /\ c.receipt = None
                   THEN row.pid ELSE c.receipt
  <2>1. Captured(new)[k] = [c EXCEPT !.state = st, !.receipt = rc]
    BY DEF Captured
  <2>2. c \in Commerce /\ c.order \in DOMAIN order
    BY DEF TypeOK, TablesTypeOK, CommerceKnown
  <2>3. row \in OrderRow
    BY <2>2
  <2>4. st \in CreateStates /\ rc \in Invoices \cup {None}
    BY <2>2, <2>3 DEF Commerce, CreateStates, OrderRow
  <2>5. row = old => st = c.state /\ rc = c.receipt
    OBVIOUS
  <2> HIDE DEF c, row, old, st, rc
  <2>6. /\ Captured(new)[k] \in Commerce
        /\ Captured(new)[k].order = c.order
        /\ Captured(new)[k].attempts = c.attempts
        /\ row = old => Captured(new)[k] = c
        /\ Captured(new)[k].receipt = rc
    BY <2>1, <2>2, <2>4, <2>5 DEF Commerce
  <2>7. QED
    BY <2>6 DEF c, row, old, rc
<1>3. Captured(new) = [k \in DOMAIN commerce |-> Captured(new)[k]]
  BY DEF Captured
<1>4. QED
  BY <1>1, <1>2, <1>3

-----------------------------------------------------------------------------
(***************************************************************************)
(* What no step takes back, and what follows a step needs.                 *)
(***************************************************************************)
Grow ==
  /\ DOMAIN order \subseteq DOMAIN order'
  /\ DOMAIN invoice \subseteq DOMAIN invoice'
  /\ \A i \in DOMAIN invoice : invoice'[i].order = invoice[i].order /\ invoice[i].said \subseteq invoice'[i].said
  /\ DOMAIN commerce \subseteq DOMAIN commerce'
  /\ \A k \in DOMAIN commerce : commerce'[k].order = commerce[k].order

LEMMA CallsStay ==
  ASSUME CallsKnown, Grow, \A c \in Calls : call'[c] = call[c] \/ CallKnown(c)'
  PROVE  CallsKnown'
<1>1. ASSUME NEW c \in Calls, call'[c] = call[c] PROVE CallKnown(c)'
  <2> DEFINE r == call[c]
  <2>1. /\ r.pc # "idle" => r.order \in DOMAIN order
        /\ r.pc \in {"store", "agent store"} => 
             /\ r.pid \in DOMAIN invoice /\ invoice[r.pid].order = r.order /\ r.status \in invoice[r.pid].said
        /\ r.pc \in AgentSteps => r.key \in DOMAIN commerce /\ commerce[r.key].order = r.order
    BY DEF CallsKnown, CallKnown
  <2>2. /\ r.pc # "idle" => r.order \in DOMAIN order'
        /\ r.pc \in {"store", "agent store"} => 
             /\ r.pid \in DOMAIN invoice' /\ invoice'[r.pid].order = r.order /\ r.status \in invoice'[r.pid].said
        /\ r.pc \in AgentSteps => r.key \in DOMAIN commerce' /\ commerce'[r.key].order = r.order
    BY <2>1 DEF Grow
  <2>3. call'[c] = r
    BY <1>1
  <2> HIDE DEF r
  <2>4. QED
    BY <2>2, <2>3 DEF CallKnown, AgentSteps
<1>2. QED
  BY <1>1 DEF CallsKnown

\* A request goes on with what it holds, or answers.
LEMMA CallGoes ==
  ASSUME IInv, Grow, NEW c \in Calls, NEW pc \in Steps, Go(c, pc) \/ GoWithout(c, pc),
         call[c].pc # "idle", pc \notin {"store", "agent store"},
         pc \in AgentSteps => call[c].pc \in AgentSteps
  PROVE  /\ call' \in [Calls -> Call] /\ CallsKnown'
         /\ \A d \in Calls \ {c} : call'[d] = call[d]
         /\ call'[c].pc = pc /\ call'[c].order = call[c].order
<1>1. call[c] \in Call /\ call \in [Calls -> Call]
  BY DEF IInv, TypeOK
<1>2. /\ call' \in [Calls -> Call] /\ \A d \in Calls \ {c} : call'[d] = call[d]
      /\ call'[c].pc = pc /\ call'[c].order = call[c].order /\ call'[c].key = call[c].key
  <2>1. None \in Invoices \cup {None} /\ "open" \in Statuses
    BY DEF Statuses
  <2>2. CASE Go(c, pc)
    BY <1>1, <2>2 DEF Go, Call
  <2>3. CASE GoWithout(c, pc)
    BY <1>1, <2>1, <2>3 DEF GoWithout, Call
  <2>4. QED
    BY <2>2, <2>3
<1>3. CallKnown(c)'
  BY <1>2 DEF CallKnown, IInv, CallsKnown, Grow
<1>4. QED
  BY <1>2, <1>3, CallsStay DEF IInv

LEMMA CallAnswers ==
  ASSUME IInv, Grow, NEW c \in Calls, Answer(c)
  PROVE  /\ call' \in [Calls -> Call] /\ CallsKnown'
         /\ \A d \in Calls \ {c} : call'[d] = call[d]
         /\ call'[c].pc = "idle"
<1>1. call \in [Calls -> Call] /\ Idle \in Call /\ Idle.pc = "idle"
  BY DEF IInv, TypeOK, Idle, Call, Steps, Statuses
<1>2. /\ call' \in [Calls -> Call] /\ \A d \in Calls \ {c} : call'[d] = call[d]
      /\ call'[c].pc = "idle"
  BY <1>1 DEF Answer
<1>3. CallKnown(c)'
  BY <1>2 DEF CallKnown, AgentSteps
<1>4. QED
  BY <1>2, <1>3, CallsStay DEF IInv

\* The catch of a checkout answers, or goes on to let the order go.
LEMMA CallUnwinds ==
  ASSUME IInv, Grow, NEW c \in Calls, Unwind(c), call[c].pc # "idle"
  PROVE  /\ call' \in [Calls -> Call] /\ CallsKnown'
         /\ \A d \in Calls \ {c} : call'[d] = call[d]
         /\ call'[c].pc \in {"idle", "lapse"}
<1>1. CASE Answer(c)
  BY <1>1, CallAnswers
<1>2. CASE GoWithout(c, "lapse")
  BY <1>2, CallGoes DEF Steps, AgentSteps
<1>3. QED
  BY <1>1, <1>2 DEF Unwind

PaidNow(o) == \E i \in DOMAIN invoice' : invoice'[i].order = o /\ "finished" \in invoice'[i].said

LEMMA PaidStays ==
  ASSUME Grow, NEW o, Paid(o)
  PROVE  PaidNow(o)
BY DEF Grow, Paid, PaidNow

\* Grants of which each was there before or is paid now.
LEMMA GrantsStay ==
  ASSUME GrantsArePaid, GrantsKnown, Grow,
         \A i \in DOMAIN sub' \ DOMAIN sub : i \in DOMAIN invoice' /\ "finished" \in invoice'[i].said,
         \A n \in 1 .. Places : place'[n].status \in {"active", "retired"} =>
           \/ place[n].status \in {"active", "retired"} /\ place'[n].order = place[n].order
           \/ PaidNow(place'[n].order),
         \A o \in DOMAIN campaign' : campaign'[o].state \in {"running", "over", "refunded"} =>
           \/ o \in DOMAIN campaign /\ campaign[o].state \in {"running", "over", "refunded"}
           \/ PaidNow(o),
         \A k \in DOMAIN commerce' : commerce'[k].receipt # None =>
           \/ k \in DOMAIN commerce /\ commerce'[k].receipt = commerce[k].receipt
           \/ /\ commerce'[k].receipt \in DOMAIN invoice'
              /\ "finished" \in invoice'[commerce'[k].receipt].said
  PROVE  GrantsArePaid' /\ GrantsKnown'
<1>1. \A i \in DOMAIN sub' : i \in DOMAIN invoice' /\ "finished" \in invoice'[i].said
  BY DEF GrantsArePaid, GrantsKnown, Grow
<1>2. \A n \in 1 .. Places : place'[n].status \in {"active", "retired"} => PaidNow(place'[n].order)
  <2>1. ASSUME NEW n \in 1 .. Places, place[n].status \in {"active", "retired"}, place'[n].order = place[n].order
        PROVE  PaidNow(place'[n].order)
    <3>1. Paid(place[n].order)
      BY <2>1 DEF GrantsArePaid
    <3>2. QED
      BY <2>1, <3>1, PaidStays
  <2>2. QED
    BY <2>1
<1>3. \A o \in DOMAIN campaign' : campaign'[o].state \in {"running", "over", "refunded"} => PaidNow(o)
  BY PaidStays DEF GrantsArePaid
<1>4. \A k \in DOMAIN commerce' : commerce'[k].receipt # None =>
        commerce'[k].receipt \in DOMAIN invoice' /\ "finished" \in invoice'[commerce'[k].receipt].said
  BY DEF GrantsArePaid, GrantsKnown, Grow
<1>5. QED
  BY <1>1, <1>2, <1>3, <1>4 DEF GrantsArePaid, GrantsKnown, Paid, PaidNow

-----------------------------------------------------------------------------
(***************************************************************************)
(* Steps outside the tables.                                               *)
(***************************************************************************)
\* The provider made or reported something, or a request moved.
LEMMA OutsideTables ==
  ASSUME IInv, UNCHANGED <<tables, applying>>, Grow,
         DOMAIN invoice' \subseteq Invoices,
         invoice' \in [DOMAIN invoice' -> [order : OrderIds, said : SUBSET Statuses]],
         call' \in [Calls -> Call], CallsKnown'
  PROVE  IInv'
<1>1. TypeOK'
  BY DEF IInv, TypeOK, TablesTypeOK, tables
<1>2. CommerceKnown' /\ PlacesKnown' /\ TermsBounded'
  BY DEF IInv, CommerceKnown, PlacesKnown, TermsBounded, tables
<1>3. RowsKnown' /\ ApplyingKnown'
  <2>1. \A o \in DOMAIN order : order[o].pid # None => order[o].pid \in DOMAIN invoice
    BY DEF IInv, RowsKnown, RowKnown
  <2>2. DOMAIN applying \subseteq DOMAIN order
    BY DEF IInv, TypeOK
  <2>3. QED
    BY <2>1, <2>2 DEF IInv, RowsKnown, RowKnown, ApplyingKnown, Grow, tables
<1>4. GrantsArePaid' /\ GrantsKnown'
  <2>1. UNCHANGED sub /\ UNCHANGED place /\ UNCHANGED campaign /\ UNCHANGED commerce
    BY DEF tables
  <2>2. \A n \in 1 .. Places : place'[n].status \in {"active", "retired"} =>
           place[n].status \in {"active", "retired"} /\ place'[n].order = place[n].order
    BY <2>1
  <2>3. \A o \in DOMAIN campaign' : campaign'[o].state \in {"running", "over", "refunded"} =>
           o \in DOMAIN campaign /\ campaign[o].state \in {"running", "over", "refunded"}
    BY <2>1
  <2>4. \A k \in DOMAIN commerce' : k \in DOMAIN commerce /\ commerce'[k].receipt = commerce[k].receipt
    BY <2>1
  <2>5. \A i \in DOMAIN sub' \ DOMAIN sub : i \in DOMAIN invoice' /\ "finished" \in invoice'[i].said
    BY <2>1
  <2>6. QED
    BY <2>2, <2>3, <2>4, <2>5, GrantsStay DEF IInv
<1>5. QED
  BY <1>1, <1>2, <1>3, <1>4 DEF IInv

LEMMA NothingLost ==
  ASSUME UNCHANGED <<tables, invoice>>
  PROVE  Grow
BY DEF Grow, tables

\* A request moves, and nothing else.
LEMMA OnlyCall ==
  ASSUME IInv, UNCHANGED <<tables, invoice, applying>>, call' \in [Calls -> Call], CallsKnown'
  PROVE  IInv'
<1>1. Grow
  BY NothingLost
<1>2. /\ DOMAIN invoice' \subseteq Invoices
      /\ invoice' \in [DOMAIN invoice' -> [order : OrderIds, said : SUBSET Statuses]]
  BY DEF IInv, TypeOK
<1>3. QED
  BY <1>1, <1>2, OutsideTables

LEMMA DieStep ==
  ASSUME IInv, NEW c \in Calls, Die(c)
  PROVE  IInv'
<1>1. UNCHANGED <<tables, invoice, applying>> /\ Answer(c)
  BY DEF Die, External
<1>2. call' \in [Calls -> Call] /\ CallsKnown'
  BY <1>1, NothingLost, CallAnswers
<1>3. QED
  BY <1>1, <1>2, OnlyCall

LEMMA ReportStep ==
  ASSUME IInv, NEW i \in DOMAIN invoice, NEW s \in Statuses, Report(i, s)
  PROVE  IInv'
<1>1. invoice' = [invoice EXCEPT ![i].said = invoice[i].said \cup {s}] /\ UNCHANGED <<tables, call, applying>>
  BY DEF Report
<1>2. /\ DOMAIN invoice \subseteq Invoices
      /\ invoice \in [DOMAIN invoice -> [order : OrderIds, said : SUBSET Statuses]]
  BY DEF IInv, TypeOK
<1>3. /\ DOMAIN invoice' = DOMAIN invoice
      /\ invoice' \in [DOMAIN invoice -> [order : OrderIds, said : SUBSET Statuses]]
      /\ \A j \in DOMAIN invoice : invoice'[j].order = invoice[j].order /\ invoice[j].said \subseteq invoice'[j].said
  BY <1>1, <1>2
<1>4. Grow
  BY <1>1, <1>3 DEF Grow, tables
<1>5. call' \in [Calls -> Call] /\ CallsKnown'
  BY <1>1, <1>4, CallsStay DEF IInv, TypeOK
<1>6. QED
  BY <1>1, <1>2, <1>3, <1>4, <1>5, OutsideTables

\* The next term starts where one ends, or now.
LEMMA NextStartBounded ==
  ASSUME TypeOK, NEW o \in DOMAIN order, NEW b \in Nat,
         \A i \in DOMAIN sub : sub[i].end <= b,
         \A p \in DOMAIN campaign : campaign[p].start <= b
  PROVE  NextStart(o) \in 0 .. b + 1
<1> DEFINE S == {0} \cup {sub[i].end : i \in {j \in DOMAIN sub : sub[j].active /\ sub[j].who = order[o].who}}
           C == {0} \cup {campaign[p].start + 1 : p \in {q \in DOMAIN campaign \ {o} : campaign[q].state = "running"}}
<1>1. \A i \in DOMAIN sub : sub[i].end \in Nat
  BY DEF TypeOK, TablesTypeOK, Sub
<1>2. \A p \in DOMAIN campaign : campaign[p].start \in Nat
  BY DEF TypeOK, TablesTypeOK, Campaign
<1>3. /\ S \subseteq Nat /\ 0 \in S /\ \A y \in S : y <= b + 1
      /\ C \subseteq Nat /\ 0 \in C /\ \A y \in C : y <= b + 1
  BY <1>1, <1>2
<1>4. NextStart(o) = IF order[o].kind = "plan" THEN Max(S) ELSE Max(C)
  BY DEF NextStart
<1> HIDE DEF S, C
<1>5. Max(S) \in 0 .. b + 1 /\ Max(C) \in 0 .. b + 1
  <2>1. b + 1 \in Nat /\ S # {} /\ C # {}
    BY <1>3
  <2>2. QED
    BY <1>3, <2>1, MaxOfBounded
<1>6. QED
  BY <1>4, <1>5

-----------------------------------------------------------------------------
(***************************************************************************)
(* The transaction that will apply a status.                               *)
(***************************************************************************)
LEMMA OnlyApplying ==
  ASSUME IInv, UNCHANGED <<tables, call, invoice>>,
         DOMAIN applying' \subseteq DOMAIN order, applying' \in [DOMAIN applying' -> Applying],
         ApplyingKnown', TermsBounded'
  PROVE  IInv'
<1>1. TypeOK'
  BY DEF IInv, TypeOK, TablesTypeOK, tables
<1>2. CallsKnown'
  BY NothingLost, CallsStay DEF IInv
<1>3. RowsKnown' /\ CommerceKnown' /\ PlacesKnown' /\ GrantsKnown'
  BY DEF IInv, RowsKnown, RowKnown, CommerceKnown, PlacesKnown, GrantsKnown, tables
<1>4. GrantsArePaid'
  BY DEF IInv, GrantsArePaid, Paid, tables
<1>5. QED
  BY <1>1, <1>2, <1>3, <1>4 DEF IInv

LEMMA NotifyStep ==
  ASSUME IInv, NEW o \in OrderIds, NEW s \in Statuses, Notify(o, s)
  PROVE  IInv'
<1> DEFINE st == NextStart(o)
<1>1. /\ o \in DOMAIN order /\ o \notin DOMAIN applying /\ order[o].pid # None
      /\ s \in invoice[order[o].pid].said /\ UNCHANGED <<tables, call, invoice>>
      /\ applying' = Put(applying, o, [status |-> s, start |-> st])
  BY DEF Notify, Unlocked
<1>2. PICK b \in Nat : /\ \A i \in DOMAIN sub : sub[i].end <= b
                       /\ \A p \in DOMAIN campaign : campaign[p].start <= b
                       /\ \A p \in DOMAIN applying : applying[p].start <= b
  BY DEF IInv, TermsBounded
<1>3. st \in 0 .. b + 1
  BY <1>1, <1>2, NextStartBounded DEF IInv
<1> HIDE DEF st
<1>4. /\ DOMAIN applying \subseteq DOMAIN order /\ applying \in [DOMAIN applying -> Applying]
  BY DEF IInv, TypeOK
<1>5. /\ DOMAIN applying' = DOMAIN applying \cup {o}
      /\ applying'[o] = [status |-> s, start |-> st]
      /\ \A p \in DOMAIN applying : applying'[p] = applying[p]
      /\ applying' = [p \in DOMAIN applying \cup {o} |-> applying'[p]]
  BY <1>1 DEF Put
<1>6. applying'[o] \in Applying /\ applying'[o].start <= b + 1 /\ applying'[o].status = s
  BY <1>3, <1>5 DEF Applying
<1>7. DOMAIN applying' \subseteq DOMAIN order /\ applying' \in [DOMAIN applying' -> Applying]
  BY <1>1, <1>4, <1>5, <1>6
<1>8. ApplyingKnown'
  BY <1>1, <1>5, <1>6 DEF IInv, ApplyingKnown, tables
<1>9. TermsBounded'
  <2>1. b + 1 \in Nat
    OBVIOUS
  <2>2. /\ \A i \in DOMAIN sub : sub[i].end <= b + 1
        /\ \A p \in DOMAIN campaign : campaign[p].start <= b + 1
        /\ \A p \in DOMAIN applying : applying[p].start <= b + 1
    BY <1>2, <1>4 DEF IInv, TypeOK, TablesTypeOK, Sub, Campaign, Applying
  <2>3. UNCHANGED sub /\ UNCHANGED campaign
    BY <1>1 DEF tables
  <2>4. \A p \in DOMAIN applying' : applying'[p].start <= b + 1
    BY <1>5, <1>6, <2>2
  <2>5. QED
    BY <2>1, <2>2, <2>3, <2>4 DEF TermsBounded
<1>10. QED
  BY <1>1, <1>7, <1>8, <1>9, OnlyApplying

LEMMA DroppedStatus ==
  ASSUME IInv, NEW o, Dropped(o)
  PROVE  /\ DOMAIN applying' \subseteq DOMAIN applying
         /\ applying' \in [DOMAIN applying' -> Applying]
         /\ o \notin DOMAIN applying'
         /\ \A p \in DOMAIN applying' : applying'[p] = applying[p]
BY DEF Dropped, IInv, TypeOK

LEMMA RollbackStep ==
  ASSUME IInv, NEW o \in OrderIds, Rollback(o)
  PROVE  IInv'
<1>1. UNCHANGED <<tables, call, invoice>> /\ Dropped(o)
  BY DEF Rollback
<1>2. /\ DOMAIN applying' \subseteq DOMAIN applying /\ applying' \in [DOMAIN applying' -> Applying]
      /\ \A p \in DOMAIN applying' : applying'[p] = applying[p]
  BY <1>1, DroppedStatus
<1>3. DOMAIN applying' \subseteq DOMAIN order
  BY <1>2 DEF IInv, TypeOK
<1>4. ApplyingKnown' /\ TermsBounded'
  BY <1>1, <1>2 DEF IInv, ApplyingKnown, TermsBounded, tables
<1>5. QED
  BY <1>1, <1>2, <1>3, <1>4, OnlyApplying

-----------------------------------------------------------------------------
(***************************************************************************)
(* Steps on the rows of orders.                                            *)
(***************************************************************************)
\* One row of an order is written, by a statement that grants nothing; a row
\* that becomes finished stores a payment that is.
RowIs(o, row) ==
  /\ order' = [order EXCEPT ![o] = row]
  /\ commerce' = commerce \/ commerce' = Captured(order')
  /\ row.status = "finished" =>
       \/ order[o].status = "finished"
       \/ /\ commerce' = Captured(order')
          /\ row.pid \in DOMAIN invoice /\ "finished" \in invoice[row.pid].said

\* The receipt of a commerce order, after: the payment its order then stores,
\* where it had none.
ReceiptAfter(k, o, row) ==
  IF /\ commerce[k].order = o /\ commerce[k].receipt = None
     /\ row.status = "finished" /\ order[o].status # "finished"
  THEN row.pid ELSE commerce[k].receipt

LEMMA RowsAfter ==
  ASSUME IInv, NEW o \in DOMAIN order, NEW row \in OrderRow, RowIs(o, row)
  PROVE  /\ DOMAIN order' = DOMAIN order /\ order' \in [DOMAIN order -> OrderRow]
         /\ order'[o] = row /\ \A p \in DOMAIN order \ {o} : order'[p] = order[p]
         /\ DOMAIN commerce' = DOMAIN commerce /\ commerce' \in [DOMAIN commerce -> Commerce]
         /\ \A k \in DOMAIN commerce : /\ commerce'[k].order = commerce[k].order
                                       /\ commerce'[k].receipt = ReceiptAfter(k, o, row)
                                       /\ commerce'[k].attempts = commerce[k].attempts
         /\ UNCHANGED invoice => Grow
<1>1. /\ DOMAIN order' = DOMAIN order /\ order' \in [DOMAIN order -> OrderRow]
      /\ order'[o] = row /\ \A p \in DOMAIN order \ {o} : order'[p] = order[p]
  BY DEF RowIs, IInv, TypeOK, TablesTypeOK
<1>2. /\ DOMAIN commerce' = DOMAIN commerce /\ commerce' \in [DOMAIN commerce -> Commerce]
      /\ \A k \in DOMAIN commerce : /\ commerce'[k].order = commerce[k].order
                                    /\ commerce'[k].receipt = ReceiptAfter(k, o, row)
                                    /\ commerce'[k].attempts = commerce[k].attempts
  <2>1. CASE commerce' = commerce /\ commerce' # Captured(order')
    BY <2>1 DEF RowIs, ReceiptAfter, IInv, TypeOK, TablesTypeOK
  <2>2. CASE commerce' = Captured(order')
    <3> DEFINE new == [order EXCEPT ![o] = row]
    <3>1. commerce' = Captured(new)
      BY <2>2 DEF RowIs
    <3>2. /\ DOMAIN new = DOMAIN order /\ new \in [DOMAIN order -> OrderRow]
          /\ new[o] = row /\ \A p \in DOMAIN order \ {o} : new[p] = order[p]
      BY <1>1 DEF RowIs
    <3> HIDE DEF new
    <3>3. \A k \in DOMAIN commerce : commerce[k].order \in DOMAIN order
      BY DEF IInv, CommerceKnown
    <3>4. QED
      BY <3>1, <3>2, <3>3, CapturedRows DEF IInv, ReceiptAfter
  <2>3. QED
    BY <2>1, <2>2 DEF RowIs
<1>3. UNCHANGED invoice => Grow
  BY <1>1, <1>2 DEF Grow
<1>4. QED
  BY <1>1, <1>2, <1>3

\* Its payment is only written while nobody applies a status to it.
LEMMA RowWritten ==
  ASSUME IInv, NEW o \in DOMAIN order, NEW row \in OrderRow, RowIs(o, row),
         row.pid = order[o].pid \/ (o \notin DOMAIN applying /\ row.pid # None),
         IF row.pid = None THEN row.status \in {"open", "lapsed"}
         ELSE row.pid \in DOMAIN invoice /\ invoice[row.pid].order = o,
         UNCHANGED <<sub, place, campaign, invoice, applying>>,
         call' \in [Calls -> Call], CallsKnown'
  PROVE  IInv'
<1>1. /\ DOMAIN order' = DOMAIN order /\ order' \in [DOMAIN order -> OrderRow]
      /\ order'[o] = row /\ \A p \in DOMAIN order \ {o} : order'[p] = order[p]
      /\ DOMAIN commerce' = DOMAIN commerce /\ commerce' \in [DOMAIN commerce -> Commerce]
      /\ \A k \in DOMAIN commerce : /\ commerce'[k].order = commerce[k].order
                                    /\ commerce'[k].receipt = ReceiptAfter(k, o, row)
      /\ UNCHANGED invoice
  BY RowsAfter
<1>2. TypeOK'
  BY <1>1 DEF IInv, TypeOK, TablesTypeOK
<1>3. RowsKnown'
  BY <1>1 DEF IInv, RowsKnown, RowKnown
<1>4. CommerceKnown' /\ PlacesKnown' /\ TermsBounded'
  BY <1>1 DEF IInv, CommerceKnown, PlacesKnown, TermsBounded
<1>5. ApplyingKnown'
  BY <1>1 DEF IInv, ApplyingKnown, TypeOK
<1>6. GrantsArePaid' /\ GrantsKnown'
  <2>1. \A k \in DOMAIN commerce' : commerce'[k].receipt # None =>
          \/ k \in DOMAIN commerce /\ commerce'[k].receipt = commerce[k].receipt
          \/ commerce'[k].receipt \in DOMAIN invoice' /\ "finished" \in invoice'[commerce'[k].receipt].said
    BY <1>1 DEF ReceiptAfter, RowIs
  <2>2. Grow
    BY <1>1, RowsAfter
  <2>3. \A n \in 1 .. Places : place'[n].status \in {"active", "retired"} =>
           place[n].status \in {"active", "retired"} /\ place'[n].order = place[n].order
    OBVIOUS
  <2>4. \A p \in DOMAIN campaign' : campaign'[p].state \in {"running", "over", "refunded"} =>
           p \in DOMAIN campaign /\ campaign[p].state \in {"running", "over", "refunded"}
    OBVIOUS
  <2>5. \A i \in DOMAIN sub' \ DOMAIN sub : i \in DOMAIN invoice' /\ "finished" \in invoice'[i].said
    OBVIOUS
  <2>6. QED
    BY <2>1, <2>2, <2>3, <2>4, <2>5, GrantsStay DEF IInv
<1>7. QED
  BY <1>2, <1>3, <1>4, <1>5, <1>6 DEF IInv

LEMMA AtCall ==
  ASSUME IInv, NEW c \in Calls, call[c].pc # "idle"
  PROVE  /\ call[c].order \in DOMAIN order /\ order[call[c].order] \in OrderRow
         /\ order[call[c].order].pid # None =>
              /\ order[call[c].order].pid \in DOMAIN invoice
              /\ invoice[order[call[c].order].pid].order = call[c].order
         /\ order[call[c].order].pid = None => order[call[c].order].status \in {"open", "lapsed"}
BY DEF IInv, CallsKnown, CallKnown, RowsKnown, RowKnown, TypeOK, TablesTypeOK

LEMMA ClaimStep ==
  ASSUME IInv, NEW c \in Calls, Claim(c)
  PROVE  IInv'
<1>1. /\ call[c].pc = "claim" /\ UNCHANGED <<sub, place, campaign, invoice, applying, commerce>>
  BY DEF Claim, At, GrantsKept, External
<1> DEFINE o == call[c].order
           row == [order[o] EXCEPT !.claimed = TRUE]
<1>2. /\ o \in DOMAIN order /\ order[o] \in OrderRow
      /\ order[o].pid # None => order[o].pid \in DOMAIN invoice /\ invoice[order[o].pid].order = o
      /\ order[o].pid = None => order[o].status \in {"open", "lapsed"}
  BY <1>1, AtCall
<1>3. CASE ClaimOrder(o) /\ (Go(c, "create") \/ Unwind(c))
  <2>1. row \in OrderRow /\ row.pid = order[o].pid /\ row.status = order[o].status
    BY <1>2 DEF OrderRow
  <2>2. order' = [order EXCEPT ![o] = row]
    BY <1>3 DEF ClaimOrder
  <2> HIDE DEF row, o
  <2>3. RowIs(o, row)
    BY <1>1, <2>1, <2>2 DEF RowIs
  <2>4. Grow
    BY <1>1, <1>2, <2>1, <2>3, RowsAfter
  <2>5. call' \in [Calls -> Call] /\ CallsKnown'
    BY <1>1, <1>3, <2>4, CallGoes, CallUnwinds DEF Steps, AgentSteps
  <2>6. QED
    BY <1>1, <1>2, <2>1, <2>3, <2>5, RowWritten
<1>4. CASE (Answer(c) \/ Unwind(c)) /\ UNCHANGED order
  <2>1. UNCHANGED <<tables, invoice, applying>>
    BY <1>1, <1>4 DEF tables
  <2>2. call' \in [Calls -> Call] /\ CallsKnown'
    BY <1>1, <1>4, <2>1, NothingLost, CallAnswers, CallUnwinds
  <2>3. QED
    BY <2>1, <2>2, OnlyCall
<1>5. QED
  BY <1>3, <1>4 DEF Claim

LEMMA StoredInvoice ==
  ASSUME IInv, NEW c \in Calls, call[c].pc \in {"store", "agent store"},
         NEW s \in {"open", call[c].status},
         StoreInvoice(call[c].order, call[c].pid, s), Unlocked(call[c].order),
         UNCHANGED <<sub, place, campaign, invoice, applying>>
  PROVE  Grow /\ (call' \in [Calls -> Call] /\ CallsKnown' => IInv')
<1> DEFINE o == call[c].order
           i == call[c].pid
           row == [order[o] EXCEPT !.pid = i, !.status = s, !.claimed = FALSE]
<1>1. /\ o \in DOMAIN order /\ order[o] \in OrderRow /\ i \in DOMAIN invoice /\ invoice[i].order = o
      /\ s = "finished" => "finished" \in invoice[i].said
      /\ call[c] \in Call
  BY AtCall DEF IInv, CallsKnown, CallKnown, TypeOK
<1>2. i \in Invoices /\ i # None
  BY <1>1, NoneFresh DEF IInv, TypeOK
<1>3. order' = [order EXCEPT ![o] = row] /\ commerce' = Captured(order')
  BY DEF StoreInvoice, WriteOrder
<1>4. row \in OrderRow /\ row.pid = i /\ row.status = s
  BY <1>1, <1>2 DEF OrderRow, Statuses, Call
<1>5. o \notin DOMAIN applying
  BY DEF Unlocked
<1> HIDE DEF row, o, i
<1>6. RowIs(o, row)
  BY <1>1, <1>3, <1>4 DEF RowIs
<1>7. Grow
  BY <1>1, <1>4, <1>6, RowsAfter
<1>8. QED
  BY <1>1, <1>2, <1>4, <1>5, <1>6, <1>7, RowWritten

LEMMA StoreStep ==
  ASSUME IInv, NEW c \in Calls, Store(c)
  PROVE  IInv'
<1> DEFINE s == call[c].status
<1>1. /\ call[c].pc = "store" /\ UNCHANGED <<sub, place, campaign, invoice, applying>>
      /\ Answer(c) \/ Unwind(c)
      /\ \/ StoreInvoice(call[c].order, call[c].pid, s) /\ Unlocked(call[c].order)
         \/ UNCHANGED <<order, commerce>>
  BY DEF Store, At, GrantsKept, External
<1>2. Grow => call' \in [Calls -> Call] /\ CallsKnown'
  BY <1>1, CallUnwinds, CallAnswers
<1>3. CASE StoreInvoice(call[c].order, call[c].pid, s) /\ Unlocked(call[c].order)
  BY <1>1, <1>2, <1>3, StoredInvoice
<1>4. CASE UNCHANGED <<order, commerce>>
  <2>1. UNCHANGED <<tables, invoice, applying>>
    BY <1>1, <1>4 DEF tables
  <2>2. QED
    BY <1>2, <2>1, NothingLost, OnlyCall
<1>5. QED
  BY <1>1, <1>3, <1>4

LEMMA AgentStoreStep ==
  ASSUME IInv, NEW c \in Calls, AgentStore(c)
  PROVE  IInv'
<1> DEFINE o == call[c].order
<1>1. /\ call[c].pc = "agent store" /\ UNCHANGED <<sub, place, campaign, invoice, applying>>
      /\ GoWithout(c, "ready") \/ GoWithout(c, "failed")
      /\ \/ StoreInvoiceOnce(o, call[c].pid) /\ Unlocked(o)
         \/ UNCHANGED <<order, commerce>>
  BY DEF AgentStore, At, GrantsKept, External
<1>2. Grow => call' \in [Calls -> Call] /\ CallsKnown'
  BY <1>1, CallGoes DEF Steps, AgentSteps
<1>3. CASE StoreInvoice(o, call[c].pid, "open") /\ Unlocked(o)
  BY <1>1, <1>2, <1>3, StoredInvoice
<1>4. CASE WriteOrder(order)
  <2>1. /\ o \in DOMAIN order /\ order[o] \in OrderRow
        /\ order[o].pid # None => order[o].pid \in DOMAIN invoice /\ invoice[order[o].pid].order = o
        /\ order[o].pid = None => order[o].status \in {"open", "lapsed"}
    BY <1>1, AtCall
  <2>2. RowIs(o, order[o])
    BY <1>4, <2>1 DEF WriteOrder, RowIs, IInv, TypeOK, TablesTypeOK
  <2> HIDE DEF o
  <2>3. Grow
    BY <1>1, <2>1, <2>2, RowsAfter
  <2>4. QED
    BY <1>1, <1>2, <2>1, <2>2, <2>3, RowWritten
<1>5. CASE UNCHANGED <<order, commerce>>
  <2>1. UNCHANGED <<tables, invoice, applying>>
    BY <1>1, <1>5 DEF tables
  <2>2. QED
    BY <1>2, <2>1, NothingLost, OnlyCall
<1>6. QED
  BY <1>1, <1>3, <1>4, <1>5 DEF StoreInvoiceOnce

LEMMA LapseStep ==
  ASSUME IInv, NEW c \in Calls, Lapse(c)
  PROVE  IInv'
<1> DEFINE o == call[c].order
           row == [order[o] EXCEPT !.status = "lapsed"]
<1>1. /\ call[c].pc = "lapse" /\ UNCHANGED <<sub, place, campaign, invoice, applying>> /\ Go(c, "release")
      /\ \/ order[o].pid = None /\ WriteOrder([order EXCEPT ![o].status = "lapsed"])
         \/ UNCHANGED <<order, commerce>>
  BY DEF Lapse, At, GrantsKept, External, LapseUninvoiced
<1>2. Grow => call' \in [Calls -> Call] /\ CallsKnown'
  BY <1>1, CallGoes DEF Steps, AgentSteps
<1>3. CASE order[o].pid = None /\ WriteOrder([order EXCEPT ![o].status = "lapsed"])
  <2>1. o \in DOMAIN order /\ order[o] \in OrderRow
    BY <1>1, AtCall
  <2>2. row \in OrderRow /\ row.pid = None /\ row.status = "lapsed"
    BY <1>3, <2>1 DEF OrderRow, Statuses
  <2>3. order' = [order EXCEPT ![o] = row] /\ commerce' = Captured(order')
    BY <1>3 DEF WriteOrder
  <2> HIDE DEF row, o
  <2>4. RowIs(o, row)
    BY <2>2, <2>3 DEF RowIs
  <2>5. Grow
    BY <1>1, <2>1, <2>2, <2>4, RowsAfter
  <2>6. QED
    BY <1>1, <1>2, <1>3, <2>1, <2>2, <2>4, <2>5, RowWritten
<1>4. CASE UNCHANGED <<order, commerce>>
  <2>1. UNCHANGED <<tables, invoice, applying>>
    BY <1>1, <1>4 DEF tables
  <2>2. QED
    BY <1>2, <2>1, NothingLost, OnlyCall
<1>5. QED
  BY <1>1, <1>3, <1>4

LEMMA AgesStep ==
  ASSUME IInv, NEW o \in OrderIds, OrderAges(o)
  PROVE  IInv'
<1> DEFINE row == [order[o] EXCEPT !.recent = FALSE]
<1>1. /\ o \in DOMAIN order /\ order' = [order EXCEPT ![o] = row]
      /\ UNCHANGED <<sub, place, campaign, commerce, call, invoice, applying>>
  BY DEF OrderAges, External
<1>2. /\ order[o] \in OrderRow
      /\ IF order[o].pid = None THEN order[o].status \in {"open", "lapsed"}
         ELSE order[o].pid \in DOMAIN invoice /\ invoice[order[o].pid].order = o
  BY <1>1 DEF IInv, TypeOK, TablesTypeOK, RowsKnown, RowKnown
<1>3. row \in OrderRow /\ row.pid = order[o].pid /\ row.status = order[o].status
  BY <1>2 DEF OrderRow
<1> HIDE DEF row
<1>4. RowIs(o, row)
  BY <1>1, <1>3 DEF RowIs
<1>5. Grow
  BY <1>1, <1>3, <1>4, RowsAfter
<1>6. call' \in [Calls -> Call] /\ CallsKnown'
  BY <1>1, <1>5, CallsStay DEF IInv, TypeOK
<1>7. QED
  BY <1>1, <1>2, <1>3, <1>4, <1>6, RowWritten

-----------------------------------------------------------------------------
(***************************************************************************)
(* The call that creates a payment.                                        *)
(***************************************************************************)
\* Where a request goes whose payment was refused, or whose answer was lost.
Fails(c) == Unwind(c) \/ (call[c].pc = "agent create" /\ Go(c, "failed"))

\* A payment is created for the order of a request that then stores it, or
\* none is, or its answer is lost.
Creates(c, stored) ==
  /\ \/ call[c].pc = "create" /\ stored = "store"
     \/ call[c].pc = "agent create" /\ stored = "agent store"
  /\ CreatePayment(c, stored, Fails(c))

LEMMA PaymentCreated ==
  ASSUME NEW c \in Calls, CheckoutPayment(c) \/ AgentPayment(c)
  PROVE  \E stored \in {"store", "agent store"} : Creates(c, stored)
<1>1. CASE CheckoutPayment(c)
  <2>1. Creates(c, "store")
    BY <1>1 DEF CheckoutPayment, CreatePayment, Creates, Fails, At
  <2>2. QED
    BY <2>1
<1>2. CASE AgentPayment(c)
  <2>1. Creates(c, "agent store")
    BY <1>2 DEF AgentPayment, CreatePayment, Creates, Fails, At
  <2>2. QED
    BY <2>1
<1>3. QED
  BY <1>1, <1>2

LEMMA CallFails ==
  ASSUME IInv, Grow, NEW c \in Calls, Fails(c), call[c].pc # "idle"
  PROVE  /\ call' \in [Calls -> Call] /\ CallsKnown'
         /\ \A d \in Calls \ {c} : call'[d] = call[d]
         /\ call'[c].pc \in {"idle", "lapse", "failed"}
<1>1. CASE Unwind(c)
  BY <1>1, CallUnwinds
<1>2. CASE call[c].pc = "agent create" /\ Go(c, "failed")
  BY <1>2, CallGoes DEF Steps, AgentSteps
<1>3. QED
  BY <1>1, <1>2 DEF Fails

\* The provider's payment for the order, and the status it was created with.
Invoiced(i, o, s) ==
  /\ i \in Invoices \ DOMAIN invoice /\ s \in Statuses
  /\ invoice' = Put(invoice, i, [order |-> o, said |-> {s}])

Holds(c, pc, i, s) == call' = [call EXCEPT ![c].pc = pc, ![c].pid = i, ![c].status = s]

LEMMA CreatedMoves ==
  ASSUME IInv, NEW c \in Calls, NEW stored, Creates(c, stored)
  PROVE  /\ UNCHANGED <<tables, applying>>
         /\ call[c].pc \in {"create", "agent create"}
         /\ \/ stored = "store" /\ call[c].pc = "create"
            \/ stored = "agent store" /\ call[c].pc = "agent create"
         /\ \/ Fails(c) /\ UNCHANGED invoice
            \/ \E i, s : Invoiced(i, call[c].order, s) /\ (Holds(c, stored, i, s) \/ Fails(c))
<1>1. /\ UNCHANGED <<tables, applying>>
      /\ \/ Fails(c) /\ UNCHANGED invoice
         \/ \E i \in Invoices \ DOMAIN invoice, s \in Answers :
              /\ invoice' = Put(invoice, i, [order |-> call[c].order, said |-> {s}])
              /\ Holds(c, stored, i, s) \/ Fails(c)
  BY DEF Creates, CreatePayment, Holds
<1>2. \/ stored = "store" /\ call[c].pc = "create"
      \/ stored = "agent store" /\ call[c].pc = "agent create"
  BY DEF Creates
<1>3. QED
  BY <1>1, <1>2, AnswersAreStatuses DEF Invoiced

LEMMA InvoiceAdded ==
  ASSUME IInv, NEW c \in Calls, call[c].pc # "idle", NEW i, NEW s, Invoiced(i, call[c].order, s)
  PROVE  /\ DOMAIN invoice' = DOMAIN invoice \cup {i} /\ i \notin DOMAIN invoice
         /\ invoice'[i].order = call[c].order /\ invoice'[i].said = {s}
         /\ \A j \in DOMAIN invoice : invoice'[j] = invoice[j]
         /\ DOMAIN invoice' \subseteq Invoices
         /\ invoice' \in [DOMAIN invoice' -> [order : OrderIds, said : SUBSET Statuses]]
         /\ UNCHANGED tables => Grow
<1> DEFINE o == call[c].order
           v == [order |-> o, said |-> {s}]
<1>1. o \in OrderIds /\ s \in Statuses /\ i \in Invoices \ DOMAIN invoice
  BY AtCall DEF IInv, TypeOK, TablesTypeOK, Invoiced
<1>2. /\ DOMAIN invoice \subseteq Invoices
      /\ invoice \in [DOMAIN invoice -> [order : OrderIds, said : SUBSET Statuses]]
  BY DEF IInv, TypeOK
<1>3. v \in [order : OrderIds, said : SUBSET Statuses]
  BY <1>1
<1>4. /\ DOMAIN invoice' = DOMAIN invoice \cup {i} /\ invoice'[i] = v
      /\ \A j \in DOMAIN invoice : invoice'[j] = invoice[j]
      /\ invoice' = [j \in DOMAIN invoice \cup {i} |-> invoice'[j]]
  BY <1>1 DEF Invoiced, Put
<1>5. v.order = call[c].order /\ v.said = {s}
  OBVIOUS
<1> HIDE DEF v, o
<1>6. /\ DOMAIN invoice' \subseteq Invoices
      /\ invoice' \in [DOMAIN invoice' -> [order : OrderIds, said : SUBSET Statuses]]
  BY <1>1, <1>2, <1>3, <1>4
<1>7. UNCHANGED tables => Grow
  BY <1>4 DEF Grow, tables
<1>8. QED
  BY <1>1, <1>4, <1>5, <1>6, <1>7

LEMMA CreateStep ==
  ASSUME IInv, NEW c \in Calls, NEW stored \in {"store", "agent store"}, Creates(c, stored)
  PROVE  IInv'
<1> DEFINE o == call[c].order
<1>1. /\ UNCHANGED <<tables, applying>>
      /\ call[c].pc \in {"create", "agent create"}
      /\ stored = "agent store" => call[c].pc = "agent create"
      /\ \/ Fails(c) /\ UNCHANGED invoice
         \/ \E i, s : Invoiced(i, o, s) /\ (Holds(c, stored, i, s) \/ Fails(c))
  BY CreatedMoves
<1>2. o \in DOMAIN order /\ call[c] \in Call /\ call \in [Calls -> Call]
  BY <1>1, AtCall DEF IInv, TypeOK
<1>3. CASE Fails(c) /\ UNCHANGED invoice
  BY <1>1, <1>3, NothingLost, CallFails, OnlyCall
<1>4. ASSUME NEW i, NEW s, Invoiced(i, o, s), Holds(c, stored, i, s) \/ Fails(c)
      PROVE  IInv'
  <2>1. /\ DOMAIN invoice' \subseteq Invoices /\ i \in DOMAIN invoice' /\ i \in Invoices /\ s \in Statuses
        /\ invoice' \in [DOMAIN invoice' -> [order : OrderIds, said : SUBSET Statuses]]
        /\ invoice'[i].order = o /\ invoice'[i].said = {s}
        /\ Grow
    <3>1. call[c].pc # "idle" /\ UNCHANGED tables /\ i \in Invoices /\ s \in Statuses
      BY <1>1, <1>4 DEF Invoiced
    <3>2. Invoiced(i, call[c].order, s)
      BY <1>4
    <3>3. /\ DOMAIN invoice' = DOMAIN invoice \cup {i}
          /\ invoice'[i].order = call[c].order /\ invoice'[i].said = {s}
          /\ DOMAIN invoice' \subseteq Invoices
          /\ invoice' \in [DOMAIN invoice' -> [order : OrderIds, said : SUBSET Statuses]]
          /\ Grow
      BY <3>1, <3>2, InvoiceAdded
    <3>4. QED
      BY <3>1, <3>3
  <2>2. CASE Fails(c)
    <3>1. call' \in [Calls -> Call] /\ CallsKnown'
      BY <1>1, <2>1, <2>2, CallFails
    <3>2. QED
      BY <1>1, <2>1, <3>1, OutsideTables
  <2>3. CASE Holds(c, stored, i, s)
    <3>1. stored \in Steps
      BY DEF Steps
    <3>2. /\ call' \in [Calls -> Call] /\ \A d \in Calls \ {c} : call'[d] = call[d]
          /\ call'[c].pc = stored /\ call'[c].pid = i /\ call'[c].status = s
          /\ call'[c].order = o /\ call'[c].key = call[c].key
      BY <1>2, <2>1, <2>3, <3>1 DEF Call, Holds
    <3>3. stored \in AgentSteps =>
            call[c].key \in DOMAIN commerce /\ commerce[call[c].key].order = o
      BY <1>1 DEF IInv, CallsKnown, CallKnown, AgentSteps
    <3> HIDE DEF o
    <3>4. CallKnown(c)'
      BY <1>2, <2>1, <3>2, <3>3 DEF CallKnown, Grow, AgentSteps
    <3>5. CallsKnown'
      BY <2>1, <3>2, <3>4, CallsStay DEF IInv
    <3>6. QED
      BY <1>1, <2>1, <3>2, <3>5, OutsideTables
  <2>4. QED
    BY <1>4, <2>2, <2>3
<1>5. QED
  BY <1>1, <1>3, <1>4

LEMMA CheckoutPaymentStep ==
  ASSUME IInv, NEW c \in Calls, CheckoutPayment(c)
  PROVE  IInv'
BY PaymentCreated, CreateStep

LEMMA AgentPaymentStep ==
  ASSUME IInv, NEW c \in Calls, AgentPayment(c)
  PROVE  IInv'
BY PaymentCreated, CreateStep

-----------------------------------------------------------------------------
(***************************************************************************)
(* Steps on the commerce orders alone.                                     *)
(***************************************************************************)
\* A commerce order changes; its order and its receipt stay.
LEMMA CommerceSet ==
  ASSUME IInv, NEW k \in DOMAIN commerce, NEW r \in Commerce, SetCommerce(k, r),
         r.order = commerce[k].order, r.receipt = commerce[k].receipt,
         UNCHANGED <<order, sub, place, campaign, invoice, applying>>
  PROVE  Grow /\ (call' \in [Calls -> Call] /\ CallsKnown' => IInv')
<1>1. /\ DOMAIN commerce' = DOMAIN commerce /\ commerce' \in [DOMAIN commerce -> Commerce]
      /\ \A j \in DOMAIN commerce : commerce'[j].order = commerce[j].order /\ commerce'[j].receipt = commerce[j].receipt
  BY DEF SetCommerce, IInv, TypeOK, TablesTypeOK
<1>2. Grow
  BY <1>1 DEF Grow
<1>3. ASSUME call' \in [Calls -> Call], CallsKnown' PROVE IInv'
  <2>1. TypeOK'
    BY <1>1, <1>3 DEF IInv, TypeOK, TablesTypeOK
  <2>2. RowsKnown' /\ CommerceKnown' /\ PlacesKnown' /\ ApplyingKnown' /\ TermsBounded' /\ GrantsKnown'
    BY <1>1 DEF IInv, RowsKnown, RowKnown, CommerceKnown, PlacesKnown, ApplyingKnown, TermsBounded, GrantsKnown
  <2>3. GrantsArePaid'
    BY <1>1 DEF IInv, GrantsArePaid, Paid
  <2>4. QED
    BY <1>3, <2>1, <2>2, <2>3 DEF IInv
<1>4. QED
  BY <1>2, <1>3

LEMMA AtKey ==
  ASSUME IInv, NEW c \in Calls, call[c].pc \in AgentSteps
  PROVE  /\ call[c].key \in DOMAIN commerce /\ commerce[call[c].key] \in Commerce
         /\ commerce[call[c].key].order = call[c].order
BY DEF IInv, CallsKnown, CallKnown, TypeOK, TablesTypeOK

LEMMA LookStep ==
  ASSUME IInv, NEW c \in Calls, Look(c)
  PROVE  IInv'
<1> DEFINE k == call[c].key
           s == [commerce[k] EXCEPT !.state = "ready"]
           a == [commerce[k] EXCEPT !.state = "creating", !.attempts = commerce[k].attempts + 1]
<1>1. /\ call[c].pc = "look" /\ UNCHANGED <<order, sub, place, campaign, invoice, applying>>
      /\ \/ SetCommerce(k, s) /\ Answer(c)
         \/ SetCommerce(k, a) /\ CanCreate(k) /\ Go(c, "agent create")
         \/ Answer(c) /\ UNCHANGED commerce
  BY DEF Look, At, GrantsKept, External
<1>2. k \in DOMAIN commerce /\ commerce[k] \in Commerce
  BY <1>1, AtKey DEF AgentSteps
<1>3. s \in Commerce /\ s.order = commerce[k].order /\ s.receipt = commerce[k].receipt
  BY <1>2 DEF Commerce, CreateStates
<1>4. CanCreate(k) => a \in Commerce /\ a.order = commerce[k].order /\ a.receipt = commerce[k].receipt
  <2>1. CanCreate(k) => commerce[k].attempts + 1 \in 0 .. Attempts
    BY <1>2, AttemptsAreNumbers DEF CanCreate, Commerce
  <2>2. QED
    BY <1>2, <2>1 DEF Commerce, CreateStates
<1> HIDE DEF k, s, a
<1>5. CASE SetCommerce(k, s) /\ Answer(c)
  BY <1>1, <1>2, <1>3, <1>5, CommerceSet, CallAnswers
<1>6. CASE SetCommerce(k, a) /\ CanCreate(k) /\ Go(c, "agent create")
  <2>1. Grow => call' \in [Calls -> Call] /\ CallsKnown'
    BY <1>1, <1>6, CallGoes DEF Steps, AgentSteps
  <2>2. QED
    BY <1>1, <1>2, <1>4, <1>6, <2>1, CommerceSet
<1>7. CASE Answer(c) /\ UNCHANGED commerce
  <2>1. UNCHANGED <<tables, invoice, applying>>
    BY <1>1, <1>7 DEF tables
  <2>2. QED
    BY <1>7, <2>1, NothingLost, CallAnswers, OnlyCall
<1>8. QED
  BY <1>1, <1>5, <1>6, <1>7

LEMMA MarkReadyStep ==
  ASSUME IInv, NEW c \in Calls, MarkReady(c)
  PROVE  IInv'
<1> DEFINE k == call[c].key
           s == [commerce[k] EXCEPT !.state = "ready"]
<1>1. /\ call[c].pc = "ready" /\ UNCHANGED <<order, sub, place, campaign, invoice, applying>>
      /\ \/ SetCommerce(k, s) /\ Answer(c)
         \/ Go(c, "failed") /\ UNCHANGED commerce
  BY DEF MarkReady, At, GrantsKept, External
<1>2. k \in DOMAIN commerce /\ commerce[k] \in Commerce
  BY <1>1, AtKey DEF AgentSteps
<1>3. s \in Commerce /\ s.order = commerce[k].order /\ s.receipt = commerce[k].receipt
  BY <1>2 DEF Commerce, CreateStates
<1> HIDE DEF k, s
<1>4. CASE SetCommerce(k, s) /\ Answer(c)
  BY <1>1, <1>2, <1>3, <1>4, CommerceSet, CallAnswers
<1>5. CASE Go(c, "failed") /\ UNCHANGED commerce
  <2>1. UNCHANGED <<tables, invoice, applying>>
    BY <1>1, <1>5 DEF tables
  <2>2. call' \in [Calls -> Call] /\ CallsKnown'
    BY <1>1, <1>5, <2>1, NothingLost, CallGoes DEF Steps, AgentSteps
  <2>3. QED
    BY <2>1, <2>2, OnlyCall
<1>6. QED
  BY <1>1, <1>4, <1>5

LEMMA MarkFailedStep ==
  ASSUME IInv, NEW c \in Calls, MarkFailed(c)
  PROVE  IInv'
<1> DEFINE k == call[c].key
           s == [commerce[k] EXCEPT !.state = "failed"]
<1>1. /\ call[c].pc = "failed" /\ UNCHANGED <<order, sub, place, campaign, invoice, applying>>
      /\ Answer(c) /\ (SetCommerce(k, s) \/ UNCHANGED commerce)
  BY DEF MarkFailed, At, GrantsKept, External
<1>2. k \in DOMAIN commerce /\ commerce[k] \in Commerce
  BY <1>1, AtKey DEF AgentSteps
<1>3. s \in Commerce /\ s.order = commerce[k].order /\ s.receipt = commerce[k].receipt
  BY <1>2 DEF Commerce, CreateStates
<1> HIDE DEF k, s
<1>4. CASE SetCommerce(k, s)
  BY <1>1, <1>2, <1>3, <1>4, CommerceSet, CallAnswers
<1>5. CASE UNCHANGED commerce
  <2>1. UNCHANGED <<tables, invoice, applying>>
    BY <1>1, <1>5 DEF tables
  <2>2. QED
    BY <1>1, <2>1, NothingLost, CallAnswers, OnlyCall
<1>6. QED
  BY <1>1, <1>4, <1>5

LEMMA ClaimAgesStep ==
  ASSUME IInv, NEW k \in Keys, ClaimAges(k)
  PROVE  IInv'
<1> DEFINE s == [commerce[k] EXCEPT !.state = "stuck"]
<1>1. /\ k \in DOMAIN commerce /\ SetCommerce(k, s)
      /\ UNCHANGED <<order, sub, place, campaign, call, invoice, applying>>
  BY DEF ClaimAges, External
<1>2. s \in Commerce /\ s.order = commerce[k].order /\ s.receipt = commerce[k].receipt
  BY <1>1 DEF IInv, TypeOK, TablesTypeOK, Commerce, CreateStates
<1> HIDE DEF s
<1>3. Grow
  BY <1>1, <1>2, CommerceSet
<1>4. call' \in [Calls -> Call] /\ CallsKnown'
  BY <1>1, <1>3, CallsStay DEF IInv, TypeOK
<1>5. QED
  BY <1>1, <1>2, <1>4, CommerceSet

-----------------------------------------------------------------------------
(***************************************************************************)
(* Steps on the places and the campaigns alone.                            *)
(***************************************************************************)
\* A place keeps its order, or is opened if it was only reserved; a campaign
\* keeps its start and runs or is over only if it was.
PlaceLet(n) ==
  \/ place'[n] = OpenPlace /\ place[n].status = "reserved"
  \/ /\ place'[n] \in Place /\ place'[n].order = place[n].order
     /\ place'[n].status = place[n].status

CampaignLet(o) ==
  /\ campaign'[o] \in Campaign /\ campaign'[o].start = campaign[o].start
  /\ campaign'[o].state \in {"running", "over", "refunded"} =>
       campaign[o].state \in {"running", "over", "refunded"}
  /\ campaign'[o].state = "running" => campaign[o].state = "running"

LEMMA GrantsSet ==
  ASSUME IInv, UNCHANGED <<order, sub, commerce, invoice, applying>>,
         place' \in [1 .. Places -> Place], \A n \in 1 .. Places : PlaceLet(n),
         DOMAIN campaign' = DOMAIN campaign, campaign' = [o \in DOMAIN campaign |-> campaign'[o]],
         \A o \in DOMAIN campaign : CampaignLet(o)
  PROVE  Grow /\ (call' \in [Calls -> Call] /\ CallsKnown' => IInv')
<1>1. Grow
  BY DEF Grow
<1>2. ASSUME call' \in [Calls -> Call], CallsKnown' PROVE IInv'
  <2>1. campaign' \in [DOMAIN campaign' -> Campaign]
    BY DEF CampaignLet
  <2>2. TypeOK'
    BY <1>2, <2>1 DEF IInv, TypeOK, TablesTypeOK
  <2>3. RowsKnown' /\ CommerceKnown' /\ ApplyingKnown'
    BY DEF IInv, RowsKnown, RowKnown, CommerceKnown, ApplyingKnown
  <2>4. PlacesKnown'
    BY DEF IInv, PlacesKnown, PlaceLet, OpenPlace
  <2>5. TermsBounded'
    BY DEF IInv, TermsBounded, CampaignLet
  <2>6. GrantsArePaid' /\ GrantsKnown'
    BY <1>1, GrantsStay DEF IInv, PlaceLet, CampaignLet, OpenPlace
  <2>7. QED
    BY <1>2, <2>2, <2>3, <2>4, <2>5, <2>6 DEF IInv
<1>3. QED
  BY <1>1, <1>2

\* What is not touched may be let be.
LEMMA PlacesBe ==
  ASSUME TypeOK, UNCHANGED place
  PROVE  place' \in [1 .. Places -> Place] /\ \A n \in 1 .. Places : PlaceLet(n)
BY DEF TypeOK, TablesTypeOK, PlaceLet

LEMMA CampaignsBe ==
  ASSUME TypeOK, UNCHANGED campaign
  PROVE  /\ DOMAIN campaign' = DOMAIN campaign /\ campaign' = [o \in DOMAIN campaign |-> campaign'[o]]
         /\ \A o \in DOMAIN campaign : CampaignLet(o)
BY DEF TypeOK, TablesTypeOK, CampaignLet

LEMMA PlacesReleased ==
  ASSUME TypeOK, NEW o, place' = Released(o)
  PROVE  place' \in [1 .. Places -> Place] /\ \A n \in 1 .. Places : PlaceLet(n)
<1>1. OpenPlace \in Place
  BY DEF OpenPlace, Place
<1>2. QED
  BY <1>1 DEF TypeOK, TablesTypeOK, Released, PlaceLet

\* One campaign changes its state.
LEMMA CampaignState ==
  ASSUME TypeOK, NEW o \in DOMAIN campaign, NEW st \in {"pending", "running", "over", "canceled", "refunded"},
         campaign' = [campaign EXCEPT ![o].state = st],
         st \in {"running", "over", "refunded"} => campaign[o].state \in {"running", "over", "refunded"},
         st = "running" => campaign[o].state = "running"
  PROVE  /\ DOMAIN campaign' = DOMAIN campaign /\ campaign' = [p \in DOMAIN campaign |-> campaign'[p]]
         /\ \A p \in DOMAIN campaign : CampaignLet(p)
<1>1. campaign \in [DOMAIN campaign -> Campaign] /\ campaign[o] \in Campaign
  BY DEF TypeOK, TablesTypeOK
<1>2. /\ campaign'[o] \in Campaign /\ campaign'[o].start = campaign[o].start /\ campaign'[o].state = st
      /\ \A p \in DOMAIN campaign \ {o} : campaign'[p] = campaign[p]
      /\ DOMAIN campaign' = DOMAIN campaign /\ campaign' = [p \in DOMAIN campaign |-> campaign'[p]]
  BY <1>1 DEF Campaign
<1>3. QED
  BY <1>1, <1>2 DEF CampaignLet

LEMMA CampaignsCanceled ==
  ASSUME TypeOK, NEW o, campaign' = Canceled(o)
  PROVE  /\ DOMAIN campaign' = DOMAIN campaign /\ campaign' = [p \in DOMAIN campaign |-> campaign'[p]]
         /\ \A p \in DOMAIN campaign : CampaignLet(p)
<1>1. CASE o \in DOMAIN campaign /\ campaign[o].state = "pending"
  BY <1>1, CampaignState DEF Canceled
<1>2. CASE ~(o \in DOMAIN campaign /\ campaign[o].state = "pending")
  BY <1>2, CampaignsBe DEF Canceled
<1>3. QED
  BY <1>1, <1>2

LEMMA ReleaseStep ==
  ASSUME IInv, NEW c \in Calls, Release(c)
  PROVE  IInv'
<1>1. /\ call[c].pc = "release" /\ (place' = Released(call[c].order) \/ UNCHANGED place)
      /\ Go(c, "cancel") /\ UNCHANGED <<order, sub, campaign, commerce, invoice, applying>>
  BY DEF Release, At, External
<1>2. TypeOK
  BY DEF IInv
<1>3. place' \in [1 .. Places -> Place] /\ \A n \in 1 .. Places : PlaceLet(n)
  BY <1>1, <1>2, PlacesReleased, PlacesBe
<1>4. Grow
  BY <1>1, <1>2, <1>3, CampaignsBe, GrantsSet
<1>5. call' \in [Calls -> Call] /\ CallsKnown'
  BY <1>1, <1>4, CallGoes DEF Steps, AgentSteps
<1>6. QED
  BY <1>1, <1>2, <1>3, <1>5, CampaignsBe, GrantsSet

LEMMA CancelStep ==
  ASSUME IInv, NEW c \in Calls, Cancel(c)
  PROVE  IInv'
<1>1. /\ campaign' = Canceled(call[c].order) \/ UNCHANGED campaign
      /\ Answer(c) /\ UNCHANGED <<order, sub, place, commerce, invoice, applying>>
  BY DEF Cancel, External
<1>2. TypeOK
  BY DEF IInv
<1>3. /\ DOMAIN campaign' = DOMAIN campaign /\ campaign' = [p \in DOMAIN campaign |-> campaign'[p]]
      /\ \A p \in DOMAIN campaign : CampaignLet(p)
  BY <1>1, <1>2, CampaignsCanceled, CampaignsBe
<1>4. Grow
  BY <1>1, <1>2, <1>3, PlacesBe, GrantsSet
<1>5. call' \in [Calls -> Call] /\ CallsKnown'
  BY <1>1, <1>4, CallAnswers
<1>6. QED
  BY <1>1, <1>2, <1>3, <1>5, PlacesBe, GrantsSet

LEMMA RunsOutStep ==
  ASSUME IInv, NEW n \in 1 .. Places, ReservationRunsOut(n)
  PROVE  IInv'
<1>1. /\ place' = [place EXCEPT ![n].due = TRUE]
      /\ UNCHANGED <<order, sub, campaign, commerce, call, invoice, applying>>
  BY DEF ReservationRunsOut, External
<1>2. TypeOK
  BY DEF IInv
<1>3. place' \in [1 .. Places -> Place] /\ \A m \in 1 .. Places : PlaceLet(m)
  <2>1. place \in [1 .. Places -> Place] /\ place[n] \in Place
    BY <1>2 DEF TypeOK, TablesTypeOK
  <2>2. /\ place'[n] \in Place /\ place'[n].order = place[n].order /\ place'[n].status = place[n].status
        /\ \A m \in (1 .. Places) \ {n} : place'[m] = place[m]
        /\ place' \in [1 .. Places -> Place]
    BY <1>1, <2>1 DEF Place
  <2>3. QED
    BY <2>1, <2>2 DEF PlaceLet
<1>4. Grow
  BY <1>1, <1>2, <1>3, CampaignsBe, GrantsSet
<1>5. call' \in [Calls -> Call] /\ CallsKnown'
  BY <1>1, <1>4, CallsStay DEF IInv, TypeOK
<1>6. QED
  BY <1>1, <1>2, <1>3, <1>5, CampaignsBe, GrantsSet

LEMMA CampaignEndsStep ==
  ASSUME IInv, NEW o \in OrderIds, CampaignEnds(o)
  PROVE  IInv'
<1>1. /\ o \in DOMAIN campaign /\ campaign[o].state = "running"
      /\ campaign' = [campaign EXCEPT ![o].state = "over"]
      /\ UNCHANGED <<order, sub, place, commerce, call, invoice, applying>>
  BY DEF CampaignEnds, External
<1>2. TypeOK
  BY DEF IInv
<1>3. /\ DOMAIN campaign' = DOMAIN campaign /\ campaign' = [p \in DOMAIN campaign |-> campaign'[p]]
      /\ \A p \in DOMAIN campaign : CampaignLet(p)
  BY <1>1, <1>2, CampaignState
<1>4. Grow
  BY <1>1, <1>2, <1>3, PlacesBe, GrantsSet
<1>5. call' \in [Calls -> Call] /\ CallsKnown'
  BY <1>1, <1>4, CallsStay DEF IInv, TypeOK
<1>6. QED
  BY <1>1, <1>2, <1>3, <1>5, PlacesBe, GrantsSet

-----------------------------------------------------------------------------
(***************************************************************************)
(* New orders.                                                             *)
(***************************************************************************)
\* What a new order may come with: a reserved place, a pending campaign, a
\* commerce order without a receipt.
PlaceTaken(n, o) ==
  /\ place[n].status \in {"open", "reserved"}
  /\ place'[n] = [status |-> "reserved", order |-> o, due |-> FALSE]

FirstCommerce(o) == [order |-> o, state |-> "pending", attempts |-> 0, receipt |-> None]

OrderIsNew(o, kind, who) ==
  /\ InsertOrder(o, kind, who)
  /\ place' \in [1 .. Places -> Place]
  /\ \A n \in 1 .. Places : PlaceLet(n) \/ (kind = "fame" /\ PlaceTaken(n, o))
  /\ \/ campaign' = campaign
     \/ kind = "highlight" /\ campaign' = Put(campaign, o, [state |-> "pending", start |-> 0])
  /\ \/ UNCHANGED commerce
     \/ \E k \in Keys \ DOMAIN commerce : commerce' = Put(commerce, k, FirstCommerce(o))
  /\ UNCHANGED <<sub, invoice, applying>>

LEMMA NewRows ==
  ASSUME IInv, NEW o \in OrderIds, NEW kind \in AllKinds, NEW who \in Members, OrderIsNew(o, kind, who)
  PROVE  /\ o \notin DOMAIN order /\ DOMAIN order' = DOMAIN order \cup {o}
         /\ order' \in [DOMAIN order' -> OrderRow] /\ DOMAIN order' \subseteq OrderIds
         /\ order'[o] = NewOrder(kind, who) /\ \A p \in DOMAIN order : order'[p] = order[p]
<1> DEFINE v == NewOrder(kind, who)
<1>1. v \in OrderRow
  BY DEF NewOrder, OrderRow, Statuses
<1>2. o \notin DOMAIN order /\ order' = Put(order, o, v)
  BY DEF OrderIsNew, InsertOrder
<1>3. order \in [DOMAIN order -> OrderRow] /\ DOMAIN order \subseteq OrderIds
  BY DEF IInv, TypeOK, TablesTypeOK
<1> HIDE DEF v
<1>4. /\ DOMAIN order' = DOMAIN order \cup {o} /\ order'[o] = v
      /\ \A p \in DOMAIN order : order'[p] = order[p]
      /\ order' = [p \in DOMAIN order \cup {o} |-> order'[p]]
  BY <1>2 DEF Put
<1>5. \A p \in DOMAIN order' : order'[p] \in OrderRow
  BY <1>1, <1>3, <1>4
<1>6. order' \in [DOMAIN order' -> OrderRow]
  BY <1>4, <1>5
<1>7. QED
  BY <1>2, <1>3, <1>4, <1>6 DEF v

LEMMA NewGrants ==
  ASSUME IInv, NEW o \in OrderIds, NEW kind \in AllKinds, NEW who \in Members, OrderIsNew(o, kind, who)
  PROVE  /\ campaign' \in [DOMAIN campaign' -> Campaign] /\ DOMAIN campaign' \subseteq DOMAIN order'
         /\ DOMAIN campaign' \subseteq DOMAIN campaign \cup {o} /\ DOMAIN campaign \subseteq DOMAIN campaign'
         /\ \A p \in DOMAIN campaign : campaign'[p] = campaign[p]
         /\ o \in DOMAIN campaign' => campaign'[o].state = "pending" /\ campaign'[o].start = 0 /\ kind = "highlight"
         /\ commerce' \in [DOMAIN commerce' -> Commerce] /\ DOMAIN commerce' \subseteq Keys
         /\ DOMAIN commerce \subseteq DOMAIN commerce'
         /\ \A k \in DOMAIN commerce : commerce'[k] = commerce[k]
         /\ \A k \in DOMAIN commerce' \ DOMAIN commerce : commerce'[k].order = o /\ commerce'[k].receipt = None
<1>1. o \notin DOMAIN order /\ DOMAIN order' = DOMAIN order \cup {o}
  BY NewRows
<1>2. campaign \in [DOMAIN campaign -> Campaign] /\ DOMAIN campaign \subseteq DOMAIN order
  BY DEF IInv, TypeOK, TablesTypeOK
<1>3. commerce \in [DOMAIN commerce -> Commerce] /\ DOMAIN commerce \subseteq Keys
  BY DEF IInv, TypeOK, TablesTypeOK
<1>4. /\ campaign' \in [DOMAIN campaign' -> Campaign] /\ DOMAIN campaign' \subseteq DOMAIN order'
      /\ DOMAIN campaign' \subseteq DOMAIN campaign \cup {o} /\ DOMAIN campaign \subseteq DOMAIN campaign'
      /\ \A p \in DOMAIN campaign : campaign'[p] = campaign[p]
      /\ o \in DOMAIN campaign' => campaign'[o].state = "pending" /\ campaign'[o].start = 0 /\ kind = "highlight"
  <2> DEFINE v == [state |-> "pending", start |-> 0]
  <2>1. CASE campaign' = campaign
    BY <1>1, <1>2, <2>1
  <2>2. CASE kind = "highlight" /\ campaign' = Put(campaign, o, v)
    <3>1. v \in Campaign /\ v.state = "pending" /\ v.start = 0
      BY DEF Campaign
    <3> HIDE DEF v
    <3>2. /\ DOMAIN campaign' = DOMAIN campaign \cup {o} /\ campaign'[o] = v
          /\ \A p \in DOMAIN campaign \ {o} : campaign'[p] = campaign[p]
          /\ campaign' = [p \in DOMAIN campaign \cup {o} |-> campaign'[p]]
      BY <2>2 DEF Put
    <3>3. \A p \in DOMAIN campaign' : campaign'[p] \in Campaign
      BY <1>2, <3>1, <3>2
    <3>4. campaign' \in [DOMAIN campaign' -> Campaign]
      BY <3>2, <3>3
    <3>5. QED
      BY <1>1, <1>2, <2>2, <3>1, <3>2, <3>4
  <2>3. QED
    BY <2>1, <2>2 DEF OrderIsNew
<1>5. /\ commerce' \in [DOMAIN commerce' -> Commerce] /\ DOMAIN commerce' \subseteq Keys
      /\ DOMAIN commerce \subseteq DOMAIN commerce'
      /\ \A k \in DOMAIN commerce : commerce'[k] = commerce[k]
      /\ \A k \in DOMAIN commerce' \ DOMAIN commerce : commerce'[k].order = o /\ commerce'[k].receipt = None
  <2> DEFINE v == FirstCommerce(o)
  <2>1. CASE commerce' = commerce
    BY <1>3, <2>1
  <2>2. ASSUME NEW k \in Keys \ DOMAIN commerce, commerce' = Put(commerce, k, v)
        PROVE  /\ commerce' \in [DOMAIN commerce' -> Commerce] /\ DOMAIN commerce' \subseteq Keys
               /\ DOMAIN commerce \subseteq DOMAIN commerce'
               /\ \A j \in DOMAIN commerce : commerce'[j] = commerce[j]
               /\ \A j \in DOMAIN commerce' \ DOMAIN commerce : commerce'[j].order = o /\ commerce'[j].receipt = None
    <3>1. v \in Commerce /\ v.order = o /\ v.receipt = None
      BY AttemptsAreNumbers DEF Commerce, CreateStates, FirstCommerce
    <3> HIDE DEF v
    <3>2. /\ DOMAIN commerce' = DOMAIN commerce \cup {k} /\ commerce'[k] = v
          /\ \A j \in DOMAIN commerce : commerce'[j] = commerce[j]
          /\ commerce' = [j \in DOMAIN commerce \cup {k} |-> commerce'[j]]
      BY <2>2 DEF Put
    <3>3. \A j \in DOMAIN commerce' : commerce'[j] \in Commerce
      BY <1>3, <3>1, <3>2
    <3>4. commerce' \in [DOMAIN commerce' -> Commerce]
      BY <3>2, <3>3
    <3>5. QED
      BY <1>3, <2>2, <3>1, <3>2, <3>4
  <2>3. QED
    BY <2>1, <2>2 DEF OrderIsNew
<1>6. QED
  BY <1>4, <1>5

LEMMA OrderInserted ==
  ASSUME IInv, NEW o \in OrderIds, NEW kind \in AllKinds, NEW who \in Members, OrderIsNew(o, kind, who)
  PROVE  Grow /\ (call' \in [Calls -> Call] /\ CallsKnown' => IInv')
<1>1. /\ o \notin DOMAIN order /\ DOMAIN order' = DOMAIN order \cup {o}
      /\ order' \in [DOMAIN order' -> OrderRow] /\ DOMAIN order' \subseteq OrderIds
      /\ order'[o] = NewOrder(kind, who) /\ \A p \in DOMAIN order : order'[p] = order[p]
  BY NewRows
<1>2. /\ campaign' \in [DOMAIN campaign' -> Campaign] /\ DOMAIN campaign' \subseteq DOMAIN order'
      /\ DOMAIN campaign' \subseteq DOMAIN campaign \cup {o} /\ DOMAIN campaign \subseteq DOMAIN campaign'
      /\ \A p \in DOMAIN campaign : campaign'[p] = campaign[p]
      /\ o \in DOMAIN campaign' => campaign'[o].state = "pending" /\ campaign'[o].start = 0
      /\ commerce' \in [DOMAIN commerce' -> Commerce] /\ DOMAIN commerce' \subseteq Keys
      /\ DOMAIN commerce \subseteq DOMAIN commerce'
      /\ \A k \in DOMAIN commerce : commerce'[k] = commerce[k]
      /\ \A k \in DOMAIN commerce' \ DOMAIN commerce : commerce'[k].order = o /\ commerce'[k].receipt = None
  BY NewGrants
<1>3. /\ place' \in [1 .. Places -> Place] /\ \A n \in 1 .. Places : PlaceLet(n) \/ PlaceTaken(n, o)
      /\ UNCHANGED <<sub, invoice, applying>>
  BY DEF OrderIsNew
<1>4. Grow
  BY <1>1, <1>2, <1>3 DEF Grow
<1>5. ASSUME call' \in [Calls -> Call], CallsKnown' PROVE IInv'
  <2>1. TypeOK'
    BY <1>1, <1>2, <1>3, <1>5 DEF IInv, TypeOK, TablesTypeOK
  <2>2. RowsKnown'
    <3>1. order'[o].pid = None /\ order'[o].status = "open"
      BY <1>1 DEF NewOrder
    <3>2. QED
      BY <1>1, <1>3, <3>1 DEF IInv, RowsKnown, RowKnown
  <2>3. CommerceKnown'
    BY <1>1, <1>2 DEF IInv, CommerceKnown
  <2>4. PlacesKnown'
    BY <1>1, <1>3 DEF IInv, PlacesKnown, PlaceLet, PlaceTaken, OpenPlace
  <2>5. ApplyingKnown'
    BY <1>1, <1>3 DEF IInv, ApplyingKnown, TypeOK
  <2>6. TermsBounded'
    <3>1. PICK b \in Nat : /\ \A i \in DOMAIN sub : sub[i].end <= b
                           /\ \A p \in DOMAIN campaign : campaign[p].start <= b
                           /\ \A p \in DOMAIN applying : applying[p].start <= b
      BY DEF IInv, TermsBounded
    <3>2. \A p \in DOMAIN campaign' : campaign'[p].start <= b
      BY <1>2, <3>1
    <3>3. QED
      BY <1>3, <3>1, <3>2 DEF TermsBounded
  <2>7. GrantsArePaid' /\ GrantsKnown'
    <3>1. \A n \in 1 .. Places : place'[n].status \in {"active", "retired"} =>
            place[n].status \in {"active", "retired"} /\ place'[n].order = place[n].order
      BY <1>3 DEF PlaceLet, PlaceTaken, OpenPlace
    <3>2. \A p \in DOMAIN campaign' : campaign'[p].state \in {"running", "over", "refunded"} =>
            p \in DOMAIN campaign /\ campaign[p].state \in {"running", "over", "refunded"}
      BY <1>2
    <3>3. \A k \in DOMAIN commerce' : commerce'[k].receipt # None =>
            k \in DOMAIN commerce /\ commerce'[k].receipt = commerce[k].receipt
      BY <1>2
    <3>4. \A i \in DOMAIN sub' \ DOMAIN sub : i \in DOMAIN invoice' /\ "finished" \in invoice'[i].said
      BY <1>3
    <3>5. QED
      BY <1>4, <3>1, <3>2, <3>3, <3>4, GrantsStay DEF IInv
  <2>8. QED
    BY <1>5, <2>1, <2>2, <2>3, <2>4, <2>5, <2>6, <2>7 DEF IInv
<1>6. QED
  BY <1>4, <1>5

\* The caller gets an order, and its key.
LEMMA CallTakes ==
  ASSUME IInv, Grow, NEW c \in Calls, NEW r \in Call, call' = [call EXCEPT ![c] = r],
         r.pc \in {"claim", "look"}, r.order \in DOMAIN order',
         r.pc = "look" => r.key \in DOMAIN commerce' /\ commerce'[r.key].order = r.order
  PROVE  call' \in [Calls -> Call] /\ CallsKnown'
<1>1. call' \in [Calls -> Call] /\ call'[c] = r /\ \A d \in Calls \ {c} : call'[d] = call[d]
  BY DEF IInv, TypeOK
<1>2. CallKnown(c)'
  BY <1>1 DEF CallKnown, AgentSteps
<1>3. QED
  BY <1>1, <1>2, CallsStay DEF IInv

LEMMA SweptLets ==
  ASSUME TypeOK, place' = Swept
  PROVE  place' \in [1 .. Places -> Place] /\ \A n \in 1 .. Places : PlaceLet(n)
BY SweptPlaces DEF PlaceLet, TypeOK, TablesTypeOK

LEMMA PlaceReserved ==
  ASSUME TypeOK, NEW o \in OrderIds, NEW who, ReservePlace(o, who)
  PROVE  /\ place' \in [1 .. Places -> Place] /\ \A n \in 1 .. Places : PlaceLet(n) \/ PlaceTaken(n, o)
         /\ InsertOrder(o, "fame", who) /\ UNCHANGED campaign
<1> DEFINE m == Min(OpenNumbers)
           v == [status |-> "reserved", order |-> o, due |-> FALSE]
<1>1. /\ OpenNumbers # {} /\ place' = [Swept EXCEPT ![m] = v]
      /\ InsertOrder(o, "fame", who) /\ UNCHANGED campaign
  BY DEF ReservePlace
<1>2. m \in 1 .. Places /\ Swept[m].status = "open"
  BY <1>1, PlaceIsOpen
<1>3. v \in Place
  BY DEF Place
<1> HIDE DEF m, v
<1>4. /\ Swept \in [1 .. Places -> Place]
      /\ \A n \in 1 .. Places : \/ Swept[n] = place[n]
                                \/ place[n].status = "reserved" /\ Swept[n] = OpenPlace
  BY SweptPlaces
<1>5. /\ place' \in [1 .. Places -> Place] /\ place'[m] = v
      /\ \A n \in (1 .. Places) \ {m} : place'[n] = Swept[n]
  BY <1>1, <1>2, <1>3, <1>4
<1>6. PlaceTaken(m, o)
  BY <1>2, <1>4, <1>5 DEF PlaceTaken, v
<1>7. \A n \in (1 .. Places) \ {m} : PlaceLet(n)
  BY <1>4, <1>5 DEF PlaceLet, TypeOK, TablesTypeOK
<1>8. QED
  BY <1>1, <1>5, <1>6, <1>7

LEMMA CheckoutStep ==
  ASSUME IInv, NEW c \in Calls, NEW who \in Humans, NEW kind \in Kinds, NEW o \in OrderIds,
         Checkout(c, who, kind, o)
  PROVE  IInv'
<1> DEFINE r == [Idle EXCEPT !.pc = "claim", !.order = o]
<1>1. /\ IF kind = "fame" THEN TakePlace(o, who) ELSE TakeOrder(o, kind, who)
      /\ call' = [call EXCEPT ![c] = r] /\ UNCHANGED <<sub, commerce, invoice, applying>>
  BY DEF Checkout, External
<1>2. r \in Call /\ r.pc = "claim" /\ r.order = o
  BY DEF Idle, Call, Steps, Statuses
<1>3. TypeOK /\ who \in Members /\ kind \in AllKinds
  BY KindsAreKnown, BuyersAreMembers DEF IInv
<1> HIDE DEF r
<1>4. CASE OrderIsNew(o, kind, who)
  <2>1. o \in DOMAIN order'
    BY <1>3, <1>4, NewRows
  <2>2. Grow /\ (call' \in [Calls -> Call] /\ CallsKnown' => IInv')
    BY <1>3, <1>4, OrderInserted
  <2>3. QED
    BY <1>1, <1>2, <2>1, <2>2, CallTakes
<1>5. CASE o \in DOMAIN order /\ UNCHANGED <<order, campaign>> /\ (UNCHANGED place \/ place' = Swept)
  <2>1. place' \in [1 .. Places -> Place] /\ \A n \in 1 .. Places : PlaceLet(n)
    BY <1>3, <1>5, PlacesBe, SweptLets
  <2>2. Grow /\ (call' \in [Calls -> Call] /\ CallsKnown' => IInv')
    BY <1>1, <1>3, <1>5, <2>1, CampaignsBe, GrantsSet
  <2>3. QED
    BY <1>1, <1>2, <1>5, <2>2, CallTakes
<1>6. ASSUME kind = "fame", TakePlace(o, who) PROVE IInv'
  <2>1. CASE ReservePlace(o, who)
    <3>1. OrderIsNew(o, kind, who)
      BY <1>1, <1>3, <1>6, <2>1, PlaceReserved DEF OrderIsNew
    <3>2. QED
      BY <1>4, <3>1
  <2>2. ASSUME NEW n \in PlacesOf(who, {"reserved"}), o = place[n].order, place' = Swept,
               UNCHANGED <<order, campaign>>
        PROVE  IInv'
    <3>1. n \in 1 .. Places /\ Swept[n].status = "reserved"
      BY <2>2 DEF PlacesOf
    <3>2. place[n].status = "reserved"
      BY <1>3, <3>1, SweptPlaces DEF OpenPlace
    <3>3. o \in DOMAIN order
      BY <2>2, <3>1, <3>2 DEF IInv, PlacesKnown
    <3>4. QED
      BY <1>5, <2>2, <3>3
  <2>3. QED
    BY <1>6, <2>1, <2>2 DEF TakePlace
<1>7. ASSUME kind # "fame", TakeOrder(o, kind, who) PROVE IInv'
  <2>1. CASE o \in Reusable(kind, who) /\ UNCHANGED <<order, place, campaign>>
    BY <1>5, <2>1 DEF Reusable
  <2>2. CASE kind = "plan" /\ InsertPlan(o, who)
    <3>1. OrderIsNew(o, kind, who)
      BY <1>1, <1>3, <2>2, PlacesBe DEF OrderIsNew, InsertPlan
    <3>2. QED
      BY <1>4, <3>1
  <2>3. CASE kind = "highlight" /\ InsertHighlight(o, who)
    <3>1. OrderIsNew(o, kind, who)
      BY <1>1, <1>3, <2>3, PlacesBe DEF OrderIsNew, InsertHighlight
    <3>2. QED
      BY <1>4, <3>1
  <2>4. QED
    BY <1>7, <2>1, <2>2, <2>3 DEF TakeOrder
<1>8. QED
  BY <1>1, <1>6, <1>7

LEMMA AgentOrderStep ==
  ASSUME IInv, NEW c \in Calls, NEW who \in Agents, NEW k \in Keys, NEW kind \in Kinds,
         NEW o \in OrderIds, AgentOrder(c, who, k, kind, o)
  PROVE  IInv'
<1> DEFINE r == [Idle EXCEPT !.pc = "look", !.order = o, !.key = k]
<1>1. /\ CreateCommerceOrder(k, o, kind, who) /\ call' = [call EXCEPT ![c] = r]
      /\ UNCHANGED <<invoice, applying>>
  BY DEF AgentOrder, External
<1>2. r \in Call /\ r.pc = "look" /\ r.order = o /\ r.key = k
  BY DEF Idle, Call, Steps, Statuses
<1>3. TypeOK /\ who \in Members /\ kind \in AllKinds
  BY KindsAreKnown, BuyersAreMembers DEF IInv
<1> HIDE DEF r
<1>4. ASSUME k \in DOMAIN commerce, o = commerce[k].order, UNCHANGED tables PROVE IInv'
  <2>1. Grow
    BY <1>1, <1>4, NothingLost
  <2>2. o \in DOMAIN order' /\ UNCHANGED commerce
    BY <1>4 DEF IInv, CommerceKnown, tables
  <2>3. call' \in [Calls -> Call] /\ CallsKnown'
    BY <1>1, <1>2, <1>4, <2>1, <2>2, CallTakes
  <2>4. QED
    BY <1>1, <1>4, <2>3, OnlyCall
<1>5. ASSUME k \notin DOMAIN commerce, commerce' = Put(commerce, k, FirstCommerce(o)), UNCHANGED sub,
             InsertOrder(o, kind, who),
             place' \in [1 .. Places -> Place],
             \A n \in 1 .. Places : PlaceLet(n) \/ (kind = "fame" /\ PlaceTaken(n, o)),
             \/ campaign' = campaign
             \/ kind = "highlight" /\ campaign' = Put(campaign, o, [state |-> "pending", start |-> 0])
      PROVE  IInv'
  <2>1. OrderIsNew(o, kind, who)
    BY <1>1, <1>5 DEF OrderIsNew
  <2>2. Grow /\ (call' \in [Calls -> Call] /\ CallsKnown' => IInv')
    BY <1>3, <2>1, OrderInserted
  <2>3. o \in DOMAIN order'
    BY <1>3, <2>1, NewRows
  <2>4. k \in DOMAIN commerce' /\ commerce'[k].order = o
    BY <1>5 DEF Put, FirstCommerce
  <2>5. QED
    BY <1>1, <1>2, <2>2, <2>3, <2>4, CallTakes
<1>6. ASSUME k \notin DOMAIN commerce, commerce' = Put(commerce, k, FirstCommerce(o)), UNCHANGED sub,
             \/ kind = "plan" /\ InsertPlan(o, who)
             \/ kind = "highlight" /\ InsertHighlight(o, who)
             \/ kind = "fame" /\ ReservePlace(o, who)
      PROVE  IInv'
  <2>1. CASE kind = "plan" /\ InsertPlan(o, who)
    BY <1>3, <1>5, <1>6, <2>1, PlacesBe DEF InsertPlan
  <2>2. CASE kind = "highlight" /\ InsertHighlight(o, who)
    BY <1>3, <1>5, <1>6, <2>2, PlacesBe DEF InsertHighlight
  <2>3. CASE kind = "fame" /\ ReservePlace(o, who)
    BY <1>3, <1>5, <1>6, <2>3, PlaceReserved
  <2>4. QED
    BY <1>6, <2>1, <2>2, <2>3
<1>7. QED
  BY <1>1, <1>4, <1>6 DEF CreateCommerceOrder, FirstCommerce

-----------------------------------------------------------------------------
(***************************************************************************)
(* A status is applied.                                                    *)
(***************************************************************************)
\* The order whose status is applied, and what it becomes.
LEMMA StatusApplied ==
  ASSUME IInv, NEW o \in OrderIds, Apply(o)
  PROVE  LET i   == order[o].pid
             old == order[o].status
             s   == EffectiveStatus(old, applying[o].status)
         IN /\ o \in DOMAIN order /\ o \in DOMAIN applying /\ order[o] \in OrderRow /\ applying[o] \in Applying
            /\ i \in DOMAIN invoice /\ i # None /\ invoice[i].order = o
            /\ s \in Statuses
            /\ s = "finished" /\ old # "finished" => "finished" \in invoice[i].said
            /\ old = "finished" => s \in {"finished", "refunded"}
            /\ old = "refunded" => s = "refunded"
            /\ WithStatus(o, s)
            /\ \/ s = "finished" /\ old # "finished" /\ CanGrant(o) /\ Grant(o, applying[o].start)
               \/ s = "refunded" /\ old = "finished" /\ CanClose(o) /\ Close(o)
               \/ s \in {"lapsed", "refunded"} /\ old # "finished" /\ LetGo(o)
               \/ s = old /\ s \in {"finished", "refunded"} /\ UNCHANGED <<sub, place, campaign>>
               \/ s = "open" /\ old # "finished" /\ UNCHANGED <<sub, place, campaign>>
            /\ Dropped(o) /\ UNCHANGED <<call, invoice>>
<1> DEFINE i   == order[o].pid
           old == order[o].status
           new == applying[o].status
           s   == EffectiveStatus(old, new)
<1>1. /\ o \in DOMAIN applying /\ ApplyStatus(o, new, applying[o].start)
      /\ Dropped(o) /\ UNCHANGED <<call, invoice>>
  BY DEF Apply
<1>2. o \in DOMAIN order /\ order[o] \in OrderRow /\ applying[o] \in Applying
  BY <1>1 DEF IInv, TypeOK, TablesTypeOK
<1>3. i \in DOMAIN invoice /\ i # None /\ invoice[i].order = o /\ new \in invoice[i].said
  BY <1>1, <1>2 DEF IInv, RowsKnown, RowKnown, ApplyingKnown
<1>4. old \in Statuses /\ new \in Statuses
  BY <1>2 DEF OrderRow, Applying
<1>5. /\ s \in Statuses
      /\ s = "finished" /\ old # "finished" => new = "finished"
      /\ old = "finished" => s \in {"finished", "refunded"}
      /\ old = "refunded" => s = "refunded"
  BY <1>4 DEF EffectiveStatus, Statuses
<1>6. WithStatus(o, s)
  BY <1>1 DEF ApplyStatus
<1>7. (CASE s = "finished" /\ old # "finished" -> CanGrant(o) /\ Grant(o, applying[o].start)
        [] s = "refunded" /\ old = "finished" -> CanClose(o) /\ Close(o)
        [] s \in {"lapsed", "refunded"} /\ old # "finished" -> LetGo(o)
        [] OTHER -> UNCHANGED <<sub, place, campaign>>)
  BY <1>1 DEF ApplyStatus
<1> HIDE DEF s, old, new, i
<1>8. \/ s = "finished" /\ old # "finished" /\ CanGrant(o) /\ Grant(o, applying[o].start)
      \/ s = "refunded" /\ old = "finished" /\ CanClose(o) /\ Close(o)
      \/ s \in {"lapsed", "refunded"} /\ old # "finished" /\ LetGo(o)
      \/ s = old /\ s \in {"finished", "refunded"} /\ UNCHANGED <<sub, place, campaign>>
      \/ s = "open" /\ old # "finished" /\ UNCHANGED <<sub, place, campaign>>
  <2>1. CASE s = "finished" /\ old # "finished"
    BY <1>7, <2>1
  <2>2. CASE s = "refunded" /\ old = "finished"
    BY <1>7, <2>2
  <2>3. CASE s \in {"lapsed", "refunded"} /\ old # "finished"
    BY <1>7, <2>3
  <2>4. CASE s = "finished" /\ old = "finished"
    BY <1>7, <2>4
  <2>5. CASE s = "open" /\ old # "finished"
    BY <1>7, <2>5
  <2>6. QED
    BY <1>4, <1>5, <2>1, <2>2, <2>3, <2>4, <2>5 DEF Statuses
<1>9. s = "finished" /\ old # "finished" => "finished" \in invoice[i].said
  BY <1>3, <1>5
<1>10. QED
  BY <1>1, <1>2, <1>3, <1>5, <1>6, <1>8, <1>9 DEF s, old, new, i

\* Its row and the commerce orders, after.
LEMMA AppliedRows ==
  ASSUME IInv, NEW o \in DOMAIN order, NEW s \in Statuses, WithStatus(o, s)
  PROVE  /\ DOMAIN order' = DOMAIN order /\ order' \in [DOMAIN order -> OrderRow]
         /\ order'[o].status = s /\ order'[o].pid = order[o].pid
         /\ order'[o].who = order[o].who /\ order'[o].kind = order[o].kind /\ order'[o].claimed = order[o].claimed
         /\ \A p \in DOMAIN order \ {o} : order'[p] = order[p]
         /\ DOMAIN commerce' = DOMAIN commerce /\ commerce' \in [DOMAIN commerce -> Commerce]
         /\ \A k \in DOMAIN commerce :
              /\ commerce'[k].order = commerce[k].order /\ commerce'[k].attempts = commerce[k].attempts
              /\ commerce'[k].receipt =
                   IF /\ commerce[k].order = o /\ s = "finished" /\ order[o].status # "finished"
                      /\ commerce[k].receipt = None
                   THEN order[o].pid ELSE commerce[k].receipt
<1> DEFINE row == [order[o] EXCEPT !.status = s]
           new == [order EXCEPT ![o] = row]
<1>1. order[o] \in OrderRow /\ order \in [DOMAIN order -> OrderRow]
  BY DEF IInv, TypeOK, TablesTypeOK
<1>2. order' = new /\ commerce' = Captured(new)
  BY DEF WithStatus, WriteOrder
<1>3. /\ row \in OrderRow /\ row.status = s /\ row.pid = order[o].pid
      /\ row.who = order[o].who /\ row.kind = order[o].kind /\ row.claimed = order[o].claimed
  BY <1>1 DEF OrderRow
<1> HIDE DEF row
<1>4. /\ DOMAIN new = DOMAIN order /\ new \in [DOMAIN order -> OrderRow]
      /\ new[o] = row /\ \A p \in DOMAIN order \ {o} : new[p] = order[p]
  BY <1>1, <1>3
<1> HIDE DEF new
<1>5. \A k \in DOMAIN commerce : commerce[k].order \in DOMAIN order
  BY DEF IInv, CommerceKnown
<1>6. /\ DOMAIN commerce' = DOMAIN commerce /\ commerce' \in [DOMAIN commerce -> Commerce]
      /\ \A k \in DOMAIN commerce :
           /\ commerce'[k].order = commerce[k].order /\ commerce'[k].attempts = commerce[k].attempts
           /\ commerce'[k].receipt =
                IF /\ new[commerce[k].order].status = "finished" /\ order[commerce[k].order].status # "finished"
                   /\ commerce[k].receipt = None
                THEN new[commerce[k].order].pid ELSE commerce[k].receipt
  BY <1>2, <1>4, CapturedRows DEF IInv
<1>7. QED
  BY <1>2, <1>3, <1>4, <1>5, <1>6

\* The first finished status of its payment reaches the order.
Granting(o) ==
  /\ order[o].status # "finished" /\ order'[o].status = "finished"
  /\ order[o].pid \in DOMAIN invoice /\ invoice[order[o].pid].order = o
  /\ "finished" \in invoice[order[o].pid].said

\* The grants a status may leave.
PlaceApplied(n, o) ==
  /\ place'[n] \in Place /\ place'[n].order = o /\ place[n].order = o
  /\ \/ place[n].status = "reserved" /\ place'[n].status = "active" /\ Granting(o)
     \/ place[n].status = "active" /\ place'[n].status = "retired"

CampaignApplied(p, o, start) ==
  /\ p = o
  /\ campaign'[o] \in Campaign /\ campaign'[o].start \in {start, campaign[o].start}
  /\ \/ campaign[o].state = "pending" /\ campaign'[o].state = "running" /\ Granting(o)
     \/ campaign[o].state = "over" /\ campaign'[o].state = "refunded"

SubsApplied(o, start) ==
  /\ DOMAIN sub \subseteq DOMAIN sub' /\ DOMAIN sub' \subseteq DOMAIN sub \cup {order[o].pid}
  /\ DOMAIN sub' = DOMAIN sub \/ Granting(o)
  /\ sub' = [j \in DOMAIN sub' |-> sub'[j]]
  /\ \A j \in DOMAIN sub' : /\ sub'[j] \in Sub
                            /\ (j \in DOMAIN sub /\ sub'[j] = sub[j]) \/ sub'[j].end \in {0, start + 1}

PlacesApplied(o) ==
  place' \in [1 .. Places -> Place] /\ \A n \in 1 .. Places : PlaceLet(n) \/ PlaceApplied(n, o)

CampaignsApplied(o, start) ==
  /\ DOMAIN campaign' = DOMAIN campaign /\ campaign' = [p \in DOMAIN campaign |-> campaign'[p]]
  /\ \A p \in DOMAIN campaign : CampaignLet(p) \/ CampaignApplied(p, o, start)

GrantsApplied(o, start) ==
  SubsApplied(o, start) /\ PlacesApplied(o) /\ CampaignsApplied(o, start)

LEMMA GrantsBe ==
  ASSUME TypeOK, NEW o, NEW start
  PROVE  /\ UNCHANGED sub => SubsApplied(o, start)
         /\ UNCHANGED place => PlacesApplied(o)
         /\ UNCHANGED campaign => CampaignsApplied(o, start)
<1>1. ASSUME UNCHANGED sub PROVE SubsApplied(o, start)
  BY <1>1 DEF SubsApplied, TypeOK, TablesTypeOK
<1>2. ASSUME UNCHANGED place PROVE PlacesApplied(o)
  BY <1>2, PlacesBe DEF PlacesApplied
<1>3. ASSUME UNCHANGED campaign PROVE CampaignsApplied(o, start)
  BY <1>3, CampaignsBe DEF CampaignsApplied
<1>4. QED
  BY <1>1, <1>2, <1>3

LEMMA PlacesSet ==
  ASSUME TypeOK, NEW o, NEW from, NEW to,
         (from = "reserved" /\ to = "active" /\ Granting(o)) \/ (from = "active" /\ to = "retired"), SetPlace(o, from, to)
  PROVE  PlacesApplied(o)
<1>1. to \in {"active", "retired"}
  OBVIOUS
<1>2. ASSUME NEW n \in 1 .. Places PROVE place'[n] \in Place /\ (PlaceLet(n) \/ PlaceApplied(n, o))
  <2>1. place[n] \in Place
    BY DEF TypeOK, TablesTypeOK
  <2>2. CASE place[n].order = o /\ place[n].status = from
    <3> DEFINE p == place[n]
    <3>1. place'[n] = [p EXCEPT !.status = to, !.due = FALSE]
      BY <2>2 DEF SetPlace
    <3> HIDE DEF p
    <3>2. place'[n] \in Place /\ place'[n].order = p.order /\ place'[n].status = to
      BY <1>1, <2>1, <3>1 DEF Place, p
    <3>3. QED
      BY <1>1, <2>2, <3>2 DEF PlaceApplied, p
  <2>3. CASE ~(place[n].order = o /\ place[n].status = from)
    BY <2>1, <2>3 DEF SetPlace, PlaceLet
  <2>4. QED
    BY <2>2, <2>3
<1>3. place' = [n \in 1 .. Places |-> place'[n]]
  BY DEF SetPlace
<1>4. QED
  BY <1>2, <1>3 DEF PlacesApplied

LEMMA PlanGranted ==
  ASSUME IInv, NEW o \in DOMAIN order, NEW start \in Nat, Granting(o), GrantPlan(o, start)
  PROVE  GrantsApplied(o, start)
<1> DEFINE i == order[o].pid
           v == [who |-> order[o].who, end |-> start + 1, active |-> TRUE]
<1>1. sub' = Put(sub, i, v) /\ UNCHANGED place /\ UNCHANGED campaign
  BY DEF GrantPlan
<1>2. v \in Sub /\ v.end = start + 1
  BY DEF IInv, TypeOK, TablesTypeOK, OrderRow, Sub
<1>3. sub \in [DOMAIN sub -> Sub] /\ TypeOK
  BY DEF IInv, TypeOK, TablesTypeOK
<1> HIDE DEF v, i
<1>4. /\ DOMAIN sub' = DOMAIN sub \cup {i} /\ sub'[i] = v
      /\ \A j \in DOMAIN sub \ {i} : sub'[j] = sub[j]
      /\ sub' = [j \in DOMAIN sub' |-> sub'[j]]
  BY <1>1 DEF Put
<1>5. ASSUME NEW j \in DOMAIN sub'
      PROVE  /\ sub'[j] \in Sub
             /\ (j \in DOMAIN sub /\ sub'[j] = sub[j]) \/ sub'[j].end \in {0, start + 1}
  BY <1>2, <1>3, <1>4
<1>6. /\ DOMAIN sub \subseteq DOMAIN sub' /\ DOMAIN sub' \subseteq DOMAIN sub \cup {order[o].pid}
      /\ sub' = [j \in DOMAIN sub' |-> sub'[j]]
  BY <1>4 DEF i
<1>7. SubsApplied(o, start)
  BY <1>5, <1>6 DEF SubsApplied
<1>8. QED
  BY <1>1, <1>3, <1>7, GrantsBe DEF GrantsApplied

LEMMA PlanClosed ==
  ASSUME IInv, NEW o \in DOMAIN order, NEW start \in Nat, ClosePlan(o)
  PROVE  GrantsApplied(o, start)
<1> DEFINE i == order[o].pid
<1>1. UNCHANGED place /\ UNCHANGED campaign /\ TypeOK /\ sub \in [DOMAIN sub -> Sub]
  BY DEF ClosePlan, IInv, TypeOK, TablesTypeOK
<1>2. /\ DOMAIN sub' = DOMAIN sub /\ sub' = [j \in DOMAIN sub' |-> sub'[j]]
      /\ \A j \in DOMAIN sub : sub'[j] = IF j = i THEN [sub[j] EXCEPT !.active = FALSE, !.end = 0] ELSE sub[j]
  BY DEF ClosePlan
<1>3. ASSUME NEW j \in DOMAIN sub'
      PROVE  /\ sub'[j] \in Sub
             /\ (j \in DOMAIN sub /\ sub'[j] = sub[j]) \/ sub'[j].end \in {0, start + 1}
  <2> DEFINE x == sub[j]
  <2>1. x \in Sub /\ sub'[j] = IF j = i THEN [x EXCEPT !.active = FALSE, !.end = 0] ELSE x
    BY <1>1, <1>2
  <2> DEFINE y == [x EXCEPT !.active = FALSE, !.end = 0]
  <2> HIDE DEF x
  <2>2. sub'[j] \in Sub /\ (sub'[j] = x \/ sub'[j].end = 0)
    <3>1. y \in Sub /\ y.end = 0
      BY <2>1 DEF Sub
    <3>2. sub'[j] = y \/ sub'[j] = x
      BY <2>1
    <3> HIDE DEF y
    <3>3. QED
      BY <2>1, <3>1, <3>2
  <2>3. QED
    BY <1>2, <2>2 DEF x
<1>4. SubsApplied(o, start)
  BY <1>2, <1>3 DEF SubsApplied
<1>5. QED
  BY <1>1, <1>4, GrantsBe DEF GrantsApplied

LEMMA PlaceGranted ==
  ASSUME IInv, NEW o \in DOMAIN order, NEW start \in Nat,
         (SetPlace(o, "reserved", "active") /\ Granting(o)) \/ SetPlace(o, "active", "retired")
  PROVE  GrantsApplied(o, start)
<1>1. UNCHANGED sub /\ UNCHANGED campaign /\ TypeOK
  BY DEF SetPlace, IInv
<1>2. PlacesApplied(o)
  BY <1>1, PlacesSet
<1>3. QED
  BY <1>1, <1>2, GrantsBe DEF GrantsApplied

LEMMA CampaignGranted ==
  ASSUME IInv, NEW o \in DOMAIN order, NEW start \in Nat, Granting(o),
         SetCampaign(o, "pending", [state |-> "running", start |-> start])
  PROVE  GrantsApplied(o, start)
<1> DEFINE v == [state |-> "running", start |-> start]
<1>1. UNCHANGED sub /\ UNCHANGED place /\ TypeOK /\ campaign \in [DOMAIN campaign -> Campaign]
  BY DEF SetCampaign, IInv, TypeOK, TablesTypeOK
<1>2. v \in Campaign /\ v.state = "running" /\ v.start = start
  BY DEF Campaign
<1>3. campaign' = IF campaign[o].state = "pending" THEN [campaign EXCEPT ![o] = v] ELSE campaign
  BY DEF SetCampaign
<1> HIDE DEF v
<1>4. /\ DOMAIN campaign' = DOMAIN campaign /\ campaign' = [p \in DOMAIN campaign |-> campaign'[p]]
      /\ \A p \in DOMAIN campaign :
           campaign'[p] = IF p = o /\ campaign[o].state = "pending" THEN v ELSE campaign[p]
  BY <1>1, <1>3
<1>5. \A p \in DOMAIN campaign : CampaignLet(p) \/ CampaignApplied(p, o, start)
  BY <1>1, <1>2, <1>4 DEF CampaignLet, CampaignApplied
<1>6. QED
  BY <1>1, <1>4, <1>5, GrantsBe DEF GrantsApplied, CampaignsApplied

LEMMA CampaignClosed ==
  ASSUME IInv, NEW o \in DOMAIN order, NEW start \in Nat, UNCHANGED <<sub, place>>,
         campaign' = [campaign EXCEPT ![o].state = IF @ = "over" THEN "refunded" ELSE @]
  PROVE  GrantsApplied(o, start)
<1> DEFINE st == IF campaign[o].state = "over" THEN "refunded" ELSE campaign[o].state
<1>1. TypeOK /\ campaign \in [DOMAIN campaign -> Campaign]
  BY DEF IInv, TypeOK, TablesTypeOK
<1>2. campaign' = [campaign EXCEPT ![o].state = st]
  OBVIOUS
<1>3. CASE o \in DOMAIN campaign /\ campaign[o].state = "over"
  <2>1. st = "refunded"
    BY <1>3
  <2> HIDE DEF st
  <2>2. campaign[o] \in Campaign
    BY <1>1, <1>3
  <2>3. /\ DOMAIN campaign' = DOMAIN campaign /\ campaign' = [p \in DOMAIN campaign |-> campaign'[p]]
        /\ campaign'[o] \in Campaign /\ campaign'[o].start = campaign[o].start /\ campaign'[o].state = "refunded"
        /\ \A p \in DOMAIN campaign \ {o} : campaign'[p] = campaign[p]
    BY <1>1, <1>2, <1>3, <2>1, <2>2 DEF Campaign
  <2>4. \A p \in DOMAIN campaign : CampaignLet(p) \/ CampaignApplied(p, o, start)
    BY <1>1, <1>3, <2>3 DEF CampaignLet, CampaignApplied
  <2>5. QED
    BY <1>1, <2>3, <2>4, GrantsBe DEF GrantsApplied, CampaignsApplied
<1>4. CASE o \in DOMAIN campaign /\ campaign[o].state # "over"
  <2>1. st = campaign[o].state /\ st \in {"pending", "running", "over", "canceled", "refunded"}
    BY <1>1, <1>4 DEF Campaign
  <2> HIDE DEF st
  <2>2. CampaignsApplied(o, start)
    BY <1>1, <1>2, <1>4, <2>1, CampaignState DEF CampaignsApplied
  <2>3. QED
    BY <1>1, <2>2, GrantsBe DEF GrantsApplied
<1>5. CASE o \notin DOMAIN campaign
  <2>1. UNCHANGED campaign
    BY <1>1, <1>2, <1>5
  <2>2. QED
    BY <1>1, <2>1, GrantsBe DEF GrantsApplied
<1>6. QED
  BY <1>3, <1>4, <1>5

LEMMA NothingGranted ==
  ASSUME IInv, NEW o \in DOMAIN order, NEW start \in Nat,
         UNCHANGED <<sub, place, campaign>> \/ LetGo(o)
  PROVE  GrantsApplied(o, start)
<1>1. TypeOK /\ UNCHANGED sub
  BY DEF IInv, LetGo
<1>2. UNCHANGED place \/ place' = Released(o)
  BY DEF LetGo
<1>3. UNCHANGED campaign \/ campaign' = Canceled(o)
  BY DEF LetGo
<1>4. PlacesApplied(o)
  BY <1>1, <1>2, PlacesBe, PlacesReleased DEF PlacesApplied
<1>5. CampaignsApplied(o, start)
  BY <1>1, <1>3, CampaignsBe, CampaignsCanceled DEF CampaignsApplied
<1>6. QED
  BY <1>1, <1>4, <1>5, GrantsBe DEF GrantsApplied

\* Only a finished payment grants, and its status is the one applied.
LEMMA ApplyGrants ==
  ASSUME IInv, NEW o \in OrderIds, Apply(o)
  PROVE  GrantsApplied(o, applying[o].start)
<1> DEFINE start == applying[o].start
           s     == EffectiveStatus(order[o].status, applying[o].status)
<1>1. /\ o \in DOMAIN order /\ order[o] \in OrderRow /\ applying[o] \in Applying /\ order[o].pid \in DOMAIN invoice
      /\ s \in Statuses /\ WithStatus(o, s) /\ invoice[order[o].pid].order = o
      /\ s = "finished" /\ order[o].status # "finished" => "finished" \in invoice[order[o].pid].said
  BY StatusApplied
<1>2. start \in Nat /\ order[o].kind \in AllKinds
  BY <1>1 DEF Applying, OrderRow
<1>3. \/ s = "finished" /\ order[o].status # "finished" /\ Grant(o, start)
      \/ Close(o)
      \/ LetGo(o)
      \/ UNCHANGED <<sub, place, campaign>>
  BY StatusApplied
<1>4. order'[o].status = s
  BY <1>1, AppliedRows
<1>5. ASSUME s = "finished", order[o].status # "finished", Grant(o, start)
      PROVE  GrantsApplied(o, start)
  <2>1. Granting(o)
    BY <1>1, <1>4, <1>5 DEF Granting
  <2>2. \/ order[o].kind = "plan" /\ GrantPlan(o, start)
        \/ order[o].kind = "fame" /\ SetPlace(o, "reserved", "active")
        \/ order[o].kind = "highlight" /\ SetCampaign(o, "pending", [state |-> "running", start |-> start])
    BY <1>2, <1>5 DEF Grant, AllKinds
  <2>3. QED
    BY <1>1, <1>2, <2>1, <2>2, PlanGranted, PlaceGranted, CampaignGranted
<1>6. CASE Close(o)
  <2>1. \/ order[o].kind = "plan" /\ ClosePlan(o)
        \/ order[o].kind = "fame" /\ SetPlace(o, "active", "retired")
        \/ /\ order[o].kind = "highlight" /\ UNCHANGED <<sub, place>>
           /\ campaign' \in {campaign, [campaign EXCEPT ![o].state = IF @ = "over" THEN "refunded" ELSE @]}
    BY <1>2, <1>6 DEF Close, AllKinds
  <2>2. QED
    BY <1>1, <1>2, <2>1, PlanClosed, PlaceGranted, CampaignClosed, NothingGranted
<1>7. QED
  BY <1>1, <1>2, <1>3, <1>5, <1>6, NothingGranted

LEMMA ApplyStep ==
  ASSUME IInv, NEW o \in OrderIds, Apply(o)
  PROVE  IInv'
<1> DEFINE start == applying[o].start
           s     == EffectiveStatus(order[o].status, applying[o].status)
<1>1. /\ o \in DOMAIN order /\ o \in DOMAIN applying /\ order[o] \in OrderRow /\ applying[o] \in Applying
      /\ order[o].pid \in DOMAIN invoice /\ order[o].pid # None /\ invoice[order[o].pid].order = o
      /\ s \in Statuses
      /\ s = "finished" /\ order[o].status # "finished" => "finished" \in invoice[order[o].pid].said
      /\ WithStatus(o, s) /\ Dropped(o) /\ UNCHANGED <<call, invoice>>
  BY StatusApplied
<1>2. SubsApplied(o, start) /\ PlacesApplied(o) /\ CampaignsApplied(o, start)
  BY ApplyGrants DEF GrantsApplied
<1>3. start \in Nat
  BY <1>1 DEF Applying
<1> HIDE DEF s, start
<1>4. /\ DOMAIN order' = DOMAIN order /\ order' \in [DOMAIN order -> OrderRow]
      /\ order'[o].status = s /\ order'[o].pid = order[o].pid
      /\ \A p \in DOMAIN order \ {o} : order'[p] = order[p]
      /\ DOMAIN commerce' = DOMAIN commerce /\ commerce' \in [DOMAIN commerce -> Commerce]
      /\ \A k \in DOMAIN commerce :
           /\ commerce'[k].order = commerce[k].order
           /\ \/ commerce'[k].receipt = commerce[k].receipt
              \/ commerce'[k].receipt = order[o].pid /\ s = "finished" /\ order[o].status # "finished"
  BY <1>1, AppliedRows
<1>5. Grow
  BY <1>1, <1>4 DEF Grow
<1>6. CallsKnown'
  BY <1>1, <1>5, CallsStay DEF IInv
<1>7. /\ DOMAIN applying' \subseteq DOMAIN applying /\ applying' \in [DOMAIN applying' -> Applying]
      /\ o \notin DOMAIN applying' /\ \A p \in DOMAIN applying' : applying'[p] = applying[p]
  BY <1>1, DroppedStatus
<1>8. TypeOK'
  <2>1. sub' \in [DOMAIN sub' -> Sub] /\ DOMAIN sub' \subseteq Invoices
    BY <1>1, <1>2 DEF SubsApplied, IInv, TypeOK, TablesTypeOK
  <2>2. place' \in [1 .. Places -> Place]
    BY <1>2 DEF PlacesApplied
  <2>3. campaign' \in [DOMAIN campaign' -> Campaign] /\ DOMAIN campaign' \subseteq DOMAIN order'
    BY <1>2, <1>4 DEF CampaignsApplied, CampaignLet, CampaignApplied, IInv, TypeOK, TablesTypeOK
  <2>4. /\ order' \in [DOMAIN order' -> OrderRow] /\ DOMAIN order' \subseteq OrderIds
        /\ commerce' \in [DOMAIN commerce' -> Commerce] /\ DOMAIN commerce' \subseteq Keys
    BY <1>4 DEF IInv, TypeOK, TablesTypeOK
  <2>5. DOMAIN applying' \subseteq DOMAIN order'
    BY <1>4, <1>7 DEF IInv, TypeOK
  <2>6. QED
    BY <1>1, <1>7, <2>1, <2>2, <2>3, <2>4, <2>5 DEF IInv, TypeOK, TablesTypeOK
<1>9. RowsKnown'
  BY <1>1, <1>4 DEF IInv, RowsKnown, RowKnown
<1>10. CommerceKnown'
  BY <1>4 DEF IInv, CommerceKnown
<1>11. PlacesKnown'
  BY <1>1, <1>2, <1>4 DEF IInv, PlacesKnown, PlacesApplied, PlaceLet, PlaceApplied, OpenPlace
<1>12. ApplyingKnown'
  <2>1. DOMAIN applying \subseteq DOMAIN order
    BY DEF IInv, TypeOK
  <2>2. QED
    BY <1>1, <1>4, <1>7, <2>1 DEF IInv, ApplyingKnown
<1>13. TermsBounded'
  <2>1. PICK b \in Nat : /\ \A i \in DOMAIN sub : sub[i].end <= b
                         /\ \A p \in DOMAIN campaign : campaign[p].start <= b
                         /\ \A p \in DOMAIN applying : applying[p].start <= b
    BY DEF IInv, TermsBounded
  <2>2. /\ \A i \in DOMAIN sub : sub[i].end \in Nat
        /\ \A p \in DOMAIN campaign : campaign[p].start \in Nat
        /\ \A p \in DOMAIN applying : applying[p].start \in Nat
    BY DEF IInv, TypeOK, TablesTypeOK, Sub, Campaign, Applying
  <2>3. start <= b /\ b + 1 \in Nat /\ 0 <= b + 1
    BY <1>1, <2>1 DEF start
  <2>4. \A i \in DOMAIN sub' : sub'[i].end <= b + 1
    BY <1>2, <1>3, <2>1, <2>2, <2>3 DEF SubsApplied
  <2>5. \A p \in DOMAIN campaign' : campaign'[p].start <= b + 1
    BY <1>2, <1>3, <2>1, <2>2, <2>3 DEF CampaignsApplied, CampaignLet, CampaignApplied
  <2>6. \A p \in DOMAIN applying' : applying'[p].start <= b + 1
    BY <1>7, <2>1, <2>2, <2>3
  <2>7. QED
    BY <2>3, <2>4, <2>5, <2>6 DEF TermsBounded
<1>14. GrantsArePaid' /\ GrantsKnown'
  <2>1. Granting(o) => PaidNow(o)
    BY <1>1 DEF Granting, PaidNow
  <2>2. \A i \in DOMAIN sub' \ DOMAIN sub : i \in DOMAIN invoice' /\ "finished" \in invoice'[i].said
    BY <1>1, <1>2 DEF SubsApplied, Granting
  <2>3. \A n \in 1 .. Places : place'[n].status \in {"active", "retired"} =>
           \/ place[n].status \in {"active", "retired"} /\ place'[n].order = place[n].order
           \/ PaidNow(place'[n].order)
    BY <1>2, <2>1 DEF PlacesApplied, PlaceLet, PlaceApplied, OpenPlace
  <2>4. \A p \in DOMAIN campaign' : campaign'[p].state \in {"running", "over", "refunded"} =>
           \/ p \in DOMAIN campaign /\ campaign[p].state \in {"running", "over", "refunded"}
           \/ PaidNow(p)
    BY <1>2, <2>1 DEF CampaignsApplied, CampaignLet, CampaignApplied
  <2>5. \A k \in DOMAIN commerce' : commerce'[k].receipt # None =>
           \/ k \in DOMAIN commerce /\ commerce'[k].receipt = commerce[k].receipt
           \/ /\ commerce'[k].receipt \in DOMAIN invoice'
              /\ "finished" \in invoice'[commerce'[k].receipt].said
    BY <1>1, <1>4
  <2>6. QED
    BY <1>5, <2>2, <2>3, <2>4, <2>5, GrantsStay DEF IInv
<1>15. QED
  BY <1>1, <1>6, <1>8, <1>9, <1>10, <1>11, <1>12, <1>13, <1>14 DEF IInv

-----------------------------------------------------------------------------
LEMMA PaymentsInit == Init => IInv
<1> SUFFICES ASSUME Init PROVE IInv
  OBVIOUS
<1> USE DEF Init, TablesInit
<1>1. TypeOK
  BY DEF TypeOK, TablesTypeOK, OpenPlace, Place, Idle, Call, Steps, Statuses
<1>2. CallsKnown
  BY DEF CallsKnown, CallKnown, Idle, AgentSteps
<1>3. RowsKnown /\ CommerceKnown /\ ApplyingKnown /\ GrantsKnown
  BY DEF RowsKnown, CommerceKnown, ApplyingKnown, GrantsKnown
<1>4. PlacesKnown
  BY DEF PlacesKnown, OpenPlace
<1>5. TermsBounded
  BY DEF TermsBounded
<1>6. GrantsArePaid
  BY DEF GrantsArePaid, OpenPlace
<1>7. QED
  BY <1>1, <1>2, <1>3, <1>4, <1>5, <1>6 DEF IInv

LEMMA PaymentsStutter ==
  ASSUME IInv, UNCHANGED vars
  PROVE  IInv'
<1>1. UNCHANGED <<tables, call, invoice, applying>>
  BY DEF vars
<1>2. call' \in [Calls -> Call] /\ CallsKnown'
  BY <1>1, NothingLost, CallsStay DEF IInv, TypeOK
<1>3. QED
  BY <1>1, <1>2, OnlyCall

LEMMA ServeStep ==
  ASSUME IInv, NEW c \in Calls, Serve(c)
  PROVE  IInv'
BY CheckoutStep, ClaimStep, CheckoutPaymentStep, StoreStep, LapseStep, ReleaseStep, CancelStep,
   AgentOrderStep, LookStep, AgentPaymentStep, AgentStoreStep, MarkReadyStep, MarkFailedStep,
   DieStep, Zenon DEF Serve

LEMMA PaymentsStep ==
  ASSUME IInv, [Next]_vars
  PROVE  IInv'
BY PaymentsStutter, ServeStep, ReportStep, NotifyStep, ApplyStep, RollbackStep, AgesStep,
   CampaignEndsStep, RunsOutStep, ClaimAgesStep, Zenon DEF Next

\* What a step does to a place.
PlaceMoves(n) == PlaceLet(n) \/ \E o \in OrderIds : PlaceTaken(n, o) \/ PlaceApplied(n, o)

LEMMA PlacesMove ==
  ASSUME IInv, Next
  PROVE  \A n \in 1 .. Places : PlaceMoves(n)
<1>1. TypeOK
  BY DEF IInv
<1>2. ASSUME UNCHANGED place \/ place' = Swept \/ \E o \in OrderIds : place' = Released(o)
      PROVE  \A n \in 1 .. Places : PlaceMoves(n)
  BY <1>1, <1>2, PlacesBe, SweptLets, PlacesReleased DEF PlaceMoves
<1>3. ASSUME NEW o \in OrderIds, NEW who, ReservePlace(o, who)
      PROVE  \A n \in 1 .. Places : PlaceMoves(n)
  BY <1>1, <1>3, PlaceReserved DEF PlaceMoves
<1>4. ASSUME NEW o \in OrderIds, Apply(o)
      PROVE  \A n \in 1 .. Places : PlaceMoves(n)
  BY <1>4, ApplyGrants DEF GrantsApplied, PlacesApplied, PlaceMoves
<1>5. ASSUME NEW n \in 1 .. Places, ReservationRunsOut(n)
      PROVE  \A m \in 1 .. Places : PlaceMoves(m)
  <2>1. place \in [1 .. Places -> Place] /\ place[n] \in Place /\ place' = [place EXCEPT ![n].due = TRUE]
    BY <1>1, <1>5 DEF TypeOK, TablesTypeOK, ReservationRunsOut
  <2>2. /\ place'[n] \in Place /\ place'[n].order = place[n].order /\ place'[n].status = place[n].status
        /\ \A m \in (1 .. Places) \ {n} : place'[m] = place[m]
    BY <2>1 DEF Place
  <2>3. QED
    BY <2>1, <2>2 DEF PlaceMoves, PlaceLet
<1>6. ASSUME NEW c \in Calls, Serve(c)
      PROVE  \A n \in 1 .. Places : PlaceMoves(n)
  <2>1. CASE \E who \in Humans, kind \in Kinds, o \in OrderIds : Checkout(c, who, kind, o)
    BY <1>2, <1>3, <2>1 DEF Checkout, TakePlace, TakeOrder, InsertPlan, InsertHighlight
  <2>2. CASE \E who \in Agents, k \in Keys, kind \in Kinds, o \in OrderIds : AgentOrder(c, who, k, kind, o)
    BY <1>2, <1>3, <2>2 DEF AgentOrder, CreateCommerceOrder, InsertPlan, InsertHighlight, tables
  <2>3. CASE Release(c)
    <3>1. call[c].pc # "idle" /\ DOMAIN order \subseteq OrderIds
      BY <1>1, <2>3 DEF Release, At, TypeOK, TablesTypeOK
    <3>2. call[c].order \in OrderIds
      BY <3>1, AtCall
    <3>3. QED
      BY <1>2, <2>3, <3>2 DEF Release
  <2>4. CASE \/ Claim(c) \/ CheckoutPayment(c) \/ Store(c) \/ Lapse(c) \/ Cancel(c) \/ Look(c)
             \/ AgentPayment(c) \/ AgentStore(c) \/ MarkReady(c) \/ MarkFailed(c) \/ Die(c)
    BY <1>2, <2>4 DEF Claim, CheckoutPayment, Store, Lapse, Cancel, Look, AgentPayment, AgentStore,
                      MarkReady, MarkFailed, Die, CreatePayment, GrantsKept, tables
  <2>5. QED
    BY <1>6, <2>1, <2>2, <2>3, <2>4 DEF Serve
<1>7. CASE \/ \E i \in DOMAIN invoice, s \in Statuses : Report(i, s)
           \/ \E o \in OrderIds, s \in Statuses : Notify(o, s)
           \/ \E o \in OrderIds : Rollback(o) \/ OrderAges(o) \/ CampaignEnds(o)
           \/ \E k \in Keys : ClaimAges(k)
  BY <1>2, <1>7 DEF Report, Notify, Rollback, OrderAges, CampaignEnds, ClaimAges, tables
<1>8. QED
  BY <1>4, <1>5, <1>6, <1>7 DEF Next

-----------------------------------------------------------------------------
(***************************************************************************)
(* The theorems.                                                           *)
(***************************************************************************)
\* Every request, order and transaction names a payment made for its order,
\* and every grant one that finished.
THEOREM PaymentsInvariant == Spec => []IInv
<1>1. IInv /\ [Next]_vars => IInv'
  BY PaymentsStep
<1>2. QED
  BY PaymentsInit, <1>1, PTL DEF Spec

\* The tables, the requests, the provider's payments and the transactions
\* keep their types; an agent's order is never tried more often than Attempts.
THEOREM PaymentsTypeCorrect == Spec => []TypeOK
<1>1. IInv => TypeOK
  BY DEF IInv
<1>2. QED
  BY PaymentsInvariant, <1>1, PTL

\* No term, place, campaign or receipt without a finished payment that names
\* its order, however often a status is delivered, late, or out of order.
THEOREM NothingUnpaid == Spec => []GrantsArePaid
<1>1. IInv => GrantsArePaid
  BY DEF IInv
<1>2. QED
  BY PaymentsInvariant, <1>1, PTL

\* A place that was paid for is never opened, reserved or given again: not by
\* the sweep, not by a checkout that gives up late, not by a refund.
THEOREM PlacesStay == Spec => PlacesArePermanent
<1> DEFINE Stays == \A n \in 1 .. Places :
                     place[n].status \in {"active", "retired"} =>
                       /\ place'[n].order = place[n].order
                       /\ place'[n].status \in {place[n].status, "retired"}
<1>1. IInv /\ [Next]_vars => [Stays]_vars
  BY PlacesMove DEF PlaceMoves, PlaceLet, PlaceTaken, PlaceApplied
<1>2. QED
  BY PaymentsInvariant, <1>1, PTL DEF Spec, PlacesArePermanent

-----------------------------------------------------------------------------
(***************************************************************************)
(* What a step may do to an order, its commerce orders, its payments and   *)
(* the requests that work on them.                                         *)
(***************************************************************************)
Taken(o)    == order[o].pid # None \/ order[o].claimed
TakenNow(o) == order'[o].pid # None \/ order'[o].claimed

MakeSteps  == {"create", "agent create"}
HoldSteps  == {"store", "agent store"}
ClaimSteps == {"create", "store"}
Busy       == MakeSteps \cup HoldSteps

OthersStay(c) == \A d \in Calls \ {c} : call'[d] = call[d]

\* A request stores what it holds: a web checkout over anything, an agent's
\* only where there is nothing.
StoredBy(c, o) ==
  /\ call[c].order = o /\ order'[o].pid = call[c].pid /\ call'[c].pc \notin Busy
  /\ \/ call[c].pc = "store" /\ order'[o].status = call[c].status
     \/ call[c].pc = "agent store" /\ order[o].pid = None /\ order'[o].status = "open"

RowStored(o) == \E c \in Calls : StoredBy(c, o)

\* An order that keeps its payment follows what that payment's status was.
RowKeeps(o) ==
  /\ order'[o].pid = order[o].pid
  /\ order[o].status = "finished" => order'[o].status \in {"finished", "refunded"}
  /\ order[o].status = "refunded" => order'[o].status = "refunded"
  /\ order'[o].status = "finished" =>
       \/ order[o].status = "finished"
       \/ order[o].pid # None /\ "finished" \in invoice[order[o].pid].said

RowFlows(o) ==
  /\ o \in DOMAIN order' /\ order'[o].who = order[o].who /\ order'[o].kind = order[o].kind
  /\ Taken(o) => TakenNow(o)
  /\ RowKeeps(o) \/ RowStored(o)

RowsFlow ==
  /\ \A o \in DOMAIN order : RowFlows(o)
  /\ \A o \in DOMAIN order' \ DOMAIN order : order'[o].pid = None /\ order'[o].status = "open"

\* A receipt is written with the first finished status, and an attempt counted.
KeyFlows(k) ==
  /\ k \in DOMAIN commerce' /\ commerce'[k].order = commerce[k].order
  /\ commerce'[k].receipt =
       IF /\ order'[commerce[k].order].status = "finished"
          /\ order[commerce[k].order].status # "finished"
          /\ commerce[k].receipt = None
       THEN order'[commerce[k].order].pid ELSE commerce[k].receipt
  /\ commerce'[k].attempts \in {commerce[k].attempts, commerce[k].attempts + 1}

KeysFlow ==
  /\ \A k \in DOMAIN commerce : KeyFlows(k)
  /\ \A k \in DOMAIN commerce' \ DOMAIN commerce :
       /\ commerce'[k].order \in DOMAIN order' \ DOMAIN order /\ commerce'[k].receipt = None
       /\ \A j \in DOMAIN commerce' \ DOMAIN commerce : j = k

\* A payment is made by a request, one at a time, and the provider speaks of
\* a payment that an order stores.
PaymentKeeps(i) ==
  /\ i \in DOMAIN invoice' /\ invoice'[i].order = invoice[i].order
  /\ invoice[i].said \subseteq invoice'[i].said
  /\ invoice'[i].said = invoice[i].said \/ \E o \in DOMAIN order : order[o].pid = i

Makes(c, i) ==
  /\ i \notin DOMAIN invoice /\ DOMAIN invoice' = DOMAIN invoice \cup {i}
  /\ invoice'[i].order = call[c].order
  /\ call[c].pc \in MakeSteps /\ call'[c].pc \notin MakeSteps /\ OthersStay(c)
  /\ UNCHANGED <<order, commerce>>

PaymentsFlow ==
  /\ \A i \in DOMAIN invoice : PaymentKeeps(i)
  /\ DOMAIN invoice' = DOMAIN invoice \/ \E c \in Calls, i \in Invoices : Makes(c, i)

\* A request becomes busy with a claim, a counted attempt, or a new payment.
TakesClaim(c) ==
  /\ call[c].pc = "claim" /\ call'[c].pc = "create" /\ call'[c].order = call[c].order
  /\ ~Taken(call[c].order) /\ order'[call[c].order].claimed

CountsAttempt(c) ==
  /\ call[c].pc = "look" /\ call'[c].pc = "agent create"
  /\ call'[c].order = call[c].order /\ call'[c].key = call[c].key
  /\ commerce'[call[c].key].attempts = commerce[call[c].key].attempts + 1

HoldsPayment(c) ==
  /\ \/ call[c].pc = "create" /\ call'[c].pc = "store"
     \/ call[c].pc = "agent create" /\ call'[c].pc = "agent store"
  /\ call'[c].order = call[c].order
  /\ call'[c].pid \in DOMAIN invoice' \ DOMAIN invoice
  /\ invoice'[call'[c].pid].said = {call'[c].status}

CallFlows(c) ==
  call'[c].pc \in Busy =>
    \/ call'[c] = call[c]
    \/ OthersStay(c) /\ (TakesClaim(c) \/ CountsAttempt(c) \/ HoldsPayment(c))

\* A subscription is created on the payment an order stores.
SubsFlow ==
  \A i \in DOMAIN sub' \ DOMAIN sub :
    i \in DOMAIN invoice /\ \E o \in DOMAIN order : order[o].pid = i

Flows ==
  RowsFlow /\ KeysFlow /\ PaymentsFlow /\ (\A c \in Calls : CallFlows(c)) /\ SubsFlow

\* A step that applies no status and makes no order.
RowQuiet(o) ==
  \/ order'[o].pid = order[o].pid /\ (order[o].pid = None \/ order'[o].status = order[o].status)
  \/ RowStored(o)

Quiet ==
  /\ Flows /\ DOMAIN order' = DOMAIN order /\ \A o \in DOMAIN order : RowQuiet(o)
  /\ UNCHANGED sub
  /\ \A n \in 1 .. Places : PlaceLet(n)

-----------------------------------------------------------------------------
(***************************************************************************)
(* The invariant about orders: nothing is assumed of who buys how.         *)
(***************************************************************************)
\* One web checkout at a time creates or stores a payment for an order; an
\* order no agent made has none before that.
ClaimHeld ==
  \A c \in Calls : call[c].pc \in ClaimSteps =>
    /\ Taken(call[c].order)
    /\ WebOnly(call[c].order) => order[call[c].order].pid = None
    /\ \A d \in Calls : call[d].pc \in ClaimSteps /\ call[d].order = call[c].order => d = c

\* What a request holds is no other's: nothing was granted on it, no order
\* stores it, and it was paid only if it was created so.
HeldFresh ==
  \A c \in Calls : call[c].pc \in HoldSteps =>
    /\ call[c].pid \notin DOMAIN sub
    /\ \A o \in DOMAIN order : order[o].pid # call[c].pid
    /\ "finished" \in invoice[call[c].pid].said => call[c].status = "finished"
    /\ \A d \in Calls : call[d].pc \in HoldSteps /\ call[d].pid = call[c].pid => d = c

InvoicesKnown == \A i \in DOMAIN invoice : invoice[i].order \in DOMAIN order

FinishedPaid ==
  \A o \in DOMAIN order : order[o].status = "finished" => "finished" \in invoice[order[o].pid].said

ReceiptsMatch ==
  \A k \in DOMAIN commerce :
    /\ commerce[k].receipt # None => invoice[commerce[k].receipt].order = commerce[k].order
    /\ order[commerce[k].order].status = "finished" => commerce[k].receipt # None

\* A term runs on the payment an order stores only while the order is finished.
SubMatches(i) ==
  LET o == invoice[i].order IN
  /\ o \in DOMAIN order /\ order[o].kind = "plan"
  /\ order[o].pid = i /\ sub[i].active => order[o].status = "finished"

\* A place is active while its order is finished, or for a payment besides.
PlaceMatches(n) ==
  LET o == place[n].order IN
  /\ place[n].status # "open" => order[o].kind = "fame"
  /\ place[n].status = "active" =>
       order[o].pid # None /\ (order[o].status = "finished" \/ PaidBesides(o))

GrantsMatch == (\A i \in DOMAIN sub : SubMatches(i)) /\ \A n \in 1 .. Places : PlaceMatches(n)

AInv == /\ IInv /\ InvoicesKnown /\ ClaimHeld /\ HeldFresh
        /\ FinishedPaid /\ ReceiptsMatch /\ GrantsMatch

LEMMA Holding ==
  ASSUME IInv, NEW c \in Calls, call[c].pc \in Busy
  PROVE  /\ call[c].order \in DOMAIN order
         /\ call[c].pc \in HoldSteps =>
              /\ call[c].pid \in DOMAIN invoice /\ call[c].pid # None
              /\ invoice[call[c].pid].order = call[c].order
              /\ call[c].status \in invoice[call[c].pid].said
         /\ call[c].pc \in {"agent create", "agent store"} =>
              /\ call[c].key \in DOMAIN commerce /\ commerce[call[c].key].order = call[c].order
              /\ ~WebOnly(call[c].order)
BY NoneFresh DEF IInv, TypeOK, CallsKnown, CallKnown, AgentSteps, Busy, MakeSteps, HoldSteps, WebOnly, KeysOf

LEMMA StoredPids ==
  ASSUME IInv, NEW o \in DOMAIN order
  PROVE  order[o].pid # None => order[o].pid \in DOMAIN invoice /\ invoice[order[o].pid].order = o
BY DEF IInv, RowsKnown, RowKnown

WebOnlyNow(o) == \A k \in DOMAIN commerce' : commerce'[k].order # o

LEMMA WebOnlyWas ==
  ASSUME KeysFlow, NEW o, WebOnlyNow(o)
  PROVE  WebOnly(o)
BY DEF WebOnly, WebOnlyNow, KeysOf, KeysFlow, KeyFlows

LEMMA ClaimStays ==
  ASSUME AInv, Flows
  PROVE  ClaimHeld'
<1>1. IInv /\ KeysFlow /\ (\A o \in DOMAIN order : RowFlows(o)) /\ \A c \in Calls : CallFlows(c)
  BY DEF AInv, Flows, RowsFlow
\* Whose claim it was, and that it is still the only one.
<1>2. ASSUME NEW c \in Calls, call'[c].pc \in ClaimSteps
      PROVE  /\ call'[c].order = call[c].order /\ call[c].order \in DOMAIN order
             /\ \/ call[c].pc \in ClaimSteps
                \/ TakesClaim(c) /\ OthersStay(c)
  <2>1. \/ call'[c] = call[c]
        \/ OthersStay(c) /\ (TakesClaim(c) \/ CountsAttempt(c) \/ HoldsPayment(c))
    BY <1>1, <1>2 DEF CallFlows, ClaimSteps, Busy, MakeSteps, HoldSteps
  <2>2. call'[c].order = call[c].order /\ (call[c].pc \in ClaimSteps \/ (TakesClaim(c) /\ OthersStay(c)))
    BY <1>2, <2>1 DEF TakesClaim, CountsAttempt, HoldsPayment, ClaimSteps
  <2>3. call[c].pc # "idle"
    BY <2>2 DEF TakesClaim, ClaimSteps
  <2>4. QED
    BY <1>1, <2>2, <2>3 DEF IInv, CallsKnown, CallKnown
<1>3. ASSUME NEW c \in Calls, call'[c].pc \in ClaimSteps
      PROVE  /\ TakenNow(call'[c].order)
             /\ WebOnlyNow(call'[c].order) => order'[call'[c].order].pid = None
             /\ \A d \in Calls : call'[d].pc \in ClaimSteps /\ call'[d].order = call'[c].order => d = c
  <2>1. PICK o \in DOMAIN order : o = call[c].order /\ call'[c].order = o
    BY <1>2, <1>3
  <2>2. TakenNow(o)
    <3>1. CASE call[c].pc \in ClaimSteps
      <4>1. Taken(o) /\ RowFlows(o)
        BY <1>1, <2>1, <3>1 DEF AInv, ClaimHeld
      <4>2. QED
        BY <4>1 DEF RowFlows
    <3>2. CASE TakesClaim(c)
      BY <2>1, <3>2 DEF TakesClaim, TakenNow
    <3>3. QED
      BY <1>2, <1>3, <3>1, <3>2
  <2>3. ASSUME WebOnlyNow(o) PROVE order'[o].pid = None
    <3>1. WebOnly(o) /\ RowFlows(o)
      BY <1>1, <2>3, WebOnlyWas
    <3>2. order[o].pid = None
      BY <1>2, <1>3, <2>1, <3>1 DEF AInv, ClaimHeld, TakesClaim, Taken
    <3>3. ~ RowStored(o)
      <4>1. SUFFICES ASSUME NEW d \in Calls, StoredBy(d, o) PROVE FALSE
        BY DEF RowStored
      <4>2. call[d].order = o /\ call[d].pc \in HoldSteps /\ call'[d].pc \notin Busy
        BY <4>1 DEF StoredBy, HoldSteps
      <4>3. call[d].pc = "store"
        BY <1>1, <3>1, <4>2, Holding DEF HoldSteps, Busy
      <4>4. d # c
        BY <1>3, <4>2 DEF ClaimSteps, Busy, MakeSteps, HoldSteps
      <4>5. CASE call[c].pc \in ClaimSteps
        BY <2>1, <4>2, <4>3, <4>4, <4>5 DEF AInv, ClaimHeld, ClaimSteps
      <4>6. CASE OthersStay(c)
        BY <4>2, <4>4, <4>6 DEF OthersStay, Busy
      <4>7. QED
        BY <1>2, <1>3, <4>5, <4>6
    <3>4. QED
      BY <3>1, <3>2, <3>3 DEF RowFlows, RowKeeps
  <2>4. ASSUME NEW d \in Calls, call'[d].pc \in ClaimSteps, call'[d].order = o, d # c PROVE FALSE
    <3>1. call[d].order = o
      BY <1>2, <2>4
    <3>2. CASE call[c].pc \in ClaimSteps /\ call[d].pc \in ClaimSteps
      BY <2>1, <2>4, <3>1, <3>2 DEF AInv, ClaimHeld
    <3>3. CASE TakesClaim(c) /\ OthersStay(c)
      <4>1. call[d].pc \in ClaimSteps /\ ~Taken(o)
        BY <2>1, <2>4, <3>3 DEF OthersStay, TakesClaim
      <4>2. QED
        BY <3>1, <4>1 DEF AInv, ClaimHeld
    <3>4. CASE TakesClaim(d) /\ OthersStay(d)
      <4>1. call[c].pc \in ClaimSteps /\ ~Taken(o)
        BY <1>3, <2>4, <3>1, <3>4 DEF OthersStay, TakesClaim
      <4>2. QED
        BY <2>1, <4>1 DEF AInv, ClaimHeld
    <3>5. QED
      BY <1>2, <1>3, <2>4, <3>2, <3>3, <3>4
  <2>5. QED
    BY <2>1, <2>2, <2>3, <2>4
<1>4. QED
  BY <1>3, Zenon DEF ClaimHeld, Taken, TakenNow, WebOnly, WebOnlyNow, KeysOf

LEMMA HeldStays ==
  ASSUME AInv, Flows
  PROVE  HeldFresh'
<1>1. IInv /\ RowsFlow /\ PaymentsFlow /\ SubsFlow /\ \A c \in Calls : CallFlows(c)
  BY DEF AInv, Flows
<1>2. \A i \in DOMAIN sub' : i \in DOMAIN invoice
  BY <1>1, StoredPids, NoneFresh DEF IInv, GrantsKnown, SubsFlow, TypeOK, TablesTypeOK
<1>3. ASSUME NEW c \in Calls, call'[c].pc \in HoldSteps
      PROVE  \/ call'[c] = call[c] /\ call[c].pc \in HoldSteps
             \/ HoldsPayment(c) /\ OthersStay(c)
  BY <1>1, <1>3 DEF CallFlows, Busy, HoldSteps, TakesClaim, CountsAttempt
\* What was held.
<1>4. ASSUME NEW c \in Calls, call'[c] = call[c], call[c].pc \in HoldSteps
      PROVE  /\ call'[c].pid \notin DOMAIN sub'
             /\ \A o \in DOMAIN order' : order'[o].pid # call'[c].pid
             /\ "finished" \in invoice'[call'[c].pid].said => call'[c].status = "finished"
             /\ \A d \in Calls : call'[d].pc \in HoldSteps /\ call'[d].pid = call'[c].pid => d = c
  <2>1. PICK i : i = call[c].pid
    OBVIOUS
  <2>2. /\ i \in DOMAIN invoice /\ i # None /\ i \notin DOMAIN sub
        /\ \A o \in DOMAIN order : order[o].pid # i
        /\ "finished" \in invoice[i].said => call[c].status = "finished"
        /\ \A d \in Calls : call[d].pc \in HoldSteps /\ call[d].pid = i => d = c
    BY <1>1, <1>4, <2>1, Holding DEF AInv, HeldFresh, Busy
  <2>3. i \notin DOMAIN sub'
    BY <1>1, <2>2 DEF SubsFlow
  <2>4. invoice'[i].said = invoice[i].said
    BY <1>1, <2>2 DEF PaymentsFlow, PaymentKeeps
  <2>5. ASSUME NEW o \in DOMAIN order, order'[o].pid = i PROVE FALSE
    <3>1. RowStored(o)
      BY <1>1, <2>2, <2>5 DEF RowsFlow, RowFlows, RowKeeps
    <3>2. PICK d \in Calls : StoredBy(d, o)
      BY <3>1 DEF RowStored
    <3>3. call[d].pc \in HoldSteps /\ call[d].pid = i /\ call'[d].pc \notin Busy
      BY <2>5, <3>2 DEF StoredBy, HoldSteps
    <3>4. QED
      BY <1>4, <2>2, <3>3 DEF Busy
  <2>6. \A o \in DOMAIN order' \ DOMAIN order : order'[o].pid # i
    BY <1>1, <2>2 DEF RowsFlow
  <2>7. ASSUME NEW d \in Calls, call'[d].pc \in HoldSteps, call'[d].pid = i PROVE d = c
    BY <1>3, <2>2, <2>7 DEF HoldsPayment
  <2>8. QED
    BY <1>4, <2>1, <2>2, <2>3, <2>4, <2>5, <2>6, <2>7
\* What was just made.
<1>5. ASSUME NEW c \in Calls, HoldsPayment(c), OthersStay(c)
      PROVE  /\ call'[c].pid \notin DOMAIN sub'
             /\ \A o \in DOMAIN order' : order'[o].pid # call'[c].pid
             /\ "finished" \in invoice'[call'[c].pid].said => call'[c].status = "finished"
             /\ \A d \in Calls : call'[d].pc \in HoldSteps /\ call'[d].pid = call'[c].pid => d = c
  <2>1. PICK i : i = call'[c].pid
    OBVIOUS
  <2>2. i \notin DOMAIN invoice /\ i \in DOMAIN invoice' /\ invoice'[i].said = {call'[c].status}
    BY <1>5, <2>1 DEF HoldsPayment
  <2>3. DOMAIN invoice' \subseteq Invoices
    BY <1>1, <2>2 DEF PaymentsFlow, Makes, IInv, TypeOK
  <2>4. i # None
    BY <2>2, <2>3, NoneFresh
  <2>5. ASSUME NEW o \in DOMAIN order, order'[o].pid = i PROVE FALSE
    <3>1. CASE order'[o].pid = order[o].pid
      BY <1>1, <2>2, <2>4, <2>5, <3>1, StoredPids
    <3>2. ASSUME NEW d \in Calls, StoredBy(d, o) PROVE FALSE
      <4>1. call[d].pc \in HoldSteps /\ call[d].pid = i
        BY <2>5, <3>2 DEF StoredBy, HoldSteps
      <4>2. QED
        BY <1>1, <2>2, <4>1, Holding DEF Busy
    <3>3. QED
      BY <1>1, <3>1, <3>2 DEF RowsFlow, RowFlows, RowKeeps, RowStored
  <2>6. \A o \in DOMAIN order' \ DOMAIN order : order'[o].pid # i
    BY <1>1, <2>4 DEF RowsFlow
  <2>7. ASSUME NEW d \in Calls \ {c}, call'[d].pc \in HoldSteps, call'[d].pid = i PROVE FALSE
    <3>1. call[d].pc \in HoldSteps /\ call[d].pid = i
      BY <1>5, <2>7 DEF OthersStay
    <3>2. QED
      BY <1>1, <2>2, <3>1, Holding DEF Busy
  <2>8. QED
    BY <1>2, <2>1, <2>2, <2>5, <2>6, <2>7
<1>6. QED
  BY <1>3, <1>4, <1>5 DEF HeldFresh

\* A request that stores held a payment made for its order.
LEMMA StoredWas ==
  ASSUME AInv, NEW o \in DOMAIN order, NEW c \in Calls, StoredBy(c, o)
  PROVE  /\ call[c].pid \in DOMAIN invoice /\ call[c].pid # None /\ call[c].pid \notin DOMAIN sub
         /\ invoice[call[c].pid].order = o /\ order[o].pid # call[c].pid
         /\ order'[o].status \in {call[c].status, "open"}
         /\ call[c].status \in invoice[call[c].pid].said
<1>1. call[c].pc \in HoldSteps /\ call[c].order = o /\ IInv
  BY DEF StoredBy, HoldSteps, AInv
<1>2. QED
  BY <1>1, Holding DEF AInv, HeldFresh, StoredBy, Busy

LEMMA InvoicesStay ==
  ASSUME AInv, Flows
  PROVE  InvoicesKnown'
<1>1. RowsFlow /\ PaymentsFlow /\ IInv
  BY DEF AInv, Flows
<1>2. \A o \in DOMAIN order : o \in DOMAIN order'
  BY <1>1 DEF RowsFlow, RowFlows
<1>3. \A i \in DOMAIN invoice : invoice'[i].order \in DOMAIN order'
  BY <1>1, <1>2 DEF AInv, InvoicesKnown, PaymentsFlow, PaymentKeeps
<1>4. ASSUME NEW c \in Calls, NEW i, Makes(c, i) PROVE invoice'[i].order \in DOMAIN order'
  BY <1>1, <1>2, <1>4, Holding DEF Makes, Busy
<1>5. QED
  BY <1>1, <1>3, <1>4 DEF InvoicesKnown, PaymentsFlow, Makes

LEMMA PaidFollows ==
  ASSUME AInv, Flows
  PROVE  FinishedPaid'
<1>1. RowsFlow /\ PaymentsFlow /\ IInv
  BY DEF AInv, Flows
<1>2. ASSUME NEW o \in DOMAIN order, order'[o].status = "finished"
      PROVE  "finished" \in invoice'[order'[o].pid].said
  <2>1. CASE RowKeeps(o)
    <3>1. order'[o].pid = order[o].pid /\ "finished" \in invoice[order[o].pid].said
      BY <1>2, <2>1 DEF RowKeeps, AInv, FinishedPaid
    <3>2. order[o].pid \in DOMAIN invoice
      <4>1. order[o].pid # None
        BY <1>1, <1>2, <2>1 DEF RowKeeps, IInv, RowsKnown, RowKnown
      <4>2. QED
        BY <1>1, <4>1, StoredPids
    <3>3. QED
      BY <1>1, <3>1, <3>2 DEF PaymentsFlow, PaymentKeeps
  <2>2. ASSUME NEW c \in Calls, StoredBy(c, o) PROVE "finished" \in invoice'[order'[o].pid].said
    <3>1. order'[o].pid = call[c].pid /\ call[c].pid \in DOMAIN invoice
          /\ "finished" \in invoice[call[c].pid].said
      <4>1. order'[o].pid = call[c].pid /\ (order'[o].status = call[c].status \/ order'[o].status = "open")
        BY <2>2 DEF StoredBy
      <4>2. call[c].pid \in DOMAIN invoice /\ call[c].status \in invoice[call[c].pid].said
        BY <2>2, StoredWas
      <4>3. QED
        BY <1>2, <4>1, <4>2
    <3>2. QED
      BY <1>1, <3>1 DEF PaymentsFlow, PaymentKeeps
  <2>3. QED
    BY <1>1, <2>1, <2>2 DEF RowsFlow, RowFlows, RowStored
<1>3. QED
  BY <1>1, <1>2 DEF FinishedPaid, RowsFlow

LEMMA ReceiptsFollow ==
  ASSUME AInv, IInv', Flows
  PROVE  ReceiptsMatch'
<1>1. RowsFlow /\ KeysFlow /\ PaymentsFlow /\ IInv
  BY DEF AInv, Flows
<1>2. ASSUME NEW k \in DOMAIN commerce
      PROVE  /\ commerce'[k].receipt # None => invoice'[commerce'[k].receipt].order = commerce'[k].order
             /\ order'[commerce'[k].order].status = "finished" => commerce'[k].receipt # None
  <2>1. PICK o \in DOMAIN order : o = commerce[k].order
    BY <1>1 DEF IInv, CommerceKnown
  <2>2. /\ commerce'[k].order = o /\ o \in DOMAIN order'
        /\ commerce'[k].receipt =
             IF order'[o].status = "finished" /\ order[o].status # "finished" /\ commerce[k].receipt = None
             THEN order'[o].pid ELSE commerce[k].receipt
    BY <1>1, <2>1 DEF RowsFlow, RowFlows, KeysFlow, KeyFlows
  <2>3. /\ commerce[k].receipt # None =>
             commerce[k].receipt \in DOMAIN invoice /\ invoice[commerce[k].receipt].order = o
        /\ order[o].status = "finished" => commerce[k].receipt # None
    BY <1>1, <2>1 DEF AInv, ReceiptsMatch, IInv, GrantsKnown
  <2>4. order'[o].status = "finished" =>
          order'[o].pid # None /\ order'[o].pid \in DOMAIN invoice' /\ invoice'[order'[o].pid].order = o
    BY <2>2 DEF IInv, RowsKnown, RowKnown
  <2>5. \A i \in DOMAIN invoice : invoice'[i].order = invoice[i].order
    BY <1>1 DEF PaymentsFlow, PaymentKeeps
  <2>6. CASE order'[o].status = "finished" /\ order[o].status # "finished" /\ commerce[k].receipt = None
    BY <2>2, <2>4, <2>6
  <2>7. CASE ~(order'[o].status = "finished" /\ order[o].status # "finished" /\ commerce[k].receipt = None)
    BY <2>2, <2>3, <2>5, <2>7
  <2>8. QED
    BY <2>6, <2>7
<1>3. ASSUME NEW k \in DOMAIN commerce' \ DOMAIN commerce
      PROVE  commerce'[k].receipt = None /\ order'[commerce'[k].order].status # "finished"
  BY <1>1 DEF RowsFlow, KeysFlow
<1>4. QED
  BY <1>2, <1>3 DEF ReceiptsMatch

LEMMA BesidesStays ==
  ASSUME AInv, Flows, NEW o \in DOMAIN order, RowKeeps(o), PaidBesides(o)
  PROVE  PaidBesides(o)'
<1>1. PICK i \in DOMAIN invoice : invoice[i].order = o /\ i # order[o].pid /\ "finished" \in invoice[i].said
  BY DEF PaidBesides
<1>2. PaymentKeeps(i)
  BY DEF Flows, PaymentsFlow
<1>3. QED
  BY <1>1, <1>2 DEF PaidBesides, PaymentKeeps, RowKeeps

\* A paid order whose payment is stored over stays paid for, or was again.
LEMMA BesidesStored ==
  ASSUME AInv, Flows, NEW o \in DOMAIN order, NEW c \in Calls, StoredBy(c, o),
         order[o].pid # None, order[o].status = "finished" \/ PaidBesides(o)
  PROVE  order'[o].status = "finished" \/ PaidBesides(o)'
<1>1. IInv /\ PaymentsFlow
  BY DEF AInv, Flows
<1>2. PICK p : p = call[c].pid
  OBVIOUS
<1>3. /\ call[c].pc \in HoldSteps /\ order'[o].status = call[c].status
      /\ order'[o].pid = p /\ p # order[o].pid
  BY <1>2, StoredWas DEF StoredBy, HoldSteps
<1>4. "finished" \in invoice[p].said => order'[o].status = "finished"
  BY <1>2, <1>3 DEF AInv, HeldFresh
<1>5. CASE order[o].status = "finished"
  <2>1. order[o].pid \in DOMAIN invoice /\ invoice[order[o].pid].order = o
    BY <1>1, StoredPids
  <2>2. "finished" \in invoice[order[o].pid].said
    BY <1>5 DEF AInv, FinishedPaid
  <2>3. PaymentKeeps(order[o].pid)
    BY <1>1, <2>1 DEF PaymentsFlow
  <2>4. QED
    BY <1>3, <2>1, <2>2, <2>3 DEF PaidBesides, PaymentKeeps
<1>6. ASSUME NEW i \in DOMAIN invoice, invoice[i].order = o, "finished" \in invoice[i].said
      PROVE  order'[o].status = "finished" \/ PaidBesides(o)'
  <2>1. CASE i = p
    BY <1>4, <1>6, <2>1
  <2>2. CASE i # p
    <3>1. PaymentKeeps(i)
      BY <1>1 DEF PaymentsFlow
    <3>2. QED
      BY <1>3, <1>6, <2>2, <3>1 DEF PaidBesides, PaymentKeeps
  <2>3. QED
    BY <2>1, <2>2
<1>7. QED
  BY <1>5, <1>6 DEF PaidBesides

LEMMA QuietMatches ==
  ASSUME AInv, Quiet
  PROVE  GrantsMatch'
<1>1. IInv /\ Flows /\ RowsFlow /\ PaymentsFlow
  BY DEF AInv, Quiet, Flows
<1>2. ASSUME NEW o \in DOMAIN order
      PROVE  /\ o \in DOMAIN order' /\ order'[o].kind = order[o].kind
             /\ \/ RowKeeps(o) /\ (order[o].pid = None \/ order'[o].status = order[o].status)
                \/ RowStored(o)
  BY <1>1 DEF Quiet, RowQuiet, RowsFlow, RowFlows
<1>3. ASSUME NEW i \in DOMAIN sub
      PROVE  SubMatches(i)'
  <2>1. PICK o : o = invoice[i].order
    OBVIOUS
  <2>2. i \in DOMAIN invoice /\ i # None
    BY <1>1, NoneFresh DEF IInv, GrantsKnown, TypeOK, TablesTypeOK
  <2>3. /\ o \in DOMAIN order /\ order[o].kind = "plan"
        /\ order[o].pid = i /\ sub[i].active => order[o].status = "finished"
    BY <2>1 DEF AInv, GrantsMatch, SubMatches
  <2>4. invoice'[i].order = o /\ sub'[i] = sub[i]
    BY <1>1, <2>1, <2>2 DEF PaymentsFlow, PaymentKeeps, Quiet
  <2>5. ASSUME NEW c \in Calls, StoredBy(c, o) PROVE order'[o].pid # i
    <3>1. call[c].pid \notin DOMAIN sub
      BY <2>3, <2>5, StoredWas
    <3>2. QED
      BY <2>5, <3>1 DEF StoredBy
  <2>6. order'[o].pid = i /\ sub[i].active => order'[o].status = "finished"
    BY <1>2, <2>2, <2>3, <2>5 DEF RowKeeps, RowStored
  <2>7. QED
    BY <1>2, <2>3, <2>4, <2>6 DEF SubMatches
<1>4. ASSUME NEW n \in 1 .. Places
      PROVE  PlaceMatches(n)'
  <2>1. PlaceLet(n)
    BY DEF Quiet
  <2>2. CASE place'[n] = OpenPlace
    BY <2>2 DEF OpenPlace, PlaceMatches
  <2>3. CASE place'[n].order = place[n].order /\ place'[n].status = place[n].status /\ place[n].status # "open"
    <3>1. PICK o : o = place[n].order
      OBVIOUS
    <3>2. /\ o \in DOMAIN order /\ order[o].kind = "fame"
          /\ place[n].status = "active" =>
               order[o].pid # None /\ (order[o].status = "finished" \/ PaidBesides(o))
      BY <2>3, <3>1 DEF AInv, IInv, PlacesKnown, GrantsMatch, PlaceMatches
    <3>3. ASSUME order[o].pid # None, order[o].status = "finished" \/ PaidBesides(o)
          PROVE  order'[o].pid # None /\ (order'[o].status = "finished" \/ PaidBesides(o)')
      <4>1. CASE RowKeeps(o) /\ order'[o].status = order[o].status
        BY <1>1, <3>2, <3>3, <4>1, BesidesStays DEF RowKeeps
      <4>2. ASSUME NEW c \in Calls, StoredBy(c, o)
            PROVE  order'[o].pid # None /\ (order'[o].status = "finished" \/ PaidBesides(o)')
        <5>1. order'[o].pid # None
          BY <3>2, <4>2, StoredWas DEF StoredBy
        <5>2. QED
          BY <1>1, <3>2, <3>3, <4>2, <5>1, BesidesStored
      <4>3. QED
        BY <1>2, <3>2, <3>3, <4>1, <4>2 DEF RowStored
    <3>4. order'[o].kind = "fame"
      BY <1>2, <3>2
    <3>5. QED
      BY <2>3, <3>1, <3>2, <3>3, <3>4 DEF PlaceMatches
  <2>4. CASE place'[n].status = "open"
    BY <2>4 DEF PlaceMatches
  <2>5. QED
    BY <2>1, <2>2, <2>3, <2>4 DEF PlaceLet
<1>5. QED
  BY <1>3, <1>4 DEF GrantsMatch, Quiet

LEMMA QuietHolds ==
  ASSUME AInv, IInv', Quiet
  PROVE  AInv'
BY InvoicesStay, ClaimStays, HeldStays, PaidFollows, ReceiptsFollow, QuietMatches DEF AInv, Quiet

-----------------------------------------------------------------------------
(***************************************************************************)
(* The steps that apply no status and make no order.                       *)
(***************************************************************************)
LEMMA CallLeaves ==
  ASSUME IInv, NEW c \in Calls, NEW pc, pc \notin Busy,
         Go(c, pc) \/ GoWithout(c, pc) \/ Answer(c) \/ Unwind(c)
  PROVE  (\A d \in Calls : CallFlows(d)) /\ call'[c].pc \notin Busy /\ OthersStay(c)
<1>1. call \in [Calls -> Call] /\ call[c] \in Call
  BY DEF IInv, TypeOK
<1>2. \A d \in Calls \ {c} : call'[d] = call[d]
  BY <1>1 DEF Go, GoWithout, Answer, Unwind
<1>3. call'[c].pc \notin Busy
  <2>1. Idle.pc \notin Busy /\ "lapse" \notin Busy
    BY DEF Idle, Busy, MakeSteps, HoldSteps
  <2>2. CASE Go(c, pc) \/ GoWithout(c, pc) \/ GoWithout(c, "lapse")
    BY <1>1, <2>1, <2>2 DEF Go, GoWithout, Call
  <2>3. CASE Answer(c)
    BY <1>1, <2>1, <2>3 DEF Answer
  <2>4. QED
    BY <2>2, <2>3 DEF Unwind
<1>4. QED
  BY <1>2, <1>3 DEF CallFlows, OthersStay

LEMMA CallsStill ==
  ASSUME UNCHANGED call
  PROVE  \A d \in Calls : CallFlows(d)
BY DEF CallFlows

LEMMA RowsStill ==
  ASSUME IInv, UNCHANGED order
  PROVE  RowsFlow /\ DOMAIN order' = DOMAIN order /\ \A o \in DOMAIN order : RowQuiet(o)
BY DEF RowsFlow, RowFlows, RowKeeps, RowQuiet, Taken, TakenNow

LEMMA KeysStill ==
  ASSUME UNCHANGED <<order, commerce>>
  PROVE  KeysFlow
BY DEF KeysFlow, KeyFlows

LEMMA PaymentsStill ==
  ASSUME UNCHANGED invoice
  PROVE  PaymentsFlow
BY DEF PaymentsFlow, PaymentKeeps

\* No order is written and no payment made.
LEMMA Elsewhere ==
  ASSUME IInv, UNCHANGED <<order, sub, commerce, invoice>>,
         \A n \in 1 .. Places : PlaceLet(n), \A d \in Calls : CallFlows(d)
  PROVE  Quiet
BY RowsStill, KeysStill, PaymentsStill DEF Quiet, Flows, SubsFlow

\* A commerce order is marked.
LEMMA KeyQuiet ==
  ASSUME IInv, NEW k \in DOMAIN commerce, NEW r, SetCommerce(k, r),
         r.order = commerce[k].order, r.receipt = commerce[k].receipt,
         r.attempts \in {commerce[k].attempts, commerce[k].attempts + 1},
         UNCHANGED <<order, sub, place, invoice>>, \A d \in Calls : CallFlows(d)
  PROVE  Quiet
<1>1. /\ DOMAIN commerce' = DOMAIN commerce /\ commerce'[k] = r
      /\ \A j \in DOMAIN commerce \ {k} : commerce'[j] = commerce[j]
  BY DEF SetCommerce, IInv, TypeOK, TablesTypeOK
<1>2. KeysFlow
  BY <1>1 DEF KeysFlow, KeyFlows
<1>3. \A n \in 1 .. Places : PlaceLet(n)
  BY PlacesBe DEF IInv
<1>4. QED
  BY <1>2, <1>3, RowsStill, PaymentsStill DEF Quiet, Flows, SubsFlow

\* One row is written, as in RowIs.
LEMMA RowQuiets ==
  ASSUME IInv, NEW o \in DOMAIN order, NEW row \in OrderRow, RowIs(o, row),
         row.who = order[o].who, row.kind = order[o].kind,
         Taken(o) => row.pid # None \/ row.claimed,
         \/ row.pid = order[o].pid /\ row.status = order[o].status
         \/ row.pid = None /\ order[o].pid = None /\ row.status # "finished"
         \/ RowStored(o),
         UNCHANGED <<sub, place, invoice>>, \A d \in Calls : CallFlows(d)
  PROVE  Quiet
<1>1. /\ DOMAIN order' = DOMAIN order
      /\ order'[o] = row /\ \A p \in DOMAIN order \ {o} : order'[p] = order[p]
      /\ DOMAIN commerce' = DOMAIN commerce
      /\ \A k \in DOMAIN commerce : /\ commerce'[k].order = commerce[k].order
                                    /\ commerce'[k].receipt = ReceiptAfter(k, o, row)
                                    /\ commerce'[k].attempts = commerce[k].attempts
  BY RowsAfter
<1>2. order[o].pid = None => order[o].status \in {"open", "lapsed"}
  BY DEF IInv, RowsKnown, RowKnown
<1>3. RowFlows(o) /\ RowQuiet(o)
  BY <1>1, <1>2 DEF RowFlows, RowKeeps, RowQuiet, TakenNow
<1>4. ASSUME NEW p \in DOMAIN order \ {o} PROVE RowFlows(p) /\ RowQuiet(p)
  BY <1>1, <1>4 DEF RowFlows, RowKeeps, RowQuiet, Taken, TakenNow
<1>5. RowsFlow
  BY <1>1, <1>3, <1>4 DEF RowsFlow
<1>6. KeysFlow
  <2>1. ASSUME NEW k \in DOMAIN commerce PROVE KeyFlows(k)
    <3>1. commerce[k].order \in DOMAIN order
      BY DEF IInv, CommerceKnown
    <3>2. CASE commerce[k].order = o
      BY <1>1, <3>2 DEF KeyFlows, ReceiptAfter
    <3>3. CASE commerce[k].order # o
      BY <1>1, <3>1, <3>3 DEF KeyFlows, ReceiptAfter
    <3>4. QED
      BY <3>2, <3>3
  <2>2. QED
    BY <1>1, <2>1 DEF KeysFlow
<1>7. \A n \in 1 .. Places : PlaceLet(n)
  BY PlacesBe DEF IInv
<1>8. QED
  BY <1>1, <1>3, <1>4, <1>5, <1>6, <1>7, PaymentsStill DEF Quiet, Flows, SubsFlow

LEMMA OutsideQuiet ==
  ASSUME AInv,
         \/ \E c \in Calls : Die(c) \/ Release(c) \/ Cancel(c)
         \/ \E i \in DOMAIN invoice, s \in Statuses : Report(i, s)
         \/ \E o \in OrderIds, s \in Statuses : Notify(o, s)
         \/ \E o \in OrderIds : Rollback(o) \/ CampaignEnds(o)
         \/ \E n \in 1 .. Places : ReservationRunsOut(n)
         \/ UNCHANGED vars
  PROVE  Quiet
<1>1. TypeOK /\ IInv
  BY DEF AInv, IInv
<1>2. UNCHANGED place => \A n \in 1 .. Places : PlaceLet(n)
  BY <1>1, PlacesBe
<1>3. ASSUME NEW c \in Calls, Die(c) \/ Release(c) \/ Cancel(c) PROVE Quiet
  <2>1. /\ UNCHANGED <<order, sub, commerce, invoice>>
        /\ Answer(c) \/ Go(c, "cancel")
        /\ UNCHANGED place \/ place' = Released(call[c].order)
    BY <1>3 DEF Die, Release, Cancel, External, tables
  <2>2. "cancel" \notin Busy
    BY DEF Busy, MakeSteps, HoldSteps
  <2>3. \A d \in Calls : CallFlows(d)
    BY <1>1, <2>1, <2>2, CallLeaves
  <2>4. QED
    BY <1>1, <1>2, <2>1, <2>3, PlacesReleased, Elsewhere
<1>4. ASSUME NEW i \in DOMAIN invoice, NEW s \in Statuses, Report(i, s) PROVE Quiet
  <2>1. /\ invoice' = [invoice EXCEPT ![i].said = invoice[i].said \cup {s}]
        /\ order[invoice[i].order].pid = i
        /\ UNCHANGED <<order, sub, place, commerce, call>>
        /\ invoice \in [DOMAIN invoice -> [order : OrderIds, said : SUBSET Statuses]]
    BY <1>1, <1>4 DEF Report, tables, TypeOK
  <2>2. /\ DOMAIN invoice' = DOMAIN invoice /\ \A j \in DOMAIN invoice \ {i} : invoice'[j] = invoice[j]
        /\ invoice'[i].order = invoice[i].order /\ invoice'[i].said = invoice[i].said \cup {s}
    BY <2>1
  <2>3. invoice[i].order \in DOMAIN order
    BY <1>4 DEF AInv, InvoicesKnown
  <2>4. PaymentsFlow
    BY <2>1, <2>2, <2>3 DEF PaymentsFlow, PaymentKeeps
  <2>5. QED
    BY <1>2, <2>1, <2>4, <1>1, RowsStill, KeysStill, CallsStill DEF Quiet, Flows, SubsFlow
<1>5. ASSUME NEW o \in OrderIds, (\E s \in Statuses : Notify(o, s)) \/ Rollback(o) \/ CampaignEnds(o)
      PROVE  Quiet
  <2>1. UNCHANGED <<order, sub, place, commerce, invoice, call>>
    BY <1>5 DEF Notify, Rollback, CampaignEnds, tables, External
  <2>2. QED
    BY <1>1, <1>2, <2>1, CallsStill, Elsewhere
<1>6. ASSUME NEW n \in 1 .. Places, ReservationRunsOut(n) PROVE Quiet
  <2>1. place \in [1 .. Places -> Place] /\ place[n] \in Place /\ place' = [place EXCEPT ![n].due = TRUE]
    BY <1>1, <1>6 DEF TypeOK, TablesTypeOK, ReservationRunsOut
  <2>2. /\ place'[n] \in Place /\ place'[n].order = place[n].order /\ place'[n].status = place[n].status
        /\ \A m \in (1 .. Places) \ {n} : place'[m] = place[m]
    BY <2>1 DEF Place
  <2>3. \A m \in 1 .. Places : PlaceLet(m)
    BY <2>1, <2>2 DEF PlaceLet
  <2>4. UNCHANGED <<order, sub, commerce, invoice, call>>
    BY <1>6 DEF ReservationRunsOut, External
  <2>5. QED
    BY <1>1, <2>3, <2>4, CallsStill, Elsewhere
<1>7. CASE UNCHANGED vars
  BY <1>1, <1>2, <1>7, CallsStill, Elsewhere DEF vars, tables
<1>8. QED
  BY <1>3, <1>4, <1>5, <1>6, <1>7

LEMMA ClaimQuiet ==
  ASSUME IInv, NEW c \in Calls, Claim(c)
  PROVE  Quiet
<1> DEFINE o == call[c].order
           row == [order[o] EXCEPT !.claimed = TRUE]
<1>1. call[c].pc = "claim" /\ UNCHANGED <<sub, place, campaign, invoice, commerce>>
  BY DEF Claim, At, GrantsKept, External
<1>2. "lapse" \notin Busy
  BY DEF Busy, MakeSteps, HoldSteps
<1>3. o \in DOMAIN order /\ order[o] \in OrderRow
  BY <1>1, AtCall
<1>4. CASE (Answer(c) \/ Unwind(c)) /\ UNCHANGED order
  <2>1. \A d \in Calls : CallFlows(d)
    BY <1>2, <1>4, CallLeaves
  <2>2. QED
    BY <1>1, <1>4, <2>1, PlacesBe, Elsewhere DEF IInv
<1>5. CASE CanClaim(o) /\ ClaimOrder(o) /\ (Go(c, "create") \/ Unwind(c))
  <2>1. /\ row \in OrderRow /\ row.pid = order[o].pid /\ row.status = order[o].status
        /\ row.who = order[o].who /\ row.kind = order[o].kind /\ row.claimed = TRUE
    BY <1>3 DEF OrderRow
  <2>2. order' = [order EXCEPT ![o] = row] /\ ~Taken(o)
    BY <1>5 DEF ClaimOrder, CanClaim, Taken
  <2>3. order'[o].claimed = TRUE
    BY <1>3, <2>1, <2>2
  <2>4. \A d \in Calls : CallFlows(d)
    <3>1. CASE Unwind(c)
      BY <1>2, <3>1, CallLeaves
    <3>2. CASE Go(c, "create")
      <4>1. /\ call'[c].pc = "create" /\ call'[c].order = call[c].order
            /\ \A d \in Calls \ {c} : call'[d] = call[d]
        BY <3>2 DEF Go, IInv, TypeOK, Call
      <4>2. TakesClaim(c) /\ OthersStay(c)
        BY <1>1, <2>2, <2>3, <4>1, Zenon DEF TakesClaim, OthersStay
      <4>3. QED
        BY <4>1, <4>2 DEF CallFlows
    <3>3. QED
      BY <1>5, <3>1, <3>2
  <2> HIDE DEF row, o
  <2>5. RowIs(o, row)
    BY <1>1, <2>1, <2>2 DEF RowIs
  <2>6. row.claimed
    BY <2>1, Zenon
  <2>7. QED
    BY <1>1, <1>3, <2>1, <2>4, <2>5, <2>6, RowQuiets
<1>6. QED
  BY <1>4, <1>5 DEF Claim

\* A payment is made, and held or forgotten.
LEMMA CreateQuiet ==
  ASSUME IInv, NEW c \in Calls, CheckoutPayment(c) \/ AgentPayment(c)
  PROVE  Quiet
<1>0. PICK stored \in {"store", "agent store"} : Creates(c, stored)
  BY PaymentCreated
<1> DEFINE o == call[c].order
<1>1. /\ UNCHANGED <<tables, applying>> /\ call[c].pc \in MakeSteps
      /\ \/ stored = "store" /\ call[c].pc = "create"
         \/ stored = "agent store" /\ call[c].pc = "agent create"
      /\ \/ Fails(c) /\ UNCHANGED invoice
         \/ \E i, s : Invoiced(i, o, s) /\ (Holds(c, stored, i, s) \/ Fails(c))
  BY <1>0, CreatedMoves DEF MakeSteps
<1>2. TypeOK /\ call \in [Calls -> Call] /\ call[c] \in Call /\ "failed" \notin Busy
  BY DEF IInv, TypeOK, Busy, MakeSteps, HoldSteps
<1>3. UNCHANGED <<order, sub, place, commerce>> /\ \A n \in 1 .. Places : PlaceLet(n)
  BY <1>1, <1>2, PlacesBe DEF tables
<1>4. Fails(c) => (\A d \in Calls : CallFlows(d)) /\ call'[c].pc \notin Busy /\ OthersStay(c)
  BY <1>2, CallLeaves DEF Fails
<1>5. CASE Fails(c) /\ UNCHANGED invoice
  BY <1>3, <1>4, <1>5, Elsewhere
<1>6. ASSUME NEW i, NEW s, Invoiced(i, o, s), Holds(c, stored, i, s) \/ Fails(c)
      PROVE  Quiet
  <2>1. /\ DOMAIN invoice' = DOMAIN invoice \cup {i} /\ i \notin DOMAIN invoice /\ i \in Invoices
        /\ invoice'[i].order = o /\ invoice'[i].said = {s}
        /\ \A j \in DOMAIN invoice : invoice'[j] = invoice[j]
    <3>1. call[c].pc # "idle" /\ i \in Invoices
      BY <1>1, <1>6 DEF MakeSteps, Invoiced
    <3>2. Invoiced(i, call[c].order, s)
      BY <1>6
    <3>3. /\ DOMAIN invoice' = DOMAIN invoice \cup {i} /\ i \notin DOMAIN invoice
          /\ invoice'[i].order = call[c].order /\ invoice'[i].said = {s}
          /\ \A j \in DOMAIN invoice : invoice'[j] = invoice[j]
      BY <3>1, <3>2, InvoiceAdded
    <3>4. QED
      BY <3>1, <3>3
  <2> HIDE DEF o
  <2>2. (\A d \in Calls : CallFlows(d)) /\ call'[c].pc \notin MakeSteps /\ OthersStay(c)
    <3>1. CASE Fails(c)
      BY <1>4, <3>1 DEF Busy
    <3>2. CASE Holds(c, stored, i, s)
      <4>1. /\ \A d \in Calls \ {c} : call'[d] = call[d]
            /\ call'[c].pc = stored /\ call'[c].pid = i /\ call'[c].status = s
            /\ call'[c].order = call[c].order
        BY <1>2, <3>2 DEF Call, Holds
      <4>2. HoldsPayment(c) /\ OthersStay(c)
        BY <1>1, <2>1, <4>1 DEF HoldsPayment, OthersStay
      <4>3. \A d \in Calls : CallFlows(d)
        BY <4>1, <4>2 DEF CallFlows
      <4>4. QED
        BY <4>1, <4>2, <4>3 DEF MakeSteps
    <3>3. QED
      BY <1>6, <3>1, <3>2
  <2>3. Makes(c, i)
    BY <1>1, <1>3, <2>1, <2>2 DEF Makes, o
  <2>4. PaymentsFlow
    BY <2>1, <2>3 DEF PaymentsFlow, PaymentKeeps
  <2>5. QED
    BY <1>3, <2>2, <2>4, RowsStill, KeysStill DEF Quiet, Flows, SubsFlow
<1>7. QED
  BY <1>1, <1>5, <1>6

LEMMA StoredQuiet ==
  ASSUME IInv, NEW c \in Calls, NEW s, StoreInvoice(call[c].order, call[c].pid, s),
         \/ call[c].pc = "store" /\ s = call[c].status
         \/ call[c].pc = "agent store" /\ s = "open" /\ order[call[c].order].pid = None,
         UNCHANGED <<sub, place, invoice>>, \A d \in Calls : CallFlows(d), call'[c].pc \notin Busy
  PROVE  Quiet
<1> DEFINE o == call[c].order
           i == call[c].pid
           row == [order[o] EXCEPT !.pid = i, !.status = s, !.claimed = FALSE]
<1>1. call[c].pc \in HoldSteps /\ call[c] \in Call /\ s \in Statuses
  BY DEF HoldSteps, IInv, TypeOK, Call, Statuses
<1>2. /\ o \in DOMAIN order /\ order[o] \in OrderRow /\ i \in DOMAIN invoice /\ i # None
      /\ s = "finished" => "finished" \in invoice[i].said
  BY <1>1, Holding, AtCall DEF Busy, HoldSteps
<1>3. i \in Invoices
  BY <1>2 DEF IInv, TypeOK
<1>4. order' = [order EXCEPT ![o] = row] /\ commerce' = Captured(order')
  BY DEF StoreInvoice, WriteOrder
<1>5. /\ row \in OrderRow /\ row.pid = i /\ row.status = s
      /\ row.who = order[o].who /\ row.kind = order[o].kind
  BY <1>1, <1>2, <1>3 DEF OrderRow
<1>6. order'[o].pid = i /\ order'[o].status = s
  BY <1>2, <1>4, <1>5
<1>7. RowStored(o)
  BY <1>6 DEF RowStored, StoredBy
<1> HIDE DEF row, o, i
<1>8. RowIs(o, row)
  BY <1>2, <1>4, <1>5 DEF RowIs
<1>9. QED
  BY <1>2, <1>5, <1>7, <1>8, RowQuiets

LEMMA StoreQuiet ==
  ASSUME IInv, NEW c \in Calls, Store(c) \/ AgentStore(c)
  PROVE  Quiet
<1> DEFINE o == call[c].order
           i == call[c].pid
<1>1. /\ call[c].pc \in HoldSteps /\ UNCHANGED <<sub, place, campaign, invoice>>
      /\ \/ Answer(c) \/ Unwind(c) \/ \E pc \in {"ready", "failed"} : GoWithout(c, pc)
      /\ \/ call[c].pc = "store" /\ StoreInvoice(o, i, call[c].status)
         \/ call[c].pc = "agent store" /\ order[o].pid = None /\ StoreInvoice(o, i, "open")
         \/ WriteOrder(order)
         \/ UNCHANGED <<order, commerce>>
  BY DEF Store, AgentStore, At, GrantsKept, External, HoldSteps, StoreInvoiceOnce
<1>2. (\A d \in Calls : CallFlows(d)) /\ call'[c].pc \notin Busy
  <2>1. "ready" \notin Busy /\ "failed" \notin Busy
    BY DEF Busy, MakeSteps, HoldSteps
  <2>2. QED
    BY <1>1, <2>1, CallLeaves
<1>3. o \in DOMAIN order /\ order[o] \in OrderRow
  BY <1>1, AtCall DEF HoldSteps
<1>4. CASE UNCHANGED <<order, commerce>>
  BY <1>1, <1>2, <1>4, PlacesBe, Elsewhere DEF IInv
<1>5. CASE WriteOrder(order)
  <2>1. RowIs(o, order[o])
    BY <1>3, <1>5 DEF WriteOrder, RowIs, IInv, TypeOK, TablesTypeOK
  <2> HIDE DEF o
  <2>2. QED
    BY <1>1, <1>2, <1>3, <2>1, RowQuiets DEF Taken
<1>6. QED
  BY <1>1, <1>2, <1>4, <1>5, StoredQuiet

LEMMA LapseQuiet ==
  ASSUME IInv, NEW c \in Calls, Lapse(c)
  PROVE  Quiet
<1> DEFINE o == call[c].order
           row == [order[o] EXCEPT !.status = "lapsed"]
<1>1. /\ call[c].pc = "lapse" /\ UNCHANGED <<sub, place, invoice>> /\ Go(c, "release")
      /\ \/ order[o].pid = None /\ WriteOrder([order EXCEPT ![o].status = "lapsed"])
         \/ UNCHANGED <<order, commerce>>
  BY DEF Lapse, At, GrantsKept, External, LapseUninvoiced
<1>2. \A d \in Calls : CallFlows(d)
  <2>1. "release" \notin Busy
    BY DEF Busy, MakeSteps, HoldSteps
  <2>2. QED
    BY <1>1, <2>1, CallLeaves
<1>3. CASE UNCHANGED <<order, commerce>>
  BY <1>1, <1>2, <1>3, PlacesBe, Elsewhere DEF IInv
<1>4. CASE order[o].pid = None /\ WriteOrder([order EXCEPT ![o].status = "lapsed"])
  <2>1. o \in DOMAIN order /\ order[o] \in OrderRow
    BY <1>1, AtCall
  <2>2. /\ row \in OrderRow /\ row.who = order[o].who /\ row.kind = order[o].kind /\ row.pid = None
        /\ row.status = "lapsed" /\ row.claimed = order[o].claimed
    BY <1>4, <2>1 DEF OrderRow, Statuses
  <2>3. order' = [order EXCEPT ![o] = row] /\ commerce' = Captured(order')
    BY <1>4 DEF WriteOrder
  <2>4. Taken(o) => row.claimed
    BY <1>4, <2>2, Zenon DEF Taken
  <2> HIDE DEF row, o
  <2>5. RowIs(o, row)
    BY <2>2, <2>3 DEF RowIs
  <2>6. QED
    BY <1>1, <1>2, <1>4, <2>1, <2>2, <2>4, <2>5, RowQuiets
<1>5. QED
  BY <1>1, <1>3, <1>4

LEMMA AgesQuiet ==
  ASSUME IInv, NEW o \in OrderIds, OrderAges(o)
  PROVE  Quiet
<1> DEFINE row == [order[o] EXCEPT !.recent = FALSE]
<1>1. /\ o \in DOMAIN order /\ order' = [order EXCEPT ![o] = row] /\ order[o] \in OrderRow
      /\ UNCHANGED <<sub, place, commerce, call, invoice>>
  BY DEF OrderAges, External, IInv, TypeOK, TablesTypeOK
<1>2. /\ row \in OrderRow /\ row.who = order[o].who /\ row.kind = order[o].kind /\ row.pid = order[o].pid
      /\ row.status = order[o].status /\ row.claimed = order[o].claimed
  BY <1>1 DEF OrderRow
<1>3. Taken(o) => row.pid # None \/ row.claimed
  BY <1>2, Zenon DEF Taken
<1> HIDE DEF row
<1>4. RowIs(o, row)
  BY <1>1, <1>2 DEF RowIs
<1>5. QED
  BY <1>1, <1>2, <1>3, <1>4, CallsStill, RowQuiets

LEMMA MarkQuiet ==
  ASSUME IInv,
         \/ \E c \in Calls : Look(c) \/ MarkReady(c) \/ MarkFailed(c)
         \/ \E k \in Keys : ClaimAges(k)
  PROVE  Quiet
<1>1. ASSUME NEW k \in DOMAIN commerce, NEW s, SetCommerce(k, [commerce[k] EXCEPT !.state = s]),
             UNCHANGED <<order, sub, place, invoice>>, \A d \in Calls : CallFlows(d)
      PROVE  Quiet
  <2> DEFINE r == [commerce[k] EXCEPT !.state = s]
  <2>1. r.order = commerce[k].order /\ r.receipt = commerce[k].receipt /\ r.attempts = commerce[k].attempts
    BY DEF IInv, TypeOK, TablesTypeOK, Commerce
  <2>2. SetCommerce(k, r)
    BY <1>1
  <2> HIDE DEF r
  <2>3. QED
    BY <1>1, <2>1, <2>2, KeyQuiet
<1>2. ASSUME NEW c \in Calls, Look(c) \/ MarkReady(c) \/ MarkFailed(c) PROVE Quiet
  <2> DEFINE k == call[c].key
             a == [commerce[k] EXCEPT !.state = "creating", !.attempts = commerce[k].attempts + 1]
  <2>1. /\ call[c].pc \in AgentSteps /\ UNCHANGED <<order, sub, place, invoice>>
        /\ \/ /\ Answer(c) \/ Go(c, "failed")
              /\ UNCHANGED commerce \/ \E s : SetCommerce(k, [commerce[k] EXCEPT !.state = s])
           \/ call[c].pc = "look" /\ SetCommerce(k, a) /\ Go(c, "agent create")
    BY <1>2 DEF Look, MarkReady, MarkFailed, At, GrantsKept, External, AgentSteps
  <2>2. k \in DOMAIN commerce /\ commerce[k] \in Commerce
    BY <2>1, AtKey
  <2>3. CASE /\ Answer(c) \/ Go(c, "failed")
             /\ UNCHANGED commerce \/ \E s : SetCommerce(k, [commerce[k] EXCEPT !.state = s])
    <3>1. "failed" \notin Busy
      BY DEF Busy, MakeSteps, HoldSteps
    <3>2. \A d \in Calls : CallFlows(d)
      BY <2>3, <3>1, CallLeaves
    <3>3. CASE UNCHANGED commerce
      BY <2>1, <3>2, <3>3, PlacesBe, Elsewhere DEF IInv
    <3> HIDE DEF k
    <3>4. CASE \E s : SetCommerce(k, [commerce[k] EXCEPT !.state = s])
      BY <1>1, <2>1, <2>2, <3>2, <3>4
    <3>5. QED
      BY <2>3, <3>3, <3>4
  <2>4. CASE call[c].pc = "look" /\ SetCommerce(k, a) /\ Go(c, "agent create")
    <3>1. /\ a.order = commerce[k].order /\ a.receipt = commerce[k].receipt
          /\ a.attempts = commerce[k].attempts + 1
      BY <2>2 DEF Commerce
    <3>2. /\ call'[c].pc = "agent create" /\ call'[c].order = call[c].order /\ call'[c].key = call[c].key
          /\ \A d \in Calls \ {c} : call'[d] = call[d]
      BY <2>4 DEF Go, IInv, TypeOK, Call
    <3>3. commerce'[k].attempts = commerce[k].attempts + 1
      BY <2>2, <2>4, <3>1 DEF SetCommerce
    <3>4. CountsAttempt(c) /\ OthersStay(c)
      BY <2>4, <3>2, <3>3 DEF CountsAttempt, OthersStay
    <3>5. \A d \in Calls : CallFlows(d)
      BY <3>2, <3>4 DEF CallFlows
    <3> HIDE DEF a, k
    <3>6. QED
      BY <2>1, <2>2, <2>4, <3>1, <3>5, KeyQuiet
  <2>5. QED
    BY <2>1, <2>3, <2>4
<1>3. ASSUME NEW k \in Keys, ClaimAges(k) PROVE Quiet
  <2>1. /\ k \in DOMAIN commerce /\ SetCommerce(k, [commerce[k] EXCEPT !.state = "stuck"])
        /\ UNCHANGED <<order, sub, place, call, invoice>>
    BY <1>3 DEF ClaimAges, External
  <2>2. QED
    BY <1>1, <2>1, CallsStill
<1>4. QED
  BY <1>2, <1>3

-----------------------------------------------------------------------------
(***************************************************************************)
(* New orders, and a status that is applied.                               *)
(***************************************************************************)
LEMMA FlowsHold ==
  ASSUME AInv, IInv', Flows, GrantsMatch'
  PROVE  AInv'
BY InvoicesStay, ClaimStays, HeldStays, PaidFollows, ReceiptsFollow DEF AInv

LEMMA CallStarts ==
  ASSUME IInv, NEW c \in Calls, NEW r, r.pc \notin Busy, call' = [call EXCEPT ![c] = r]
  PROVE  \A d \in Calls : CallFlows(d)
BY DEF CallFlows, IInv, TypeOK

LEMMA NewFlows ==
  ASSUME IInv, NEW o \in OrderIds, NEW kind \in AllKinds, NEW who \in Members, OrderIsNew(o, kind, who),
         \A d \in Calls : CallFlows(d)
  PROVE  Flows
<1>1. /\ o \notin DOMAIN order /\ DOMAIN order' = DOMAIN order \cup {o}
      /\ order'[o] = NewOrder(kind, who) /\ \A p \in DOMAIN order : order'[p] = order[p]
  BY NewRows
<1>2. order'[o].status = "open" /\ order'[o].pid = None
  BY <1>1 DEF NewOrder
<1>3. /\ DOMAIN commerce \subseteq DOMAIN commerce'
      /\ \A k \in DOMAIN commerce : commerce'[k] = commerce[k]
      /\ \A k \in DOMAIN commerce' \ DOMAIN commerce : commerce'[k].order = o /\ commerce'[k].receipt = None
  BY NewGrants
<1>4. \A j, k \in DOMAIN commerce' \ DOMAIN commerce : j = k
  BY DEF OrderIsNew, Put
<1>5. UNCHANGED <<sub, invoice>>
  BY DEF OrderIsNew
<1>6. RowsFlow
  BY <1>1, <1>2 DEF RowsFlow, RowFlows, RowKeeps, Taken, TakenNow
<1>7. KeysFlow
  <2>1. ASSUME NEW k \in DOMAIN commerce PROVE KeyFlows(k)
    <3>1. commerce[k].order \in DOMAIN order
      BY DEF IInv, CommerceKnown
    <3>2. QED
      BY <1>1, <1>3, <3>1 DEF KeyFlows
  <2>2. QED
    BY <1>1, <1>3, <1>4, <2>1 DEF KeysFlow
<1>8. QED
  BY <1>5, <1>6, <1>7, PaymentsStill DEF Flows, SubsFlow

LEMMA NewMatches ==
  ASSUME AInv, NEW o \in OrderIds, NEW kind \in AllKinds, NEW who \in Members, OrderIsNew(o, kind, who)
  PROVE  GrantsMatch'
<1>1. IInv
  BY DEF AInv
<1>2. /\ DOMAIN order' = DOMAIN order \cup {o} /\ \A p \in DOMAIN order : order'[p] = order[p]
      /\ order'[o] = NewOrder(kind, who)
  BY <1>1, NewRows
<1>3. order'[o].kind = kind
  BY <1>2 DEF NewOrder
<1>4. /\ \A n \in 1 .. Places : PlaceLet(n) \/ (kind = "fame" /\ PlaceTaken(n, o))
      /\ UNCHANGED sub /\ UNCHANGED invoice
  BY DEF OrderIsNew
<1>5. \A i \in DOMAIN sub' : SubMatches(i)'
  BY <1>2, <1>4 DEF AInv, GrantsMatch, SubMatches
<1>6. ASSUME NEW n \in 1 .. Places PROVE PlaceMatches(n)'
  <2>1. CASE PlaceTaken(n, o) /\ kind = "fame"
    BY <1>3, <2>1 DEF PlaceTaken, PlaceMatches
  <2>2. CASE place'[n] = OpenPlace
    BY <2>2 DEF OpenPlace, PlaceMatches
  <2>3. CASE place'[n].order = place[n].order /\ place'[n].status = place[n].status
    <3>1. PICK p : p = place[n].order
      OBVIOUS
    <3>2. place[n].status # "open" => p \in DOMAIN order
      BY <1>1, <3>1 DEF IInv, PlacesKnown
    <3>3. p \in DOMAIN order /\ PaidBesides(p) => PaidBesides(p)'
      BY <1>2, <1>4 DEF PaidBesides
    <3>4. PlaceMatches(n)
      BY DEF AInv, GrantsMatch
    <3>5. QED
      BY <1>2, <2>3, <3>1, <3>2, <3>3, <3>4 DEF PlaceMatches
  <2>4. QED
    BY <1>4, <2>1, <2>2, <2>3 DEF PlaceLet
<1>7. QED
  BY <1>5, <1>6 DEF GrantsMatch

\* A checkout gets a new order, or one of its own.
LEMMA CheckoutTakes ==
  ASSUME IInv, NEW c \in Calls, NEW who \in Humans, NEW kind \in Kinds, NEW o \in OrderIds,
         Checkout(c, who, kind, o)
  PROVE  OrderIsNew(o, kind, who) \/ Quiet
<1>1. /\ IF kind = "fame" THEN TakePlace(o, who) ELSE TakeOrder(o, kind, who)
      /\ UNCHANGED <<sub, commerce, invoice, applying>>
  BY DEF Checkout, External
<1>2. TypeOK
  BY DEF IInv
<1>3. \A d \in Calls : CallFlows(d)
  <2> DEFINE r == [Idle EXCEPT !.pc = "claim", !.order = o]
  <2>1. call' = [call EXCEPT ![c] = r] /\ r.pc \notin Busy
    BY DEF Checkout, Idle, Busy, MakeSteps, HoldSteps
  <2> HIDE DEF r
  <2>2. QED
    BY <2>1, CallStarts
<1>4. ASSUME UNCHANGED order, UNCHANGED place \/ place' = Swept
      PROVE  Quiet
  <2>1. \A n \in 1 .. Places : PlaceLet(n)
    BY <1>2, <1>4, PlacesBe, SweptLets
  <2>2. QED
    BY <1>1, <1>3, <1>4, <2>1, Elsewhere
<1>5. ASSUME kind = "fame", TakePlace(o, who)
      PROVE  OrderIsNew(o, kind, who) \/ Quiet
  <2>1. CASE ReservePlace(o, who)
    BY <1>1, <1>2, <1>5, <2>1, PlaceReserved DEF OrderIsNew
  <2>2. CASE place' = Swept /\ UNCHANGED order
    BY <1>4, <2>2
  <2>3. QED
    BY <1>5, <2>1, <2>2 DEF TakePlace
<1>6. ASSUME kind # "fame", TakeOrder(o, kind, who)
      PROVE  OrderIsNew(o, kind, who) \/ Quiet
  <2>1. CASE UNCHANGED <<order, place, campaign>>
    BY <1>4, <2>1
  <2>2. CASE kind = "plan" /\ InsertPlan(o, who)
    BY <1>1, <1>2, <2>2, PlacesBe DEF OrderIsNew, InsertPlan
  <2>3. CASE kind = "highlight" /\ InsertHighlight(o, who)
    BY <1>1, <1>2, <2>3, PlacesBe DEF OrderIsNew, InsertHighlight
  <2>4. QED
    BY <1>6, <2>1, <2>2, <2>3 DEF TakeOrder
<1>7. QED
  BY <1>1, <1>5, <1>6

\* An agent gets a new order, or the one its key made.
LEMMA AgentTakes ==
  ASSUME IInv, NEW c \in Calls, NEW who \in Agents, NEW k \in Keys, NEW kind \in Kinds,
         NEW o \in OrderIds, AgentOrder(c, who, k, kind, o)
  PROVE  OrderIsNew(o, kind, who) \/ Quiet
<1>1. CreateCommerceOrder(k, o, kind, who) /\ UNCHANGED <<invoice, applying>>
  BY DEF AgentOrder, External
<1>2. TypeOK
  BY DEF IInv
<1>3. \A d \in Calls : CallFlows(d)
  <2> DEFINE r == [Idle EXCEPT !.pc = "look", !.order = o, !.key = k]
  <2>1. call' = [call EXCEPT ![c] = r] /\ r.pc \notin Busy
    BY DEF AgentOrder, Idle, Busy, MakeSteps, HoldSteps
  <2> HIDE DEF r
  <2>2. QED
    BY <2>1, CallStarts
<1>4. CASE UNCHANGED tables
  <2>1. UNCHANGED <<order, sub, place, commerce>>
    BY <1>4 DEF tables
  <2>2. QED
    BY <1>1, <1>2, <1>3, <2>1, PlacesBe, Elsewhere
<1>5. ASSUME k \notin DOMAIN commerce, commerce' = Put(commerce, k, FirstCommerce(o)), UNCHANGED sub,
             \/ kind = "plan" /\ InsertPlan(o, who)
             \/ kind = "highlight" /\ InsertHighlight(o, who)
             \/ kind = "fame" /\ ReservePlace(o, who)
      PROVE  OrderIsNew(o, kind, who)
  <2>1. CASE kind = "plan" /\ InsertPlan(o, who)
    BY <1>1, <1>2, <1>5, <2>1, PlacesBe DEF InsertPlan, OrderIsNew
  <2>2. CASE kind = "highlight" /\ InsertHighlight(o, who)
    BY <1>1, <1>2, <1>5, <2>2, PlacesBe DEF InsertHighlight, OrderIsNew
  <2>3. CASE kind = "fame" /\ ReservePlace(o, who)
    BY <1>1, <1>2, <1>5, <2>3, PlaceReserved DEF OrderIsNew
  <2>4. QED
    BY <1>5, <2>1, <2>2, <2>3
<1>6. QED
  BY <1>1, <1>4, <1>5 DEF CreateCommerceOrder, FirstCommerce

TakesOrder(c) ==
  \/ \E who \in Humans, kind \in Kinds, o \in OrderIds : Checkout(c, who, kind, o)
  \/ \E who \in Agents, k \in Keys, kind \in Kinds, o \in OrderIds : AgentOrder(c, who, k, kind, o)

LEMMA TakesHolds ==
  ASSUME AInv, IInv', NEW c \in Calls, TakesOrder(c)
  PROVE  Flows /\ AInv'
<1>1. IInv
  BY DEF AInv
<1>2. \A d \in Calls : CallFlows(d)
  <2> DEFINE w(o) == [Idle EXCEPT !.pc = "claim", !.order = o]
             a(o, k) == [Idle EXCEPT !.pc = "look", !.order = o, !.key = k]
  <2>1. \A o, k : w(o).pc \notin Busy /\ a(o, k).pc \notin Busy
    BY DEF Idle, Busy, MakeSteps, HoldSteps
  <2>2. \/ \E o : call' = [call EXCEPT ![c] = w(o)]
        \/ \E o, k : call' = [call EXCEPT ![c] = a(o, k)]
    BY DEF TakesOrder, Checkout, AgentOrder
  <2> HIDE DEF w, a
  <2>3. QED
    BY <1>1, <2>1, <2>2, CallStarts
<1>3. CASE Quiet
  BY <1>3, QuietHolds DEF Quiet
<1>4. ASSUME NEW o \in OrderIds, NEW kind \in AllKinds, NEW who \in Members, OrderIsNew(o, kind, who)
      PROVE  Flows /\ AInv'
  BY <1>1, <1>2, <1>4, NewFlows, NewMatches, FlowsHold
<1>5. QED
  BY <1>1, <1>3, <1>4, CheckoutTakes, AgentTakes, KindsAreKnown, BuyersAreMembers DEF TakesOrder

\* How the order goes from its status to s, with its tables.
Goes(o, s) ==
  LET old == order[o].status IN
  \/ s = "finished" /\ old # "finished" /\ Grant(o, applying[o].start)
  \/ s = "refunded" /\ old = "finished" /\ CanClose(o) /\ Close(o)
  \/ s \in {"lapsed", "refunded"} /\ old # "finished" /\ LetGo(o)
  \/ s = old /\ s \in {"finished", "refunded"} /\ UNCHANGED <<sub, place, campaign>>
  \/ s = "open" /\ old # "finished" /\ UNCHANGED <<sub, place, campaign>>

RowGoes(o, s) ==
  /\ o \in DOMAIN order /\ DOMAIN order' = DOMAIN order /\ s \in Statuses
  /\ order[o].pid \in DOMAIN invoice /\ order[o].pid # None /\ invoice[order[o].pid].order = o
  /\ order[o].kind \in AllKinds
  /\ order[o].status = "finished" => s \in {"finished", "refunded"}
  /\ order[o].status = "refunded" => s = "refunded"
  /\ s = "finished" /\ order[o].status # "finished" => "finished" \in invoice[order[o].pid].said
  /\ order'[o].status = s /\ order'[o].pid = order[o].pid
  /\ order'[o].who = order[o].who /\ order'[o].kind = order[o].kind /\ order'[o].claimed = order[o].claimed
  /\ \A p \in DOMAIN order \ {o} : order'[p] = order[p]
  /\ DOMAIN commerce' = DOMAIN commerce
  /\ \A k \in DOMAIN commerce :
       /\ commerce'[k].order = commerce[k].order /\ commerce'[k].attempts = commerce[k].attempts
       /\ commerce'[k].receipt =
            IF /\ commerce[k].order = o /\ s = "finished" /\ order[o].status # "finished"
               /\ commerce[k].receipt = None
            THEN order[o].pid ELSE commerce[k].receipt
  /\ UNCHANGED invoice /\ UNCHANGED call
  /\ Goes(o, s)

LEMMA ApplyGoes ==
  ASSUME IInv, NEW o \in OrderIds, Apply(o)
  PROVE  \E s : RowGoes(o, s)
<1> DEFINE s == EffectiveStatus(order[o].status, applying[o].status)
<1>1. /\ o \in DOMAIN order /\ order[o] \in OrderRow
      /\ order[o].pid \in DOMAIN invoice /\ order[o].pid # None /\ invoice[order[o].pid].order = o
      /\ s \in Statuses
      /\ s = "finished" /\ order[o].status # "finished" => "finished" \in invoice[order[o].pid].said
      /\ order[o].status = "finished" => s \in {"finished", "refunded"}
      /\ order[o].status = "refunded" => s = "refunded"
      /\ WithStatus(o, s) /\ UNCHANGED <<call, invoice>>
  BY StatusApplied
<1>2. Goes(o, s)
  BY StatusApplied DEF Goes
<1> HIDE DEF s
<1>3. order[o].kind \in AllKinds
  BY <1>1 DEF OrderRow
<1>4. /\ DOMAIN order' = DOMAIN order
      /\ order'[o].status = s /\ order'[o].pid = order[o].pid
      /\ order'[o].who = order[o].who /\ order'[o].kind = order[o].kind /\ order'[o].claimed = order[o].claimed
      /\ \A p \in DOMAIN order \ {o} : order'[p] = order[p]
  BY <1>1, AppliedRows
<1>5. /\ DOMAIN commerce' = DOMAIN commerce
      /\ \A k \in DOMAIN commerce :
           /\ commerce'[k].order = commerce[k].order /\ commerce'[k].attempts = commerce[k].attempts
           /\ commerce'[k].receipt =
                IF /\ commerce[k].order = o /\ s = "finished" /\ order[o].status # "finished"
                   /\ commerce[k].receipt = None
                THEN order[o].pid ELSE commerce[k].receipt
  BY <1>1, AppliedRows
<1>6. RowGoes(o, s)
  BY <1>1, <1>2, <1>3, <1>4, <1>5 DEF RowGoes
<1>7. QED
  BY <1>6

LEMMA ApplyFlows ==
  ASSUME IInv, NEW o \in OrderIds, NEW s, RowGoes(o, s)
  PROVE  Flows /\ \A p \in DOMAIN order : RowKeeps(p)
<1>1. \A p \in DOMAIN order : RowKeeps(p)
  BY DEF RowGoes, RowKeeps
<1>2. /\ o \in DOMAIN order /\ DOMAIN order' = DOMAIN order
      /\ order'[o].status = s /\ order'[o].pid = order[o].pid
      /\ order'[o].who = order[o].who /\ order'[o].kind = order[o].kind
      /\ \A p \in DOMAIN order \ {o} : order'[p] = order[p]
  BY DEF RowGoes
<1>3. ASSUME NEW p \in DOMAIN order PROVE Taken(p) => TakenNow(p)
  <2>1. order'[p].claimed = order[p].claimed /\ order'[p].pid = order[p].pid
    BY <1>3 DEF RowGoes
  <2>2. QED
    BY <2>1, Zenon DEF Taken, TakenNow
<1>4. RowsFlow
  BY <1>1, <1>2, <1>3 DEF RowsFlow, RowFlows
<1>5. KeysFlow
  <2>1. ASSUME NEW k \in DOMAIN commerce PROVE KeyFlows(k)
    <3>1. commerce[k].order \in DOMAIN order
      BY DEF IInv, CommerceKnown
    <3>2. QED
      BY <3>1 DEF RowGoes, KeyFlows
  <2>2. QED
    BY <2>1 DEF KeysFlow, RowGoes
<1>6. PaymentsFlow /\ \A c \in Calls : CallFlows(c)
  BY PaymentsStill, CallsStill DEF RowGoes
<1>7. SubsFlow
  <2>1. (DOMAIN sub') \subseteq (DOMAIN sub) \cup {order[o].pid}
    BY DEF RowGoes, Goes, Grant, GrantPlan, Put, SetPlace, SetCampaign, Close, ClosePlan, LetGo, AllKinds
  <2>2. order[o].pid \in DOMAIN invoice
    BY DEF RowGoes
  <2>3. QED
    BY <1>2, <2>1, <2>2 DEF SubsFlow
<1>8. QED
  BY <1>1, <1>4, <1>5, <1>6, <1>7 DEF Flows

LEMMA ApplySubs ==
  ASSUME AInv, NEW o \in OrderIds, NEW s, RowGoes(o, s)
  PROVE  \A i \in DOMAIN sub' : SubMatches(i)'
<1>0. PICK pid : pid = order[o].pid
  OBVIOUS
<1>1. /\ o \in DOMAIN order /\ order[o].kind \in AllKinds /\ invoice[pid].order = o
      /\ order'[o].status = s /\ order'[o].kind = order[o].kind /\ order'[o].pid = pid
      /\ DOMAIN order' = DOMAIN order /\ UNCHANGED invoice
      /\ \A p \in DOMAIN order \ {o} : order'[p] = order[p]
  BY <1>0 DEF RowGoes
<1>2. \A i \in DOMAIN sub : SubMatches(i)
  BY DEF AInv, GrantsMatch
<1>3. ASSUME NEW i \in DOMAIN sub, i # pid, sub'[i] = sub[i]
      PROVE  SubMatches(i)'
  BY <1>0, <1>1, <1>2, <1>3 DEF SubMatches
<1>4. ASSUME order[o].kind = "plan", sub'[pid].active => s = "finished"
      PROVE  SubMatches(pid)'
  BY <1>1, <1>4 DEF SubMatches
<1>5. ASSUME UNCHANGED sub, pid \in DOMAIN sub /\ sub[pid].active => s = "finished"
      PROVE  \A i \in DOMAIN sub' : SubMatches(i)'
  <2>1. pid \in DOMAIN sub => order[o].kind = "plan"
    BY <1>1, <1>2 DEF SubMatches
  <2>2. QED
    BY <1>3, <1>4, <1>5, <2>1
<1>6. pid \in DOMAIN sub => order[o].kind = "plan" /\ (sub[pid].active => order[o].status = "finished")
  BY <1>0, <1>1, <1>2 DEF SubMatches
<1>7. CASE s = "finished" /\ order[o].status # "finished" /\ Grant(o, applying[o].start)
  <2>1. CASE order[o].kind = "plan"
    <3> DEFINE v == [who |-> order[o].who, end |-> applying[o].start + 1, active |-> TRUE]
    <3>1. sub' = Put(sub, pid, v)
      BY <1>0, <1>7, <2>1 DEF Grant, GrantPlan, AllKinds
    <3> HIDE DEF v
    <3>2. (DOMAIN sub') = (DOMAIN sub \cup {pid}) /\ \A i \in DOMAIN sub \ {pid} : sub'[i] = sub[i]
      BY <3>1 DEF Put
    <3>3. QED
      BY <1>3, <1>4, <1>7, <2>1, <3>2
  <2>2. CASE order[o].kind # "plan"
    <3>1. UNCHANGED sub
      BY <1>1, <1>7, <2>2 DEF Grant, AllKinds, SetPlace, SetCampaign
    <3>2. QED
      BY <1>5, <1>7, <3>1
  <2>3. QED
    BY <2>1, <2>2
<1>8. CASE s = "refunded" /\ order[o].status = "finished" /\ CanClose(o) /\ Close(o)
  <2>1. CASE order[o].kind = "plan"
    <3>1. ClosePlan(o)
      BY <1>8, <2>1 DEF Close, AllKinds
    <3>2. /\ DOMAIN sub' = DOMAIN sub /\ \A i \in DOMAIN sub \ {pid} : sub'[i] = sub[i]
          /\ pid \in DOMAIN sub => sub'[pid] = [sub[pid] EXCEPT !.active = FALSE, !.end = 0]
      BY <1>0, <3>1 DEF ClosePlan
    <3>3. \A i \in DOMAIN sub : sub[i] \in Sub
      BY DEF AInv, IInv, TypeOK, TablesTypeOK
    <3>4. ASSUME pid \in DOMAIN sub PROVE ~sub'[pid].active
      <4> DEFINE x == sub[pid]
      <4>1. x \in Sub
        BY <3>3, <3>4
      <4>2. sub'[pid] = [x EXCEPT !.active = FALSE, !.end = 0]
        BY <3>2, <3>4
      <4> HIDE DEF x
      <4>3. QED
        BY <4>1, <4>2 DEF Sub
    <3>5. QED
      BY <1>3, <1>4, <2>1, <3>2, <3>4
  <2>2. CASE order[o].kind # "plan"
    <3>1. UNCHANGED sub
      BY <1>1, <1>8, <2>2 DEF Close, AllKinds, SetPlace
    <3>2. QED
      BY <1>5, <1>6, <2>2, <3>1
  <2>3. QED
    BY <2>1, <2>2
<1>9. CASE \/ s \in {"lapsed", "refunded"} /\ order[o].status # "finished" /\ LetGo(o)
           \/ s = order[o].status /\ s \in {"finished", "refunded"} /\ UNCHANGED <<sub, place, campaign>>
           \/ s = "open" /\ order[o].status # "finished" /\ UNCHANGED <<sub, place, campaign>>
  <2>1. UNCHANGED sub
    BY <1>9 DEF LetGo
  <2>2. QED
    BY <1>5, <1>6, <1>9, <2>1
<1>10. QED
  BY <1>7, <1>8, <1>9 DEF RowGoes, Goes

LEMMA ApplyPlaces ==
  ASSUME AInv, NEW o \in OrderIds, NEW s, RowGoes(o, s)
  PROVE  \A n \in 1 .. Places : PlaceMatches(n)'
<1>0. \A p \in DOMAIN order : PaidBesides(p) => PaidBesides(p)'
  <2>1. IInv
    BY DEF AInv
  <2>2. QED
    BY <2>1, ApplyFlows, BesidesStays
<1>1. /\ o \in DOMAIN order /\ order[o].kind \in AllKinds
      /\ order'[o].status = s /\ order'[o].kind = order[o].kind
      /\ order'[o].pid # None
      /\ \A p \in DOMAIN order \ {o} : order'[p] = order[p]
  BY DEF RowGoes
<1>2. /\ place \in [1 .. Places -> Place]
      /\ \A n \in 1 .. Places : PlaceMatches(n)
      /\ \A n \in 1 .. Places : IF place[n].status = "open" THEN place[n].order = None
                                ELSE place[n].order \in DOMAIN order
  BY DEF AInv, IInv, GrantsMatch, PlacesKnown, TypeOK, TablesTypeOK
<1>3. ASSUME NEW n \in 1 .. Places, place[n].order # o, place'[n] = place[n]
      PROVE  PlaceMatches(n)'
  <2>1. PICK p : p = place[n].order
    OBVIOUS
  <2>2. place[n].status # "open" => p \in DOMAIN order /\ order'[p] = order[p]
    BY <1>1, <1>2, <1>3, <2>1
  <2>3. PlaceMatches(n)
    BY <1>2
  <2>4. QED
    BY <1>0, <1>3, <2>1, <2>2, <2>3 DEF PlaceMatches
<1>4. ASSUME NEW n \in 1 .. Places, place[n].order = o
      PROVE  /\ place[n].status # "open" /\ order[o].kind = "fame"
             /\ place[n].status = "active" => order[o].status = "finished" \/ PaidBesides(o)
  BY <1>2, <1>4, NoneFresh DEF PlaceMatches
<1>5. ASSUME NEW n \in 1 .. Places, place'[n].order = o, order[o].kind = "fame",
             place'[n].status = "active" => s = "finished" \/ PaidBesides(o)
      PROVE  PlaceMatches(n)'
  BY <1>0, <1>1, <1>5 DEF PlaceMatches
<1>6. ASSUME UNCHANGED place, order[o].kind # "fame" \/ order[o].status # "finished" \/ s = "finished"
      PROVE  \A n \in 1 .. Places : PlaceMatches(n)'
  <2>1. ASSUME NEW n \in 1 .. Places, place[n].order = o PROVE PlaceMatches(n)'
    BY <1>4, <1>5, <1>6, <2>1
  <2>2. QED
    BY <1>3, <1>6, <2>1
<1>7. ASSUME NEW from, NEW to, SetPlace(o, from, to), order[o].kind = "fame",
             \/ from = "reserved" /\ to = "active" /\ s = "finished"
             \/ from = "active" /\ to = "retired"
      PROVE  \A n \in 1 .. Places : PlaceMatches(n)'
  <2>1. ASSUME NEW n \in 1 .. Places, place[n].order = o PROVE PlaceMatches(n)'
    <3> DEFINE p == place[n]
    <3>1. p \in Place /\ place'[n] = IF p.status = from THEN [p EXCEPT !.status = to, !.due = FALSE] ELSE p
      BY <1>2, <1>7, <2>1 DEF SetPlace
    <3>2. p.order = o
      BY <2>1
    <3> HIDE DEF p
    <3>3. place'[n].order = o /\ place'[n].status = IF p.status = from THEN to ELSE p.status
      BY <3>1, <3>2 DEF Place
    <3>4. place'[n].status = "active" => s = "finished"
      BY <1>7, <3>3
    <3>5. QED
      BY <1>5, <1>7, <3>3, <3>4
  <2>2. ASSUME NEW n \in 1 .. Places, place[n].order # o PROVE PlaceMatches(n)'
    BY <1>3, <1>7, <2>2 DEF SetPlace
  <2>3. QED
    BY <2>1, <2>2
<1>8. CASE s = "finished" /\ order[o].status # "finished" /\ Grant(o, applying[o].start)
  <2>1. CASE order[o].kind = "fame"
    BY <1>7, <1>8, <2>1 DEF Grant, AllKinds
  <2>2. CASE order[o].kind # "fame"
    <3>1. UNCHANGED place
      BY <1>1, <1>8, <2>2 DEF Grant, AllKinds, GrantPlan, SetCampaign
    <3>2. QED
      BY <1>6, <2>2, <3>1
  <2>3. QED
    BY <2>1, <2>2
<1>9. CASE s = "refunded" /\ order[o].status = "finished" /\ CanClose(o) /\ Close(o)
  <2>1. CASE order[o].kind = "fame"
    BY <1>7, <1>9, <2>1 DEF Close, AllKinds
  <2>2. CASE order[o].kind # "fame"
    <3>1. UNCHANGED place
      BY <1>1, <1>9, <2>2 DEF Close, AllKinds, ClosePlan
    <3>2. QED
      BY <1>6, <2>2, <3>1
  <2>3. QED
    BY <2>1, <2>2
<1>10. CASE s \in {"lapsed", "refunded"} /\ order[o].status # "finished" /\ LetGo(o)
  <2>1. \A n \in 1 .. Places :
          place'[n] = IF place[n].order = o /\ place[n].status = "reserved" THEN OpenPlace ELSE place[n]
    BY <1>10 DEF LetGo, Released
  <2>2. ASSUME NEW n \in 1 .. Places, place[n].order = o, place[n].status = "reserved" PROVE PlaceMatches(n)'
    BY <2>1, <2>2 DEF PlaceMatches, OpenPlace
  <2>3. ASSUME NEW n \in 1 .. Places, place[n].order = o, place[n].status # "reserved" PROVE PlaceMatches(n)'
    BY <1>4, <1>5, <1>10, <2>1, <2>3
  <2>4. QED
    BY <1>3, <2>1, <2>2, <2>3
<1>11. CASE \/ s = order[o].status /\ s \in {"finished", "refunded"} /\ UNCHANGED <<sub, place, campaign>>
            \/ s = "open" /\ order[o].status # "finished" /\ UNCHANGED <<sub, place, campaign>>
  BY <1>6, <1>11
<1>12. QED
  BY <1>8, <1>9, <1>10, <1>11 DEF RowGoes, Goes

LEMMA ApplyHolds ==
  ASSUME AInv, IInv', NEW o \in OrderIds, Apply(o)
  PROVE  Flows /\ AInv'
<1>1. IInv /\ \E s : RowGoes(o, s)
  BY ApplyGoes DEF AInv
<1>2. QED
  BY <1>1, ApplyFlows, ApplySubs, ApplyPlaces, FlowsHold DEF GrantsMatch

-----------------------------------------------------------------------------
LEMMA OrdersInit == Init => AInv
<1> SUFFICES ASSUME Init PROVE AInv
  OBVIOUS
<1>1. /\ DOMAIN order = {} /\ DOMAIN sub = {} /\ DOMAIN commerce = {} /\ DOMAIN invoice = {}
      /\ \A c \in Calls : call[c].pc = "idle"
      /\ \A n \in 1 .. Places : place[n].status = "open"
  BY DEF Init, TablesInit, Idle, OpenPlace
<1>2. InvoicesKnown /\ FinishedPaid /\ ReceiptsMatch
  BY <1>1 DEF InvoicesKnown, FinishedPaid, ReceiptsMatch
<1>3. ClaimHeld /\ HeldFresh
  BY <1>1 DEF ClaimHeld, HeldFresh, ClaimSteps, HoldSteps
<1>4. GrantsMatch
  BY <1>1 DEF GrantsMatch, PlaceMatches
<1>5. QED
  BY <1>2, <1>3, <1>4, PaymentsInit DEF AInv

LEMMA QuietActions ==
  ASSUME AInv, [Next]_vars
  PROVE  \/ Quiet
         \/ \E c \in Calls : TakesOrder(c)
         \/ \E o \in OrderIds : Apply(o)
<1>1. IInv
  BY DEF AInv
<1>2. ASSUME NEW c \in Calls, Serve(c) PROVE Quiet \/ TakesOrder(c)
  <2>1. CASE Claim(c) \/ CheckoutPayment(c) \/ AgentPayment(c) \/ Store(c) \/ AgentStore(c) \/ Lapse(c)
    BY <1>1, <2>1, ClaimQuiet, CreateQuiet, StoreQuiet, LapseQuiet, Zenon
  <2>2. CASE Release(c) \/ Cancel(c) \/ Die(c)
    BY <2>2, OutsideQuiet, Zenon
  <2>3. CASE Look(c) \/ MarkReady(c) \/ MarkFailed(c)
    BY <1>1, <2>3, MarkQuiet, Zenon
  <2>4. QED
    BY <1>2, <2>1, <2>2, <2>3, Zenon DEF Serve, TakesOrder
<1>3. QED
  BY <1>1, <1>2, OutsideQuiet, AgesQuiet, MarkQuiet, Zenon DEF Next

LEMMA OrdersStep ==
  ASSUME AInv, [Next]_vars
  PROVE  Flows /\ AInv'
<1>1. IInv'
  BY PaymentsStep DEF AInv
<1>2. Quiet => Flows /\ AInv'
  BY <1>1, QuietHolds DEF Quiet
<1>3. QED
  BY <1>1, <1>2, QuietActions, TakesHolds, ApplyHolds

-----------------------------------------------------------------------------
\* Claims, held payments, receipts and grants follow the orders, whoever buys
\* how, and whatever status a payment is created with.
THEOREM OrdersInvariant == Spec => []AInv
<1>1. AInv /\ [Next]_vars => AInv'
  BY OrdersStep
<1>2. QED
  BY OrdersInit, <1>1, PTL DEF Spec

\* An order that ended refunded leaves no term running on the payment it
\* stores, and no place active but one that another payment bought, in
\* whatever order its notifications came.
THEOREM RefundsClose == Spec => []RefundCloses
<1>1. ASSUME AInv PROVE RefundCloses
  <2>1. ASSUME NEW o \in DOMAIN order, order[o].status = "refunded"
        PROVE  /\ order[o].pid \in DOMAIN sub => ~sub[order[o].pid].active
               /\ \A n \in 1 .. Places : place[n].order = o /\ place[n].status = "active" => PaidBesides(o)
    <3>1. order[o].pid \in DOMAIN invoice /\ invoice[order[o].pid].order = o
      BY <1>1, <2>1 DEF AInv, IInv, RowsKnown, RowKnown
    <3>2. order[o].pid \in DOMAIN sub => ~sub[order[o].pid].active
      BY <1>1, <2>1, <3>1 DEF AInv, GrantsMatch, SubMatches
    <3>3. ASSUME NEW n \in 1 .. Places, place[n].order = o, place[n].status = "active" PROVE PaidBesides(o)
      BY <1>1, <2>1, <3>3 DEF AInv, GrantsMatch, PlaceMatches
    <3>4. QED
      BY <3>2, <3>3
  <2>2. QED
    BY <2>1 DEF RefundCloses
<1>2. QED
  BY OrdersInvariant, <1>1, PTL

\* A finished order is only ever refunded, and keeps its payment through any
\* late store, give-up or older notification; only an agent's order that a web
\* checkout also took can be given that checkout's own.
THEOREM FinishedStays == Spec => FinishedIsFinal
<1> DEFINE Final == \A o \in DOMAIN order :
                     order[o].status \in {"finished", "refunded"} =>
                       \/ /\ order'[o].pid = order[o].pid
                          /\ order'[o].status \in {order[o].status, "refunded"}
                       \/ /\ ~WebOnly(o)
                          /\ \E c \in Calls : At(c, "store") /\ call[c].order = o
                                             /\ order'[o].pid = call[c].pid
<1>1. ASSUME AInv, Next, NEW o \in DOMAIN order, order[o].status \in {"finished", "refunded"}
      PROVE  \/ /\ order'[o].pid = order[o].pid
                /\ order'[o].status \in {order[o].status, "refunded"}
             \/ /\ ~WebOnly(o)
                /\ \E c \in Calls : At(c, "store") /\ call[c].order = o
                                   /\ order'[o].pid = call[c].pid
  <2>1. order[o].pid # None
    BY <1>1 DEF AInv, IInv, RowsKnown, RowKnown
  <2>2. RowKeeps(o) \/ RowStored(o)
    BY <1>1, OrdersStep DEF Flows, RowsFlow, RowFlows
  <2>3. CASE RowKeeps(o)
    BY <1>1, <2>3 DEF RowKeeps
  <2>4. ASSUME NEW c \in Calls, StoredBy(c, o)
        PROVE  ~WebOnly(o) /\ At(c, "store") /\ call[c].order = o /\ order'[o].pid = call[c].pid
    <3>1. call[c].pc = "store" /\ call[c].order = o /\ order'[o].pid = call[c].pid
      BY <2>1, <2>4 DEF StoredBy
    <3>2. ~WebOnly(o)
      BY <1>1, <2>1, <3>1 DEF AInv, ClaimHeld, ClaimSteps
    <3>3. QED
      BY <3>1, <3>2 DEF At
  <2>5. QED
    BY <2>2, <2>3, <2>4 DEF RowStored
<1>2. AInv /\ [Next]_vars => [Final]_vars
  BY <1>1
<1>3. QED
  BY OrdersInvariant, <1>2, PTL DEF Spec, FinishedIsFinal

\* An agent's finished order has the receipt of a finished payment made for
\* it, and nothing that is stored or reported later takes it back.
THEOREM ReceiptsStay == Spec => ReceiptKept
<1> DEFINE Kept == \A k \in DOMAIN commerce :
                    LET o == commerce[k].order  r == commerce'[k].receipt IN
                    /\ order'[o].status = "finished" =>
                         /\ r \in DOMAIN invoice'
                         /\ invoice'[r].order = o
                         /\ "finished" \in invoice'[r].said
                    /\ commerce[k].receipt # None => r = commerce[k].receipt
<1>1. ASSUME AInv, Next PROVE Kept
  <2>1. \A k \in DOMAIN commerce : KeyFlows(k)
    BY <1>1, OrdersStep DEF Flows, KeysFlow
  <2>2. ReceiptsMatch' /\ GrantsKnown' /\ GrantsArePaid'
    BY <1>1, OrdersStep DEF AInv, IInv
  <2>3. ASSUME NEW k \in DOMAIN commerce, order'[commerce[k].order].status = "finished"
        PROVE  /\ commerce'[k].receipt \in DOMAIN invoice'
               /\ invoice'[commerce'[k].receipt].order = commerce[k].order
               /\ "finished" \in invoice'[commerce'[k].receipt].said
    <3>1. k \in DOMAIN commerce' /\ commerce'[k].order = commerce[k].order
      BY <2>1 DEF KeyFlows
    <3>2. commerce'[k].receipt # None /\ invoice'[commerce'[k].receipt].order = commerce[k].order
      BY <2>2, <2>3, <3>1 DEF ReceiptsMatch
    <3>3. QED
      BY <2>2, <3>1, <3>2 DEF GrantsKnown, GrantsArePaid
  <2>4. QED
    BY <2>1, <2>3 DEF KeyFlows
<1>2. AInv /\ [Next]_vars => [Kept]_vars
  BY <1>1
<1>3. QED
  BY OrdersInvariant, <1>2, PTL DEF Spec, ReceiptKept

-----------------------------------------------------------------------------
(***************************************************************************)
(* How many payments an order is made.  The one claim of its web checkouts *)
(* is spent once; an agent's requests in flight, the payments made and a   *)
(* claim still unspent are together no more than the attempts counted and  *)
(* one.                                                                    *)
(***************************************************************************)
Made(o)    == {i \in DOMAIN invoice : invoice[i].order = o}
MadeNow(o) == {i \in DOMAIN invoice' : invoice'[i].order = o}

Asking(k)    == {c \in Calls : call[c].pc = "agent create" /\ call[c].key = k}
AskingNow(k) == {c \in Calls : call'[c].pc = "agent create" /\ call'[c].key = k}

\* No web checkout has asked the provider for a payment, or one is asking.
Unspent(o)    == ~Taken(o) \/ \E c \in Calls : call[c].pc = "create" /\ call[c].order = o
UnspentNow(o) == ~TakenNow(o) \/ \E c \in Calls : call'[c].pc = "create" /\ call'[c].order = o

Tries(A, M, unspent) ==
  {<<"asked", c>> : c \in A} \cup {<<"made", i>> : i \in M} \cup {<<"spare", u>> : u \in {v \in {None} : unspent}}

AtMost(S, n) == IsFiniteSet(S) /\ Cardinality(S) <= n

TriesCounted ==
  \A k \in DOMAIN commerce :
    AtMost(Tries(Asking(k), Made(commerce[k].order), Unspent(commerce[k].order)), commerce[k].attempts + 1)

\* An order no agent made is made one payment, after it was claimed.
OnceMade(o) ==
  /\ \A i, j \in Made(o) : i = j
  /\ Made(o) # {} => Taken(o)
  /\ \A c \in Calls : call[c].pc = "create" /\ call[c].order = o => Made(o) = {}

MadeOnce == \A o \in DOMAIN order : WebOnly(o) => OnceMade(o)

KeysApart == \A j, k \in DOMAIN commerce : commerce[j].order = commerce[k].order => j = k

CInv == AInv /\ KeysApart /\ MadeOnce /\ TriesCounted

LEMMA FewerTries ==
  ASSUME NEW S, NEW T, NEW n \in Nat, S \subseteq T, AtMost(T, n)
  PROVE  AtMost(S, n)
<1>1. IsFiniteSet(S) /\ Cardinality(S) <= Cardinality(T)
  BY FS_Subset DEF AtMost
<1>2. Cardinality(S) \in Nat /\ Cardinality(T) \in Nat
  BY <1>1, FS_CardinalityType DEF AtMost
<1>3. QED
  BY <1>1, <1>2 DEF AtMost

LEMMA OneMore ==
  ASSUME NEW S, NEW x, NEW T, T \subseteq S \cup {x}, NEW n \in Nat, AtMost(S, n)
  PROVE  AtMost(T, n + 1)
<1>1. IsFiniteSet(S \cup {x}) /\ Cardinality(S \cup {x}) \in {Cardinality(S), Cardinality(S) + 1}
  BY FS_AddElement DEF AtMost
<1>2. Cardinality(S) \in Nat
  BY FS_CardinalityType DEF AtMost
<1>3. AtMost(S \cup {x}, n + 1) /\ n + 1 \in Nat
  BY <1>1, <1>2 DEF AtMost
<1>4. QED
  BY <1>3, FewerTries

LEMMA OneForOne ==
  ASSUME NEW S, NEW x \in S, NEW y, NEW T, T \subseteq (S \ {x}) \cup {y}, NEW n \in Nat, AtMost(S, n)
  PROVE  AtMost(T, n)
<1>1. IsFiniteSet(S \ {x}) /\ Cardinality(S \ {x}) = Cardinality(S) - 1
  BY FS_RemoveElement DEF AtMost
<1>2. Cardinality(S) \in Nat /\ Cardinality(S \ {x}) \in Nat
  BY <1>1, FS_CardinalityType DEF AtMost
<1>3. n - 1 \in Nat /\ AtMost(S \ {x}, n - 1)
  BY <1>1, <1>2 DEF AtMost
<1>4. AtMost(T, (n - 1) + 1)
  BY <1>3, OneMore
<1>5. QED
  BY <1>4

LEMMA NoTries ==
  ASSUME NEW u \in BOOLEAN, NEW n \in Nat
  PROVE  AtMost(Tries({}, {}, u), n + 1)
<1>1. Tries({}, {}, u) \subseteq {} \cup {<<"spare", None>>}
  BY DEF Tries
<1>2. AtMost({}, n)
  BY FS_EmptySet DEF AtMost
<1>3. QED
  BY <1>1, <1>2, OneMore

\* Trying less, and asking once more.
LEMMA TriesShrink ==
  ASSUME NEW A, NEW M, NEW u \in BOOLEAN, NEW B, NEW N, NEW v \in BOOLEAN, NEW n \in Nat,
         B \subseteq A, N \subseteq M, v => u, AtMost(Tries(A, M, u), n)
  PROVE  AtMost(Tries(B, N, v), n)
<1>1. Tries(B, N, v) \subseteq Tries(A, M, u)
  BY DEF Tries
<1>2. QED
  BY <1>1, FewerTries

LEMMA TriesGrow ==
  ASSUME NEW A, NEW M, NEW u \in BOOLEAN, NEW c, NEW B, NEW v \in BOOLEAN, NEW n \in Nat,
         B \subseteq A \cup {c}, v => u, AtMost(Tries(A, M, u), n)
  PROVE  AtMost(Tries(B, M, v), n + 1)
<1>1. Tries(B, M, v) \subseteq Tries(A, M, u) \cup {<<"asked", c>>}
  BY DEF Tries
<1>2. QED
  BY <1>1, OneMore

LEMMA AttemptsType ==
  ASSUME IInv, NEW k \in DOMAIN commerce
  PROVE  commerce[k].attempts \in Nat /\ commerce[k].order \in DOMAIN order
BY DEF IInv, TypeOK, TablesTypeOK, Commerce, CommerceKnown

LEMMA KeysStayApart ==
  ASSUME CInv, Flows
  PROVE  KeysApart'
<1>1. \A k \in DOMAIN commerce : commerce[k].order \in DOMAIN order
  BY AttemptsType DEF CInv, AInv
<1>2. QED
  BY <1>1 DEF CInv, KeysApart, Flows, KeysFlow, KeyFlows

\* Who asks for a payment did before, or has just counted or claimed it.
LEMMA AskedWas ==
  ASSUME Flows, NEW c \in Calls, call'[c].pc = "agent create"
  PROVE  call'[c] = call[c] \/ (CountsAttempt(c) /\ OthersStay(c))
BY DEF Flows, CallFlows, Busy, MakeSteps, HoldSteps, TakesClaim, HoldsPayment

LEMMA ClaimWas ==
  ASSUME Flows, NEW c \in Calls, call'[c].pc = "create"
  PROVE  call'[c] = call[c] \/ (TakesClaim(c) /\ OthersStay(c))
BY DEF Flows, CallFlows, Busy, MakeSteps, HoldSteps, CountsAttempt, HoldsPayment

LEMMA UnspentWas ==
  ASSUME Flows, NEW o \in DOMAIN order, UnspentNow(o)
  PROVE  Unspent(o)
<1>1. Taken(o) => TakenNow(o)
  BY DEF Flows, RowsFlow, RowFlows
<1>2. ASSUME NEW c \in Calls, call'[c].pc = "create", call'[c].order = o PROVE Unspent(o)
  BY <1>2, ClaimWas DEF TakesClaim, Unspent
<1>3. QED
  BY <1>1, <1>2 DEF UnspentNow, Unspent

LEMMA NewUnmade ==
  ASSUME CInv, Flows, NEW o \in DOMAIN order' \ DOMAIN order
  PROVE  MadeNow(o) = {}
<1>1. DOMAIN invoice' = DOMAIN invoice /\ \A i \in DOMAIN invoice : invoice'[i].order = invoice[i].order
  BY DEF Flows, PaymentsFlow, PaymentKeeps, Makes
<1>2. QED
  BY <1>1 DEF MadeNow, CInv, AInv, InvoicesKnown

\* A key that is new: its order has no payment and no request.
LEMMA NewCounted ==
  ASSUME CInv, Flows, IInv', NEW k \in DOMAIN commerce' \ DOMAIN commerce
  PROVE  AtMost(Tries(AskingNow(k), MadeNow(commerce'[k].order), UnspentNow(commerce'[k].order)),
                commerce'[k].attempts + 1)
<1>1. MadeNow(commerce'[k].order) = {}
  BY NewUnmade DEF Flows, KeysFlow
<1>2. ASSUME NEW c \in AskingNow(k) PROVE FALSE
  <2>1. c \in Calls /\ call'[c].pc = "agent create" /\ call'[c].key = k
    BY DEF AskingNow
  <2>2. call[c].pc \in {"agent create", "look"} /\ call[c].key = k
    BY <2>1, AskedWas DEF CountsAttempt
  <2>3. QED
    BY <2>1, <2>2, AtKey DEF CInv, AInv, AgentSteps
<1>3. commerce'[k].attempts \in Nat
  BY DEF IInv, TypeOK, TablesTypeOK, Commerce
<1>4. UnspentNow(commerce'[k].order) \in BOOLEAN /\ AskingNow(k) = {}
  BY <1>2 DEF UnspentNow
<1>5. QED
  BY <1>1, <1>3, <1>4, NoTries

\* No payment is made: at most one attempt is counted and asks for one.
LEMMA StillCounted ==
  ASSUME CInv, Flows, IInv', DOMAIN invoice' = DOMAIN invoice, NEW k \in DOMAIN commerce
  PROVE  AtMost(Tries(AskingNow(k), MadeNow(commerce'[k].order), UnspentNow(commerce'[k].order)),
                commerce'[k].attempts + 1)
<1>1. PICK o \in DOMAIN order : o = commerce[k].order
  BY AttemptsType DEF CInv, AInv
<1>2. /\ commerce'[k].order = o /\ commerce[k].attempts \in Nat
      /\ commerce'[k].attempts \in {commerce[k].attempts, commerce[k].attempts + 1}
  BY <1>1, AttemptsType DEF CInv, AInv, Flows, KeysFlow, KeyFlows
<1>3. MadeNow(o) = Made(o)
  BY DEF MadeNow, Made, Flows, PaymentsFlow, PaymentKeeps
<1>4. /\ UnspentNow(o) => Unspent(o)
      /\ UnspentNow(o) \in BOOLEAN /\ Unspent(o) \in BOOLEAN
  BY UnspentWas DEF UnspentNow, Unspent
<1>5. AtMost(Tries(Asking(k), Made(o), Unspent(o)), commerce[k].attempts + 1)
  BY <1>1 DEF CInv, TriesCounted
<1>6. ASSUME NEW c \in Calls, CountsAttempt(c), OthersStay(c), call[c].key = k
      PROVE  AtMost(Tries(AskingNow(k), MadeNow(o), UnspentNow(o)), commerce'[k].attempts + 1)
  <2>1. AskingNow(k) \subseteq Asking(k) \cup {c}
    BY <1>6 DEF AskingNow, Asking, OthersStay
  <2>2. commerce'[k].attempts = commerce[k].attempts + 1
    BY <1>6 DEF CountsAttempt
  <2>3. PICK n \in Nat : n = commerce[k].attempts + 1
    BY <1>2
  <2>4. AtMost(Tries(AskingNow(k), Made(o), UnspentNow(o)), n + 1)
    BY <1>4, <1>5, <2>1, <2>3, TriesGrow
  <2>5. QED
    BY <1>3, <2>2, <2>3, <2>4
<1>7. ASSUME \A c \in Calls : ~ (CountsAttempt(c) /\ OthersStay(c) /\ call[c].key = k)
      PROVE  AtMost(Tries(AskingNow(k), MadeNow(o), UnspentNow(o)), commerce'[k].attempts + 1)
  <2>1. ASSUME NEW c \in AskingNow(k) PROVE c \in Asking(k)
    <3>1. c \in Calls /\ call'[c].pc = "agent create" /\ call'[c].key = k
      BY DEF AskingNow
    <3>2. call'[c] = call[c]
      BY <1>7, <3>1, AskedWas DEF CountsAttempt
    <3>3. QED
      BY <3>1, <3>2 DEF Asking
  <2>2. AtMost(Tries(AskingNow(k), Made(o), UnspentNow(o)), commerce[k].attempts + 1)
    BY <1>2, <1>4, <1>5, <2>1, TriesShrink
  <2>3. commerce'[k].attempts = commerce[k].attempts \/ commerce'[k].attempts = commerce[k].attempts + 1
    BY <1>2
  <2>4. CASE commerce'[k].attempts = commerce[k].attempts
    BY <1>3, <2>2, <2>4
  <2>5. CASE commerce'[k].attempts = commerce[k].attempts + 1
    <3>1. AskingNow(k) \subseteq Asking(k) \cup {None}
      BY <2>1
    <3>2. PICK n \in Nat : n = commerce[k].attempts + 1
      BY <1>2
    <3>3. AtMost(Tries(AskingNow(k), Made(o), UnspentNow(o)), n + 1)
      BY <1>4, <1>5, <3>1, <3>2, TriesGrow
    <3>4. QED
      BY <1>3, <2>5, <3>2, <3>3
  <2>6. QED
    BY <2>3, <2>4, <2>5
<1>8. QED
  BY <1>2, <1>6, <1>7

\* A payment is made, for a request that was counted or for the claim.
LEMMA MadeCounted ==
  ASSUME CInv, Flows, NEW c \in Calls, NEW i \in Invoices, Makes(c, i), NEW k \in DOMAIN commerce
  PROVE  AtMost(Tries(AskingNow(k), MadeNow(commerce'[k].order), UnspentNow(commerce'[k].order)),
                commerce'[k].attempts + 1)
<1>1. PICK o \in DOMAIN order : o = commerce[k].order
  BY AttemptsType DEF CInv, AInv
<1>2. /\ UNCHANGED <<order, commerce>> /\ OthersStay(c)
      /\ call[c].pc \in MakeSteps /\ call'[c].pc \notin MakeSteps
      /\ DOMAIN invoice' = DOMAIN invoice \cup {i} /\ invoice'[i].order = call[c].order
  BY DEF Makes
<1>3. commerce'[k].order = o /\ commerce'[k].attempts = commerce[k].attempts /\ commerce[k].attempts + 1 \in Nat
  BY <1>1, <1>2, AttemptsType DEF CInv, AInv
<1>4. AtMost(Tries(Asking(k), Made(o), Unspent(o)), commerce[k].attempts + 1)
  BY <1>1 DEF CInv, TriesCounted
<1>5. /\ UnspentNow(o) => Unspent(o)
      /\ UnspentNow(o) \in BOOLEAN /\ Unspent(o) \in BOOLEAN
  BY UnspentWas DEF UnspentNow, Unspent
<1>6. AskingNow(k) \subseteq Asking(k) \ {c}
  BY <1>2 DEF AskingNow, Asking, OthersStay, MakeSteps
<1>7. MadeNow(o) \subseteq Made(o) \cup {i} /\ (call[c].order # o => MadeNow(o) \subseteq Made(o))
  BY <1>2 DEF MadeNow, Made, Flows, PaymentsFlow, PaymentKeeps
<1>8. AtMost(Tries(AskingNow(k), MadeNow(o), UnspentNow(o)), commerce[k].attempts + 1)
  <2>1. CASE call[c].order # o
    <3>1. MadeNow(o) \subseteq Made(o) /\ AskingNow(k) \subseteq Asking(k)
      BY <1>6, <1>7, <2>1
    <3>2. QED
      BY <1>3, <1>4, <1>5, <3>1, TriesShrink
  <2>2. CASE call[c].order = o /\ call[c].pc = "agent create"
    <3>1. call[c].key \in DOMAIN commerce /\ commerce[call[c].key].order = o
      BY <2>2, AtKey DEF CInv, AInv, AgentSteps
    <3>2. c \in Asking(k)
      BY <1>1, <2>2, <3>1 DEF CInv, KeysApart, Asking
    <3>3. PICK n \in Nat : n = commerce[k].attempts + 1
      BY <1>3
    <3>4. PICK A, M, u, B, N, v : /\ A = Asking(k) /\ M = Made(o) /\ u = Unspent(o)
                                  /\ B = AskingNow(k) /\ N = MadeNow(o) /\ v = UnspentNow(o)
      OBVIOUS
    <3>5. /\ u \in BOOLEAN /\ v \in BOOLEAN /\ c \in A /\ B \subseteq A \ {c}
          /\ N \subseteq M \cup {i} /\ (v => u) /\ AtMost(Tries(A, M, u), n)
      BY <1>4, <1>5, <1>6, <1>7, <3>2, <3>3, <3>4
    <3>6. AtMost(Tries(B, N, v), n)
      <4>1. <<"asked", c>> \in Tries(A, M, u)
        BY <3>5 DEF Tries
      <4>2. Tries(B, N, v) \subseteq (Tries(A, M, u) \ {<<"asked", c>>}) \cup {<<"made", i>>}
        <5>1. \A d \in B : d \in A /\ d # c
          BY <3>5
        <5>2. ASSUME NEW t \in Tries(B, N, v)
              PROVE  t \in (Tries(A, M, u) \ {<<"asked", c>>}) \cup {<<"made", i>>}
          <6>1. CASE \E d \in B : t = <<"asked", d>>
            BY <5>1, <6>1 DEF Tries
          <6>2. CASE \E j \in N : t = <<"made", j>>
            BY <3>5, <6>2 DEF Tries
          <6>3. CASE \E w \in {x \in {None} : v} : t = <<"spare", w>>
            BY <3>5, <6>3 DEF Tries
          <6>4. QED
            BY <6>1, <6>2, <6>3 DEF Tries
        <5>3. QED
          BY <5>2
      <4>3. AtMost(Tries(A, M, u), n)
        BY <3>5
      <4>4. QED
        BY <4>1, <4>2, <4>3, OneForOne
    <3>7. QED
      BY <3>3, <3>4, <3>6
  <2>3. CASE call[c].order = o /\ call[c].pc = "create"
    <3>1. Unspent(o) = TRUE
      BY <2>3 DEF Unspent
    <3>2. Taken(o) /\ \A d \in Calls \ {c} : ~(call[d].pc = "create" /\ call[d].order = o)
      BY <2>3 DEF CInv, AInv, ClaimHeld, ClaimSteps
    <3>3. TakenNow(o)
      BY <1>2, <3>2 DEF Taken, TakenNow
    <3>4. UnspentNow(o) = FALSE
      BY <1>2, <3>2, <3>3 DEF UnspentNow, OthersStay, MakeSteps
    <3>5. AskingNow(k) \subseteq Asking(k)
      BY <1>6
    <3>6. PICK n \in Nat : n = commerce[k].attempts + 1
      BY <1>3
    <3>7. PICK A, M, B, N : /\ A = Asking(k) /\ M = Made(o)
                            /\ B = AskingNow(k) /\ N = MadeNow(o)
      OBVIOUS
    <3>8. AtMost(Tries(A, M, TRUE), n)
      BY <1>4, <3>1, <3>6, <3>7
    <3>9. B \subseteq A /\ N \subseteq M \cup {i}
      BY <1>7, <3>5, <3>7
    <3>10. AtMost(Tries(B, N, FALSE), n)
      <4>1. <<"spare", None>> \in Tries(A, M, TRUE)
        BY DEF Tries
      <4>2. Tries(B, N, FALSE) \subseteq (Tries(A, M, TRUE) \ {<<"spare", None>>}) \cup {<<"made", i>>}
        BY <3>9 DEF Tries
      <4>3. QED
        BY <3>8, <4>1, <4>2, OneForOne
    <3>11. QED
      BY <3>4, <3>6, <3>7, <3>10
  <2>4. QED
    BY <1>2, <2>1, <2>2, <2>3 DEF MakeSteps
<1>9. QED
  BY <1>3, <1>8

LEMMA OnceStays ==
  ASSUME CInv, Flows, NEW o \in DOMAIN order', WebOnlyNow(o)
  PROVE  /\ \A i, j \in MadeNow(o) : i = j
         /\ MadeNow(o) # {} => TakenNow(o)
         /\ \A c \in Calls : call'[c].pc = "create" /\ call'[c].order = o => MadeNow(o) = {}
<1>1. CASE o \notin DOMAIN order
  BY <1>1, NewUnmade
<1>2. CASE o \in DOMAIN order
  <2>1. WebOnly(o) /\ OnceMade(o) /\ (Taken(o) => TakenNow(o))
    BY <1>2, WebOnlyWas DEF CInv, MadeOnce, Flows, RowsFlow, RowFlows
  <2>2. CASE MadeNow(o) = Made(o)
    <3>1. ASSUME NEW c \in Calls, call'[c].pc = "create", call'[c].order = o PROVE Made(o) = {}
      BY <2>1, <3>1, ClaimWas DEF OnceMade, TakesClaim
    <3>2. QED
      BY <2>1, <2>2, <3>1 DEF OnceMade
  <2>3. ASSUME NEW c \in Calls, NEW i \in Invoices, Makes(c, i), call[c].order = o
        PROVE  /\ \A j, l \in MadeNow(o) : j = l
               /\ TakenNow(o)
               /\ \A d \in Calls : ~ (call'[d].pc = "create" /\ call'[d].order = o)
    <3>1. /\ UNCHANGED <<order, commerce>> /\ OthersStay(c)
          /\ call[c].pc \in MakeSteps /\ call'[c].pc \notin MakeSteps
          /\ DOMAIN invoice' = DOMAIN invoice \cup {i}
      BY <2>3 DEF Makes
    <3>2. call[c].pc = "create"
      BY <2>1, <2>3, <3>1, Holding DEF CInv, AInv, Busy, MakeSteps
    <3>3. Made(o) = {}
      BY <2>1, <2>3, <3>2 DEF OnceMade
    <3>4. MadeNow(o) \subseteq {i}
      BY <3>1, <3>3 DEF MadeNow, Made, Flows, PaymentsFlow, PaymentKeeps
    <3>5. Taken(o) /\ \A d \in Calls \ {c} : ~(call[d].pc = "create" /\ call[d].order = o)
      BY <2>3, <3>2 DEF CInv, AInv, ClaimHeld, ClaimSteps
    <3>6. QED
      BY <2>1, <3>1, <3>4, <3>5 DEF OthersStay, MakeSteps
  <2>4. MadeNow(o) = Made(o) \/ \E c \in Calls, i \in Invoices : Makes(c, i) /\ call[c].order = o
    <3>1. \A i \in DOMAIN invoice : i \in DOMAIN invoice' /\ invoice'[i].order = invoice[i].order
      BY DEF Flows, PaymentsFlow, PaymentKeeps
    <3>2. CASE DOMAIN invoice' = DOMAIN invoice
      BY <3>1, <3>2 DEF MadeNow, Made
    <3>3. ASSUME NEW c \in Calls, NEW i \in Invoices, Makes(c, i), call[c].order # o
          PROVE  MadeNow(o) = Made(o)
      <4>1. DOMAIN invoice' = DOMAIN invoice \cup {i} /\ invoice'[i].order = call[c].order
        BY <3>3 DEF Makes
      <4>2. QED
        BY <3>1, <3>3, <4>1 DEF MadeNow, Made
    <3>4. QED
      BY <3>2, <3>3 DEF Flows, PaymentsFlow
  <2>5. QED
    BY <2>2, <2>3, <2>4
<1>3. QED
  BY <1>1, <1>2

LEMMA CountsStep ==
  ASSUME CInv, [Next]_vars
  PROVE  CInv'
<1>1. Flows /\ AInv' /\ IInv'
  BY OrdersStep DEF CInv, AInv
<1>2. KeysApart'
  BY <1>1, KeysStayApart
<1>3. MadeOnce'
  BY <1>1, OnceStays, Zenon DEF MadeOnce, OnceMade, WebOnly, WebOnlyNow, KeysOf, Made, MadeNow, Taken, TakenNow
<1>4. \A k \in DOMAIN commerce' :
        AtMost(Tries(AskingNow(k), MadeNow(commerce'[k].order), UnspentNow(commerce'[k].order)),
               commerce'[k].attempts + 1)
  BY <1>1, NewCounted, StillCounted, MadeCounted DEF Flows, PaymentsFlow, Makes
<1>5. TriesCounted'
  BY <1>4, Zenon DEF TriesCounted, AskingNow, Asking, MadeNow, Made, UnspentNow, Unspent, TakenNow, Taken
<1>6. QED
  BY <1>1, <1>2, <1>3, <1>5 DEF CInv

LEMMA CountsInit == Init => CInv
<1> SUFFICES ASSUME Init PROVE CInv
  OBVIOUS
<1>1. DOMAIN order = {} /\ DOMAIN commerce = {}
  BY DEF Init, TablesInit
<1>2. QED
  BY <1>1, OrdersInit DEF CInv, KeysApart, MadeOnce, TriesCounted

\* Web checkouts make one payment for an order, and an agent's order has no
\* more besides than the attempts it counts, however requests race, time out,
\* die between two steps or lose an answer of the provider.
THEOREM CreationBounded == Spec => []BoundedInvoices
<1>1. ASSUME CInv PROVE BoundedInvoices
  <2>1. ASSUME NEW o \in DOMAIN order, WebOnly(o) PROVE Cardinality(Made(o)) <= 1
    <3>1. Made(o) = {} \/ \E i : Made(o) = {i}
      BY <1>1, <2>1 DEF CInv, MadeOnce, OnceMade
    <3>2. CASE Made(o) = {}
      BY <3>2, FS_EmptySet
    <3>3. ASSUME NEW i, Made(o) = {i} PROVE Cardinality(Made(o)) <= 1
      <4>1. Cardinality({i}) = 1
        BY FS_Singleton
      <4>2. QED
        BY <3>3, <4>1
    <3>4. QED
      BY <3>1, <3>2, <3>3
  <2>2. ASSUME NEW o \in DOMAIN order, NEW k \in KeysOf(o)
        PROVE  Cardinality(Made(o)) <= commerce[k].attempts + 1
    <3> DEFINE T == Tries(Asking(k), Made(o), Unspent(o))
               f == [i \in Made(o) |-> <<"made", i>>]
    <3>1. k \in DOMAIN commerce /\ commerce[k].order = o
      BY DEF KeysOf
    <3>2. AtMost(T, commerce[k].attempts + 1) /\ commerce[k].attempts + 1 \in Nat
      BY <1>1, <3>1, AttemptsType DEF CInv, AInv, TriesCounted
    <3>3. \A i \in Made(o) : <<"made", i>> \in T
      BY DEF Tries
    <3> HIDE DEF T
    <3>4. f \in Injection(Made(o), T)
      BY <3>3 DEF Injection, IsInjective
    <3> HIDE DEF f
    <3>5. IsFiniteSet(Made(o)) /\ Cardinality(Made(o)) <= Cardinality(T)
      BY <3>2, <3>4, FS_Injection DEF AtMost
    <3>6. Cardinality(Made(o)) \in Nat /\ Cardinality(T) \in Nat
      BY <3>2, <3>5, FS_CardinalityType DEF AtMost
    <3>7. QED
      BY <3>2, <3>5, <3>6 DEF AtMost
  <2>3. QED
    BY <2>1, <2>2 DEF BoundedInvoices, Made
<1>2. CInv /\ [Next]_vars => CInv'
  BY CountsStep
<1>3. QED
  BY CountsInit, <1>1, <1>2, PTL DEF Spec
=============================================================================
