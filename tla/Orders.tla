------------------------------- MODULE Orders -------------------------------
(***************************************************************************)
(* The payment tables: payment_orders and participation_orders (one life   *)
(* cycle, kept together as `order'), what a finished order is given        *)
(* (subscriptions, fame_slots, highlight_campaigns), and the commerce      *)
(* orders an agent's delegation creates over them.  An operator that       *)
(* primes variables is one committed statement or transaction.             *)
(* Time is the moment of purchase: terms are counted from now in whole     *)
(* terms; a campaign may run to its end, a plan's term does not run out.   *)
(***************************************************************************)
EXTENDS Naturals, FiniteSets, FiniteSetsExt

CONSTANTS
  OrderIds,    \* rows of the two order tables
  Invoices,    \* payments the provider may create
  Members,     \* buyers
  Kinds,       \* what is for sale, a subset of AllKinds
  Keys,        \* idempotency keys of the one delegation
  Places,      \* numbered places of the Hall of Fame
  Attempts,    \* creations an agent's order may try
  None

AllKinds == {"plan", "fame", "highlight"}

ASSUME KindsAreKnown == Kinds \subseteq AllKinds
ASSUME PlacesAreNumbers == Places \in Nat
ASSUME AttemptsAreNumbers == Attempts \in Nat
ASSUME NoneFresh == None \notin OrderIds \cup Invoices

VARIABLES
  order,     \* payment_orders and participation_orders
  sub,       \* subscriptions, by provider_subscription_id
  place,     \* fame_slots
  campaign,  \* highlight_campaigns, by order
  commerce   \* commerce_orders with their receipt, by idempotency key

tables == <<order, sub, place, campaign, commerce>>

\* created, waiting, confirming, confirmed, sending and partially_paid are
\* "open"; failed and expired are "lapsed".
Statuses == {"open", "lapsed", "finished", "refunded"}

OrderRow == [kind    : AllKinds,
             who     : Members,
             status  : Statuses,
             pid     : Invoices \cup {None},  \* provider_payment_id
             claimed : BOOLEAN,               \* create_attempted_at is set
             recent  : BOOLEAN]               \* created in the last 30 minutes

Place    == [status : {"open", "reserved", "active", "retired"},
             order  : OrderIds \cup {None},
             due    : BOOLEAN]                \* reserved_until has passed
\* running is "active" or "scheduled" with its end ahead; over is past its
\* end, whether or not select_highlight_rotation has marked it "ended".
Campaign == [state : {"pending", "running", "over", "canceled", "refunded"}, start : Nat]
Sub      == [who : Members, end : Nat, active : BOOLEAN]

\* "stuck" is "creating", claimed two minutes ago or earlier.
CreateStates == {"pending", "creating", "stuck", "ready", "failed"}
Commerce == [order    : OrderIds,
             state    : CreateStates,         \* provider_create_state
             attempts : 0 .. Attempts,
             receipt  : Invoices \cup {None}]

TablesTypeOK ==
  /\ order \in [DOMAIN order -> OrderRow] /\ DOMAIN order \subseteq OrderIds
  /\ sub \in [DOMAIN sub -> Sub] /\ DOMAIN sub \subseteq Invoices
  /\ place \in [1 .. Places -> Place]
  /\ campaign \in [DOMAIN campaign -> Campaign] /\ DOMAIN campaign \subseteq DOMAIN order
  /\ commerce \in [DOMAIN commerce -> Commerce] /\ DOMAIN commerce \subseteq Keys

OpenPlace == [status |-> "open", order |-> None, due |-> FALSE]

TablesInit ==
  /\ order = [o \in {} |-> {}]
  /\ sub = [i \in {} |-> {}]
  /\ place = [n \in 1 .. Places |-> OpenPlace]
  /\ campaign = [o \in {} |-> {}]
  /\ commerce = [k \in {} |-> {}]

Put(f, x, v) == [y \in DOMAIN f \cup {x} |-> IF y = x THEN v ELSE f[y]]

-----------------------------------------------------------------------------
NewOrder(kind, who) == [kind |-> kind, who |-> who, status |-> "open", pid |-> None,
                        claimed |-> FALSE, recent |-> TRUE]

\* The open, recent order of the same purchase.
Reusable(kind, who) ==
  {o \in DOMAIN order : /\ order[o].kind = kind
                        /\ order[o].who = who
                        /\ order[o].status = "open"
                        /\ order[o].recent}

\* Reservations that ran out or whose order lapsed are opened again.
Swept ==
  [n \in 1 .. Places |->
     IF /\ place[n].status = "reserved"
        /\ place[n].due \/ order[place[n].order].status \in {"lapsed", "refunded"}
     THEN OpenPlace ELSE place[n]]

PlacesOf(who, statuses) ==
  {n \in 1 .. Places : Swept[n].status \in statuses /\ order[Swept[n].order].who = who}

OpenNumbers == {n \in 1 .. Places : Swept[n].status = "open"}

InsertOrder(o, kind, who) ==
  /\ o \notin DOMAIN order
  /\ order' = Put(order, o, NewOrder(kind, who))

\* The next open number is reserved for a new order.
ReservePlace(o, who) ==
  /\ OpenNumbers # {}
  /\ InsertOrder(o, "fame", who)
  /\ place' = [Swept EXCEPT ![Min(OpenNumbers)] =
                 [status |-> "reserved", order |-> o, due |-> FALSE]]
  /\ UNCHANGED campaign

InsertPlan(o, who) == InsertOrder(o, "plan", who) /\ UNCHANGED <<place, campaign>>

InsertHighlight(o, who) ==
  /\ InsertOrder(o, "highlight", who)
  /\ campaign' = Put(campaign, o, [state |-> "pending", start |-> 0])
  /\ UNCHANGED place

\* create_or_reuse_payment_order, create_highlight_checkout: o is the order
\* the caller gets.
TakeOrder(o, kind, who) ==
  IF Reusable(kind, who) # {}
  THEN o \in Reusable(kind, who) /\ UNCHANGED <<order, place, campaign>>
  ELSE \/ kind = "plan" /\ InsertPlan(o, who)
       \/ kind = "highlight" /\ InsertHighlight(o, who)

\* create_fame_checkout
TakePlace(o, who) ==
  /\ PlacesOf(who, {"active", "retired"}) = {}
  /\ IF PlacesOf(who, {"reserved"}) # {}
     THEN /\ \E n \in PlacesOf(who, {"reserved"}) : o = place[n].order
          /\ place' = Swept
          /\ UNCHANGED <<order, campaign>>
     ELSE ReservePlace(o, who)

\* create_agent_commerce_order: an exact replay returns the order the key made.
CreateCommerceOrder(k, o, kind, who) ==
  IF k \in DOMAIN commerce
  THEN /\ o = commerce[k].order
       /\ order[o].kind = kind
       /\ UNCHANGED tables
  ELSE /\ \/ kind = "plan" /\ InsertPlan(o, who)
          \/ kind = "highlight" /\ InsertHighlight(o, who)
          \/ /\ kind = "fame"
             /\ PlacesOf(who, {"reserved", "active", "retired"}) = {}
             /\ ReservePlace(o, who)
       /\ commerce' = Put(commerce, k, [order |-> o, state |-> "pending", attempts |-> 0,
                                        receipt |-> None])
       /\ UNCHANGED sub

-----------------------------------------------------------------------------
\* Seeded fault: the receipt follows the order's status.
CapturedWhileFinished(new) ==
  [k \in DOMAIN commerce |->
     LET c == commerce[k]  row == new[c.order] IN
     [c EXCEPT !.state = IF row.pid # None THEN "ready" ELSE @,
               !.receipt = IF row.status = "finished" THEN row.pid ELSE None]]

\* The triggers on the two order tables: an invoice makes the commerce order
\* ready, the first finished status makes its receipt.
Captured(new) ==
  [k \in DOMAIN commerce |->
     LET c == commerce[k]  row == new[c.order]  old == order[c.order] IN
     [c EXCEPT !.state = IF row # old /\ row.pid # None THEN "ready" ELSE @,
               !.receipt = IF row.status = "finished" /\ old.status # "finished" /\ @ = None
                           THEN row.pid ELSE @]]

WriteOrder(new) == order' = new /\ commerce' = Captured(new)

\* Seeded fault: the claim only looks at the invoice.
CanClaimUninvoiced(o) == order[o].pid = None

\* UPDATE ... where provider_payment_id is null and not create_attempted_at
CanClaim(o) == order[o].pid = None /\ ~order[o].claimed

ClaimOrder(o) == order' = [order EXCEPT ![o].claimed = TRUE]

\* The checkout stores its invoice whatever the order holds, with the status
\* the creation answered; the payload it writes drops the claim.
StoreInvoice(o, i, s) ==
  WriteOrder([order EXCEPT ![o].pid = i, ![o].status = s, ![o].claimed = FALSE])

\* The agent's store keeps an invoice that is already there, and takes any
\* other status than an open one for waiting.
StoreInvoiceOnce(o, i) ==
  IF order[o].pid = None THEN StoreInvoice(o, i, "open") ELSE WriteOrder(order)

\* participation/checkout.ts gives up, in three statements.
LapseUninvoiced(o) ==
  IF order[o].pid = None THEN WriteOrder([order EXCEPT ![o].status = "lapsed"])
  ELSE UNCHANGED <<order, commerce>>

\* Seeded fault: the release does not look at what became of the place.
ReleasedAnyway(o) ==
  [n \in 1 .. Places |-> IF place[n].order = o THEN OpenPlace ELSE place[n]]

Released(o) ==
  [n \in 1 .. Places |->
     IF place[n].order = o /\ place[n].status = "reserved" THEN OpenPlace ELSE place[n]]

Canceled(o) ==
  IF o \in DOMAIN campaign /\ campaign[o].state = "pending"
  THEN [campaign EXCEPT ![o].state = "canceled"] ELSE campaign

-----------------------------------------------------------------------------
(***************************************************************************)
(* apply_nowpayments_status and apply_participation_payment_status, from   *)
(* the row lock on the order (where the term's start is computed from rows *)
(* nobody locks) to the commit.                                            *)
(***************************************************************************)
\* Seeded fault: a refund is undone by a late notification.
LatestStatus(old, new) == IF old = "finished" /\ new # "refunded" THEN "finished" ELSE new

\* Seeded fault: a payment that is only partially paid counts as finished.
AnyPaidStatus(old, new) == IF new = "open" THEN "finished" ELSE new

EffectiveStatus(old, new) ==
  IF old = "finished" /\ new # "refunded" THEN "finished"
  ELSE IF old = "refunded" THEN "refunded" ELSE new

\* Where the next term of this purchase starts, as the transaction sees it.
NextStart(o) ==
  IF order[o].kind = "plan"
  THEN Max({0} \cup {sub[i].end : i \in {j \in DOMAIN sub : /\ sub[j].active
                                                          /\ sub[j].who = order[o].who}})
  ELSE Max({0} \cup {campaign[p].start + 1 :
                       p \in {q \in DOMAIN campaign \ {o} : campaign[q].state = "running"}})

WithStatus(o, s) == WriteOrder([order EXCEPT ![o].status = s])

GrantPlan(o, from) ==
  /\ sub' = Put(sub, order[o].pid, [who |-> order[o].who, end |-> from + 1, active |-> TRUE])
  /\ UNCHANGED <<place, campaign>>

\* Seeded fault: the refund of a plan keys the subscription by the wrong row.
CloseNothing(o) == UNCHANGED <<sub, place, campaign>>

ClosePlan(o) ==
  /\ sub' = [i \in DOMAIN sub |-> IF i = order[o].pid
                                  THEN [sub[i] EXCEPT !.active = FALSE, !.end = 0] ELSE sub[i]]
  /\ UNCHANGED <<place, campaign>>

SetPlace(o, from, to) ==
  /\ place' = [n \in 1 .. Places |->
                 IF place[n].order = o /\ place[n].status = from
                 THEN [place[n] EXCEPT !.status = to, !.due = FALSE] ELSE place[n]]
  /\ UNCHANGED <<sub, campaign>>

SetCampaign(o, from, c) ==
  /\ campaign' = IF campaign[o].state = from THEN [campaign EXCEPT ![o] = c] ELSE campaign
  /\ UNCHANGED <<sub, place>>

Grant(o, start) ==
  CASE order[o].kind = "plan"      -> GrantPlan(o, start)
    [] order[o].kind = "fame"      -> SetPlace(o, "reserved", "active")
    [] order[o].kind = "highlight" -> SetCampaign(o, "pending", [state |-> "running", start |-> start])

Close(o) ==
  CASE order[o].kind = "plan"      -> ClosePlan(o)
    [] order[o].kind = "fame"      -> SetPlace(o, "active", "retired")
    [] order[o].kind = "highlight" ->
         /\ campaign' \in {campaign, [campaign EXCEPT ![o].state = IF @ = "over" THEN "refunded"
                                                                   ELSE @]}
         /\ UNCHANGED <<sub, place>>

LetGo(o) ==
  /\ place' = Released(o)
  /\ campaign' = Canceled(o)
  /\ UNCHANGED sub

\* "fame_slot_reservation_missing" takes the whole transaction back.
CanGrant(o) ==
  order[o].kind = "fame" =>
    \E n \in 1 .. Places : place[n].order = o /\ place[n].status = "reserved"

\* A refund sets ends_at to now; the check highlight_campaigns_period, which
\* ties it to starts_at, refuses that while the campaign runs: the whole
\* transaction is taken back, and the order stays finished.
CanClose(o) == order[o].kind = "highlight" => campaign[o].state # "running"

ApplyStatus(o, new, start) ==
  LET old == order[o].status
      s   == EffectiveStatus(old, new)
  IN /\ WithStatus(o, s)
     /\ CASE s = "finished" /\ old # "finished"                     -> CanGrant(o) /\ Grant(o, start)
          [] s = "refunded" /\ old = "finished"                     -> CanClose(o) /\ Close(o)
          [] s \in {"lapsed", "refunded"} /\ old # "finished"       -> LetGo(o)
          [] OTHER                                                  -> UNCHANGED <<sub, place, campaign>>
=============================================================================
