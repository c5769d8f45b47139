------------------------------ MODULE Payments ------------------------------
(***************************************************************************)
(* Checkouts, agents' orders and the provider's notifications over the     *)
(* tables of Orders.  A request is one step per statement or call to the   *)
(* provider, may die between two steps, and any call it makes may fail or  *)
(* succeed with its answer lost.  The provider's statuses reach an order   *)
(* through signed notifications and through polls: either way a status it  *)
(* once reported may arrive late, again, or after a later one.             *)
(***************************************************************************)
EXTENDS Orders

CONSTANTS
  Calls,   \* requests being served at once
  Humans,  \* members who buy through the web checkout
  Agents,  \* members whose delegated agent buys; a member may do both
  Answers  \* statuses the provider may create a payment with

ASSUME BuyersAreMembers == Humans \cup Agents \subseteq Members
ASSUME AnswersAreStatuses == Answers \subseteq Statuses

VARIABLES
  call,     \* what each request is doing
  invoice,  \* the provider's payments: the order named, the statuses reported
  applying  \* the transaction that holds an order's row lock

vars == <<tables, call, invoice, applying>>

Steps == {"idle", "claim", "create", "store", "lapse", "release", "cancel",
          "look", "agent create", "agent store", "ready", "failed"}

Call == [pc     : Steps,
         order  : OrderIds \cup {None},
         key    : Keys \cup {None},
         pid    : Invoices \cup {None},  \* the payment created, and the
         status : Statuses]             \* status it was created with

Idle == [pc |-> "idle", order |-> None, key |-> None, pid |-> None, status |-> "open"]

Applying == [status : Statuses, start : Nat]

TypeOK ==
  /\ TablesTypeOK
  /\ call \in [Calls -> Call]
  /\ DOMAIN invoice \subseteq Invoices
  /\ invoice \in [DOMAIN invoice -> [order : OrderIds, said : SUBSET Statuses]]
  /\ DOMAIN applying \subseteq DOMAIN order
  /\ applying \in [DOMAIN applying -> Applying]

Init ==
  /\ TablesInit
  /\ call = [c \in Calls |-> Idle]
  /\ invoice = [i \in {} |-> {}]
  /\ applying = [o \in {} |-> {}]

Go(c, pc)  == call' = [call EXCEPT ![c].pc = pc]
Answer(c)  == call' = [call EXCEPT ![c] = Idle]
\* What a payment created was is forgotten.
GoWithout(c, pc) == call' = [call EXCEPT ![c].pc = pc, ![c].pid = None, ![c].status = "open"]
At(c, pc)  == call[c].pc = pc
Unlocked(o) == o \notin DOMAIN applying
External   == UNCHANGED <<invoice, applying>>
GrantsKept == UNCHANGED <<sub, place, campaign>>

-----------------------------------------------------------------------------
(***************************************************************************)
(* POST /api/checkout and POST /api/participation/checkout.                *)
(***************************************************************************)
Checkout(c, who, kind, o) ==
  /\ At(c, "idle")
  /\ IF kind = "fame" THEN TakePlace(o, who) ELSE TakeOrder(o, kind, who)
  /\ call' = [call EXCEPT ![c] = [Idle EXCEPT !.pc = "claim", !.order = o]]
  /\ UNCHANGED <<sub, commerce>>
  /\ External

\* What the catch of a checkout starts with: a plan's answers 502.
Unwind(c) == IF order[call[c].order].kind = "plan" THEN Answer(c) ELSE GoWithout(c, "lapse")

\* The order is read, then claimed.  A statement that throws reaches the catch
\* also in a call that claimed nothing.
Claim(c) ==
  /\ At(c, "claim")
  /\ \/ /\ CanClaim(call[c].order)
        /\ Unlocked(call[c].order)
        /\ ClaimOrder(call[c].order)
        /\ Go(c, "create") \/ Unwind(c)
     \/ ~CanClaim(call[c].order) /\ Answer(c) /\ UNCHANGED order
     \/ Unwind(c) /\ UNCHANGED order
  /\ GrantsKept
  /\ UNCHANGED commerce
  /\ External

\* createNowPayment: refused, timed out with the payment created, or created.
CreatePayment(c, stored, Failed) ==
  /\ \/ Failed /\ UNCHANGED invoice
     \/ \E i \in Invoices \ DOMAIN invoice, s \in Answers :
          /\ invoice' = Put(invoice, i, [order |-> call[c].order, said |-> {s}])
          /\ \/ call' = [call EXCEPT ![c].pc = stored, ![c].pid = i, ![c].status = s]
             \/ Failed
  /\ UNCHANGED <<tables, applying>>

CheckoutPayment(c) == At(c, "create") /\ CreatePayment(c, "store", Unwind(c))

Store(c) ==
  /\ At(c, "store")
  /\ \/ /\ Unlocked(call[c].order)
        /\ StoreInvoice(call[c].order, call[c].pid, call[c].status)
        /\ Answer(c) \/ Unwind(c)
     \/ Unwind(c) /\ UNCHANGED <<order, commerce>>
  /\ GrantsKept
  /\ External

\* The three statements of the catch, each of which may be lost.
Lapse(c) ==
  /\ At(c, "lapse")
  /\ \/ Unlocked(call[c].order) /\ LapseUninvoiced(call[c].order)
     \/ UNCHANGED <<order, commerce>>
  /\ Go(c, "release")
  /\ GrantsKept
  /\ External

Release(c) ==
  /\ At(c, "release")
  /\ place' \in {Released(call[c].order), place}
  /\ Go(c, "cancel")
  /\ UNCHANGED <<order, sub, campaign, commerce>>
  /\ External

Cancel(c) ==
  /\ At(c, "cancel")
  /\ campaign' \in {Canceled(call[c].order), campaign}
  /\ Answer(c)
  /\ UNCHANGED <<order, sub, place, commerce>>
  /\ External

-----------------------------------------------------------------------------
(***************************************************************************)
(* POST /api/commerce/orders, the same for MCP and A2A: createCommerceOrder*)
(* and ensureProviderCheckout.                                             *)
(***************************************************************************)
AgentOrder(c, who, k, kind, o) ==
  /\ At(c, "idle")
  /\ CreateCommerceOrder(k, o, kind, who)
  /\ call' = [call EXCEPT ![c] = [Idle EXCEPT !.pc = "look", !.order = o, !.key = k]]
  /\ External

SetCommerce(k, c) == commerce' = [commerce EXCEPT ![k] = c]

\* Seeded fault: a failed creation is retried for ever.
CanCreateAgain(k) == commerce[k].state \in {"pending", "failed", "stuck"}

CanCreate(k) ==
  /\ commerce[k].state \in {"pending", "failed", "stuck"}
  /\ commerce[k].attempts < Attempts

Look(c) ==
  LET k == call[c].key IN
  /\ At(c, "look")
  /\ IF order[call[c].order].pid # None
     THEN SetCommerce(k, [commerce[k] EXCEPT !.state = "ready"]) /\ Answer(c)
     ELSE IF CanCreate(k)
     THEN /\ SetCommerce(k, [commerce[k] EXCEPT !.state = "creating", !.attempts = @ + 1])
          /\ Go(c, "agent create")
     ELSE Answer(c) /\ UNCHANGED commerce
  /\ UNCHANGED order
  /\ GrantsKept
  /\ External

AgentPayment(c) == At(c, "agent create") /\ CreatePayment(c, "agent store", Go(c, "failed"))

AgentStore(c) ==
  /\ At(c, "agent store")
  /\ \/ /\ Unlocked(call[c].order)
        /\ StoreInvoiceOnce(call[c].order, call[c].pid)
        /\ GoWithout(c, "ready") \/ GoWithout(c, "failed")
     \/ GoWithout(c, "failed") /\ UNCHANGED <<order, commerce>>
  /\ GrantsKept
  /\ External

MarkReady(c) ==
  /\ At(c, "ready")
  /\ \/ SetCommerce(call[c].key, [commerce[call[c].key] EXCEPT !.state = "ready"]) /\ Answer(c)
     \/ Go(c, "failed") /\ UNCHANGED commerce
  /\ UNCHANGED order
  /\ GrantsKept
  /\ External

MarkFailed(c) ==
  LET k == call[c].key IN
  /\ At(c, "failed")
  /\ \/ /\ commerce[k].state \in {"creating", "stuck"}
        /\ SetCommerce(k, [commerce[k] EXCEPT !.state = "failed"])
     \/ UNCHANGED commerce
  /\ Answer(c)
  /\ UNCHANGED order
  /\ GrantsKept
  /\ External

\* The request dies: the worker is evicted, or the client goes away.
Die(c) ==
  /\ ~At(c, "idle")
  /\ Answer(c)
  /\ UNCHANGED tables
  /\ External

-----------------------------------------------------------------------------
\* The provider: a payment is open until it is paid or lapses, and a payment
\* made late or taken back is reported as such.  What it says of a payment that
\* no order stores reaches nobody, and is left out until one does.
Report(i, s) ==
  /\ order[invoice[i].order].pid = i
  /\ s \in Statuses \ invoice[i].said
  /\ s = "finished" => "refunded" \notin invoice[i].said
  /\ invoice' = [invoice EXCEPT ![i].said = @ \cup {s}]
  /\ UNCHANGED <<tables, call, applying>>

\* A notification, or the answer of a poll, reaches the order that stored the
\* payment: the row is locked and read.
Notify(o, s) ==
  /\ o \in DOMAIN order
  /\ Unlocked(o)
  /\ order[o].pid # None
  /\ s \in invoice[order[o].pid].said
  /\ applying' = Put(applying, o, [status |-> s, start |-> NextStart(o)])
  /\ UNCHANGED <<tables, call, invoice>>

Dropped(o) == applying' = [p \in DOMAIN applying \ {o} |-> applying[p]]

Apply(o) ==
  /\ o \in DOMAIN applying
  /\ ApplyStatus(o, applying[o].status, applying[o].start)
  /\ Dropped(o)
  /\ UNCHANGED <<call, invoice>>

\* The transaction raises, or its connection is lost.
Rollback(o) ==
  /\ o \in DOMAIN applying
  /\ Dropped(o)
  /\ UNCHANGED <<tables, call, invoice>>

\* Half an hour, two hours, a campaign's days, two minutes pass; what no
\* statement would read is left as it is.
OrderAges(o) ==
  /\ o \in DOMAIN order
  /\ order[o].status = "open"
  /\ order[o].recent
  /\ order' = [order EXCEPT ![o].recent = FALSE]
  /\ UNCHANGED <<sub, place, campaign, commerce, call>>
  /\ External

ReservationRunsOut(n) ==
  /\ place[n].status = "reserved"
  /\ ~place[n].due
  /\ place' = [place EXCEPT ![n].due = TRUE]
  /\ UNCHANGED <<order, sub, campaign, commerce, call>>
  /\ External

CampaignEnds(o) ==
  /\ o \in DOMAIN campaign
  /\ campaign[o].state = "running"
  /\ campaign' = [campaign EXCEPT ![o].state = "over"]
  /\ UNCHANGED <<order, sub, place, commerce, call>>
  /\ External

ClaimAges(k) ==
  /\ k \in DOMAIN commerce
  /\ commerce[k].state = "creating"
  /\ SetCommerce(k, [commerce[k] EXCEPT !.state = "stuck"])
  /\ UNCHANGED <<order, sub, place, campaign, call>>
  /\ External

Serve(c) ==
  \/ \E who \in Humans, kind \in Kinds, o \in OrderIds : Checkout(c, who, kind, o)
  \/ Claim(c)
  \/ CheckoutPayment(c)
  \/ Store(c)
  \/ Lapse(c)
  \/ Release(c)
  \/ Cancel(c)
  \/ \E who \in Agents, k \in Keys, kind \in Kinds, o \in OrderIds : AgentOrder(c, who, k, kind, o)
  \/ Look(c)
  \/ AgentPayment(c)
  \/ AgentStore(c)
  \/ MarkReady(c)
  \/ MarkFailed(c)
  \/ Die(c)

Next ==
  \/ \E c \in Calls : Serve(c)
  \/ \E i \in DOMAIN invoice, s \in Statuses : Report(i, s)
  \/ \E o \in OrderIds, s \in Statuses : Notify(o, s)
  \/ \E o \in OrderIds : Apply(o) \/ Rollback(o) \/ OrderAges(o) \/ CampaignEnds(o)
  \/ \E n \in 1 .. Places : ReservationRunsOut(n)
  \/ \E k \in Keys : ClaimAges(k)

Spec == Init /\ [][Next]_vars

-----------------------------------------------------------------------------
(***************************************************************************)
(* Properties.                                                             *)
(***************************************************************************)
Paid(o) == \E i \in DOMAIN invoice : invoice[i].order = o /\ "finished" \in invoice[i].said

\* Nothing is granted on the word of anything but a finished payment that
\* names the order: not on the answer that created the payment, not on a
\* status of another one.
GrantsArePaid ==
  /\ \A i \in DOMAIN sub : "finished" \in invoice[i].said
  /\ \A n \in 1 .. Places : place[n].status \in {"active", "retired"} => Paid(place[n].order)
  /\ \A o \in DOMAIN campaign : campaign[o].state \in {"running", "over", "refunded"} => Paid(o)
  /\ \A k \in DOMAIN commerce :
       commerce[k].receipt # None => "finished" \in invoice[commerce[k].receipt].said

\* The commerce orders made over o.  An order without one was made by a web
\* checkout; one with may still be taken by a web checkout of the same member,
\* which stores its payment over the one the agent was given.
KeysOf(o) == {k \in DOMAIN commerce : commerce[k].order = o}
WebOnly(o) == KeysOf(o) = {}

\* Another payment than the one the order stores was made for it, and paid.
PaidBesides(o) ==
  \E i \in DOMAIN invoice : /\ invoice[i].order = o
                            /\ i # order[o].pid
                            /\ "finished" \in invoice[i].said

\* Whatever order the notifications arrive in, an order that ended refunded
\* leaves no term running on the payment it stores, and no place active but
\* one that another payment bought.  (A running campaign is no part of this:
\* the database takes its refund back, and its order stays finished.)
RefundCloses ==
  \A o \in DOMAIN order : order[o].status = "refunded" =>
    /\ order[o].pid \in DOMAIN sub => ~sub[order[o].pid].active
    /\ \A n \in 1 .. Places :
         place[n].order = o /\ place[n].status = "active" => PaidBesides(o)

\* However creation was retried, timed out or raced, web checkouts make one
\* payment for an order, and an agent's order has no more besides than the
\* attempts it counts.
BoundedInvoices ==
  \A o \in DOMAIN order :
    LET made == Cardinality({i \in DOMAIN invoice : invoice[i].order = o})
    IN /\ WebOnly(o) => made <= 1
       /\ \A k \in KeysOf(o) : made <= commerce[k].attempts + 1

\* An agent's order that is finished has the receipt of a finished payment
\* made for it, and a receipt outlives whatever is stored or reported later.
ReceiptKept ==
  [][\A k \in DOMAIN commerce :
       LET o == commerce[k].order  r == commerce'[k].receipt IN
       /\ order'[o].status = "finished" =>
            /\ r \in DOMAIN invoice'
            /\ invoice'[r].order = o
            /\ "finished" \in invoice'[r].said
       /\ commerce[k].receipt # None => r = commerce[k].receipt]_vars

\* A finished order keeps its payment and can only be refunded, which is the
\* end of it.  The one exception is an agent's order that a web checkout took
\* before it was paid: the checkout's own payment is stored over the other.
FinishedIsFinal ==
  [][\A o \in DOMAIN order :
       order[o].status \in {"finished", "refunded"} =>
         \/ /\ order'[o].pid = order[o].pid
            /\ order'[o].status \in {order[o].status, "refunded"}
         \/ /\ ~WebOnly(o)
            /\ \E c \in Calls : At(c, "store") /\ call[c].order = o
                               /\ order'[o].pid = call[c].pid]_vars

\* A place that was paid for stays its buyer's, whatever a checkout that gives
\* up late lets go, and its number is retired after a refund.
PlacesArePermanent ==
  [][\A n \in 1 .. Places :
       place[n].status \in {"active", "retired"} =>
         /\ place'[n].order = place[n].order
         /\ place'[n].status \in {place[n].status, "retired"}]_vars
=============================================================================
