--------------------------- MODULE AgentWorkProofs ---------------------------
(***************************************************************************)
(* TLAPS proofs about AgentWork, for any numbers of agents, connections,   *)
(* jobs, keys, calls, operators, tokens and actions.                       *)
(*                                                                         *)
(* The argument: a call is charged before it acts, so the receipts of a    *)
(* token and the calls that still hold it are together no more than what   *)
(* consume_agent_access_token has charged it (Charged).  A job says who    *)
(* claimed and submitted it, and the transactions that write this write    *)
(* the receipt with it (JobsKept).  A connection is exchanged only while   *)
(* it is approved, which a revoked one never is again (DeadOnceRevoked).   *)
(***************************************************************************)
EXTENDS AgentWork, FiniteSetTheorems, TLAPS

(***************************************************************************)
(* The inductive invariant.                                                *)
(***************************************************************************)
\* Tokens are numbered in the order they were inserted.
TokensInOrder == \E n \in 0 .. MaxTokens : DOMAIN token = 1 .. n

\* What a call, an operator and an approved connection hold while they wait.
Holds ==
  /\ \A q \in Calls : call[q].pc # "idle" =>
       call[q].token \in DOMAIN token /\ call[q].key \in Keys
  /\ \A o \in Operators : op[o].pc # "idle" => op[o].agent \in Agents
  /\ \A c \in Conns : conn[c].status = "approved" => conn[c].agent \in Agents
  /\ \A s \in DOMAIN receipt : receipt[s].token \in DOMAIN token

Typed == TypeOK /\ TokensInOrder /\ Holds

ReceiptsOf(t) == {s \in DOMAIN receipt : receipt[s].token = t}
CallsOf(t)    == {q \in Calls : call[q].pc # "idle" /\ call[q].token = t}

Charged ==
  \A t \in DOMAIN token :
    /\ IsFiniteSet(ReceiptsOf(t))
    /\ IsFiniteSet(CallsOf(t))
    /\ Cardinality(ReceiptsOf(t)) + Cardinality(CallsOf(t)) <= token[t].used

ReceiptsFor(j, act) ==
  {s \in DOMAIN receipt : receipt[s].request.job = j /\ receipt[s].request.act = act}

JobKept(j) ==
  /\ job[j].status \in {"none", "open"} <=> job[j].by = None
  /\ job[j].status \in {"submitted", "reviewed"} <=> job[j].key # None
  /\ job[j].by = None => ReceiptsFor(j, "claim") = {}
  /\ job[j].by # None => \E k \in Keys : ReceiptsFor(j, "claim") = {<<job[j].by, k>>}
  /\ job[j].key = None => ReceiptsFor(j, "submit") = {}
  /\ job[j].key # None =>
       /\ ReceiptsFor(j, "submit") = {<<job[j].by, job[j].key>>}
       /\ receipt[<<job[j].by, job[j].key>>].request.result = job[j].result

JobsKept == \A j \in Jobs : JobKept(j)

DeadOnceRevoked ==
  \A c \in Conns : conn[c].status = "revoked" =>
    \A t \in DOMAIN token : token[t].conn = c => ~token[t].live

IInv == Typed /\ Charged /\ JobsKept /\ DeadOnceRevoked

-----------------------------------------------------------------------------
(***************************************************************************)
(* Tokens and receipts.                                                    *)
(***************************************************************************)
\* An inserted token gets the next number and leaves the others alone.
LEMMA InsertedToken ==
  ASSUME Typed, NEW a \in Agents, NEW c \in Conns \cup {None},
         Cardinality(DOMAIN token) < MaxTokens, token' = Inserted(a, c)
  PROVE  \E n \in 0 .. MaxTokens - 1 :
           /\ DOMAIN token = 1 .. n
           /\ DOMAIN token' = 1 .. n + 1
           /\ token'[n + 1] = NewToken(a, c)
           /\ \A t \in DOMAIN token : token'[t] = token[t]
<1>1. PICK n \in 0 .. MaxTokens : DOMAIN token = 1 .. n
  BY DEF Typed, TokensInOrder
<1>2. Cardinality(DOMAIN token) = n
  BY <1>1, FS_Interval, ActionsAssumption
<1>3. n \in 0 .. MaxTokens - 1
  BY <1>2, ActionsAssumption
<1>4. DOMAIN token' = 1 .. n + 1
  BY <1>1, <1>2, <1>3 DEF Inserted
<1>5. QED
  BY <1>1, <1>2, <1>3, <1>4 DEF Inserted

LEMMA InsertedTyped ==
  ASSUME Typed, NEW a \in Agents, NEW c \in Conns \cup {None},
         Cardinality(DOMAIN token) < MaxTokens, token' = Inserted(a, c)
  PROVE  /\ DOMAIN token' \subseteq TokenIds
         /\ token' \in [DOMAIN token' -> Token]
         /\ TokensInOrder'
         /\ DOMAIN token \subseteq DOMAIN token'
<1>1. PICK n \in 0 .. MaxTokens - 1 :
        /\ DOMAIN token = 1 .. n
        /\ DOMAIN token' = 1 .. n + 1
        /\ token'[n + 1] = NewToken(a, c)
        /\ \A t \in DOMAIN token : token'[t] = token[t]
  BY InsertedToken
<1>2. NewToken(a, c) \in Token
  BY ActionsAssumption DEF NewToken, Token
<1>3. \A t \in DOMAIN token' : token'[t] \in Token
  BY <1>1, <1>2 DEF Typed, TypeOK
<1>4. token' \in [DOMAIN token' -> Token]
  BY <1>3 DEF Inserted
<1>5. n + 1 \in 0 .. MaxTokens
  BY <1>1, ActionsAssumption
<1>6. TokensInOrder'
  BY <1>1, <1>5 DEF TokensInOrder
<1>7. DOMAIN token' \subseteq TokenIds /\ DOMAIN token \subseteq DOMAIN token'
  BY <1>1, ActionsAssumption DEF TokenIds
<1>8. QED
  BY <1>4, <1>6, <1>7

\* Revocation and charging change no token's number, agent or connection.
LEMMA RevokedTyped ==
  ASSUME Typed, NEW S, token' = Revoked(S)
  PROVE  /\ DOMAIN token' = DOMAIN token
         /\ token' \in [DOMAIN token' -> Token]
         /\ TokensInOrder'
<1>1. \A t \in DOMAIN token : token'[t] \in Token
  BY DEF Typed, TypeOK, Revoked, Token
<1>2. QED
  BY <1>1 DEF Typed, TokensInOrder, Revoked

\* A call that records has its receipt, and changes no other.
LEMMA RecordedReceipt ==
  ASSUME Typed, NEW q \in Calls, call[q].pc # "idle", Records(q)
  PROVE  /\ Slot(q) \in Agents \X Keys
         /\ DOMAIN receipt' = DOMAIN receipt \cup {Slot(q)}
         /\ DOMAIN receipt' \subseteq Agents \X Keys
         /\ receipt' \in [DOMAIN receipt' -> Receipt]
         /\ \A s \in DOMAIN receipt : receipt'[s] = receipt[s]
         /\ receipt'[Slot(q)].request = call[q].request
         /\ Slot(q) \notin DOMAIN receipt
         /\ receipt'[Slot(q)].token = call[q].token
<1>1. call[q] \in Call /\ call[q].token \in DOMAIN token /\ call[q].key \in Keys
  BY DEF Typed, TypeOK, Holds
<1>2. token[call[q].token] \in Token
  BY <1>1 DEF Typed, TypeOK
<1>3. Slot(q) \in Agents \X Keys
  BY <1>1, <1>2 DEF Slot, Of, Token
<1>4. [request |-> call[q].request, token |-> call[q].token] \in Receipt
  BY <1>1 DEF Typed, TypeOK, Call, Receipt
<1>5. DOMAIN receipt' = DOMAIN receipt \cup {Slot(q)}
  BY DEF Records
<1>6. \A s \in DOMAIN receipt' : receipt'[s] \in Receipt
  BY <1>4 DEF Records, Typed, TypeOK
<1>7. QED
  BY <1>3, <1>5, <1>6 DEF Records, Typed, TypeOK

-----------------------------------------------------------------------------
(***************************************************************************)
(* Types, and what calls and operators hold.                               *)
(***************************************************************************)
\* A call that ends holds nothing.
LEMMA AnsweredTyped ==
  ASSUME Typed, NEW q \in Calls, Answered(q)
  PROVE  /\ call' \in [Calls -> Call]
         /\ \A p \in Calls : call'[p].pc # "idle" => p # q /\ call'[p] = call[p]
<1>1. NoCall \in Call
  BY DEF NoCall, Call, Request, Acts
<1>2. QED
  BY <1>1 DEF Answered, Typed, TypeOK, NoCall

LEMMA ConnectionTyped ==
  ASSUME Typed, NEW c \in Conns,
         Start(c) \/ Approve(c) \/ Exchange(c) \/ Revoke(c) \/ Expire(c)
  PROVE  Typed'
<1>1. CASE Start(c) \/ Approve(c) \/ Expire(c)
  <2>1. conn' \in [Conns -> Conn]
    <3>1. conn \in [Conns -> Conn]
      BY DEF Typed, TypeOK
    <3>2. CASE Start(c)
      BY <3>1, <3>2 DEF Start, Conn
    <3>3. CASE Approve(c)
      BY <3>1, <3>3 DEF Approve, Conn
    <3>4. CASE Expire(c)
      BY <3>1, <3>4 DEF Expire, Conn
    <3>5. QED
      BY <1>1, <3>2, <3>3, <3>4
  <2>2. \A d \in Conns : conn'[d].status = "approved" => conn'[d].agent \in Agents
    BY <1>1 DEF Start, Approve, Expire, Typed, TypeOK, Holds, Conn
  <2>3. UNCHANGED <<token, job, receipt, call, op>> /\ agent' = agent
    BY <1>1 DEF Start, Approve, Expire
  <2>4. QED
    BY <2>1, <2>2, <2>3 DEF Typed, TypeOK, TokensInOrder, Holds
<1>2. CASE Exchange(c)
  <2>1. conn[c].agent \in Agents /\ UNCHANGED <<agent, job, receipt, call, op>>
    BY <1>2 DEF Exchange, MayExchange, Typed, Holds
  <2>2. conn' \in [Conns -> Conn] /\ \A d \in Conns : conn'[d].status = "approved" => conn'[d] = conn[d]
    BY <1>2 DEF Exchange, Typed, TypeOK, Conn
  <2>3. /\ DOMAIN token' \subseteq TokenIds
        /\ token' \in [DOMAIN token' -> Token]
        /\ TokensInOrder'
        /\ DOMAIN token \subseteq DOMAIN token'
    BY <1>2, <2>1, InsertedTyped DEF Exchange
  <2>4. TypeOK'
    BY <2>1, <2>2, <2>3 DEF Typed, TypeOK
  <2>5. Holds'
    BY <2>1, <2>2, <2>3 DEF Typed, Holds
  <2>6. QED
    BY <2>3, <2>4, <2>5 DEF Typed
<1>3. CASE Revoke(c)
  <2>1. UNCHANGED <<agent, job, receipt, call, op>>
    BY <1>3 DEF Revoke
  <2>2. conn' \in [Conns -> Conn] /\ \A d \in Conns : conn'[d].status = "approved" => conn'[d] = conn[d]
    BY <1>3 DEF Revoke, Typed, TypeOK, Conn
  <2>3. DOMAIN token' = DOMAIN token /\ token' \in [DOMAIN token' -> Token] /\ TokensInOrder'
    BY <1>3, RevokedTyped DEF Revoke
  <2>4. QED
    BY <2>1, <2>2, <2>3 DEF Typed, TypeOK, Holds
<1>4. QED
  BY <1>1, <1>2, <1>3

LEMMA OperatorTyped ==
  ASSUME Typed, NEW o \in Operators,
         \/ \E a \in Agents : ReadAgent(o, a)
         \/ InsertToken(o)
         \/ WriteAgent(o)
         \/ SweepTokens(o)
         \/ OperatorDies(o)
  PROVE  Typed'
<1> DEFINE HeldByOperators ==
             /\ op' \in [Operators -> Op]
             /\ \A p \in Operators : op'[p].pc # "idle" => op'[p].agent \in Agents
<1>1. HeldByOperators
  <2>1. op \in [Operators -> Op] /\ NoOp \in Op
    BY DEF Typed, TypeOK, NoOp, Op
  <2>2. \A p \in Operators : op[p].pc # "idle" => op[p].agent \in Agents
    BY DEF Typed, Holds
  <2>3. ASSUME NEW a \in Agents, ReadAgent(o, a) PROVE HeldByOperators
    <3>1. PICK pc \in {"insert", "write"}, s \in BOOLEAN :
            op' = [op EXCEPT ![o] = [pc |-> pc, agent |-> a, active |-> s]]
      BY <2>3 DEF ReadAgent
    <3>2. [pc |-> pc, agent |-> a, active |-> s] \in Op
      BY DEF Op
    <3>3. QED
      BY <2>1, <2>2, <3>1, <3>2 DEF HeldByOperators
  <2>4. CASE WriteAgent(o)
    BY <2>1, <2>2, <2>4 DEF WriteAgent, NoOp, Op, HeldByOperators
  <2>5. CASE op' = [op EXCEPT ![o] = NoOp]
    BY <2>1, <2>2, <2>5 DEF NoOp, HeldByOperators
  <2>6. QED
    BY <2>3, <2>4, <2>5 DEF InsertToken, SweepTokens, OperatorDies, HeldByOperators
<1>2. UNCHANGED <<conn, job, receipt, call>>
  BY DEF ReadAgent, InsertToken, WriteAgent, SweepTokens, OperatorDies
<1>3. agent' \in [Agents -> Agent]
  BY DEF ReadAgent, InsertToken, WriteAgent, SweepTokens, OperatorDies, Typed, TypeOK, Agent
<1>4. /\ DOMAIN token' \subseteq TokenIds
      /\ token' \in [DOMAIN token' -> Token]
      /\ TokensInOrder'
      /\ DOMAIN token \subseteq DOMAIN token'
  <2>1. CASE InsertToken(o)
    <3>1. op[o].agent \in Agents
      BY <2>1 DEF InsertToken, Typed, Holds
    <3>2. QED
      BY <2>1, <3>1, InsertedTyped DEF InsertToken
  <2>2. CASE SweepTokens(o)
    BY <2>2, RevokedTyped DEF SweepTokens, Typed, TypeOK
  <2>3. CASE token' = token
    BY <2>3 DEF Typed, TypeOK, TokensInOrder
  <2>4. QED
    BY <2>1, <2>2, <2>3 DEF ReadAgent, WriteAgent, OperatorDies
<1>5. QED
  BY <1>1, <1>2, <1>3, <1>4 DEF Typed, TypeOK, Holds

LEMMA WorkTyped ==
  ASSUME Typed, NEW q \in Calls,
         \/ \E t \in TokenIds, k \in Keys, r \in Requests : Authorize(q, t, k, r)
         \/ Look(q) \/ CheckToken(q) \/ Claim(q) \/ Submit(q) \/ Release(q)
         \/ RecordRelease(q) \/ CallFails(q)
  PROVE  Typed'
<1>1. UNCHANGED <<agent, conn, op>>
  BY DEF Authorize, Look, CheckToken, Claim, Submit, Release, RecordRelease, CallFails
<1>2. /\ DOMAIN token' = DOMAIN token
      /\ token' \in [DOMAIN token' -> Token]
  <2>1. ASSUME NEW t \in TokenIds, NEW k \in Keys, NEW r \in Requests, Authorize(q, t, k, r)
        PROVE  DOMAIN token' = DOMAIN token /\ token' \in [DOMAIN token' -> Token]
    <3>1. token[t] \in Token /\ token[t].used + 1 \in 0 .. MaxActions
      BY <2>1, ActionsAssumption DEF Authorize, MayConsume, Typed, TypeOK, Token
    <3>2. QED
      BY <2>1, <3>1 DEF Authorize, Spent, Typed, TypeOK, Token
  <2>2. CASE token' = token
    BY <2>2 DEF Typed, TypeOK
  <2>3. Look(q) => token' = token
    BY DEF Look
  <2>4. Claim(q) => token' = token
    BY DEF Claim
  <2>5. Submit(q) => token' = token
    BY DEF Submit
  <2>6. QED
    BY <2>1, <2>2, <2>3, <2>4, <2>5 DEF CheckToken, Release, RecordRelease, CallFails
<1> DEFINE HeldByCalls ==
             /\ call' \in [Calls -> Call]
             /\ \A p \in Calls : call'[p].pc # "idle" =>
                  call'[p].token \in DOMAIN token /\ call'[p].key \in Keys
<1>3. HeldByCalls
  <2>1. ASSUME NEW t \in TokenIds, NEW k \in Keys, NEW r \in Requests, Authorize(q, t, k, r)
        PROVE  HeldByCalls
    <3>1. r \in Request
      BY <2>1 DEF Requests, Request, Acts
    <3>2. [pc |-> "look", request |-> r, key |-> k, token |-> t] \in Call
      BY <3>1 DEF Call
    <3>3. QED
      BY <2>1, <3>2 DEF Authorize, Typed, TypeOK, Holds
  <2>2. CASE /\ call[q].pc # "idle"
             /\ \E pc \in {"act", "record", "insert"} : call' = [call EXCEPT ![q].pc = pc]
    <3>1. call \in [Calls -> Call]
      BY DEF Typed, TypeOK
    <3>2. call' \in [Calls -> Call]
      BY <2>2, <3>1 DEF Call
    <3>3. \A p \in Calls :
            /\ call'[p].token = call[p].token
            /\ call'[p].key = call[p].key
            /\ call'[p].request = call[p].request
      BY <2>2, <3>1 DEF Call
    <3>4. \A p \in Calls \ {q} : call'[p] = call[p]
      BY <2>2, <3>1
    <3>5. QED
      BY <2>2, <3>2, <3>3, <3>4 DEF Typed, Holds
  <2>3. CASE Answered(q)
    BY <2>3, AnsweredTyped DEF Typed, Holds
  <2>4. CASE Look(q)
    BY <2>2, <2>3, <2>4 DEF Look
  <2>5. CASE Release(q)
    BY <2>2, <2>5 DEF Release
  <2>6. CASE Claim(q) \/ Submit(q) \/ RecordRelease(q) \/ CallFails(q)
    BY <2>3, <2>6 DEF Claim, Submit, RecordRelease, CallFails
  <2>7. CASE CheckToken(q)
    BY <2>2, <2>3, <2>7 DEF CheckToken
  <2>8. QED
    BY <2>1, <2>4, <2>5, <2>6, <2>7
<1>4. job' \in [Jobs -> Job]
  <2>1. CASE Claim(q)
    <3>1. Of(q) \in Agents
      BY <2>1 DEF Claim, Inserts, Of, Typed, TypeOK, Holds, Token
    <3>2. job \in [Jobs -> Job]
      BY DEF Typed, TypeOK
    <3>3. \/ job' = job
          \/ job' = [job EXCEPT ![call[q].request.job].status = "claimed",
                                ![call[q].request.job].by = Of(q)]
      BY <2>1 DEF Claim
    <3>4. QED
      BY <3>1, <3>2, <3>3 DEF Job
  <2>2. CASE Submit(q)
    <3>1. call[q].key \in Keys /\ call[q].request.result \in Results \cup {None}
      BY <2>2 DEF Submit, Inserts, Typed, TypeOK, Holds, Call, Request
    <3>2. QED
      BY <2>2, <3>1 DEF Submit, Typed, TypeOK, Job
  <2>3. CASE job' = job
    BY <2>3 DEF Typed, TypeOK
  <2>4. QED
    BY <2>1, <2>2, <2>3 DEF Authorize, Look, CheckToken, Release, RecordRelease, CallFails
<1>5. /\ DOMAIN receipt' \subseteq Agents \X Keys
      /\ receipt' \in [DOMAIN receipt' -> Receipt]
      /\ \A s \in DOMAIN receipt' : receipt'[s].token \in DOMAIN token
  <2>1. CASE call[q].pc # "idle" /\ Records(q)
    <3>1. /\ DOMAIN receipt' \subseteq Agents \X Keys
          /\ receipt' \in [DOMAIN receipt' -> Receipt]
      BY <2>1, RecordedReceipt
    <3>2. \A s \in DOMAIN receipt' : s \in DOMAIN receipt \/ receipt'[s].token = call[q].token
      BY <2>1, RecordedReceipt
    <3>3. \A s \in DOMAIN receipt : receipt'[s] = receipt[s]
      BY <2>1, RecordedReceipt
    <3>4. QED
      BY <2>1, <3>1, <3>2, <3>3 DEF Typed, Holds
  <2>2. CASE receipt' = receipt
    BY <2>2 DEF Typed, TypeOK, Holds
  <2>3. QED
    BY <2>1, <2>2 DEF Authorize, Look, CheckToken, Claim, Submit, Release, RecordRelease,
                      CallFails, Inserts
<1>6. TypeOK'
  BY <1>1, <1>2, <1>3, <1>4, <1>5 DEF Typed, TypeOK
<1>7. Holds' /\ TokensInOrder'
  BY <1>1, <1>2, <1>3, <1>5 DEF Typed, Holds, TokensInOrder
<1>8. QED
  BY <1>6, <1>7 DEF Typed

LEMMA TypedStep == Typed /\ [Next]_vars => Typed'
<1> SUFFICES ASSUME Typed, [Next]_vars PROVE Typed'
  OBVIOUS
<1>1. ASSUME NEW t \in TokenIds, RevokeToken(t) PROVE Typed'
  <2>1. DOMAIN token' = DOMAIN token /\ token' \in [DOMAIN token' -> Token] /\ TokensInOrder'
    BY <1>1, RevokedTyped DEF RevokeToken
  <2>2. QED
    BY <1>1, <2>1 DEF RevokeToken, Typed, TypeOK, Holds
<1>2. ASSUME NEW j \in Jobs, CreateJob(j) \/ Review(j) PROVE Typed'
  <2>1. job' \in [Jobs -> Job]
    BY <1>2 DEF CreateJob, Review, Typed, TypeOK, Job
  <2>2. QED
    BY <1>2, <2>1 DEF CreateJob, Review, Typed, TypeOK, TokensInOrder, Holds
<1>3. CASE UNCHANGED vars
  BY <1>3 DEF vars, Typed, TypeOK, TokensInOrder, Holds
<1>4. QED
  BY <1>1, <1>2, <1>3, ConnectionTyped, OperatorTyped, WorkTyped DEF Next

-----------------------------------------------------------------------------
(***************************************************************************)
(* Budgets.                                                                *)
(***************************************************************************)
\* A step that neither calls nor records, and charges nothing.
LEMMA ChargedFrame ==
  ASSUME Typed, Charged, UNCHANGED <<receipt, call>>,
         DOMAIN token \subseteq DOMAIN token',
         \A t \in DOMAIN token : token'[t].used = token[t].used,
         \A t \in DOMAIN token' \ DOMAIN token : token'[t].used = 0
  PROVE  Charged'
<1> SUFFICES ASSUME NEW t \in DOMAIN token'
             PROVE  /\ IsFiniteSet(ReceiptsOf(t))
                    /\ IsFiniteSet(CallsOf(t))
                    /\ Cardinality(ReceiptsOf(t)) + Cardinality(CallsOf(t)) <= token'[t].used
  BY DEF Charged, ReceiptsOf, CallsOf
<1>1. CASE t \in DOMAIN token
  BY <1>1 DEF Charged
<1>2. CASE t \notin DOMAIN token
  <2>1. ReceiptsOf(t) = {} /\ CallsOf(t) = {}
    BY <1>2 DEF ReceiptsOf, CallsOf, Typed, Holds
  <2>2. QED
    BY <1>2, <2>1, FS_EmptySet
<1>3. QED
  BY <1>1, <1>2

\* A call that is authorized is charged for.
LEMMA ChargedAuthorize ==
  ASSUME Typed, Charged, NEW q \in Calls, NEW u \in TokenIds, NEW k \in Keys,
         NEW r \in Requests, Authorize(q, u, k, r)
  PROVE  Charged'
<1>1. u \in DOMAIN token /\ receipt' = receipt /\ token' = [token EXCEPT ![u].used = @ + 1]
  BY DEF Authorize, Spent
<1>2. call[q].pc = "idle" /\ call'[q].pc = "look" /\ call'[q].token = u
  BY DEF Authorize, Typed, TypeOK
<1>3. \A p \in Calls \ {q} : call'[p] = call[p]
  BY DEF Authorize, Typed, TypeOK
<1> SUFFICES ASSUME NEW t \in DOMAIN token
             PROVE  /\ IsFiniteSet(ReceiptsOf(t))
                    /\ IsFiniteSet(CallsOf(t)')
                    /\ Cardinality(ReceiptsOf(t)) + Cardinality(CallsOf(t)') <= token'[t].used
  BY <1>1 DEF Charged, ReceiptsOf, CallsOf
<1>4. /\ IsFiniteSet(ReceiptsOf(t)) /\ Cardinality(ReceiptsOf(t)) \in Nat
      /\ IsFiniteSet(CallsOf(t)) /\ Cardinality(CallsOf(t)) \in Nat
      /\ Cardinality(ReceiptsOf(t)) + Cardinality(CallsOf(t)) <= token[t].used
  BY FS_CardinalityType DEF Charged
<1>5. CASE t = u
  <2>1. CallsOf(t)' = CallsOf(t) \cup {q} /\ q \notin CallsOf(t)
    BY <1>2, <1>3, <1>5 DEF CallsOf
  <2>2. IsFiniteSet(CallsOf(t)') /\ Cardinality(CallsOf(t)') = Cardinality(CallsOf(t)) + 1
    BY <1>4, <2>1, FS_AddElement
  <2>3. token'[t].used = token[t].used + 1 /\ token[t].used \in Nat
    BY <1>1, <1>5 DEF Typed, TypeOK, Token
  <2>4. QED
    BY <1>4, <2>2, <2>3
<1>6. CASE t # u
  <2>1. CallsOf(t)' = CallsOf(t)
    BY <1>2, <1>3, <1>6 DEF CallsOf
  <2>2. token'[t] = token[t]
    BY <1>1, <1>6
  <2>3. QED
    BY <1>4, <2>1, <2>2
<1>7. QED
  BY <1>5, <1>6

\* A call that goes on or ends without a receipt.
LEMMA ChargedCall ==
  ASSUME Typed, Charged, NEW q \in Calls, UNCHANGED <<token, receipt>>,
         \A p \in Calls \ {q} : call'[p] = call[p],
         \/ call'[q].pc = "idle"
         \/ call[q].pc # "idle" /\ call'[q].token = call[q].token
  PROVE  Charged'
<1> SUFFICES ASSUME NEW t \in DOMAIN token
             PROVE  /\ IsFiniteSet(ReceiptsOf(t))
                    /\ IsFiniteSet(CallsOf(t)')
                    /\ Cardinality(ReceiptsOf(t)) + Cardinality(CallsOf(t)') <= token[t].used
  BY DEF Charged, ReceiptsOf, CallsOf
<1>1. IsFiniteSet(ReceiptsOf(t)) /\ Cardinality(ReceiptsOf(t)) \in Nat
  BY FS_CardinalityType DEF Charged
<1>2. IsFiniteSet(CallsOf(t)) /\ Cardinality(CallsOf(t)) \in Nat
  BY FS_CardinalityType DEF Charged
<1>3. CallsOf(t)' \subseteq CallsOf(t)
  BY DEF CallsOf
<1>4. /\ IsFiniteSet(CallsOf(t)')
      /\ Cardinality(CallsOf(t)') \in Nat
      /\ Cardinality(CallsOf(t)') <= Cardinality(CallsOf(t))
  BY <1>2, <1>3, FS_Subset, FS_CardinalityType
<1>5. token[t].used \in Nat
  BY DEF Typed, TypeOK, Token
<1>6. QED
  BY <1>1, <1>2, <1>4, <1>5 DEF Charged

\* A call that records gives its charge to the receipt.
LEMMA ChargedRecord ==
  ASSUME Typed, Charged, NEW q \in Calls, call[q].pc # "idle",
         Records(q), Answered(q), UNCHANGED token
  PROVE  Charged'
<1>1. call'[q].pc = "idle" /\ \A p \in Calls \ {q} : call'[p] = call[p]
  BY DEF Answered, NoCall, Typed, TypeOK
<1>2. /\ DOMAIN receipt' = DOMAIN receipt \cup {Slot(q)}
      /\ \A s \in DOMAIN receipt : receipt'[s] = receipt[s]
      /\ receipt'[Slot(q)].token = call[q].token
      /\ Slot(q) \notin DOMAIN receipt
  BY RecordedReceipt
<1> SUFFICES ASSUME NEW t \in DOMAIN token
             PROVE  /\ IsFiniteSet(ReceiptsOf(t)')
                    /\ IsFiniteSet(CallsOf(t)')
                    /\ Cardinality(ReceiptsOf(t)') + Cardinality(CallsOf(t)') <= token[t].used
  BY DEF Charged, ReceiptsOf, CallsOf
<1>3. /\ IsFiniteSet(ReceiptsOf(t)) /\ Cardinality(ReceiptsOf(t)) \in Nat
      /\ IsFiniteSet(CallsOf(t)) /\ Cardinality(CallsOf(t)) \in Nat
      /\ Cardinality(ReceiptsOf(t)) + Cardinality(CallsOf(t)) <= token[t].used
  BY FS_CardinalityType DEF Charged
<1>4. token[t].used \in Nat
  BY DEF Typed, TypeOK, Token
<1>5. CASE t = call[q].token
  <2>1. ReceiptsOf(t)' = ReceiptsOf(t) \cup {Slot(q)} /\ Slot(q) \notin ReceiptsOf(t)
    BY <1>2, <1>5 DEF ReceiptsOf
  <2>2. CallsOf(t)' = CallsOf(t) \ {q} /\ q \in CallsOf(t)
    BY <1>1, <1>5 DEF CallsOf
  <2>3. IsFiniteSet(ReceiptsOf(t)') /\ Cardinality(ReceiptsOf(t)') = Cardinality(ReceiptsOf(t)) + 1
    BY <1>3, <2>1, FS_AddElement
  <2>4. IsFiniteSet(CallsOf(t)') /\ Cardinality(CallsOf(t)') = Cardinality(CallsOf(t)) - 1
    BY <1>3, <2>2, FS_RemoveElement
  <2>5. QED
    BY <1>3, <1>4, <2>3, <2>4
<1>6. CASE t # call[q].token
  <2>1. ReceiptsOf(t)' = ReceiptsOf(t)
    BY <1>2, <1>6 DEF ReceiptsOf
  <2>2. CallsOf(t)' = CallsOf(t)
    BY <1>1, <1>6 DEF CallsOf
  <2>3. QED
    BY <1>3, <2>1, <2>2
<1>7. QED
  BY <1>5, <1>6

-----------------------------------------------------------------------------
(***************************************************************************)
(* Jobs and their receipts.                                                *)
(***************************************************************************)
\* Recording adds the call's receipt to those of its job and action.
LEMMA RecordedFor ==
  ASSUME Typed, NEW q \in Calls, call[q].pc # "idle", Records(q),
         NEW j, NEW act
  PROVE  ReceiptsFor(j, act)' =
           IF call[q].request.job = j /\ call[q].request.act = act
           THEN ReceiptsFor(j, act) \cup {Slot(q)} ELSE ReceiptsFor(j, act)
<1>1. /\ DOMAIN receipt' = DOMAIN receipt \cup {Slot(q)}
      /\ \A s \in DOMAIN receipt : receipt'[s] = receipt[s]
      /\ receipt'[Slot(q)].request = call[q].request
  BY RecordedReceipt
<1>2. Slot(q) \notin DOMAIN receipt
  BY RecordedReceipt
<1>3. QED
  BY <1>1, <1>2 DEF ReceiptsFor

\* A job whose row and receipts of claims and submissions stay is kept.
LEMMA JobFrame ==
  ASSUME NEW j \in Jobs, JobKept(j), job'[j] = job[j],
         ReceiptsFor(j, "claim")' = ReceiptsFor(j, "claim"),
         ReceiptsFor(j, "submit")' = ReceiptsFor(j, "submit"),
         \A s \in DOMAIN receipt : receipt'[s] = receipt[s]
  PROVE  JobKept(j)'
<1>1. job[j].key # None => <<job[j].by, job[j].key>> \in DOMAIN receipt
  BY DEF JobKept, ReceiptsFor
<1>2. QED
  BY <1>1 DEF JobKept

LEMMA ClaimKept ==
  ASSUME Typed, JobsKept, NEW q \in Calls, Claim(q)
  PROVE  JobsKept'
<1> DEFINE j == call[q].request.job
<1>1. CASE UNCHANGED <<job, receipt>>
  BY <1>1 DEF JobsKept, JobKept, ReceiptsFor
<1>2. CASE /\ Open(j) /\ Records(q)
           /\ job' = [job EXCEPT ![j].status = "claimed", ![j].by = Of(q)]
  <2>1. call[q].pc # "idle" /\ call[q].request.act = "claim"
    BY DEF Claim, Inserts
  <2>2. /\ Of(q) \in Agents /\ call[q].key \in Keys
        /\ Of(q) # None
    BY <2>1, NoneFresh DEF Of, Typed, TypeOK, Holds, Token
  <2>3. job \in [Jobs -> Job]
    BY DEF Typed, TypeOK
  <2> SUFFICES ASSUME NEW y \in Jobs PROVE JobKept(y)'
    BY DEF JobsKept
  <2>4. ReceiptsFor(y, "submit")' = ReceiptsFor(y, "submit")
    BY <1>2, <2>1, RecordedFor
  <2>5. CASE y = j
    <3>1. ReceiptsFor(y, "claim")' = ReceiptsFor(y, "claim") \cup {<<Of(q), call[q].key>>}
      BY <1>2, <2>1, <2>5, RecordedFor DEF Slot
    <3>2. job[y].status = "open" /\ job[y].by = None /\ job[y].key = None
      BY <1>2, <2>5 DEF Open, JobsKept, JobKept
    <3>3. job'[y].status = "claimed" /\ job'[y].by = Of(q) /\ job'[y].key = None
      BY <1>2, <2>3, <2>5, <3>2 DEF Job
    <3>4. ReceiptsFor(y, "claim")' = {<<job'[y].by, call[q].key>>}
      BY <2>5, <3>1, <3>2, <3>3 DEF JobsKept, JobKept
    <3>5. ReceiptsFor(y, "submit")' = {}
      BY <2>4, <2>5, <3>2 DEF JobsKept, JobKept
    <3>6. QED
      BY <2>2, <2>5, <3>3, <3>4, <3>5 DEF JobKept
  <2>6. CASE y # j
    <3>1. job'[y] = job[y] /\ ReceiptsFor(y, "claim")' = ReceiptsFor(y, "claim")
      BY <1>2, <2>1, <2>3, <2>6, RecordedFor
    <3>2. \A s \in DOMAIN receipt : receipt'[s] = receipt[s]
      BY <1>2, <2>1, RecordedReceipt
    <3>3. QED
      BY <2>4, <3>1, <3>2, JobFrame DEF JobsKept
  <2>7. QED
    BY <2>5, <2>6
<1>3. QED
  BY <1>1, <1>2 DEF Claim

LEMMA SubmitKept ==
  ASSUME Typed, JobsKept, NEW q \in Calls, Submit(q)
  PROVE  JobsKept'
<1> DEFINE j == call[q].request.job
<1>1. CASE UNCHANGED <<job, receipt>>
  BY <1>1 DEF JobsKept, JobKept, ReceiptsFor
<1>2. CASE /\ Records(q) /\ job[j].status = "claimed" /\ job[j].by = Of(q)
           /\ job' = [job EXCEPT ![j].status = "submitted", ![j].key = call[q].key,
                                 ![j].result = call[q].request.result]
  <2>1. call[q].pc # "idle" /\ call[q].request.act = "submit"
    BY DEF Submit, Inserts
  <2>2. call[q].key # None
    BY <2>1, NoneFresh DEF Typed, Holds
  <2>3. job \in [Jobs -> Job]
    BY DEF Typed, TypeOK
  <2>4. /\ \A s \in DOMAIN receipt : receipt'[s] = receipt[s]
        /\ receipt'[Slot(q)].request = call[q].request
    BY <1>2, <2>1, RecordedReceipt
  <2> SUFFICES ASSUME NEW y \in Jobs PROVE JobKept(y)'
    BY DEF JobsKept
  <2>5. ReceiptsFor(y, "claim")' = ReceiptsFor(y, "claim")
    <3>1. Records(q)
      BY <1>2
    <3>2. call[q].pc # "idle" /\ call[q].request.act # "claim"
      BY <2>1
    <3>3. QED
      BY <3>1, <3>2, RecordedFor
  <2>6. CASE y = j
    <3>1. ReceiptsFor(y, "submit")' = ReceiptsFor(y, "submit") \cup {Slot(q)}
      BY <1>2, <2>1, <2>6, RecordedFor
    <3>2. job[y].by # None /\ job[y].key = None
      BY <1>2, <2>6 DEF JobsKept, JobKept
    <3>3. /\ job'[y].status = "submitted" /\ job'[y].by = job[y].by
          /\ job'[y].key = call[q].key /\ job'[y].result = call[q].request.result
      BY <1>2, <2>3, <2>6 DEF Job
    <3>4. Slot(q) = <<job'[y].by, job'[y].key>>
      BY <1>2, <2>6, <3>3 DEF Slot
    <3>5. ReceiptsFor(y, "submit")' = {<<job'[y].by, job'[y].key>>}
      BY <2>6, <3>1, <3>2, <3>4 DEF JobsKept, JobKept
    <3>6. receipt'[<<job'[y].by, job'[y].key>>].request.result = job'[y].result
      BY <2>4, <3>3, <3>4
    <3>7. \E k \in Keys : ReceiptsFor(y, "claim")' = {<<job'[y].by, k>>}
      BY <2>5, <2>6, <3>2, <3>3 DEF JobsKept, JobKept
    <3>8. QED
      BY <2>2, <2>6, <3>2, <3>3, <3>5, <3>6, <3>7 DEF JobKept
  <2>7. CASE y # j
    <3>1. job'[y] = job[y] /\ ReceiptsFor(y, "submit")' = ReceiptsFor(y, "submit")
      BY <1>2, <2>1, <2>3, <2>7, RecordedFor
    <3>2. QED
      BY <2>4, <2>5, <3>1, JobFrame DEF JobsKept
  <2>8. QED
    BY <2>6, <2>7
<1>3. QED
  BY <1>1, <1>2 DEF Submit

LEMMA ReleaseKept ==
  ASSUME Typed, JobsKept, NEW q \in Calls, RecordRelease(q)
  PROVE  JobsKept'
<1>1. CASE UNCHANGED <<job, receipt>>
  BY <1>1 DEF JobsKept, JobKept, ReceiptsFor
<1>2. CASE Records(q)
  <2>1. call[q].pc # "idle" /\ call[q].request.act = "release" /\ job' = job
    BY DEF RecordRelease, Inserts
  <2>2. \A j \in Jobs : /\ ReceiptsFor(j, "claim")' = ReceiptsFor(j, "claim")
                        /\ ReceiptsFor(j, "submit")' = ReceiptsFor(j, "submit")
    BY <1>2, <2>1, RecordedFor
  <2>3. \A s \in DOMAIN receipt : receipt'[s] = receipt[s]
    BY <1>2, <2>1, RecordedReceipt
  <2>4. QED
    BY <2>1, <2>2, <2>3, JobFrame DEF JobsKept
<1>3. QED
  BY <1>1, <1>2 DEF RecordRelease

LEMMA ReviewKept ==
  ASSUME Typed, JobsKept, NEW j \in Jobs, CreateJob(j) \/ Review(j)
  PROVE  JobsKept'
<1>1. receipt' = receipt /\ \A y \in Jobs \ {j} : job'[y] = job[y]
  BY DEF CreateJob, Review, Typed, TypeOK
<1>2. /\ job'[j].by = job[j].by /\ job'[j].key = job[j].key /\ job'[j].result = job[j].result
      /\ \/ job[j].status = "none" /\ job'[j].status = "open"
         \/ job[j].status = "submitted" /\ job'[j].status = "reviewed"
  BY DEF CreateJob, Review, Typed, TypeOK, Job
<1>3. JobKept(j)'
  BY <1>1, <1>2 DEF JobsKept, JobKept, ReceiptsFor
<1>4. \A y \in Jobs \ {j} : JobKept(y)'
  BY <1>1 DEF JobsKept, JobKept, ReceiptsFor
<1>5. QED
  BY <1>3, <1>4 DEF JobsKept

-----------------------------------------------------------------------------
(***************************************************************************)
(* The invariant holds in every state.                                     *)
(***************************************************************************)
LEMMA ChargedStep == Typed /\ Charged /\ [Next]_vars => Charged'
<1> SUFFICES ASSUME Typed, Charged, [Next]_vars PROVE Charged'
  OBVIOUS
<1>1. ASSUME UNCHANGED <<receipt, call, token>> PROVE Charged'
  BY <1>1 DEF Charged, ReceiptsOf, CallsOf
<1>2. ASSUME UNCHANGED <<receipt, call>>, NEW S, token' = Revoked(S) PROVE Charged'
  <2>1. DOMAIN token' = DOMAIN token /\ \A t \in DOMAIN token : token'[t].used = token[t].used
    BY <1>2 DEF Revoked, Typed, TypeOK, Token
  <2>2. QED
    BY <1>2, <2>1, ChargedFrame
<1>3. ASSUME UNCHANGED <<receipt, call>>, NEW a \in Agents, NEW c \in Conns \cup {None},
             Cardinality(DOMAIN token) < MaxTokens, token' = Inserted(a, c)
      PROVE  Charged'
  <2>1. PICK n \in 0 .. MaxTokens - 1 :
          /\ DOMAIN token = 1 .. n
          /\ DOMAIN token' = 1 .. n + 1
          /\ token'[n + 1] = NewToken(a, c)
          /\ \A t \in DOMAIN token : token'[t] = token[t]
    BY <1>3, InsertedToken
  <2>2. DOMAIN token' \ DOMAIN token = {n + 1} /\ token'[n + 1].used = 0
    BY <2>1, ActionsAssumption DEF NewToken
  <2>3. DOMAIN token \subseteq DOMAIN token'
    BY <2>1, ActionsAssumption
  <2>4. QED
    BY <1>3, <2>1, <2>2, <2>3, ChargedFrame
<1>4. ASSUME NEW c \in Conns, Exchange(c) PROVE Charged'
  <2>1. conn[c].agent \in Agents
    BY <1>4 DEF Exchange, MayExchange, Typed, Holds
  <2>2. QED
    BY <1>3, <1>4, <2>1 DEF Exchange
<1>5. ASSUME NEW o \in Operators, InsertToken(o) PROVE Charged'
  <2>1. op[o].agent \in Agents
    BY <1>5 DEF InsertToken, Typed, Holds
  <2>2. QED
    BY <1>3, <1>5, <2>1 DEF InsertToken
<1>6. ASSUME NEW q \in Calls,
             \/ Look(q) \/ CheckToken(q) \/ Claim(q) \/ Submit(q) \/ Release(q)
             \/ RecordRelease(q) \/ CallFails(q)
      PROVE  Charged'
  <2>1. call \in [Calls -> Call]
    BY DEF Typed, TypeOK
  <2>2. Answered(q) => call'[q].pc = "idle" /\ \A p \in Calls \ {q} : call'[p] = call[p]
    BY <2>1 DEF Answered, NoCall
  <2>3. CASE Look(q) \/ CheckToken(q) \/ Release(q) \/ CallFails(q)
    <3>1. UNCHANGED <<token, receipt>> /\ call[q].pc # "idle"
      BY <2>3 DEF Look, CheckToken, Release, CallFails
    <3>2. \/ Answered(q)
          \/ \E pc \in {"act", "record", "insert"} : call' = [call EXCEPT ![q].pc = pc]
      BY <2>3 DEF Look, CheckToken, Release, CallFails
    <3>3. \/ Answered(q)
          \/ (\A p \in Calls \ {q} : call'[p] = call[p]) /\ call'[q].token = call[q].token
      BY <2>1, <3>2 DEF Call
    <3>4. QED
      BY <2>2, <3>1, <3>3, ChargedCall
  <2>4. CASE Claim(q) \/ Submit(q) \/ RecordRelease(q)
    <3>1. UNCHANGED token /\ Answered(q) /\ call[q].pc # "idle"
      BY <2>4 DEF Claim, Submit, RecordRelease, Inserts
    <3>2. Records(q) \/ receipt' = receipt
      BY <2>4 DEF Claim, Submit, RecordRelease
    <3>3. QED
      BY <2>2, <3>1, <3>2, ChargedRecord, ChargedCall
  <2>5. QED
    BY <1>6, <2>3, <2>4
<1>7. ASSUME NEW q \in Calls, NEW t \in TokenIds, NEW k \in Keys, NEW r \in Requests,
             Authorize(q, t, k, r)
      PROVE  Charged'
  BY <1>7, ChargedAuthorize
<1>8. ASSUME NEW c \in Conns, Revoke(c) PROVE Charged'
  BY <1>2, <1>8 DEF Revoke
<1>9. ASSUME NEW t \in TokenIds, RevokeToken(t) PROVE Charged'
  BY <1>2, <1>9 DEF RevokeToken
<1>10. ASSUME NEW o \in Operators, SweepTokens(o) PROVE Charged'
  BY <1>2, <1>10 DEF SweepTokens
<1>11. CASE UNCHANGED vars
  BY <1>1, <1>11 DEF vars
<1>12. ASSUME NEW c \in Conns, Start(c) \/ Approve(c) \/ Expire(c) PROVE Charged'
  BY <1>1, <1>12 DEF Start, Approve, Expire
<1>13. ASSUME NEW o \in Operators,
              (\E a \in Agents : ReadAgent(o, a)) \/ WriteAgent(o) \/ OperatorDies(o)
       PROVE  Charged'
  BY <1>1, <1>13 DEF ReadAgent, WriteAgent, OperatorDies
<1>14. ASSUME NEW j \in Jobs, CreateJob(j) \/ Review(j) PROVE Charged'
  BY <1>1, <1>14 DEF CreateJob, Review
<1>15. QED
  BY <1>4, <1>5, <1>6, <1>7, <1>8, <1>9, <1>10, <1>11, <1>12, <1>13, <1>14 DEF Next

LEMMA JobsStep == Typed /\ JobsKept /\ [Next]_vars => JobsKept'
<1> SUFFICES ASSUME Typed, JobsKept, [Next]_vars PROVE JobsKept'
  OBVIOUS
<1>1. ASSUME UNCHANGED <<job, receipt>> PROVE JobsKept'
  BY <1>1 DEF JobsKept, JobKept, ReceiptsFor
<1>2. ASSUME NEW c \in Conns, Start(c) \/ Approve(c) \/ Exchange(c) \/ Revoke(c) \/ Expire(c)
      PROVE  JobsKept'
  BY <1>1, <1>2 DEF Start, Approve, Exchange, Revoke, Expire
<1>3. ASSUME NEW o \in Operators,
             \/ \E a \in Agents : ReadAgent(o, a)
             \/ InsertToken(o)
             \/ WriteAgent(o)
             \/ SweepTokens(o)
             \/ OperatorDies(o)
      PROVE  JobsKept'
  BY <1>1, <1>3 DEF ReadAgent, InsertToken, WriteAgent, SweepTokens, OperatorDies
<1>4. ASSUME NEW q \in Calls, Look(q) \/ CheckToken(q) \/ Release(q) \/ CallFails(q)
      PROVE  JobsKept'
  BY <1>1, <1>4 DEF Look, CheckToken, Release, CallFails
<1>5. ASSUME NEW q \in Calls, NEW t \in TokenIds, NEW k \in Keys, NEW r \in Requests,
             Authorize(q, t, k, r)
      PROVE  JobsKept'
  BY <1>1, <1>5 DEF Authorize
<1>6. ASSUME NEW t \in TokenIds, RevokeToken(t) PROVE JobsKept'
  BY <1>1, <1>6 DEF RevokeToken
<1>7. CASE UNCHANGED vars
  BY <1>1, <1>7 DEF vars
<1>8. QED
  BY <1>2, <1>3, <1>4, <1>5, <1>6, <1>7, ClaimKept, SubmitKept, ReleaseKept, ReviewKept DEF Next

\* A revoked connection stays so, and no step gives it a token that works.
LEMMA RevocationStep ==
  ASSUME Typed, DeadOnceRevoked, [Next]_vars, NEW c \in Conns
  PROVE  /\ conn[c].status = "revoked" => conn'[c].status = "revoked"
         /\ conn'[c].status = "revoked" => \A t \in DOMAIN token' : token'[t].conn = c => ~token'[t].live
<1> DEFINE Dead == /\ conn[c].status = "revoked" => conn'[c].status = "revoked"
                   /\ conn'[c].status = "revoked" =>
                        \A t \in DOMAIN token' : token'[t].conn = c => ~token'[t].live
<1> SUFFICES Dead
  BY DEF Dead
<1>1. conn \in [Conns -> Conn] /\ \A t \in DOMAIN token : token[t] \in Token
  BY DEF Typed, TypeOK
<1>2. conn[c].status = "revoked" => \A t \in DOMAIN token : token[t].conn = c => ~token[t].live
  BY DEF DeadOnceRevoked
<1>3. ASSUME NEW S, conn'[c].status = conn[c].status, token' = Revoked(S) PROVE Dead
  BY <1>1, <1>2, <1>3 DEF Revoked, Token, Dead
<1>4. ASSUME NEW a \in Agents, NEW d \in Conns \cup {None}, Cardinality(DOMAIN token) < MaxTokens,
             token' = Inserted(a, d), conn[c].status = "revoked" => conn'[c].status = "revoked",
             conn'[c].status = "revoked" => d # c /\ conn[c].status = "revoked"
      PROVE  Dead
  <2>1. PICK n \in 0 .. MaxTokens - 1 :
          /\ DOMAIN token = 1 .. n
          /\ DOMAIN token' = 1 .. n + 1
          /\ token'[n + 1] = NewToken(a, d)
          /\ \A t \in DOMAIN token : token'[t] = token[t]
    BY <1>4, InsertedToken
  <2>2. \A t \in DOMAIN token' : t \in DOMAIN token \/ t = n + 1
    BY <2>1
  <2>3. token'[n + 1].conn = d
    BY <2>1 DEF NewToken
  <2>4. QED
    BY <1>2, <1>4, <2>1, <2>2, <2>3 DEF Dead
<1>5. ASSUME token' = token, conn' = conn PROVE Dead
  BY <1>2, <1>5 DEF Dead
<1>6. ASSUME NEW d \in Conns, Start(d) \/ Approve(d) \/ Expire(d) PROVE Dead
  <2>1. token' = token /\ conn[d].status # "revoked"
    BY <1>6 DEF Start, Approve, Expire
  <2>2. conn'[c].status = "revoked" => conn[c].status = "revoked"
    BY <1>1, <1>6 DEF Start, Approve, Expire, Conn
  <2>3. conn[c].status = "revoked" => conn'[c] = conn[c]
    BY <1>1, <1>6, <2>1 DEF Start, Approve, Expire
  <2>4. QED
    BY <1>2, <2>1, <2>2, <2>3 DEF Dead
<1>7. ASSUME NEW d \in Conns, Exchange(d) PROVE Dead
  <2>1. conn[d].agent \in Agents /\ conn[d].status = "approved"
    BY <1>7 DEF Exchange, MayExchange, Typed, Holds
  <2>2. conn'[d].status = "consumed" /\ \A e \in Conns \ {d} : conn'[e] = conn[e]
    BY <1>1, <1>7 DEF Exchange, Conn
  <2>3. QED
    BY <1>4, <1>7, <2>1, <2>2 DEF Exchange
<1>8. ASSUME NEW d \in Conns, Revoke(d) PROVE Dead
  <2>1. CASE c = d
    BY <1>1, <1>8, <2>1 DEF Revoke, Revoked, Token, Conn, Dead
  <2>2. CASE c # d
    <3>1. conn'[c] = conn[c]
      BY <1>1, <1>8, <2>2 DEF Revoke
    <3>2. QED
      BY <1>3, <1>8, <3>1 DEF Revoke
  <2>3. QED
    BY <2>1, <2>2
<1>9. ASSUME NEW t \in TokenIds, RevokeToken(t) PROVE Dead
  BY <1>3, <1>9 DEF RevokeToken
<1>10. ASSUME NEW o \in Operators, InsertToken(o) PROVE Dead
  <2>1. op[o].agent \in Agents
    BY <1>10 DEF InsertToken, Typed, Holds
  <2>2. QED
    BY <1>4, <1>10, <2>1, NoneFresh DEF InsertToken
<1>11. ASSUME NEW o \in Operators, SweepTokens(o) PROVE Dead
  BY <1>3, <1>11 DEF SweepTokens
<1>12. ASSUME NEW o \in Operators,
              (\E a \in Agents : ReadAgent(o, a)) \/ WriteAgent(o) \/ OperatorDies(o)
       PROVE  Dead
  BY <1>5, <1>12 DEF ReadAgent, WriteAgent, OperatorDies
<1>13. ASSUME NEW q \in Calls, NEW t \in TokenIds, NEW k \in Keys, NEW r \in Requests,
              Authorize(q, t, k, r)
       PROVE  Dead
  <2>1. conn' = conn /\ t \in DOMAIN token /\ token' = [token EXCEPT ![t].used = @ + 1]
    BY <1>13 DEF Authorize, Spent
  <2>2. DOMAIN token' = DOMAIN token
    BY <2>1
  <2>3. \A u \in DOMAIN token : token'[u].conn = token[u].conn /\ token'[u].live = token[u].live
    BY <1>1, <2>1 DEF Token
  <2>4. QED
    BY <1>2, <2>1, <2>2, <2>3 DEF Dead
<1>14. ASSUME NEW q \in Calls,
              \/ Look(q) \/ CheckToken(q) \/ Claim(q) \/ Submit(q) \/ Release(q)
              \/ RecordRelease(q) \/ CallFails(q)
       PROVE  Dead
  BY <1>5, <1>14 DEF Look, CheckToken, Claim, Submit, Release, RecordRelease, CallFails
<1>15. ASSUME NEW j \in Jobs, CreateJob(j) \/ Review(j) PROVE Dead
  BY <1>5, <1>15 DEF CreateJob, Review
<1>16. CASE UNCHANGED vars
  BY <1>5, <1>16 DEF vars
<1>17. QED
  BY <1>6, <1>7, <1>8, <1>9, <1>10, <1>11, <1>12, <1>13, <1>14, <1>15, <1>16 DEF Next

LEMMA DeadStep == Typed /\ DeadOnceRevoked /\ [Next]_vars => DeadOnceRevoked'
  BY RevocationStep DEF DeadOnceRevoked

LEMMA IInvInit == Init => IInv
<1> SUFFICES ASSUME Init PROVE IInv
  OBVIOUS
<1>1. DOMAIN token = {} /\ DOMAIN receipt = {}
  BY DEF Init
<1>2. TypeOK
  BY <1>1 DEF Init, TypeOK, Agent, Conn, Job, NoCall, Call, Request, Acts, NoOp, Op
<1>3. TokensInOrder
  <2>1. DOMAIN token = 1 .. 0 /\ 0 \in 0 .. MaxTokens
    BY <1>1, ActionsAssumption
  <2>2. QED
    BY <2>1 DEF TokensInOrder
<1>4. Holds
  BY <1>1 DEF Init, Holds, NoCall, NoOp
<1>5. Charged /\ DeadOnceRevoked
  BY <1>1 DEF Charged, DeadOnceRevoked
<1>6. JobsKept
  BY <1>1 DEF Init, JobsKept, JobKept, ReceiptsFor
<1>7. QED
  BY <1>2, <1>3, <1>4, <1>5, <1>6 DEF IInv, Typed

\* The inductive invariant holds of every reachable state.
THEOREM AgentInvariant == Spec => []IInv
<1>1. IInv /\ [Next]_vars => IInv'
  BY TypedStep, ChargedStep, JobsStep, DeadStep DEF IInv
<1>2. QED
  BY IInvInit, <1>1, PTL DEF Spec

-----------------------------------------------------------------------------
(***************************************************************************)
(* The properties.                                                         *)
(***************************************************************************)
\* Every row of the agents' tables has the type its columns declare.
THEOREM AgentTypeCorrect == Spec => []TypeOK
<1>1. IInv => TypeOK
  BY DEF IInv, Typed
<1>2. QED
  BY AgentInvariant, <1>1, PTL

\* However many calls race with one token, what is recorded of it stays
\* within the actions the member approved.
THEOREM BudgetsHold == Spec => []WithinBudget
<1>1. IInv => WithinBudget
  <2> SUFFICES ASSUME IInv, NEW t \in DOMAIN token
               PROVE  Cardinality(ReceiptsOf(t)) <= MaxActions
    BY DEF WithinBudget, ReceiptsOf
  <2>1. /\ Cardinality(ReceiptsOf(t)) \in Nat
        /\ Cardinality(CallsOf(t)) \in Nat
        /\ Cardinality(ReceiptsOf(t)) + Cardinality(CallsOf(t)) <= token[t].used
    BY FS_CardinalityType DEF IInv, Charged
  <2>2. token[t].used \in 0 .. MaxActions
    BY DEF IInv, Typed, TypeOK, Token
  <2>3. QED
    BY <2>1, <2>2, ActionsAssumption
<1>2. QED
  BY AgentInvariant, <1>1, PTL

\* A job's claim and submission each have the one receipt of the agent that
\* made them, and what was refused has none.
THEOREM JobsMatchReceipts == Spec => []JobsReceipted
<1>1. IInv => JobsReceipted
  <2> SUFFICES ASSUME IInv, NEW j \in Jobs
               PROVE  /\ Cardinality(ReceiptsFor(j, "claim")) = (IF job[j].by = None THEN 0 ELSE 1)
                      /\ \A s \in ReceiptsFor(j, "claim") : s[1] = job[j].by
                      /\ ReceiptsFor(j, "submit") =
                           (IF job[j].key = None THEN {} ELSE {<<job[j].by, job[j].key>>})
                      /\ \A s \in ReceiptsFor(j, "submit") : receipt[s].request.result = job[j].result
    BY DEF JobsReceipted, ReceiptsFor
  <2>1. JobKept(j)
    BY DEF IInv, JobsKept
  <2>2. CASE job[j].by = None
    BY <2>1, <2>2, FS_EmptySet DEF JobKept
  <2>3. CASE job[j].by # None
    <3>1. PICK k \in Keys : ReceiptsFor(j, "claim") = {<<job[j].by, k>>}
      BY <2>1, <2>3 DEF JobKept
    <3>2. Cardinality(ReceiptsFor(j, "claim")) = 1
      BY <3>1, FS_Singleton
    <3>3. QED
      BY <2>1, <2>3, <3>1, <3>2 DEF JobKept
  <2>4. QED
    BY <2>2, <2>3
<1>2. QED
  BY AgentInvariant, <1>1, PTL

\* A connection a member revoked is dead for good, with every token it has
\* and without any it may still get.
THEOREM RevocationFinal == Spec => RevokedIsDead
<1> DEFINE Dead == \A c \in Conns :
                     conn[c].status = "revoked" =>
                       /\ conn'[c].status = "revoked"
                       /\ \A t \in DOMAIN token' : token'[t].conn = c => ~token'[t].live
<1>1. IInv /\ [Next]_vars => [Dead]_vars
  BY RevocationStep DEF IInv, Dead
<1>2. QED
  BY AgentInvariant, <1>1, PTL DEF Spec, RevokedIsDead

=============================================================================
