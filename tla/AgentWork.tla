----------------------------- MODULE AgentWork ------------------------------
(***************************************************************************)
(* Agents that work for an organization: the OAuth connection a member     *)
(* approves and a client exchanges for a token, the tokens operators issue *)
(* and revoke, and the calls made with them - claiming a contribution job, *)
(* submitting its result, submitting a revision - each under an            *)
(* Idempotency-Key and ending in an immutable receipt.  A call takes an    *)
(* action off the token's budget in one transaction and acts in later      *)
(* ones, so the token and the agent may have changed by then.              *)
(***************************************************************************)
EXTENDS Naturals, FiniteSets

CONSTANTS
  Agents,      \* agent identities
  Conns,       \* connection requests
  Jobs,        \* contribution jobs
  Keys,        \* Idempotency-Keys
  Results,     \* results of jobs
  Calls,       \* API calls with agent tokens at once
  Operators,   \* calls of owners and admins at once
  MaxActions,  \* max_actions of every token
  MaxTokens,   \* bound: tokens
  None

ASSUME ActionsAssumption == MaxActions \in Nat \ {0} /\ MaxTokens \in Nat \ {0}
ASSUME NoneFresh == None \notin Agents \cup Conns \cup Keys

VARIABLES
  agent,     \* agent_identities (who issued their tokens stays an owner or admin)
  conn,      \* agent_connection_requests
  token,     \* agent_access_tokens
  job,       \* agent_contribution_jobs with their submission
  receipt,   \* agent_action_receipts
  call,      \* calls with a token
  op         \* calls of operators

vars == <<agent, conn, token, job, receipt, call, op>>

Acts     == {"claim", "submit", "release"}
TokenIds == 1 .. MaxTokens

Agent   == {"active", "disabled"}
Conn    == [status : {"none", "pending", "approved", "denied", "consumed", "revoked"},
            fresh : BOOLEAN, agent : Agents \cup {None}]
Token   == [of : Agents, conn : Conns \cup {None}, used : 0 .. MaxActions, live : BOOLEAN]
Job     == [status : {"none", "open", "claimed", "submitted", "reviewed"},
            by : Agents \cup {None}, key : Keys \cup {None}, result : Results \cup {None}]
Request == [act : Acts, job : Jobs \cup {None}, result : Results \cup {None}]
Receipt == [request : Request, token : TokenIds]
Call    == [pc : {"idle", "look", "act", "record", "insert"}, request : Request,
            key : Keys \cup {None}, token : TokenIds \cup {None}]
Op      == [pc : {"idle", "insert", "write", "sweep"}, agent : Agents \cup {None}, active : BOOLEAN]

TypeOK ==
  /\ agent \in [Agents -> Agent]
  /\ conn \in [Conns -> Conn]
  /\ DOMAIN token \subseteq TokenIds /\ token \in [DOMAIN token -> Token]
  /\ job \in [Jobs -> Job]
  /\ DOMAIN receipt \subseteq Agents \X Keys /\ receipt \in [DOMAIN receipt -> Receipt]
  /\ call \in [Calls -> Call]
  /\ op \in [Operators -> Op]

NoCall == [pc |-> "idle", request |-> [act |-> "release", job |-> None, result |-> None],
           key |-> None, token |-> None]
NoOp   == [pc |-> "idle", agent |-> None, active |-> TRUE]

Init ==
  /\ agent = [a \in Agents |-> "active"]
  /\ conn = [c \in Conns |-> [status |-> "none", fresh |-> TRUE, agent |-> None]]
  /\ token = [t \in {} |-> {}]
  /\ job = [j \in Jobs |-> [status |-> "none", by |-> None, key |-> None, result |-> None]]
  /\ receipt = [r \in {} |-> {}]
  /\ call = [q \in Calls |-> NoCall]
  /\ op = [o \in Operators |-> NoOp]

-----------------------------------------------------------------------------
(***************************************************************************)
(* Connections and tokens.                                                 *)
(***************************************************************************)
NewToken(a, c) == [of |-> a, conn |-> c, used |-> 0, live |-> TRUE]

Inserted(a, c) ==
  [t \in DOMAIN token \cup {Cardinality(DOMAIN token) + 1} |->
     IF t \in DOMAIN token THEN token[t] ELSE NewToken(a, c)]

\* Tokens with revoked_at set where it was null.
Revoked(S) == [t \in DOMAIN token |-> IF t \in S THEN [token[t] EXCEPT !.live = FALSE] ELSE token[t]]

Start(c) ==
  /\ conn[c].status = "none"
  /\ conn' = [conn EXCEPT ![c].status = "pending"]
  /\ UNCHANGED <<agent, token, job, receipt, call, op>>

\* approve_agent_connection with an agent the member operates, or a denial.
Approve(c) ==
  /\ conn[c].status = "pending" /\ conn[c].fresh
  /\ \/ \E a \in Agents :
          /\ agent[a] = "active"
          /\ conn' = [conn EXCEPT ![c].status = "approved", ![c].agent = a]
     \/ conn' = [conn EXCEPT ![c].status = "denied"]
  /\ UNCHANGED <<agent, token, job, receipt, call, op>>

\* Seeded fault: whatever was approved once may be exchanged once.
MayExchangeRevoked(c) ==
  conn[c].fresh /\ conn[c].status \in {"approved", "revoked"} /\ conn[c].agent # None

MayExchange(c) == conn[c].fresh /\ conn[c].status = "approved"

\* exchange_agent_connection; the client may never get the answer, and then
\* nobody has the token.
Exchange(c) ==
  LET a == conn[c].agent IN
  /\ MayExchange(c)
  /\ agent[a] = "active"
  /\ Cardinality(DOMAIN token) < MaxTokens
  /\ token' = Inserted(a, c)
  /\ conn' = [conn EXCEPT ![c].status = "consumed"]
  /\ UNCHANGED <<agent, job, receipt, call, op>>

Revoke(c) ==
  /\ conn[c].status \in {"approved", "denied", "consumed"}
  /\ token' = Revoked({t \in DOMAIN token : token[t].conn = c})
  /\ conn' = [conn EXCEPT ![c].status = "revoked"]
  /\ UNCHANGED <<agent, job, receipt, call, op>>

\* An operator revokes a token, or its days are over.
RevokeToken(t) ==
  /\ t \in DOMAIN token /\ token[t].live
  /\ token' = Revoked({t})
  /\ UNCHANGED <<agent, conn, job, receipt, call, op>>

\* POST .../tokens and PATCH of the agent read it and write in later
\* statements; a PATCH writes back the status it read unless it sets one.
ReadAgent(o, a) ==
  /\ op[o].pc = "idle"
  /\ \/ /\ agent[a] = "active"
        /\ op' = [op EXCEPT ![o] = [pc |-> "insert", agent |-> a, active |-> TRUE]]
     \/ \E s \in BOOLEAN : op' = [op EXCEPT ![o] = [pc |-> "write", agent |-> a, active |-> s]]
  /\ UNCHANGED <<agent, conn, token, job, receipt, call>>

InsertToken(o) ==
  /\ op[o].pc = "insert"
  /\ Cardinality(DOMAIN token) < MaxTokens
  /\ token' = Inserted(op[o].agent, None)
  /\ op' = [op EXCEPT ![o] = NoOp]
  /\ UNCHANGED <<agent, conn, job, receipt, call>>

WriteAgent(o) ==
  /\ op[o].pc = "write"
  /\ agent' = [agent EXCEPT ![op[o].agent] = IF op[o].active THEN "active" ELSE "disabled"]
  /\ op' = [op EXCEPT ![o] = IF op[o].active THEN NoOp ELSE [@ EXCEPT !.pc = "sweep"]]
  /\ UNCHANGED <<conn, token, job, receipt, call>>

SweepTokens(o) ==
  /\ op[o].pc = "sweep"
  /\ token' = Revoked({t \in DOMAIN token : token[t].of = op[o].agent})
  /\ op' = [op EXCEPT ![o] = NoOp]
  /\ UNCHANGED <<agent, conn, job, receipt, call>>

\* The request dies between its statements.
OperatorDies(o) ==
  /\ op[o].pc # "idle"
  /\ op' = [op EXCEPT ![o] = NoOp]
  /\ UNCHANGED <<agent, conn, token, job, receipt, call>>

\* Ten minutes after the connection was asked for.
Expire(c) ==
  /\ conn[c].status \in {"pending", "approved"} /\ conn[c].fresh
  /\ conn' = [conn EXCEPT ![c].fresh = FALSE]
  /\ UNCHANGED <<agent, token, job, receipt, call, op>>

-----------------------------------------------------------------------------
(***************************************************************************)
(* Work.                                                                   *)
(***************************************************************************)
Standing(a) == agent[a] = "active"

\* Seeded fault: the budget is not looked at.
MayConsumeAny(t) == token[t].live /\ Standing(token[t].of)

MayConsume(t) == token[t].live /\ Standing(token[t].of) /\ token[t].used < MaxActions

\* Seeded fault: work is counted like a read.
SpentNothing(t) == token

Spent(t) == [token EXCEPT ![t].used = @ + 1]

Requests ==
  {[act |-> "claim", job |-> j, result |-> None] : j \in Jobs}
    \cup {[act |-> "submit", job |-> j, result |-> r] : j \in Jobs, r \in Results}
    \cup {[act |-> "release", job |-> None, result |-> None]}

\* authorizeAgentToken, authorizeRepositoryRequest: consume_agent_access_token
Authorize(q, t, k, r) ==
  /\ call[q].pc = "idle"
  /\ t \in DOMAIN token
  /\ MayConsume(t)
  /\ token' = Spent(t)
  /\ call' = [call EXCEPT ![q] = [pc |-> "look", request |-> r, key |-> k, token |-> t]]
  /\ UNCHANGED <<agent, conn, job, receipt, op>>

Of(q)   == token[call[q].token].of
Slot(q) == <<Of(q), call[q].key>>

Answered(q) == call' = [call EXCEPT ![q] = NoCall]

\* A receipt of the key answers the call: as a conflict or as a replay.
Look(q) ==
  /\ call[q].pc = "look"
  /\ IF Slot(q) \in DOMAIN receipt THEN Answered(q) ELSE call' = [call EXCEPT ![q].pc = "act"]
  /\ UNCHANGED <<agent, conn, token, job, receipt, op>>

\* What record_agent_action_receipt selects before it inserts; it locks none
\* of it.
MayRecord(q) ==
  /\ Slot(q) \notin DOMAIN receipt
  /\ token[call[q].token].live
  /\ Standing(Of(q))

\* The selects of a transaction that records.  A receipt of the key that came
\* since the look is a conflict, or is of the same request, for which it ends
\* a release and sends a claim or a submission back: its job has moved on.
CheckToken(q) ==
  /\ \/ call[q].pc = "act" /\ call[q].request.act # "release"
     \/ call[q].pc = "record"
  /\ IF MayRecord(q) THEN call' = [call EXCEPT ![q].pc = "insert"] ELSE Answered(q)
  /\ UNCHANGED <<agent, conn, token, job, receipt, op>>

\* The insert and its commit; the key is unique for the agent.
Records(q) ==
  /\ Slot(q) \notin DOMAIN receipt
  /\ receipt' = [s \in DOMAIN receipt \cup {Slot(q)} |->
                   IF s \in DOMAIN receipt THEN receipt[s]
                   ELSE [request |-> call[q].request, token |-> call[q].token]]

Inserts(q, act) == call[q].pc = "insert" /\ call[q].request.act = act

\* Seeded fault: a job that somebody else claimed may be claimed.
OpenToAnyone(j) == job[j].status \in {"open", "claimed"}

Open(j) == job[j].status = "open"

\* claim_agent_contribution_job_with_receipt, whose update holds the job's row
\* from before the selects.  What raises rolls the whole transaction back.
Claim(q) ==
  LET j == call[q].request.job IN
  /\ Inserts(q, "claim")
  /\ \/ /\ Open(j) /\ Records(q)
        /\ job' = [job EXCEPT ![j].status = "claimed", ![j].by = Of(q)]
     \/ UNCHANGED <<job, receipt>>  \* the deadline passed, or refused
  /\ Answered(q)
  /\ UNCHANGED <<agent, conn, token, op>>

\* submit_agent_contribution_with_receipt
Submit(q) ==
  LET j == call[q].request.job IN
  /\ Inserts(q, "submit")
  /\ \/ /\ Records(q)
        /\ job[j].status = "claimed" /\ job[j].by = Of(q)
        /\ job' = [job EXCEPT ![j].status = "submitted", ![j].key = call[q].key,
                              ![j].result = call[q].request.result]
     \/ UNCHANGED <<job, receipt>>
  /\ Answered(q)
  /\ UNCHANGED <<agent, conn, token, op>>

\* POST .../submit: the runtime inspects and finalizes the revision.
Release(q) ==
  /\ call[q].pc = "act" /\ call[q].request.act = "release"
  /\ call' = [call EXCEPT ![q].pc = "record"]
  /\ UNCHANGED <<agent, conn, token, job, receipt, op>>

RecordRelease(q) ==
  /\ Inserts(q, "release")
  /\ Records(q) \/ UNCHANGED receipt
  /\ Answered(q)
  /\ UNCHANGED <<agent, conn, token, job, op>>

\* A call dies, or the runtime refuses the revision.
CallFails(q) ==
  /\ call[q].pc # "idle"
  /\ Answered(q)
  /\ UNCHANGED <<agent, conn, token, job, receipt, op>>

CreateJob(j) ==
  /\ job[j].status = "none"
  /\ job' = [job EXCEPT ![j].status = "open"]
  /\ UNCHANGED <<agent, conn, token, receipt, call, op>>

Review(j) ==
  /\ job[j].status = "submitted"
  /\ job' = [job EXCEPT ![j].status = "reviewed"]  \* accepted or rejected
  /\ UNCHANGED <<agent, conn, token, receipt, call, op>>

Next ==
  \/ \E c \in Conns : Start(c) \/ Approve(c) \/ Exchange(c) \/ Revoke(c) \/ Expire(c)
  \/ \E t \in TokenIds : RevokeToken(t)
  \/ \E o \in Operators : (\E a \in Agents : ReadAgent(o, a)) \/ InsertToken(o) \/ WriteAgent(o)
                            \/ SweepTokens(o) \/ OperatorDies(o)
  \/ \E q \in Calls, t \in TokenIds, k \in Keys, r \in Requests : Authorize(q, t, k, r)
  \/ \E q \in Calls : Look(q) \/ CheckToken(q) \/ Claim(q) \/ Submit(q) \/ Release(q)
                        \/ RecordRelease(q) \/ CallFails(q)
  \/ \E j \in Jobs : CreateJob(j) \/ Review(j)

Spec == Init /\ [][Next]_vars

-----------------------------------------------------------------------------
(***************************************************************************)
(* Properties.                                                             *)
(***************************************************************************)
\* However calls with one token race, what is recorded of it stays within the
\* actions the member approved.
WithinBudget ==
  \A t \in DOMAIN token : Cardinality({s \in DOMAIN receipt : receipt[s].token = t}) <= MaxActions

\* A job is claimed by one agent and submitted by that one, each under a
\* receipt of its own; a claim or submission that was refused left none.
JobsReceipted ==
  \A j \in Jobs :
    LET of(act) == {s \in DOMAIN receipt : receipt[s].request.job = j /\ receipt[s].request.act = act} IN
    /\ Cardinality(of("claim")) = (IF job[j].by = None THEN 0 ELSE 1)
    /\ \A s \in of("claim") : s[1] = job[j].by
    /\ of("submit") = (IF job[j].key = None THEN {} ELSE {<<job[j].by, job[j].key>>})
    /\ \A s \in of("submit") : receipt[s].request.result = job[j].result

\* Once a member revoked a connection none of its tokens works, also if the
\* client had not exchanged the approval yet.
RevokedIsDead ==
  [][\A c \in Conns :
       conn[c].status = "revoked" =>
         /\ conn'[c].status = "revoked"
         /\ \A t \in DOMAIN token' : token'[t].conn = c => ~token'[t].live]_vars
=============================================================================
