# Verification of Super ii

TLA+ models of the parts of Super ii where several parties change shared state
and an order of events nobody wrote a test for could do harm: the path of a
file to a signed, published revision, in one request or resumable; the imports
from Hugging Face; the payments; the agents' connections, budgets and receipts;
and the pool that keeps one local model server loaded. TLC checks the models on
small instances; TLAPS proves every safety invariant, every action property and
both refinements of the passing runs for every value of the constants. What
only TLC checks is what must eventually happen.

    tlc -config Publication_commits.cfg MCPublication
    tlc -config Payments_orders.cfg MCPayments
    tlapm TransferProofs.tla

and likewise for the other configurations and `*Proofs` modules; from nothing,
the longest proof (`TransferProofs`) takes about eight minutes.

Paths below are relative to the repository root.

## 1. The system

Super ii is an Astro/TypeScript gateway (`src/`), a Python runtime and policy
service (`runtime/`), a Rust transfer service (`rust/`) and a PostgreSQL
database (`database/migrations`) that holds most of the state and, in triggers
and PL/pgSQL functions, many of the rules.

| Component | State | Operations | What is hard | What makes it correct |
| --- | --- | --- | --- | --- |
| Revision store (`database.py`, migrations 0002, 0017, 0025, 0027, 0033) | revision status and manifest, file rows, inspections, analyses, decisions, branch head, latest release | register, mark, record, finalize, delete, commit, decide | every operation is a short transaction of its own; several do not look at the status they overwrite | a release is sealed, immutable, and agrees with its decision |
| Upload and scan pipeline (`pipeline.py`, `scanners.py`) | none of its own | `process_upload`, `rescan_revision_files`, `process_completed_transfer` | five or more database calls per request, any of which may raise; a crash between two of them | no file is served unscanned; no revision is left in `scanning` |
| Requests of the gateway (`src/pages/api/repositories`) | none | upload, submit, delete, commit | status is checked in one service and used in another | as above |
| Publication policy service (`policy_service.py`, `publication_policy.py`) | an open transaction | publish | evidence rows are inserted without the locks it holds | publishes on current evidence, decision and release together |
| Resumable transfers (`rust/src/transfer.rs`, `transfers/[transferId].ts`, migration 0009) | payload file, durable record, database ledger | create, append, complete, promote, reject, terminate, expire | two copies of one offset; fsync and rename order; cleanup outside the lock | the ledger never runs ahead of the disk; a clean object is promoted once |
| Object store (`storage.py`) | staged and promoted objects | stage, promote, reject | rename and hard-link order | a promoted object has its hash's content |
| Bridge imports (`bridge.py`, `database.py`, migrations 0011, 0033) | jobs, items, sources, subscriptions, the worker | request, synchronize, claim, recover, cancel, process an item | a claim takes more items than one, and may kill the worker; it dies or is stopped between any two statements; cancellation races progress; `set_bridge_item_state` has no condition | one import in progress; complete means recorded; no retry after a destination exists; each import ends |
| Plan payments (`checkout.ts`, `ipn.ts`, migrations 0005, 0015) | orders, subscriptions | take an order, claim it, create and store an invoice, apply a status | notifications late, twice, out of order; a lost answer of the provider; a checkout that takes an agent's open order | nothing granted unpaid; a refund ends what the payment bought; finished is final |
| Fame places and highlight campaigns (`participation/checkout.ts`, migration 0014) | numbered places, campaigns | reserve, apply, release, cancel | a checkout gives up while its payment is made; a reservation runs out before the payment | a paid place is its buyer's for ever |
| Agent commerce (`commerce.ts`, migration 0016) | commerce orders, receipts | order under a key, create, retry, take over | three attempts, a claim taken over after two minutes, answers lost | no more payments than attempts and the one a checkout may add; receipts stay |
| Agent connections and tokens (`agent-auth.ts`, migrations 0028, 0035) | connections, tokens, budgets | request, approve, exchange, revoke, consume | a poll racing a revocation; calls racing for the last action | exchanged once; bounded use; revoked is dead |
| Agent participation (migration 0012, `agents/**`) | jobs, submissions, receipts | claim, submit, review | authority is checked in one transaction and used in a later one | one claimant, one receipt per act |
| Local model servers (`runtimes/llama_server.py`) | one process, its users, an idle timer | acquire, release, unload, expire | a timer that fired waits for the lock while the server is leased or exchanged | a process in use is never stopped; an idle one is unloaded |
| Workspace cache (`workspace_cache.py`) | directories by manifest | ensure | build, swap, verify under a file lock | a returned directory is the manifest |
| The rest: notebooks, spaces, workrooms, robots, products, cards, social, assistant, transparent, Sigma, quick share, SDK, connector, pages | rows or containers | create, read, update | little concurrency | not modelled; section 6 says why |

How they meet: the gateway authenticates a request, reads the repository row
and the status of the branch head, and calls the runtime; the runtime stages
bytes, runs the scanners and writes through `RepositoryDatabase`, one
connection and one transaction per call; submission makes three calls in
order (inspect, finalize, publish); the policy service opens one transaction
that locks the revision and the repository, evaluates, and applies its
decision in the same transaction. File rows are guarded by a trigger that
refuses every change once their revision is in review or published, and
published revisions are frozen by another.

A large file comes in through a transfer instead: the gateway inserts a row in
`repository_uploads`, the Rust service creates a directory with a payload and
a `state.json`, and each chunk is appended there before the row's offset is
advanced. A commit goes from the gateway to the runtime, which reads the Rust
record, binds the upload to a file row, scans the payload where it lies, asks
the Rust service to promote or reject it, and writes the outcome to upload,
file and revision in one transaction. Nothing but the order of these calls
keeps the two sides together.

The other parts meet the first ones at single points. A bridge worker uses the
pipeline's scanners, analysis and finalization, and the policy service, for
the revision it created; an agent's token may submit a revision or place a
commerce order; a commerce order is an order of the payment tables. Each is
modelled on its own, with the other side at that point as a choice of
outcomes: a scan or analysis that passes or raises, a payment, an accepted or
refused revision.

## 2. The modules

| Module | Models | Contents |
| --- | --- | --- |
| `RevisionStore` | the tables of one repository with one branch, and one operator per database transaction, triggers included | data and transactions only; no process |
| `Publication` | the requests: one job record per worker, one action per database call | `Init`, `Next`, `Spec`, `FairSpec`, all properties |
| `Catalog` | what readers are promised: content, attestation and the page's pointer appear in one step and never change | abstract specification |
| `TransferDaemon` | the files of `superii-transferd`: records, payloads, objects, the per-transfer lock, cleanup | data and durable writes only; no process |
| `TransferLedger` | `app.repository_uploads` and the transactions of a commit, over `RevisionStore` | data and transactions only; no process |
| `Transfer` | the tus endpoints and `process_completed_transfer`: one call record per request, one action per transaction or durable write, and the faults | `Init`, `Next`, `Spec`, all properties |
| `Intake` | what an uploader is promised: a transfer ends once, and is stored only when its bytes are kept | abstract specification |
| `BridgeImport` | import requests, synchronization, cancellation and the bridge worker, one statement or call per action, crashes, stops and restarts | everything of this component |
| `Orders` | the payment tables and one operator per transaction: taking and claiming orders, storing invoices, applying a status with its grant, and the triggers on commerce orders | data and transactions only; no process |
| `Payments` | web checkouts, agents' orders, the provider and its notifications, over `Orders` | `Init`, `Next`, `Spec`, all properties |
| `AgentWork` | connections, tokens, operators' calls, and the calls made with tokens | everything of these two components |
| `LlamaPool` | `LlamaServerPool`, one action per section under its lock | everything of this component |
| `MCPublication`, `MCTransfer`, `MCBridgeImport`, `MCPayments`, `MCAgentWork`, `MCLlamaPool` | symmetry sets for TLC | |
| `PublicationProofs`, `TransferProofs`, `BridgeImportProofs`, `PaymentsProofs`, `AgentWorkProofs`, `LlamaPoolProofs` | | the inductive invariant, the theorems about the module of that name and their proofs |

`Publication` and `Transfer` both stand on `RevisionStore` and are not yet
composed: in `Transfer` nobody deletes files or submits the revision.

Correspondence. `revision` is `repository_revisions` (status and
`manifest_sha256`, as the set of path and content pairs it is a hash of);
`file` is `repository_files` with the latest `repository_file_inspections` row
of each required inspector; `analysis` is `repository_revision_analyses`,
together with the listing its checkout held, which the table does not record;
`decision` is the latest `publication_decisions` row; `head` and `latest` are
the branch's head and the repository's `latest_revision_id`; `candidate` is
the row lock of an open policy transaction. `job[w]` is a request in flight,
`pc` the database call it makes next, and the other fields its local
variables. `interrupted` is a history variable: the revisions on which a
request died or raised midway.

| Request | Steps (`pc`) |
| --- | --- |
| upload | register, begin (scanning), record (one inspection row each), settle (`mark_file_*`), close |
| submit | list, materialize, missing, begin, pick, record, settle, close, analyse or report, finalize, evaluate, apply |
| delete | delete, refresh |
| commit | one transaction |

For transfers: `record[t]` is `state.json` (status, offset, and whether the
actual digest was the declared one), `payload[t]` the quarantined bytes (length
in chunks, and whether they are the declared ones), `objects` is
`objects/sha256`, and `locked` the transfers whose lock a call of the daemon
holds between its two writes. `upload[t]` is the database row. `expired` is
the passing of `expires_at`, which row and record share. `call[w]` is a
request: `from` is the offset it read from the row, `to` the offset the
daemon answered, `seen` the record's status a commit fetched (for HEAD, the
row's state), `file` the bound row.

| Request | Steps (`pc`) |
| --- | --- |
| POST transfers | reserve, create, grant; withdraw when the daemon fails; cancel, discard when the receipt fails |
| PATCH | append, save, advance |
| HEAD | look, then advance or retire |
| DELETE | terminate, abort |
| commit | fetch, ledger, prepare, record (one inspection row each), then promote, receipt, complete, or refuse, refusal, reject, or hold |

For imports: `job`, `item`, `source` and `sync` are the tables
`bridge_import_jobs`, `bridge_import_items`, `repository_sources` and
`bridge_sync_subscriptions`; `rev` is the status of the revisions imports
created, each named by the item that created it; `w` is the one worker, its
`pc` the next statement, `stop` its stop event. `stale` stands for a heartbeat
older than five minutes. `Claims` are the rows one claim may return: the items
taken for the columns of `select (app.claim_next_bridge_item(...)).*`, one per
column until none waits. The worker keeps the id column (`w.item`), which
everything it writes goes by, and what it downloads by (`w.row`). The numbers
of the columns are constants: 29, with `provider_repo_id` fifth,
`source_revision` eighth, `progress_bytes` twentieth and `source_manifest`
twenty-fourth in the code, fewer in the same order in the runs.

| Worker (`pc`) | Code |
| --- | --- |
| poll, open, refuse, refused, next, close | `run`, `process_job`: recover, claim a job or a due subscription, read the credential, claim items (or claim and fail them without a credential), refresh and release |
| download, check, prepare or reuse, upload and send for each file, inspect, complete, finish, publish, set, fail | `process_item`, in this order; `upload` reads the cancellation, `send` is `process_upload`; `fail` is its exception handler, which reads the cancellation before `set` |
| down | the process is gone |

For payments: `order` holds the rows of `payment_orders` and
`participation_orders`, which have one life cycle; `sub`, `place`, `campaign`
and `commerce` are the tables of what they grant. `invoice` is the provider:
the payments it created, the order each names and the statuses it has
reported. A notification or a poll delivers any status ever reported, again
or late. A web checkout stores the status the provider created its payment
with (`Answers`), an agent's order takes any but an open one for waiting.
`applying` is the transaction of `apply_nowpayments_status` or
`apply_participation_payment_status` between its read of the latest term
(`start`) and its commit.

| Request | Steps (`pc`) |
| --- | --- |
| web checkout | take or reuse an order, claim, create, store; a statement that throws, also in a call that claimed nothing, reaches the catch: lapse, release, cancel for a participation order |
| agent's order | order under its key, look, agent create, agent store, ready; failed |

For agents: `conn`, `token`, `job` and `receipt` are rows, `agent` the status
of an identity. A `call` is one API request with a token: it is charged
(`Authorize`), looks for a receipt of its key, and acts in a later
transaction; a submission of a revision acts in the runtime first and records
its receipt in a third. `record_agent_action_receipt` selects the token and
the agent without a lock (`CheckToken`) and inserts in a later statement
(`Records`), so a revocation may commit in between. `op` is a request of an owner, whose statements are
separate too.

For the pool: `server` is every process started, with its `_Instance`; `inst`
is `self._instance`, `ref` is `self._idle_timer`; a timer is "due" from the
moment its callback waits for the lock.

Choices a reader should know of.

- A step that waits for the row lock of the policy transaction is not enabled
  while the lock is held (`Unlocked`, `RepositoryUnlocked`: an insert
  share-locks the rows its foreign keys name, and the repository row is held
  too). All other transactions are a single statement or hold the revision's
  lock from their first, so they are one action.
- A transaction that raises changes nothing; `Raises` lists the raising
  calls, and the request ends there, as an exception ends it in the code.
- Every upload brings fresh content, so a row's id stands for its hash; a
  copied row (`create_repository_commit`) keeps the hash of the original.
- A scan returns any verdict for each required inspector. `Concludes` is the
  pipeline's order: any failed result fails the file, otherwise any error
  holds it; the container parsers for safetensors and GGUF are not in the
  required set and may fail a file on their own.
- The gateway gives inspection 120 seconds (`submit.ts`); the runtime goes on
  without it, so `Analyse` may end there although it saved "passed".
- A crash may happen before any step. At `apply` it is the policy service
  that dies, and PostgreSQL rolls its transaction back.
- License, rights and presentation rules of `evaluate` are a free choice to
  refuse. The signature is not modelled apart from the decision it covers.
- `create_repository_commit` reads and writes in one READ COMMITTED
  transaction and is taken as atomic.

- The daemon's calls hold a per-transfer lock and never await between their
  two writes, so a request that is lost does not stop them; only the death of
  the daemon, or the cleanup, which takes no lock, comes in between. Receiving
  and hashing the chunk's body is merged with the write of the payload: until
  then nothing but a private file has changed.
- A gateway that times out while the daemon still works is `Lost` after the
  daemon's step. `Lost` also stands for a database call that fails, and for
  the one of two commits that PostgreSQL ends when they lock file and upload
  in opposite orders.
- The daemon's death may leave any part of the chunk in the payload. What
  fsync promises is taken as given; the loss of the machine is not modelled.
- A death inside `create` leaves a directory without a record under an id
  that is never drawn again; it is not modelled.
- Every chunk carries the declared bytes or not (`right`); the chunk's own
  checksum only decides between an append and a refusal.
- The scan is one choice of verdicts at `Prepare`, since nothing reads it
  before the inspections are recorded.

- Imports: one profile (profiles share only the worker) and one worker, as
  deployed; the retry limit, the commits and the files are constants. What a
  transaction writes before it raises is undone, so `Prepare` on a cancelled
  job changes nothing. The items of a job were created in one statement and
  have one `created_at`, so a claim takes them in any order. A download may
  pass whichever items its columns are of, since forks hold the same files.
  When the exception handler cannot reach the database,
  the worker's next statement raises too: that is `Crash`.
- Payments: half an hour, two hours, two minutes and a campaign's days are
  flags set by a step of their own. Terms are counted in whole terms from now.
  The MCP and A2A servers call the same functions as the commerce API.
  A member may buy both on the web and through an agent, and a web checkout
  takes the open order an agent made for the same purchase
  (`0015_prepaid_plan_terms.sql:89`); its store has no condition on the payment
  it overwrites (`checkout.ts:124`). The properties say what that leaves true.
- A refund of a campaign that runs raises: it sets `ends_at` to now, and
  `highlight_campaigns_period` refuses that. `CanClose` has it so.
- Agents: a token is `live` while it is neither revoked nor expired; a job is
  "reviewed" when it is accepted or rejected; an approval and its exchange
  are one transaction each. A token whose answer is lost is one nobody uses.
  `Release` leaves the effect on the revision to `Publication`.
- Pool: the row for operators is left out, except that writing it may fail: a
  process whose "starting" row is refused is leaked by the code, and by the
  model.

Definitions marked "seeded fault" are not part of the specification. Each is a
plausible bug, used to confirm that a property notices it.

## 3. Properties and runs

| Run | Instance | Properties | Shows |
| --- | --- | --- | --- |
| `commits` | 2 workers, 2 revisions, 2 rows, 2 paths, 1 inspector, crashes; 1.07 million states | `TypeOK`, `SealedReleases`, `ScanningHasOwner`, `CandidateHeld`, `DecisionsMatch`, `ReleaseImmutable`, `CatalogSpec` | uploads, rescans, deletions and commits in every order cannot change what is being released; a revision in `scanning` has a request that will end it unless one died; the policy's lock is held exactly while a decision is pending; release and decision agree; the requests implement `Catalog` |
| `liveness` | 2 workers, 1 revision, 2 rows, 1 path, no crashes, `FairSpec` | `ScanningResolves`, `RequestsAnswer` | requests answer, and none leaves a revision in `scanning` |
| `parsed` | as `commits` with 1 revision, no crashes | `PublishedFilesParsed`, violated | finding 1 |
| `faults` | 1 transfer of 2 chunks, 3 callers, lost calls, crashes, expiry; 640 thousand states | `TypeOK`, `LedgerBehindDisk`, `ReadyIsStored`, `OneOutcome`, `OffsetStays` | the row never claims a byte the disk has not; what is served is stored and intact; row and daemon never end a transfer in opposite ways; an acknowledged offset is not taken back |
| `shared` | 2 transfers of one digest and one path, 2 callers, lost calls, expiry; 1.17 million states | `Retryable`, `IntakeSpec` | whichever call is lost, the next chunk or commit finds what it needs; deduplicated objects, and a lapsed transfer that makes room while its requests still run; the requests implement `Intake` |
| `atomic` | 1 transfer of 2 chunks, 2 callers, crashes | `PromotionAtomic`, violated | finding 3 |
| `orders` | 1 order, 2 provider payments, 1 member who buys on the web and through an agent, 1 key, 2 attempts, 1 place, 2 requests, payments created open or finished; 1.76 million states | `TypeOK`, `GrantsArePaid`, `RefundCloses`, `BoundedInvoices`, `ReceiptKept`, `FinishedIsFinal`, `PlacesArePermanent` | nothing is granted but on a finished payment of the order; a refund ends the term and the place the stored payment bought, whatever the order of notifications; a web order has one payment, an agent's at most one more than its attempts; receipts and paid places stay; a finished order keeps its payment unless a checkout stores its own over an agent's |
| `imports` | 2 repositories, 2 commits, 1 file, 2 jobs, 4 items, 1 retry, a row of 2 columns; 440 thousand states | `TypeOK`, `OneImportAtATime`, `CompleteIsRecorded`, `RetriedBeforeDestination` | claims that take items along, cancellation, recovery and a stopping worker leave one import in progress; complete means recorded; nothing is tried again once a destination exists |
| `end` | 3 repositories, 1 commit, 1 file, 1 job, 2 retries, a row of 2 columns; 155 thousand states | `EveryImportEnds` | an import ends however often the worker crashes or dies of its claim |
| `columns` | 6 repositories, 1 job, a row of 6 columns | `DownloadsAreExact`, violated | finding 2 |
| `serving` | 2 requests, 2 models, 3 timers, 2 starts; 100 thousand states | `TypeOK`, `LeasesCounted`, `LoadedIsOurs`, `NeverStopBusy`, `IdleUnloads` | late, lost and canceled timers neither stop a server in use nor keep an idle one |
| `agents` | 2 agents, 1 connection, 1 job, 2 keys, 2 tokens of 1 action, 2 calls, 1 operator; 2.3 million states | `TypeOK`, `WithinBudget`, `JobsReceipted`, `RevokedIsDead` | budgets hold under racing calls; a job and its receipts agree; a revoked connection stays dead |

Bounds. `MaxRevisions` bounds the commits of the repository: one revision is
enough for races inside a revision, two give a release and the editable
revision copied from it. `FileIds` bounds the rows ever inserted: two allow
one file to be settled while another is uploaded, or one file to be copied.
Two paths allow both in one revision. Two workers give every pair of requests;
every window in the code is between two calls of one request and one step of
another. One inspector stands for the three required ones, which the code
treats alike. The proofs need none of these bounds.

For transfers, `Length` 2 has a first, a last and an only chunk, and an offset
strictly between both ends; one transfer is enough for what its own requests
do to each other, and two are needed only for what they share, an object
or a path (`shared`), where one chunk is enough. One row id is enough
where there is one path, since a path has one row and nothing deletes it.
`Faults` names what may go wrong in a run: `shared` leaves the daemon's death
out because after it the property is false (finding 3, and a torn payload
that refuses every later chunk).

For payments, every property relates one order to its own invoices and grants,
and two requests are enough for a retry or a rival of it; the second invoice is
the one a retry makes, or a checkout's beside an agent's. One member is enough
for that meeting, since two share no order. `Attempts` 2 is a first and a last.
With one order a plan's second term never stacks on the first, and two
campaigns never overlap: those hazards are listed without a property. For
imports, two jobs are an import and the one after it, four items are two jobs
of two repositories each. A row of two columns, the second of which holds all
but the id, has the three outcomes of a claim: it takes an item along, it
leaves items waiting (`end`, with three), and it kills the worker, when one
item waits. Only `columns`, where it matters whose columns are mixed, has six;
`Finishes` leaves a browser import the choice to finish in the workspace only,
since a synchronized one always publishes and `end` has both; one retry is a
first and a last. For agents, one action per token puts every call at its
limit, two tokens are one of each agent or two of one, two keys a replay or two
acts. A claim of a job with two submissions racing behind it takes a third
token, which the run leaves out and the theorem covers. `MaxStarts` 2 is a
server and the one it is exchanged for; three timers are the one armed and two
whose callbacks wait.

Fairness. `FairSpec` is strong fairness of each admitted request's next step:
handlers run to their end, every call outside the database has a timeout, and a
step that is disabled and enabled again while others hold the row lock is
served because PostgreSQL queues the waiters of a lock. No fairness is given
to admitting requests, to crashing, or to commits.

`BridgeImport`: weak fairness of the worker's steps, of launchd's restart, of
time and of claims; strong fairness of `Recover`, because each cancellation
is a heartbeat and may put it off, though not for ever without a pause. None
for requests, cancellations, crashes or stops, and `EveryImportEnds` does not
count a service that is stopped for good. `LlamaPool`: time passes, timers
fire and their callbacks get the lock; nothing is assumed of requests.

Deadlock is checked in every run of `Publication` and `BridgeImport` and in
`faults` and `atomic`: an idle worker or caller can always begin. In the other
runs it is not, for the system may really stop: when both transfers have ended
or lapsed and the revision is no longer editable, when the only order is
refunded, when every token is used up, when no process may be started.

### Findings

1. `README.md:66` says supported formats are parsed offline before
   publication. The analysis of a revision is not bound to the files it
   read: a file that becomes clean between the checkout and the finalization
   of a submission is published unparsed (`PublishedFilesParsed`). It has
   its malware and secret verdicts all the same.
2. `docs/architecture/bridge.md:61` says the worker downloads only the
   allowlisted manifest at the exact commit. `database.py:1117` reads its claim
   with `select (app.claim_next_bridge_item(%s)).*`, which PostgreSQL expands to
   one call of that volatile function for each of the 29 columns. One claim so
   takes up to 29 waiting items, and the row it returns has the id of one, the
   repository of another, the commit of a third (`DownloadsAreExact`). With
   fewer than 20 items waiting, `progress_bytes` is NULL, `int(None)` at
   `bridge.py:374` is outside the handler, and the worker dies; with 20 to 23
   the manifest is NULL and the item fails. The tables stay in order all the
   same: what is proved of imports holds of the claim as it is. A
   `select * from app.claim_next_bridge_item(...)`, as
   `database/tests/interaction_smoke.sql` has it, calls the function once.
3. `docs/architecture/resumable-transfers.md:23` says clean bytes are
   atomically promoted. The rename and the record are two writes; a daemon
   that dies between them leaves a transfer that is `uploaded` without a
   payload, and every retry of the commit fails on it
   (`PromotionAtomic`). Nothing unclean is served (`ReadyIsStored`).

Smaller observations made while modelling, which no run is about:

- `runtime/README.md:17` says a positive finding rejects the file. Two
  submissions that rescan one copied file may conclude in either order
  (`pipeline.py:189`), and leave a failed verdict on record and the file in
  quarantine, where it is not served.
- A refund of a running campaign is refused by the database
  (`0014_participation_recognition.sql:851` against the check at `178`); the
  notification answers 409 and the campaign runs on. `security.astro:41` and
  `docs/architecture/agent-commerce.md:67` say a refund revokes what was bought.
- A web checkout that takes an agent's open order makes a second payment of it
  and stores that over the first, also after the first was paid: the buyer has
  paid twice, or the order loses the payment its receipt names.
- A payment that finishes after its order lapsed or its place was given away
  is taken back on every report; nobody is told.
- A checkout that dies between the provider's answer and the store leaves a
  payment that no row names.
- `docs/architecture/bridge.md` says an import's completion means review, never
  publication; an import that asks for publication publishes.
- A destination repository whose first import failed keeps its name, and every
  later import of that source ends in `bridge_destination_conflict`.
- The claim of a cancelled job ends only the items that wait; those an earlier
  claim took along stay "downloading" in a "cancelled" job. The refresh when the
  worker closes the job sets it running again, or violates the unique index of
  active jobs if another import was created meanwhile, and the worker dies.
  Without a credential nothing refreshes the job and its items stay as they are.
- A cancelled import that a recovery or a stopping worker requeues is passed
  over by every claim until its owner cancels again.
- An exact retry with a used-up budget is refused before its receipt is looked
  at; a submission whose token is revoked meanwhile has effect without a
  receipt; a receipt may be written just after its token was revoked; a job
  claimed by an agent that goes away is never released.
- Disabling an agent reads, writes and sweeps in three statements: a token
  inserted in between works again when the agent is enabled.
- `get_llama_pool` is a cached function without a lock: two first requests
  may build two pools.

## 4. What is proved

Each `*Proofs` module has one inductive invariant, most often called `IInv`,
a lemma per action (it keeps the invariant), and then the theorems. TLC checked
each invariant on the runs' instances before it was proved.

| Module | Theorems | Assumptions on the constants |
| --- | --- | --- |
| `PublicationProofs` | `TypeCorrect`, `ReleasesSealed`, `DecisionsAgree`, `ReleasesImmutable`, `CandidateIsHeld`, `ScanningOwned`, `RefinesCatalog` | `RevisionBound`, `CrashChoice`, `NoFileFresh` |
| `TransferProofs` | `TransferInvariant`, `TransferTypeCorrect`, `LedgerBehind`, `ReadyStored`, `OutcomesAgree`, `OffsetsStay`, `RetriesGoOn`, `RefinesIntake` | those of the stores, `LengthPositive`, `ContentsAreDigests`, `FaultsAreKnown` |
| `BridgeImportProofs` | `ImportInvariant`, `ImportTypeCorrect`, `OneImportActive`, `CompletionsRecorded`, `RetriesBeforeDestination` | `ImportAssumption`, `ColumnsInOrder`, `NoneFresh` |
| `PaymentsProofs` | `PaymentsInvariant`, `PaymentsTypeCorrect`, `NothingUnpaid`, `PlacesStay`, `OrdersInvariant`, `RefundsClose`, `FinishedStays`, `ReceiptsStay`, `CreationBounded` | `KindsAreKnown`, `PlacesAreNumbers`, `AttemptsAreNumbers`, `NoneFresh`, `BuyersAreMembers`, `AnswersAreStatuses` |
| `AgentWorkProofs` | `AgentInvariant`, `AgentTypeCorrect`, `BudgetsHold`, `JobsMatchReceipts`, `RevocationFinal` | `ActionsAssumption`, `NoneFresh` |
| `LlamaPoolProofs` | `PoolInvariant`, `PoolTypeCorrect`, `LeasesAreCounted`, `OneServerLoaded`, `BusyServersSpared` | `RequestsAssumption`, `StartsAssumption`, `NoneFresh` |

The assumptions say that bounds are positive, that `None` is no id and that
the requests of the pool are finitely many; TLC evaluates them on every run.
`ColumnsInOrder` says that the worker reads its columns in the order of the
table. `RetriesGoOn` alone has a hypothesis besides: that the daemon does not
die between two writes (`"crash" \notin Faults`), because with it the
statement is false: finding 3.

`Publication`. `DecisionsMatch` is not inductive: nothing in it says that the
manifest of a passed decision is not empty or that it belongs to a sealed
revision. `IInv` adds to the type invariant that releases are sealed and that
a decision and the status it led to were written together (`Decided`). It only
speaks of the database, so the proof has one lemma for each transaction of
`RevisionStore` (it keeps `DBInv`, releases and evidence, and maps to a step or
a stutter of `Catalog`) and one step for each action of `Publication`, which
names the transaction it makes. `ScanningHasOwner` and `CandidateHeld` are about
the requests: `HInv` adds that one request at most is between the lock of a
candidate and its decision, and the proof follows a request that leaves a
step: either the revision left `scanning` with it, or it still holds it, or it
died and is in `interrupted`.

`Transfer`. The row and the daemon's record are two copies of one transfer,
written in turn by callers that may stop anywhere, so neither of
`LedgerBehindDisk` and `ReadyIsStored` is inductive: what makes them true of the
next step is what the caller that takes it knows. `IInv` says for each step of
a call what that is (`CallOK`): a call past `prepare` has a bound row; one at
`complete` has seen a record that is stored; one at `reject` a record that is
refused. The knowledge survives the steps of all others because a record only
moves forward or is removed for good (`Forward`), which is proved once for
every action. `OneOutcome` and the refinement of `Intake` follow from `IInv`
and `Forward`. For `RetriesGoOn` a second invariant, for runs without the
daemon's death, says that record and payload are whole whenever nobody holds
the transfer's lock (`Whole`, `LocksHeld`).

`BridgeImport`. A claim may leave any number of items downloading, but of the
worker's job only the item whose id it holds is ever prepared (`BegunKept`), so
its statements find what they left: `AtStep` says what each step knows of the
item, its revision and its source. `OneImportAtATime` needs more, because a
refresh sets a job running again whenever an item of it is active, also a
cancelled one. An ended job with an active item was ended by the claim of its
cancellation, and while the worker holds it, it is about to close it
(`Stranded`); so no other refresh than the one at the close wakes a job, and
that one trips over the index when another job is in progress (`OneJob`).

`Payments`. Whoever buys: a request and an order only name a payment made for
that order (`CallsKnown`, `RowsKnown`) and a status that is applied was reported
for it (`ApplyingKnown`), so what is granted was paid. What follows about the
end of an order rests on its claim. `Flows` says what a step may do to an
order, its payments, keys and requests, and is proved once for every action;
under it, one web checkout at a time is past the claim of an order
(`ClaimHeld`), the payment a request is about to store is not yet another's
(`HeldFresh`), and grants and receipts follow the order's status
(`GrantsMatch`, `ReceiptsMatch`), also where a checkout stores its payment over
an agent's. `CreationBounded` counts (`TriesCounted`): requests that are asking
the provider, payments made, and the claim of the web checkout if it is not yet
spent are together at most the attempts counted and one more, since an attempt
is counted before it is sent, and a claim is spent by the one payment it makes.

`AgentWork`. `WithinBudget` is inductive with the calls in flight: the receipts
of a token and the calls that still hold it are at most what it was charged
(`Charged`). `RevokedIsDead` needs that a connection is exchanged only from
`approved`, to which nothing leads back.

`LlamaPool`. The only process that runs is that of `self._instance`; the count
of every instance, also of a replaced one, is the number of requests that use
it, so a stop under the lock that sees zero stops nobody.

Only model-checked: `ScanningResolves`, `RequestsAnswer`, `EveryImportEnds` and
`IdleUnloads`. They are liveness properties under fairness, whose ENABLED the
prover does not handle. The three properties that fail have counterexamples,
not proofs.

## 5. Plan

1. `Publication` and `Transfer` composed over one `RevisionStore`, for the
   deletion of a transferred file and for a commit whose revision is being
   submitted. The transaction lemmas of `PublicationProofs` are stated about
   `RevisionStore` alone and extend to prepare, complete, reject and hold, so
   that `SealedReleases` and `ReleaseImmutable` can be proved of the
   composition, where TLC only reaches very small instances.
2. What the liveness properties rest on and a safety proof can show: that a
   request has at every step an action whose guard holds or waits for a lock
   somebody else will give back.
3. `WorkspaceCache`: the directory built under a file lock and swapped in.

## 6. Not modelled

Within the modelled components: previews, provider login and progress counters
of imports; plan changes, seats, prices and the end of a term; the choice of
the campaign rotation; delegation limits, quotes and events of agent commerce;
the social resource, client registration, membership and service accounts of
agents; delegated threads, subscriptions and workroom reports; the pool's row
for operators; the transfer service's removal of unreadable directories and
its scrubbing; profiles, discussions, lineage and presentation.

Left out as a whole, each with its reason in `PROJECT.json`: parsing and
scanning (pure functions over untrusted bytes, of which the models take every
verdict), row security and roles (static), rendering and localisation, catalog
and social records (one row written by one statement), containers of
notebooks and spaces (their state is Docker's), command line and SDK (clients).

These are most of the lines of the repository: pages, translations, schemas,
page scripts, flow checks and API descriptions have no behaviour over time
that a model checker would find. And much of what is modelled lives in SQL
migrations, whose functions and triggers hold the rules.
