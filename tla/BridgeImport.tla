---------------------------- MODULE BridgeImport ----------------------------
(***************************************************************************)
(* Importing a profile's work from Hugging Face: the Worker queues jobs    *)
(* from the web or for a repository that is kept in sync, and one bridge   *)
(* worker claims a job's items, and downloads, verifies, scans and records *)
(* the one whose id it read.  It reads the claimed row with                *)
(* "select (app.claim_next_bridge_item(...)).*", which calls the function  *)
(* once for every column of the row: each column is another item's, and    *)
(* NULL when the waiting items have run out.  The worker may crash between *)
(* any two of its statements or be stopped, and any provider, runtime or   *)
(* scanner call may fail.  One profile is modelled: two profiles share     *)
(* nothing but the worker.  A revision is named by the item it is of.      *)
(***************************************************************************)
EXTENDS Naturals, Sequences, SequencesExt, FiniteSets

CONSTANTS
  MaxJobs,     \* bound: rows of bridge_import_jobs
  MaxItems,    \* bound: rows of bridge_import_items
  Repos,       \* provider repositories
  Commits,     \* commits of the provider's repositories, which move freely
  Files,       \* files of a repository
  RetryLimit,  \* 5 in the code
  Finishes,    \* what requests say about finishing in the workspace
  Width,       \* columns of bridge_import_items, the first of them the id; 29
  RepoColumn,      \* the place of provider_repo_id among them, 5
  CommitColumn,    \* of source_revision, 8
  ProgressColumn,  \* of progress_bytes, 20
  ManifestColumn,  \* of source_manifest, 24
  None

ASSUME ImportAssumption ==
  /\ MaxJobs \in Nat /\ MaxItems \in Nat /\ Files \in Nat \ {0} /\ RetryLimit \in Nat /\ Commits # {}
  /\ Finishes \subseteq BOOLEAN
ASSUME ColumnsInOrder ==
  /\ Width \in Nat
  /\ ManifestColumn \in 1 .. Width
  /\ ProgressColumn \in 1 .. ManifestColumn
  /\ RepoColumn \in 1 .. ProgressColumn
  /\ CommitColumn \in 1 .. ProgressColumn
ASSUME NoneFresh == None \notin (1 .. MaxJobs) \cup ((1 .. MaxJobs) \X Repos)

VARIABLES
  job,     \* bridge_import_jobs
  item,    \* bridge_import_items, by job and repository
  rev,     \* repository_revisions that imports created
  source,  \* repository_sources of each repository, oldest first
  sync,    \* bridge_sync_subscriptions: the last seen commit, or None
  w        \* the bridge worker

vars == <<job, item, rev, source, sync, w>>

Jobs     == 1 .. MaxJobs
ItemIds  == Jobs \X Repos
Active   == {"queued", "downloading", "scanning"}
Job      == [status : {"queued", "running", "complete", "failed", "cancelled"},
             origin : {"web", "sync"},  \* whose normalized items they are
             finish : BOOLEAN,          \* metadata finish_in_workspace
             cancel : BOOLEAN,          \* cancel_requested_at is set
             stale  : BOOLEAN,          \* no heartbeat for five minutes
             tries  : 0 .. RetryLimit]
Item     == [status : Active \cup {"complete", "blocked", "failed", "cancelled"},
             commit : Commits,
             rev    : ItemIds \cup {None}]
Steps    == {"down", "poll", "open", "refuse", "refused", "next", "download", "check", "prepare",
             "reuse", "upload", "send", "inspect", "complete", "finish", "publish", "set", "fail",
             "close"}
\* The items whose columns the worker downloads by; an item's own are its own.
Row      == [repo : ItemIds \cup {None}, commit : ItemIds \cup {None},
             manifest : ItemIds \cup {None}]
Worker   == [pc : Steps, job : Jobs \cup {None}, item : ItemIds \cup {None}, row : Row,
             files : 0 .. Files, to : {"complete", "blocked", "failed", "cancelled"},
             stop : BOOLEAN]

TypeOK ==
  /\ DOMAIN job \subseteq Jobs /\ job \in [DOMAIN job -> Job]
  /\ DOMAIN item \subseteq (DOMAIN job) \X Repos /\ item \in [DOMAIN item -> Item]
  /\ DOMAIN rev \subseteq DOMAIN item
  /\ rev \in [DOMAIN rev -> {"draft", "review", "published", "blocked"}]
  /\ source \in [Repos -> Seq([commit : Commits, rev : DOMAIN rev])]
  /\ sync \in [Repos -> Commits \cup {None}]
  /\ w \in Worker

NoRow == [repo |-> None, commit |-> None, manifest |-> None]

Idle == [pc |-> "poll", job |-> None, item |-> None, row |-> NoRow, files |-> 0,
         to |-> "complete", stop |-> FALSE]

\* The process is gone; launchd starts it again.
Down == [Idle EXCEPT !.pc = "down"]

Init ==
  /\ job = [j \in {} |-> {}]
  /\ item = [i \in {} |-> {}]
  /\ rev = [i \in {} |-> {}]
  /\ source = [r \in Repos |-> <<>>]
  /\ sync = [r \in Repos |-> None]
  /\ w = Idle

Goes(pc) == w' = [w EXCEPT !.pc = pc]
\* process_item is done with its item.
Done == w' = [w EXCEPT !.pc = "next", !.item = None, !.files = 0, !.to = "complete"]
ItemsOf(j, items) == {i \in DOMAIN items : i[1] = j}
InProgress(j) == j \in DOMAIN job /\ job[j].status \in {"queued", "running"}
Put(f, x, v) == [y \in DOMAIN f \cup {x} |-> IF y = x THEN v ELSE f[y]]

-----------------------------------------------------------------------------
\* Seeded fault: an item that is downloading does not count.
SummaryEarly(j, items) ==
  LET has(s) == \E i \in ItemsOf(j, items) : items[i].status \in s IN
  IF has({"queued", "scanning"}) THEN "running"
  ELSE IF has({"failed"}) THEN "failed"
  ELSE IF has({"cancelled"}) THEN "cancelled" ELSE "complete"

\* refresh_bridge_import: the status of a job whose items are `items'.
Summary(j, items) ==
  LET has(s) == \E i \in ItemsOf(j, items) : items[i].status \in s IN
  IF has(Active) THEN "running"
  ELSE IF has({"failed"}) THEN "failed"
  ELSE IF has({"cancelled"}) THEN "cancelled" ELSE "complete"

Refreshed(j, items) == [job EXCEPT ![j].status = Summary(j, items), ![j].stale = FALSE]

\* set_bridge_item_state: no condition on the state it overwrites.
SetItem(i, s) ==
  LET items == [item EXCEPT ![i].status = s] IN
  item' = items /\ job' = Refreshed(i[1], items)

\* The statements that end every item of a job that waits.
EndQueued(j, s) ==
  [i \in DOMAIN item |-> IF i[1] = j /\ item[i].status = "queued"
                         THEN [item[i] EXCEPT !.status = s] ELSE item[i]]

-----------------------------------------------------------------------------
\* create_bridge_import: the same items were asked for before, or nothing is
\* active and a job is queued.
SameRequest(j, origin, read) ==
  /\ job[j].origin = origin
  /\ {i[2] : i \in ItemsOf(j, item)} = DOMAIN read
  /\ \A i \in ItemsOf(j, item) : item[i].commit = read[i[2]]

\* read is the commit each selected repository was found at.
CreateJob(j, origin, finish, read) ==
  IF \E k \in DOMAIN job : SameRequest(k, origin, read) THEN UNCHANGED <<job, item>>
  ELSE /\ \A k \in DOMAIN job : ~InProgress(k)
       /\ j = Cardinality(DOMAIN job) + 1
       /\ Cardinality(DOMAIN item) + Cardinality(DOMAIN read) <= MaxItems
       /\ job' = Put(job, j, [status |-> "queued", origin |-> origin, finish |-> finish,
                              cancel |-> FALSE, stale |-> FALSE, tries |-> 0])
       /\ item' = [i \in DOMAIN item \cup ({j} \X DOMAIN read) |->
                     IF i[1] = j THEN [status |-> "queued", commit |-> read[i[2]], rev |-> None]
                     ELSE item[i]]

\* POST /api/bridge/imports: every selected source is read again.
RequestImport(j, sel, finish) ==
  /\ sel # {}
  /\ \E read \in [sel -> Commits] : CreateJob(j, "web", finish, read)
  /\ UNCHANGED <<rev, source, w>>
  /\ UNCHANGED sync

\* DELETE /api/bridge/imports/[jobId]: request_bridge_import_cancel
RequestCancel(j) ==
  /\ InProgress(j)
  /\ item' = EndQueued(j, "cancelled")
  /\ job' = [Refreshed(j, item') EXCEPT ![j].cancel = TRUE]
  /\ UNCHANGED <<rev, source, w>>
  /\ UNCHANGED sync

\* POST /api/bridge/sync: set_bridge_sync keeps the commit last imported.
SetSync(r) ==
  /\ source[r] # <<>>
  /\ sync' = [sync EXCEPT ![r] = IF @ = None THEN Last(source[r]).commit ELSE None]
  /\ UNCHANGED <<job, item, rev, source, w>>

-----------------------------------------------------------------------------
\* The worker's loop: stale jobs are recovered, then a job or a due
\* subscription is taken.
\* Seeded fault: only items that were being scanned are recovered.
RecoveredScanning(j) ==
  [i \in DOMAIN item |->
     IF i[1] = j /\ item[i].status = "scanning" THEN [item[i] EXCEPT !.status = "failed"]
     ELSE item[i]]

\* Seeded fault: an item whose destination exists is tried again.
RecoveredAny(j) ==
  [i \in DOMAIN item |->
     IF i[1] = j /\ item[i].status \in {"downloading", "scanning"}
     THEN [item[i] EXCEPT !.status = "queued"] ELSE item[i]]

Recovered(j) ==
  [i \in DOMAIN item |->
     IF i[1] = j /\ item[i].status \in {"downloading", "scanning"}
     THEN [item[i] EXCEPT !.status = IF item[i].rev = None THEN "queued" ELSE "failed"]
     ELSE item[i]]

\* Seeded fault: the retries are not counted out.
MayAlwaysRetry(j) == TRUE

MayRetry(j) == job[j].tries < RetryLimit

Recover(j) ==
  LET items == Recovered(j)
      spent == [i \in DOMAIN items |-> IF i[1] = j /\ items[i].status = "queued"
                                       THEN [items[i] EXCEPT !.status = "failed"] ELSE items[i]]
      waits == \E i \in ItemsOf(j, items) : items[i].status = "queued"
  IN
  /\ w.pc = "poll"
  /\ j \in DOMAIN job
  /\ job[j].status = "running"
  /\ job[j].stale
  /\ IF ~MayRetry(j)
     THEN item' = spent /\ job' = Refreshed(j, spent)
     ELSE /\ item' = items
          /\ job' = IF waits
                    THEN [Refreshed(j, items) EXCEPT ![j].status = "queued", ![j].tries = @ + 1]
                    ELSE Refreshed(j, items)
  /\ UNCHANGED <<rev, source, w>>
  /\ UNCHANGED sync

\* claim_next_bridge_import
ClaimJob(j) ==
  /\ w.pc = "poll"
  /\ j \in DOMAIN job
  /\ job[j].status = "queued"
  /\ ~job[j].cancel
  /\ job' = [job EXCEPT ![j].status = "running", ![j].stale = FALSE]
  /\ w' = [w EXCEPT !.pc = "open", !.job = j]
  /\ UNCHANGED <<item, rev, source>>
  /\ UNCHANGED sync

\* claim_due_bridge_sync and process_sync, when no job is queued.  A provider
\* that does not answer, a license that went away, an import that is active:
\* the subscription is checked again later.
CheckSync(r, c, j) ==
  /\ w.pc = "poll"
  /\ sync[r] \notin {None, c}
  /\ \A k \in DOMAIN job : job[k].status = "queued" => job[k].cancel
  /\ CreateJob(j, "sync", FALSE, [x \in {r} |-> c])
  /\ UNCHANGED <<rev, source, w>>
  /\ UNCHANGED sync

-----------------------------------------------------------------------------
\* process_job: the connected account's credential is readable, or not.
OpenJob ==
  /\ w.pc = "open"
  /\ Goes("next") \/ Goes("refuse")
  /\ UNCHANGED <<job, item, rev, source>>
  /\ UNCHANGED sync

Waiting == {i \in ItemsOf(w.job, item) : item[i].status = "queued"}

Leave == w' = [Idle EXCEPT !.pc = IF w.stop THEN "down" ELSE "poll"]

\* claim_next_bridge_item, called once for every column: the items taken, in
\* the order of the columns.  They were created at once, so in any order.
Claims ==
  UNION {{row \in [1 .. n -> Waiting] : IsInjective(row) /\ (n = Width \/ Range(row) = Waiting)} :
           n \in 1 .. Width}

Taken(row) ==
  [i \in DOMAIN item |-> IF i \in Range(row) THEN [item[i] EXCEPT !.status = "downloading"]
                         ELSE item[i]]

Column(row, k) == IF k \in DOMAIN row THEN row[k] ELSE None

\* The claim of a cancelled job, whatever its other items are at.
CancelJob ==
  /\ item' = EndQueued(w.job, "cancelled")
  /\ job' = [job EXCEPT ![w.job].status = "cancelled", ![w.job].stale = FALSE]

\* Without a credential the items whose id the worker reads fail, until none
\* waits; nothing is refreshed then.
Refuse ==
  /\ w.pc = "refuse"
  /\ IF job[w.job].cancel THEN CancelJob /\ Leave
     ELSE \/ Waiting = {} /\ Leave /\ UNCHANGED <<item, job>>
          \/ \E row \in Claims :
               /\ item' = Taken(row)
               /\ w' = [w EXCEPT !.pc = "refused", !.item = row[1]]
               /\ UNCHANGED job
  /\ UNCHANGED <<rev, source>>
  /\ UNCHANGED sync

Refused ==
  /\ w.pc = "refused"
  /\ SetItem(w.item, "failed")
  /\ w' = [w EXCEPT !.pc = "refuse", !.item = None]
  /\ UNCHANGED <<rev, source>>
  /\ UNCHANGED sync

\* The loop ends, or items are claimed.  progress_bytes is read outside the
\* handler of process_item: without a value the worker dies.
NextItem ==
  /\ w.pc = "next"
  /\ IF w.stop \/ (~job[w.job].cancel /\ Waiting = {})
     THEN Goes("close") /\ UNCHANGED <<item, job>>
     ELSE IF job[w.job].cancel THEN CancelJob /\ Goes("close")
     ELSE \E row \in Claims :
            /\ item' = Taken(row)
            /\ w' = IF Column(row, ProgressColumn) = None THEN Down
                    ELSE [w EXCEPT !.pc = "download", !.item = row[1], !.files = 0,
                                   !.row = [repo     |-> Column(row, RepoColumn),
                                            commit   |-> Column(row, CommitColumn),
                                            manifest |-> Column(row, ManifestColumn)]]
            /\ UNCHANGED job
  /\ UNCHANGED <<rev, source>>
  /\ UNCHANGED sync

\* release_bridge_import: only a job of which no item is worked on.
Released(j) ==
  /\ \E i \in ItemsOf(j, item) : item[i].status = "queued"
  /\ \A i \in ItemsOf(j, item) : item[i].status \notin {"downloading", "scanning"}

\* refresh_bridge_import, and the release when stopping.  A refresh that wakes
\* a cancelled job while another one is in progress trips over
\* bridge_import_jobs_profile_active_idx, and the worker dies.
CloseJob ==
  /\ w.pc = "close"
  /\ IF Summary(w.job, item) = "running" /\ \E k \in Jobs \ {w.job} : InProgress(k)
     THEN w' = Down /\ UNCHANGED job
     ELSE /\ job' = [job EXCEPT ![w.job].status =
                       IF w.stop /\ Released(w.job) THEN "queued" ELSE Summary(w.job, item)]
          /\ Leave
  /\ UNCHANGED <<item, rev, source>>
  /\ UNCHANGED sync

-----------------------------------------------------------------------------
(***************************************************************************)
(* process_item.                                                           *)
(***************************************************************************)
\* _expected_manifest, the free space, _download_snapshot, verify_snapshot: the
\* row's repository at the row's commit, against the row's manifest.  Repositories
\* may hold the same files, forks do: it may pass whichever items they are of.
Download ==
  /\ w.pc = "download"
  /\ \/ w.row.manifest # None /\ w' = [w EXCEPT !.pc = "check", !.row = NoRow]
     \/ w' = [w EXCEPT !.pc = "fail", !.row = NoRow]
  /\ UNCHANGED <<job, item, rev, source>>
  /\ UNCHANGED sync

\* After the download: stopping requeues the item, cancelling ends it.
Check ==
  /\ w.pc = "check"
  /\ IF w.stop
     THEN /\ item' = [item EXCEPT ![w.item].status = "queued"]
          /\ Done
          /\ UNCHANGED job
     ELSE IF job[w.job].cancel
     THEN SetItem(w.item, "cancelled") /\ Done
     ELSE (Goes("prepare") \/ Goes("fail")) /\ UNCHANGED <<item, job>>
  /\ UNCHANGED <<rev, source>>
  /\ UNCHANGED sync

\* Seeded fault: any import of the repository counts as this one.
LastImportOf(r, c) == source[r] # <<>>

LastImportIs(r, c) == source[r] # <<>> /\ Last(source[r]).commit = c

Destination(r) == \E i \in DOMAIN rev : i[2] = r

\* prepare_bridge_item: the source's last import is this commit, or it has a
\* repository that gets a new revision, or none and the name is free.  What it
\* writes on a cancelled job is rolled back when the worker finds no row.
Prepare ==
  LET i == w.item
      known == source[i[2]]
  IN
  /\ w.pc = "prepare"
  /\ IF job[w.job].cancel \/ (known = <<>> /\ Destination(i[2]))
     THEN Goes("fail") /\ UNCHANGED <<item, rev>>
     ELSE IF LastImportIs(i[2], item[i].commit)
     THEN /\ item' = [item EXCEPT ![i].rev = Last(known).rev, ![i].status = "complete"]
          /\ Goes("reuse")
          /\ UNCHANGED rev
     ELSE /\ item' = [item EXCEPT ![i].rev = i, ![i].status = "scanning"]
          /\ rev' = Put(rev, i, "draft")
          /\ Goes("upload")
  /\ UNCHANGED <<job, source>>
  /\ UNCHANGED sync

\* The cancellation is read before each file.
Upload ==
  /\ w.pc = "upload"
  /\ IF w.files < Files /\ job[w.job].cancel
     THEN SetItem(w.item, "cancelled") /\ Done
     ELSE /\ Goes(IF w.files < Files THEN "send" ELSE "inspect")
          /\ UNCHANGED <<item, job>>
  /\ UNCHANGED <<rev, source>>
  /\ UNCHANGED sync

\* The file is scanned and stored, or is held or rejected.
Send ==
  /\ w.pc = "send"
  /\ \/ w' = [w EXCEPT !.pc = "upload", !.files = @ + 1]
     \/ Goes("fail")
  /\ UNCHANGED <<job, item, rev, source>>
  /\ UNCHANGED sync

\* The offline analysis and finalize_for_policy, which seals the revision.
Inspect ==
  /\ w.pc = "inspect"
  /\ \/ rev' = [rev EXCEPT ![w.item] = "review"] /\ Goes("complete")
     \/ UNCHANGED rev /\ Goes("fail")
  /\ UNCHANGED <<job, item, source>>
  /\ UNCHANGED sync

Recorded(r, c) == \E n \in 1 .. Len(source[r]) : source[r][n].commit = c

\* complete_bridge_item: the source is recorded, once per commit.
Complete ==
  LET r == w.item[2]  c == item[w.item].commit IN
  /\ w.pc = "complete"
  /\ IF Recorded(r, c) THEN Goes("fail") /\ UNCHANGED <<source, sync>>
     ELSE /\ source' = [source EXCEPT ![r] = Append(@, [commit |-> c, rev |-> w.item])]
          /\ sync' = [sync EXCEPT ![r] = IF @ = None THEN None ELSE c]
          /\ Goes("finish")
  /\ UNCHANGED <<job, item, rev>>

\* finish_bridge_in_workspace on a revision that may be reopened.
Reopen(i) ==
  /\ rev[item[i].rev] \in {"draft", "review"}
  /\ rev' = [rev EXCEPT ![item[i].rev] = "draft"]

\* An item that was imported before is finished again, and its job refreshed.
Reuse ==
  LET i == w.item IN
  /\ w.pc = "reuse"
  /\ IF job[w.job].finish /\ rev[item[i].rev] = "blocked"
     THEN Goes("fail") /\ UNCHANGED <<rev, job>>
     ELSE /\ IF job[w.job].finish /\ rev[item[i].rev] # "published" THEN Reopen(i)
             ELSE UNCHANGED rev
          /\ job' = Refreshed(w.job, item)
          /\ Done
  /\ UNCHANGED <<item, source>>
  /\ UNCHANGED sync

\* A browser import becomes a draft in the workspace, another is published.
Finish ==
  /\ w.pc = "finish"
  /\ IF job[w.job].finish
     THEN Reopen(w.item) /\ SetItem(w.item, "complete") /\ Done
     ELSE Goes("publish") /\ UNCHANGED <<rev, item, job>>
  /\ UNCHANGED source
  /\ UNCHANGED sync

\* The runtime's finalize: it fails before the policy service decides, or the
\* policy service publishes or blocks; its answer may be lost.
Publish ==
  /\ w.pc = "publish"
  /\ \/ Goes("fail") /\ UNCHANGED rev
     \/ \E verdict \in {"published", "blocked"} :
          /\ rev' = [rev EXCEPT ![w.item] = verdict]
          /\ \/ w' = [w EXCEPT !.pc = "set",
                               !.to = IF verdict = "published" THEN "complete" ELSE "blocked"]
             \/ Goes("fail")
  /\ UNCHANGED <<job, item, source>>
  /\ UNCHANGED sync

SetOutcome ==
  /\ w.pc = "set"
  /\ SetItem(w.item, w.to)
  /\ Done
  /\ UNCHANGED <<rev, source>>
  /\ UNCHANGED sync

\* The handler of every exception of process_item reads the cancellation, then
\* sets the item.  Its own failure is suppressed; the database is out of reach
\* then, the loop's next statement raises and the worker dies: Crash.
Fail ==
  /\ w.pc = "fail"
  /\ w' = [w EXCEPT !.pc = "set", !.files = 0,
                    !.to = IF job[w.job].cancel THEN "cancelled" ELSE "failed"]
  /\ UNCHANGED <<job, item, rev, source>>
  /\ UNCHANGED sync

-----------------------------------------------------------------------------
\* The process dies with a job in hand, or is asked to stop; launchd starts it
\* again.
Crash ==
  /\ w.job # None
  /\ w' = Down
  /\ UNCHANGED <<job, item, rev, source>>
  /\ UNCHANGED sync

Stop ==
  /\ w.job # None
  /\ ~w.stop
  /\ w' = [w EXCEPT !.stop = TRUE]
  /\ UNCHANGED <<job, item, rev, source, sync>>

Restart ==
  /\ w.pc = "down"
  /\ w' = Idle
  /\ UNCHANGED <<job, item, rev, source>>
  /\ UNCHANGED sync

\* Five minutes without a heartbeat.
Stale(j) ==
  /\ j \in DOMAIN job
  /\ job[j].status = "running"
  /\ w.job # j
  /\ ~job[j].stale
  /\ job' = [job EXCEPT ![j].stale = TRUE]
  /\ UNCHANGED <<item, rev, source, w>>
  /\ UNCHANGED sync

Process ==
  \/ OpenJob \/ Refuse \/ Refused \/ NextItem \/ CloseJob \/ Download \/ Check \/ Prepare
  \/ Upload \/ Send \/ Inspect \/ Complete \/ Reuse \/ Finish \/ Publish \/ SetOutcome \/ Fail

Next ==
  \/ \E j \in Jobs, sel \in SUBSET Repos, finish \in Finishes : RequestImport(j, sel, finish)
  \/ \E j \in Jobs : RequestCancel(j) \/ Recover(j) \/ ClaimJob(j) \/ Stale(j)
  \/ \E r \in Repos : SetSync(r)
  \/ \E r \in Repos, c \in Commits, j \in Jobs : CheckSync(r, c, j)
  \/ Process
  \/ Crash \/ Stop \/ Restart

\* The worker runs, launchd restarts it and the clock advances; nobody has to
\* ask for anything.  Recover is strongly fair because cancelling again is a
\* heartbeat: an owner may do so for ever, not without a pause.
Fairness ==
  /\ WF_vars(Process)
  /\ WF_vars(Restart)
  /\ \A j \in Jobs : WF_vars(Stale(j)) /\ SF_vars(Recover(j)) /\ WF_vars(ClaimJob(j))

Spec == Init /\ [][Next]_vars /\ Fairness

-----------------------------------------------------------------------------
(***************************************************************************)
(* Properties.                                                             *)
(***************************************************************************)
\* Whatever claims, crashes, cancellations, recoveries and releases do to a job,
\* one job at most is in progress, the refresh of a cancelled job included; and
\* items are left behind by an ended job only when it was cancelled while more
\* of them than the worker meant were claimed.  None of those waits.
OneImportAtATime ==
  /\ \A j, k \in DOMAIN job : InProgress(j) /\ InProgress(k) => j = k
  /\ \A i \in DOMAIN item : item[i].status \in Active /\ ~InProgress(i[1]) =>
       job[i[1]].status = "cancelled" /\ job[i[1]].cancel /\ item[i].status = "downloading"

\* In the tables, a complete item is the recorded import of the commit it was
\* created for, whether this job made it or another one did.
CompleteIsRecorded ==
  \A i \in DOMAIN item : item[i].status = "complete" =>
    \E n \in 1 .. Len(source[i[2]]) :
      source[i[2]][n] = [commit |-> item[i].commit, rev |-> item[i].rev]

\* "Stale jobs are retried only before a destination revision exists; a
\* partially prepared revision fails closed" (bridge.md), and an item that
\* ended is never worked on again, though claims leave items behind and
\* recoveries take them up.
RetriedBeforeDestination ==
  [][\A i \in DOMAIN item :
       /\ item[i].rev # None => item'[i].status # "queued"
       /\ item[i].status \notin Active => item'[i].status \notin Active]_vars

\* Every import ends, however often the worker crashes, or dies of a row whose
\* columns ran out, for the retries do too, unless the service is stopped for
\* ever.  One that was cancelled and then requeued by a recovery or a stop waits
\* for its owner to cancel it again: claim_next_bridge_import passes over it.
EveryImportEnds ==
  <>[]~w.stop => \A j \in Jobs :
    InProgress(j) ~> (~InProgress(j) \/ (job[j].status = "queued" /\ job[j].cancel))

\* "The online worker downloads only the allowlisted file manifest at the exact
\* commit" (docs/architecture/bridge.md:61-62): what is downloaded for an item
\* is its own repository, at its own commit, by its own manifest.
DownloadsAreExact ==
  w.pc = "download" /\ w.row.manifest # None =>
    w.row = [repo |-> w.item, commit |-> w.item, manifest |-> w.item]
=============================================================================
