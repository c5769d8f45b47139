---------------------------- MODULE RevisionStore ----------------------------
(***************************************************************************)
(* The PostgreSQL side of one repository: revisions on one branch, their   *)
(* file rows with the latest verdict of each required inspector, the       *)
(* offline analysis, the latest signed publication decision, the branch    *)
(* head and the repository's latest-release pointer.                       *)
(*                                                                         *)
(* Every operator below that primes a variable is ONE committed database   *)
(* transaction, triggers included.  A transaction that raises changes      *)
(* nothing; the processes that call it say what they do then.              *)
(***************************************************************************)
EXTENDS Naturals, FiniteSets

CONSTANTS
  MaxRevisions,  \* bound on repository_revisions.sequence
  FileIds,       \* repository_files.id; every upload brings fresh bytes
  Paths,         \* repository paths
  Inspectors,    \* clamav, gitleaks, format_policy
  NoFile         \* where no row of repository_files is meant

ASSUME RevisionBound == MaxRevisions \in Nat \ {0}
ASSUME NoFileFresh == NoFile \notin FileIds

Revisions == 1 .. MaxRevisions

VARIABLES
  revision,  \* status and manifest of each revision ("absent": not created)
  file,      \* live rows of repository_files, by id
  issued,    \* row ids ever inserted
  analysis,  \* repository_revision_analyses: status and the files it describes
  decision,  \* latest row of publication_decisions for each revision
  head,      \* repository_branches.head_revision_id
  latest,    \* repositories.latest_revision_id, 0 when null
  candidate  \* revision row an open policy transaction holds FOR UPDATE, or 0;
             \* it holds the repository row as well, so there is one at most

dbVars == <<revision, file, issued, analysis, decision, head, latest, candidate>>

Statuses == {"absent", "draft", "quarantined", "scanning",
             "review", "published", "rejected"}
Editable == {"draft", "quarantined"}
Verdicts == {"passed", "failed", "error"}
Listings == SUBSET (Paths \X FileIds)

Row == [revision : Revisions,
        path     : Paths,
        sha      : FileIds,
        storage  : {"quarantine", "available", "rejected"},
        scan     : {"pending", "running", "clean", "failed", "error"},
        verdict  : [Inspectors -> Verdicts \cup {"none"}]]

Unscanned == [i \in Inspectors |-> "none"]

DBTypeOK ==
  /\ revision \in [Revisions -> [status : Statuses, manifest : Listings]]
  /\ issued \subseteq FileIds
  /\ DOMAIN file \subseteq issued
  /\ file \in [DOMAIN file -> Row]
  /\ analysis \in [Revisions -> [status : {"none", "passed", "failed"},
                                 saw    : Listings]]
  /\ decision \in [Revisions -> [outcome  : {"none", "passed", "blocked"},
                                 manifest : Listings]]
  /\ head \in Revisions
  /\ latest \in Revisions \cup {0}
  /\ candidate \in Revisions \cup {0}

(***************************************************************************)
(* create_repository_with_revision: the repository starts with an empty    *)
(* draft at the head of its default branch.                                *)
(***************************************************************************)
DBInit ==
  /\ revision = [r \in Revisions |->
                   [status |-> IF r = 1 THEN "draft" ELSE "absent",
                    manifest |-> {}]]
  /\ file = [f \in {} |-> {}]
  /\ issued = {}
  /\ analysis = [r \in Revisions |-> [status |-> "none", saw |-> {}]]
  /\ decision = [r \in Revisions |-> [outcome |-> "none", manifest |-> {}]]
  /\ head = 1
  /\ latest = 0
  /\ candidate = 0

(***************************************************************************)
(* Queries.                                                                *)
(***************************************************************************)
FilesOf(r) == {f \in DOMAIN file : file[f].revision = r}

\* list_revision_files
CleanFiles(r) ==
  {f \in FilesOf(r) : file[f].storage = "available" /\ file[f].scan = "clean"}

Listing(F) == {<<file[f].path, file[f].sha>> : f \in F}

ScansPassed(f) == \A i \in Inspectors : file[f].verdict[i] = "passed"

\* revision_files_missing_inspections
MissingInspections(r) == {f \in FilesOf(r) : ~ScansPassed(f)}

AllFilesClean(r) == FilesOf(r) # {} /\ FilesOf(r) = CleanFiles(r)

LockedStatuses == {"review", "published"}

(***************************************************************************)
(* guard_release_file_mutation: a BEFORE trigger on every insert, update   *)
(* and delete of a file row.  It waits for the revision's row lock and     *)
(* raises release_files_are_locked once the revision is being released.    *)
(***************************************************************************)
MutableInReview(r) == revision[r].status # "published"     \* seeded fault

MutableOncePublished(r) == revision[r].status # "review"   \* seeded fault

Mutable(r) == revision[r].status \notin LockedStatuses

UnlockedAlways(r) == TRUE                                  \* seeded fault

Unlocked(r) == candidate # r

Writable(r) == Unlocked(r) /\ Mutable(r)

FilesChange == UNCHANGED <<analysis, decision, head, latest, candidate>>

PutRow(f, row) ==
  file' = [g \in DOMAIN file \cup {f} |-> IF g = f THEN row ELSE file[g]]

NewRow(r, p, f, scan) ==
  [revision |-> r, path |-> p, sha |-> f, storage |-> "quarantine",
   scan |-> scan, verdict |-> Unscanned]

\* unique (revision_id, path)
PathFree(r, p) == \A f \in FilesOf(r) : file[f].path # p

\* The row's foreign keys share-lock the revision and the repository.
RepositoryUnlocked == candidate = 0

CanInsert(f, r, p) ==
  f \in FileIds \ issued /\ RepositoryUnlocked /\ Mutable(r) /\ PathFree(r, p)

(***************************************************************************)
(* register_staged_file: insert the pending row; the revision becomes      *)
(* quarantined unless it has moved past draft/quarantined, and then the    *)
(* row is inserted all the same.                                           *)
(***************************************************************************)
RegisterStagedFile(f, r, p) ==
  /\ CanInsert(f, r, p)
  /\ PutRow(f, NewRow(r, p, f, "pending"))
  /\ issued' = issued \cup {f}
  /\ revision' = [revision EXCEPT ![r].status =
                    IF @ \in Editable THEN "quarantined" ELSE @]
  /\ FilesChange

(***************************************************************************)
(* guard_revision_presentation: a published revision never leaves that     *)
(* status, whatever the caller asks for.                                   *)
(***************************************************************************)
StatusNeverLocked(r) == FALSE                              \* seeded fault

StatusLocked(r) == revision[r].status = "published"

\* set_revision_status: no condition on the status it overwrites.
SetRevisionStatus(r, s) ==
  /\ Unlocked(r)
  /\ ~StatusLocked(r)
  /\ revision' = [revision EXCEPT ![r].status = s]
  /\ UNCHANGED <<file, issued>>
  /\ FilesChange

\* record_inspection: an append; only the latest row per inspector is read.
RecordInspection(f, i, v) ==
  /\ f \in DOMAIN file
  /\ file' = [file EXCEPT ![f].verdict[i] = v]
  /\ UNCHANGED <<revision, issued>>
  /\ FilesChange

\* mark_file_available, mark_file_rejected, mark_file_scan_error: an update by
\* id, so it changes nothing when the row was deleted meanwhile.
MarkFile(f, storage, scan) ==
  /\ f \in DOMAIN file => Writable(file[f].revision)
  /\ IF f \in DOMAIN file
     THEN PutRow(f, [file[f] EXCEPT !.storage = storage, !.scan = scan])
     ELSE UNCHANGED file
  /\ UNCHANGED <<revision, issued>>
  /\ FilesChange

\* First statement of DELETE files/[fileId]; inspections go by cascade.
DeleteRow(f) ==
  /\ f \in DOMAIN file
  /\ Writable(file[f].revision)
  /\ file' = [g \in DOMAIN file \ {f} |-> file[g]]
  /\ UNCHANGED <<revision, issued>>
  /\ FilesChange

\* Second statement of DELETE files/[fileId], a transaction of its own.
RefreshAfterDelete(r) ==
  SetRevisionStatus(r, IF FilesOf(r) = {} THEN "draft" ELSE "quarantined")

(***************************************************************************)
(* finalize_for_policy.  A revision already in review or published is      *)
(* returned as it is; otherwise every row must be available and clean, and *)
(* the manifest of the rows read under the row lock is recorded.           *)
(***************************************************************************)
FinalizeForPolicy(r) ==
  /\ Writable(r)
  /\ AllFilesClean(r)
  /\ revision' = [revision EXCEPT ![r] = [status |-> "review",
                                          manifest |-> Listing(FilesOf(r))]]
  /\ UNCHANGED <<file, issued>>
  /\ FilesChange

\* save_revision_analysis: an upsert; saw is the content of the checkout.  Only
\* a first insert takes the foreign key's locks.
SaveRevisionAnalysis(r, s, saw) ==
  /\ analysis[r].status = "none" => RepositoryUnlocked
  /\ analysis' = [analysis EXCEPT ![r] = [status |-> s, saw |-> saw]]
  /\ UNCHANGED <<revision, file, issued, decision, head, latest, candidate>>

(***************************************************************************)
(* create_repository_commit.  Clean rows of the head are copied; verdicts  *)
(* are not.                                                                *)
(***************************************************************************)
CommitRefused == {"draft", "quarantined", "scanning"}

CopiedRow(g, r) == [file[g] EXCEPT !.revision = r, !.verdict = Unscanned]

CreateRepositoryCommit(r, copyOf) ==
  LET copies == DOMAIN copyOf
  IN /\ RepositoryUnlocked
     /\ revision[r].status = "absent"
     /\ \A q \in Revisions : q < r => revision[q].status # "absent"
     /\ revision[head].status \notin CommitRefused
     /\ copies \subseteq FileIds \ issued
     /\ {copyOf[f] : f \in copies} = CleanFiles(head)
     /\ \A f, g \in copies : copyOf[f] = copyOf[g] => f = g
     /\ file' = [f \in DOMAIN file \cup copies |->
                   IF f \in copies THEN CopiedRow(copyOf[f], r) ELSE file[f]]
     /\ issued' = issued \cup copies
     /\ revision' = [revision EXCEPT ![r].status =
                       IF copies = {} THEN "draft" ELSE "quarantined"]
     /\ head' = r
     /\ UNCHANGED <<analysis, decision, latest, candidate>>

(***************************************************************************)
(* The policy transaction.  publication_candidate locks the revision row   *)
(* and reads files, verdicts and analyses; apply_publication_decision runs *)
(* in the same transaction, but verdicts and analyses are inserted without *)
(* that lock and may have moved in between.                                *)
(***************************************************************************)
LockCandidate(r) ==
  /\ RepositoryUnlocked
  /\ revision[r].status = "review"
  /\ candidate' = r
  /\ UNCHANGED <<revision, file, issued, analysis, decision, head, latest>>

\* evaluate: what publication_policy.py itself requires of the candidate; the
\* license and rights rules are the caller's choice.
PolicyAccepts(r) ==
  /\ AllFilesClean(r)
  /\ \A f \in FilesOf(r) : ScansPassed(f)
  /\ revision[r].manifest = Listing(FilesOf(r))
  /\ analysis[r].status = "passed"

\* publish_repository_revision: the same conditions, read again in SQL.
PublishGate(r) ==
  /\ revision[r].status = "review"
  /\ AllFilesClean(r)
  /\ revision[r].manifest = Listing(FilesOf(r))
  /\ MissingInspections(r) = {}
  /\ analysis[r].status = "passed"

ReleaseForgotten == UNCHANGED candidate                    \* seeded fault

Release == candidate' = 0

\* sync_published_revision sets the repository's latest release.
PublishDecision(r) ==
  /\ PublishGate(r)
  /\ decision' = [decision EXCEPT ![r] = [outcome |-> "passed",
                                          manifest |-> revision[r].manifest]]
  /\ revision' = [revision EXCEPT ![r].status = "published"]
  /\ latest' = r
  /\ Release
  /\ UNCHANGED <<file, issued, analysis, head>>

BlockDecision(r) ==
  /\ revision[r].status = "review"
  /\ decision' = [decision EXCEPT ![r] = [outcome |-> "blocked",
                                          manifest |-> revision[r].manifest]]
  /\ revision' = [revision EXCEPT ![r].status = "quarantined"]
  /\ Release
  /\ UNCHANGED <<file, issued, analysis, head, latest>>

\* Seeded fault: the decision is committed although publishing raised.
RollbackButDecision ==
  /\ Release
  /\ decision' = [decision EXCEPT ![candidate] =
                    [outcome |-> "passed", manifest |-> revision[candidate].manifest]]
  /\ UNCHANGED <<revision, file, issued, analysis, head, latest>>

\* The transaction rolls back: the lock goes, nothing else changes.
Rollback ==
  /\ Release
  /\ UNCHANGED <<revision, file, issued, analysis, decision, head, latest>>
=============================================================================
