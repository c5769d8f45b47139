----------------------------- MODULE Publication -----------------------------
(***************************************************************************)
(* The requests that turn uploaded bytes into a published revision, run by *)
(* concurrent workers of the web gateway and the runtime:                  *)
(*   upload  POST files         -> process_upload                          *)
(*   submit  POST submit        -> inspect_revision, finalize_revision and *)
(*                                 the policy service's publish            *)
(*   delete  DELETE files/[id]  -> two statements                          *)
(*   commit  POST revisions     -> create_repository_commit                *)
(* No request holds a transaction open across its steps (the policy's own  *)
(* transaction apart): each step is one database call, and anything may    *)
(* happen between two of them.                                             *)
(***************************************************************************)
EXTENDS RevisionStore

CONSTANTS
  Workers,  \* requests being served at once
  Crashes   \* whether a request may die between two of its steps

ASSUME CrashChoice == Crashes \in BOOLEAN

VARIABLES
  job,         \* what each worker is doing
  interrupted  \* revisions on which a request once died or raised midway

vars == <<dbVars, job, interrupted>>

Outcomes == {"passed", "failed", "error"}

Steps == {"idle",
          "register", "begin", "pick", "record", "settle", "close",
          "list", "materialize", "missing", "report", "analyse",
          "finalize", "evaluate", "apply",
          "delete", "refresh"}

Jobs == [kind    : {"none", "upload", "submit", "delete"},
         pc      : Steps,
         rev     : Revisions,
         file    : FileIds \cup {NoFile},
         todo    : Listings,  \* files to rescan: path and row id
         seen    : Listings,  \* the checkout: path and content
         pending : SUBSET (Inspectors \X Verdicts),  \* not recorded yet
         outcome : Outcomes]

TypeOK ==
  /\ DBTypeOK
  /\ job \in [Workers -> Jobs]
  /\ interrupted \subseteq Revisions

Request(kind, pc, r, f) ==
  [kind |-> kind, pc |-> pc, rev |-> r, file |-> f,
   todo |-> {}, seen |-> {}, pending |-> {}, outcome |-> "passed"]

NoJob == Request("none", "idle", 1, NoFile)

Init ==
  /\ DBInit
  /\ job = [w \in Workers |-> NoJob]
  /\ interrupted = {}

-----------------------------------------------------------------------------
At(w, pc) == job[w].pc = pc

Rev(w) == job[w].rev

Goto(w, pc) == job' = [job EXCEPT ![w].pc = pc]

End(w) == job' = [job EXCEPT ![w] = NoJob]

Admit(w, j) ==
  /\ At(w, "idle")
  /\ job' = [job EXCEPT ![w] = j]
  /\ UNCHANGED <<dbVars, interrupted>>

(***************************************************************************)
(* The gateway reads the branch head and checks its status; the runtime    *)
(* never checks again.                                                     *)
(***************************************************************************)
AdmitUpload(w) ==
  /\ revision[head].status \in Editable
  /\ Admit(w, Request("upload", "register", head, NoFile))

AdmitDelete(w) ==
  /\ revision[head].status \in Editable
  /\ \E f \in FilesOf(head) :
       Admit(w, Request("delete", "delete", head, f))

\* submit.ts: any status will do.
AdmitSubmit(w) == Admit(w, Request("submit", "list", head, NoFile))

-----------------------------------------------------------------------------
(***************************************************************************)
(* process_upload: the payload is staged, its row is registered.           *)
(***************************************************************************)
Register(w) ==
  /\ At(w, "register")
  /\ \E f \in FileIds, p \in Paths :
       /\ RegisterStagedFile(f, Rev(w), p)
       /\ job' = [job EXCEPT ![w].pc = "begin", ![w].file = f]
  /\ UNCHANGED interrupted

\* Staging refuses the payload, or the insert raises because the revision is
\* locked or the path is taken: the payload is removed, nothing was written.
RegisterRefused(w) ==
  /\ At(w, "register")
  /\ End(w)
  /\ UNCHANGED <<dbVars, interrupted>>

(***************************************************************************)
(* _scan_staged: the verdicts of the inspectors, and what the pipeline     *)
(* concludes.  The container parsers may fail a file every inspector       *)
(* passes.                                                                 *)
(***************************************************************************)
Concludes(v, o) ==
  CASE \E i \in Inspectors : v[i] = "failed" -> o = "failed"
    [] \E i \in Inspectors : v[i] = "error"
         /\ \A k \in Inspectors : v[k] # "failed" -> o \in {"error", "failed"}
    [] OTHER -> o \in {"passed", "failed"}

Scan(w, f) ==
  \E v \in [Inspectors -> Verdicts], o \in Outcomes :
    /\ Concludes(v, o)
    /\ job' = [job EXCEPT ![w].pc = "record",
                          ![w].file = f,
                          ![w].todo = {l \in @ : l[2] # f},
                          ![w].pending = {<<i, v[i]>> : i \in Inspectors},
                          ![w].outcome = o]

\* set_revision_status "scanning", then the scan of an upload.
BeginScan(w) ==
  /\ At(w, "begin")
  /\ SetRevisionStatus(Rev(w), "scanning")
  /\ \/ job[w].kind = "upload" /\ Scan(w, job[w].file)
     \/ job[w].kind = "submit" /\ Goto(w, "pick")
  /\ UNCHANGED interrupted

\* Where a request goes once its verdicts are recorded: a rescan that passed
\* marks nothing.
AfterRecording(w) ==
  IF job[w].kind = "submit" /\ job[w].outcome = "passed"
  THEN "pick" ELSE "settle"

RecordVerdict(w) ==
  /\ At(w, "record")
  /\ \E p \in job[w].pending :
       /\ RecordInspection(job[w].file, p[1], p[2])
       /\ job' = [job EXCEPT ![w].pending = @ \ {p},
                             ![w].pc = IF job[w].pending = {p}
                                       THEN AfterRecording(w) ELSE @]
  /\ UNCHANGED interrupted

Settle(w) ==
  /\ At(w, "settle")
  /\ CASE job[w].outcome = "failed" -> MarkFile(job[w].file, "rejected", "failed")
       [] job[w].outcome = "error"  -> MarkFile(job[w].file, "quarantine", "error")
       [] job[w].outcome = "passed" -> MarkFile(job[w].file, "available", "clean")
  /\ Goto(w, "close")
  /\ UNCHANGED interrupted

\* Seeded fault: a scan status written as the revision's.
ClosingScanStatus(outcome) == IF outcome = "failed" THEN "failed" ELSE "quarantined"

ClosingStatus(outcome) == IF outcome = "failed" THEN "rejected" ELSE "quarantined"

\* The last set_revision_status of process_upload and rescan_revision_files.
Close(w) ==
  /\ At(w, "close")
  /\ SetRevisionStatus(Rev(w), ClosingStatus(job[w].outcome))
  /\ \/ job[w].kind = "upload" /\ End(w)
     \/ /\ job[w].kind = "submit"
        /\ Goto(w, IF job[w].outcome = "passed" THEN "analyse" ELSE "report")
  /\ UNCHANGED interrupted

-----------------------------------------------------------------------------
(***************************************************************************)
(* inspect_revision: list the clean files, check them out (listing them    *)
(* again), rescan what lacks evidence, then run the offline parsers.       *)
(***************************************************************************)
ListFiles(w) ==
  /\ At(w, "list")
  /\ IF CleanFiles(Rev(w)) = {}
     THEN End(w)
     ELSE job' = [job EXCEPT ![w].pc = "materialize",
                    ![w].todo = {<<file[f].path, f>> : f \in CleanFiles(Rev(w))}]
  /\ UNCHANGED <<dbVars, interrupted>>

Materialize(w) ==
  /\ At(w, "materialize")
  /\ job' = [job EXCEPT ![w].seen = Listing(CleanFiles(Rev(w))),
                        ![w].pc = IF CleanFiles(Rev(w)) = {}
                                  THEN "report" ELSE "missing"]
  /\ UNCHANGED <<dbVars, interrupted>>

\* One query over every row; only the listed ones are rescanned.
FindMissing(w) ==
  LET missing == MissingInspections(Rev(w))
  IN /\ At(w, "missing")
     /\ job' = [job EXCEPT ![w].todo = {l \in @ : l[2] \in missing},
                           ![w].pc = IF missing = {} THEN "analyse" ELSE "begin"]
     /\ UNCHANGED <<dbVars, interrupted>>

CheckedOut(w, path) == \E s \in job[w].seen : s[1] = path

RescanFile(w) ==
  /\ At(w, "pick")
  /\ \E l \in job[w].todo : CheckedOut(w, l[1]) /\ Scan(w, l[2])
  /\ UNCHANGED <<dbVars, interrupted>>

\* The file is not in the checkout, or a scanner raised.
ScanUnavailable(w) ==
  /\ At(w, "pick")
  /\ job[w].todo # {}
  /\ job' = [job EXCEPT ![w].pc = "close", ![w].outcome = "error"]
  /\ UNCHANGED <<dbVars, interrupted>>

\* Seeded fault: returning without taking the revision out of "scanning".
RescanDoneInScanning(w) ==
  /\ At(w, "pick")
  /\ job[w].todo = {}
  /\ Goto(w, "analyse")
  /\ UNCHANGED <<dbVars, interrupted>>

RescanDone(w) ==
  /\ At(w, "pick")
  /\ job[w].todo = {}
  /\ job' = [job EXCEPT ![w].pc = "close", ![w].outcome = "passed"]
  /\ UNCHANGED <<dbVars, interrupted>>

\* The inspection failed before the parsers ran to their end.
ReportFailure(w) ==
  /\ At(w, "report")
  /\ SaveRevisionAnalysis(Rev(w), "failed", job[w].seen)
  /\ End(w)
  /\ UNCHANGED interrupted

\* The gateway goes on to finalize only if it still waits for the answer
\* (submit.ts gives inspection 120 seconds).
Analyse(w) ==
  /\ At(w, "analyse")
  /\ \/ SaveRevisionAnalysis(Rev(w), "failed", job[w].seen) /\ End(w)
     \/ /\ SaveRevisionAnalysis(Rev(w), "passed", job[w].seen)
        /\ Goto(w, "finalize") \/ End(w)
  /\ UNCHANGED interrupted

-----------------------------------------------------------------------------
(***************************************************************************)
(* finalize_revision and the policy service's publish.                     *)
(***************************************************************************)
Finalize(w) ==
  /\ At(w, "finalize")
  /\ Unlocked(Rev(w))
  /\ \/ ~Mutable(Rev(w)) /\ UNCHANGED dbVars /\ Goto(w, "evaluate")
     \/ FinalizeForPolicy(Rev(w)) /\ Goto(w, "evaluate")
     \/ Mutable(Rev(w)) /\ ~AllFilesClean(Rev(w)) /\ UNCHANGED dbVars /\ End(w)
  /\ UNCHANGED interrupted

\* publication_candidate and evaluate.
PolicyEvaluate(w) ==
  /\ At(w, "evaluate")
  /\ LockCandidate(Rev(w))
  /\ \E o \in {"passed", "failed"} :
       /\ o = "passed" => PolicyAccepts(Rev(w))
       /\ job' = [job EXCEPT ![w].pc = "apply", ![w].outcome = o]
  /\ UNCHANGED interrupted

\* Not in review any more: not found, or the signed decision is replayed.
PolicyDeclines(w) ==
  /\ At(w, "evaluate")
  /\ Unlocked(Rev(w))
  /\ revision[Rev(w)].status # "review"
  /\ End(w)
  /\ UNCHANGED <<dbVars, interrupted>>

\* apply_publication_decision; when publish_repository_revision raises, the
\* decision row goes with the transaction.
ApplyDecision(w) ==
  /\ At(w, "apply")
  /\ IF job[w].outcome # "passed" THEN BlockDecision(Rev(w))
     ELSE PublishDecision(Rev(w)) \/ (~PublishGate(Rev(w)) /\ Rollback)
  /\ End(w)
  /\ UNCHANGED interrupted

-----------------------------------------------------------------------------
\* DELETE files/[fileId]: the row, then the revision.
DeleteFile(w) ==
  /\ At(w, "delete")
  /\ DeleteRow(job[w].file)
  /\ Goto(w, "refresh")
  /\ UNCHANGED interrupted

DeleteRefused(w) ==
  /\ At(w, "delete")
  /\ \/ job[w].file \notin DOMAIN file
     \/ Unlocked(Rev(w)) /\ ~Mutable(Rev(w))
  /\ End(w)
  /\ UNCHANGED <<dbVars, interrupted>>

RefreshRevision(w) ==
  /\ At(w, "refresh")
  /\ RefreshAfterDelete(Rev(w))
  /\ End(w)
  /\ UNCHANGED interrupted

\* POST revisions: one transaction.
CreateCommit ==
  /\ \E r \in Revisions, F \in SUBSET (FileIds \ issued) :
       \E copyOf \in [F -> CleanFiles(head)] : CreateRepositoryCommit(r, copyOf)
  /\ UNCHANGED <<job, interrupted>>

-----------------------------------------------------------------------------
(***************************************************************************)
(* A database call raises midway: the revision was published meanwhile, or *)
(* the row whose verdict is recorded is gone.  The request ends there.     *)
(***************************************************************************)
Raises(w) ==
  \/ job[w].pc \in {"begin", "close", "refresh"} /\ StatusLocked(Rev(w))
  \/ At(w, "record") /\ job[w].file \notin DOMAIN file
  \/ At(w, "settle") /\ job[w].file \in DOMAIN file /\ ~Mutable(Rev(w))

Interrupt(w) ==
  /\ End(w)
  /\ interrupted' = interrupted \cup {Rev(w)}

Raise(w) ==
  /\ Raises(w)
  /\ Unlocked(Rev(w))
  /\ Interrupt(w)
  /\ UNCHANGED dbVars

\* A process dies, or a call it makes outside the database raises.  At
\* "apply" it is the policy service, and its transaction rolls back.
Crash(w) ==
  /\ Crashes
  /\ ~At(w, "idle")
  /\ IF At(w, "apply") THEN Rollback ELSE UNCHANGED dbVars
  /\ Interrupt(w)

-----------------------------------------------------------------------------
Work(w) ==
  \/ Register(w) \/ RegisterRefused(w)
  \/ BeginScan(w) \/ RecordVerdict(w) \/ Settle(w) \/ Close(w)
  \/ ListFiles(w) \/ Materialize(w) \/ FindMissing(w)
  \/ RescanFile(w) \/ ScanUnavailable(w) \/ RescanDone(w)
  \/ ReportFailure(w) \/ Analyse(w)
  \/ Finalize(w) \/ PolicyEvaluate(w) \/ PolicyDeclines(w) \/ ApplyDecision(w)
  \/ DeleteFile(w) \/ DeleteRefused(w) \/ RefreshRevision(w)
  \/ Raise(w)

Next ==
  \/ \E w \in Workers :
       \/ AdmitUpload(w) \/ AdmitDelete(w) \/ AdmitSubmit(w)
       \/ Work(w)
       \/ Crash(w)
  \/ CreateCommit

Spec == Init /\ [][Next]_vars

\* A request that was admitted goes on until it answers; nobody has to make
\* one, and nobody has to crash.  Strong fairness, for a step that waits for a
\* row lock: PostgreSQL grants a lock to its waiters in order.
FairSpec == Spec /\ \A w \in Workers : SF_vars(Work(w))
-----------------------------------------------------------------------------
(***************************************************************************)
(* Safety.                                                                 *)
(***************************************************************************)
Sealed(r) ==
  /\ AllFilesClean(r)
  /\ revision[r].manifest = Listing(FilesOf(r))

\* From finalize_for_policy on, and whatever uploads, rescans and deletions
\* were under way, a revision holds clean files only, and those of its recorded
\* manifest: the file trigger closes every window the unlocked calls leave.
SealedReleases ==
  \A r \in Revisions : revision[r].status \in LockedStatuses => Sealed(r)

\* A revision is published on a passed decision that names the very manifest
\* it holds, and no decision is signed "passed" for a revision that is not
\* published: apply_publication_decision records both or neither.
DecisionsMatch ==
  \A r \in Revisions :
    (revision[r].status = "published") <=>
      (/\ decision[r].outcome = "passed"
       /\ decision[r].manifest = Listing(FilesOf(r)))

\* Steps of a request that holds its revision in "scanning".
Holding(w) == job[w].pc \in {"pick", "record", "settle", "close"}

\* A revision in "scanning" accepts neither uploads nor deletions nor a new
\* commit, so somebody must still be going to take it out of that status,
\* unless a request died on it.
ScanningHasOwner ==
  \A r \in Revisions \ interrupted :
    revision[r].status = "scanning" => \E w \in Workers : Rev(w) = r /\ Holding(w)

\* A policy transaction never outlives the request it answers, and the
\* revision it holds is still in review: nobody moves a locked row.
CandidateHeld ==
  /\ candidate # 0 =>
       /\ revision[candidate].status = "review"
       /\ \E w \in Workers : Rev(w) = candidate /\ At(w, "apply")
  /\ \A w \in Workers : At(w, "apply") => candidate = Rev(w)

\* Whatever a request still in flight does, the rows of a published revision
\* stay the rows that were published.
KeepsReleases ==
  \A r \in Revisions :
    revision[r].status = "published" =>
      /\ revision'[r] = revision[r]
      /\ CleanFiles(r)' = CleanFiles(r)
      /\ Listing(FilesOf(r))' = Listing(FilesOf(r))

ReleaseImmutable == [][KeepsReleases]_vars

(***************************************************************************)
(* The catalog readers see, and the claim that the requests implement it.  *)
(***************************************************************************)
Served ==
  [r \in Revisions |->
     IF revision[r].status = "published" THEN Listing(CleanFiles(r)) ELSE {}]

Signed ==
  {<<r, decision[r].manifest>> :
     r \in {q \in Revisions : decision[q].outcome = "passed"}}

Cat == INSTANCE Catalog WITH
         RevisionIds <- Revisions, Manifests <- Listings,
         served <- Served, signed <- Signed, current <- latest

\* Readers only ever see the catalog of module Catalog.
CatalogSpec == Cat!Spec

(***************************************************************************)
(* Liveness.                                                               *)
(***************************************************************************)
\* No revision is left in "scanning" by requests that run to their end.
ScanningResolves ==
  \A r \in Revisions :
    (revision[r].status = "scanning") ~>
      (revision[r].status # "scanning" \/ r \in interrupted)

\* Every request answers: no request waits for ever for another's locks.
RequestsAnswer == \A w \in Workers : ~At(w, "idle") ~> At(w, "idle")

(***************************************************************************)
(* What the documents say, and the code does not do.                       *)
(***************************************************************************)
\* README: supported formats are parsed offline before publication.
PublishedFilesParsed ==
  \A r \in Revisions :
    revision[r].status = "published" =>
      Listing(FilesOf(r)) \subseteq analysis[r].saw
=============================================================================
