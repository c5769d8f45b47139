-------------------------- MODULE PublicationProofs --------------------------
(***************************************************************************)
(* TLAPS proofs about Publication, for every number of workers, revisions, *)
(* rows, paths and inspectors.                                             *)
(*                                                                         *)
(* The argument: guard_release_file_mutation makes every transaction keep  *)
(* the rows of a revision in review or published (Kept); what is recorded  *)
(* of such a revision therefore stays true of it.                          *)
(***************************************************************************)
EXTENDS Publication, TLAPS

(***************************************************************************)
(* The inductive invariant of the database.                                *)
(***************************************************************************)
Decided ==
  \A r \in Revisions :
    /\ (revision[r].status = "published") <=> (decision[r].outcome = "passed")
    /\ decision[r].outcome = "passed" =>
         decision[r].manifest = revision[r].manifest

DBInv == DBTypeOK /\ SealedReleases /\ Decided

\* The step leaves the rows of r, their verdicts apart, as they are.
Kept(r) ==
  /\ FilesOf(r)' = FilesOf(r)
  /\ \A f \in FilesOf(r) :
       /\ file'[f].path = file[f].path
       /\ file'[f].sha = file[f].sha
       /\ file'[f].storage = file[f].storage
       /\ file'[f].scan = file[f].scan

LockedKept ==
  \A r \in Revisions : revision[r].status \in LockedStatuses => Kept(r)

-----------------------------------------------------------------------------
\* Kept rows are clean, and listed, exactly when they were.
LEMMA KeptViews ==
  ASSUME NEW r \in Revisions, Kept(r)
  PROVE  /\ CleanFiles(r)' = CleanFiles(r)
         /\ Listing(FilesOf(r))' = Listing(FilesOf(r))
         /\ Listing(CleanFiles(r))' = Listing(CleanFiles(r))
<1>1. CleanFiles(r)' = CleanFiles(r)
  BY DEF Kept, CleanFiles, FilesOf
<1>2. CleanFiles(r) \subseteq FilesOf(r)
  BY DEF CleanFiles
<1>3. Listing(FilesOf(r))' = Listing(FilesOf(r))
  BY DEF Kept, Listing
<1>4. Listing(CleanFiles(r))' = Listing(CleanFiles(r))
  BY <1>1, <1>2 DEF Kept, Listing
<1>5. QED
  BY <1>1, <1>3, <1>4

\* A sealed revision whose rows and manifest stay is sealed.
LEMMA KeptSealed ==
  ASSUME NEW r \in Revisions, Kept(r), Sealed(r),
         revision'[r].manifest = revision[r].manifest
  PROVE  Sealed(r)'
<1>1. FilesOf(r)' = FilesOf(r)
  BY DEF Kept
<1>2. QED
  BY KeptViews, <1>1 DEF Sealed, AllFilesClean

\* What every transaction is shown to do.
CatalogStep == Cat!Next \/ UNCHANGED <<Served, Signed, latest>>

DBStep == DBInv' /\ KeepsReleases /\ CatalogStep

\* A transaction that keeps the rows of locked revisions and moves only
\* unpublished ones, to statuses that are not locked.
LEMMA QuietStep ==
  ASSUME DBInv, DBTypeOK', LockedKept,
         UNCHANGED <<decision, latest>>,
         \A r \in Revisions :
           \/ revision'[r] = revision[r]
           \/ /\ revision[r].status # "published"
              /\ revision'[r].status \notin LockedStatuses
  PROVE  DBStep
<1>1. SealedReleases'
  <2> SUFFICES ASSUME NEW r \in Revisions, revision'[r].status \in LockedStatuses
               PROVE  Sealed(r)'
    BY DEF SealedReleases, LockedStatuses
  <2>1. revision'[r] = revision[r]
    OBVIOUS
  <2>2. Kept(r) /\ Sealed(r)
    BY <2>1 DEF DBInv, SealedReleases, LockedKept
  <2>3. QED
    BY <2>1, <2>2, KeptSealed
<1>2. Decided'
  <2> SUFFICES ASSUME NEW r \in Revisions
               PROVE  /\ (revision'[r].status = "published")
                           <=> (decision[r].outcome = "passed")
                      /\ decision[r].outcome = "passed" =>
                           decision[r].manifest = revision'[r].manifest
    BY DEF Decided
  <2>1. CASE revision'[r] = revision[r]
    BY <2>1 DEF DBInv, Decided
  <2>2. CASE /\ revision[r].status # "published"
             /\ revision'[r].status \notin LockedStatuses
    BY <2>2 DEF DBInv, Decided, LockedStatuses
  <2>3. QED
    BY <2>1, <2>2
<1>3. \A r \in Revisions :
        (revision'[r].status = "published") <=> (revision[r].status = "published")
  BY DEF LockedStatuses
<1>4. KeepsReleases
  <2> SUFFICES ASSUME NEW r \in Revisions, revision[r].status = "published"
               PROVE  /\ revision'[r] = revision[r]
                      /\ CleanFiles(r)' = CleanFiles(r)
                      /\ Listing(FilesOf(r))' = Listing(FilesOf(r))
    BY DEF KeepsReleases
  <2>1. Kept(r)
    BY DEF LockedKept, LockedStatuses
  <2>2. QED
    BY <2>1, KeptViews
<1>5. CatalogStep
  <2>1. \A r \in Revisions : revision[r].status = "published" =>
          Listing(CleanFiles(r))' = Listing(CleanFiles(r))
    BY KeptViews DEF LockedKept, LockedStatuses
  <2>2. UNCHANGED Served
    BY <1>3, <2>1 DEF Served
  <2>3. UNCHANGED Signed
    BY DEF Signed
  <2>4. QED
    BY <2>2, <2>3 DEF CatalogStep
<1>6. QED
  BY <1>1, <1>2, <1>4, <1>5 DEF DBInv, DBStep

-----------------------------------------------------------------------------
(***************************************************************************)
(* One lemma per transaction of RevisionStore.                             *)
(***************************************************************************)
\* The quiet steps on the revisions: a transaction that writes file rows only.
LEMMA RowsStep ==
  ASSUME DBInv, DBTypeOK', LockedKept, UNCHANGED <<revision, decision, latest>>
  PROVE  DBStep
BY QuietStep

LEMMA RegisterInv ==
  ASSUME NEW f \in FileIds, NEW r \in Revisions, NEW p \in Paths,
         DBInv, RegisterStagedFile(f, r, p)
  PROVE  DBStep
<1> USE DEF DBInv
<1>1. NewRow(r, p, f, "pending") \in Row
  BY DEF NewRow, Row, Unscanned
<1>2. DBTypeOK'
  <2>1. /\ DOMAIN file' \subseteq issued'
        /\ file' \in [DOMAIN file' -> Row]
    BY <1>1 DEF RegisterStagedFile, PutRow, DBTypeOK
  <2>2. revision' \in [Revisions -> [status : Statuses, manifest : Listings]]
    BY DEF RegisterStagedFile, DBTypeOK, Statuses
  <2>3. issued' \subseteq FileIds
    BY DEF RegisterStagedFile, DBTypeOK
  <2>4. QED
    BY <2>1, <2>2, <2>3 DEF RegisterStagedFile, FilesChange, DBTypeOK
<1>3. f \notin DOMAIN file /\ Mutable(r)
  BY DEF RegisterStagedFile, CanInsert, DBTypeOK
<1>4. LockedKept
  <2> SUFFICES ASSUME NEW q \in Revisions, revision[q].status \in LockedStatuses
               PROVE  Kept(q)
    BY DEF LockedKept
  <2>1. q # r
    BY <1>3 DEF Mutable
  <2>2. QED
    BY <2>1, <1>3 DEF Kept, FilesOf, RegisterStagedFile, PutRow, NewRow
<1>5. \A q \in Revisions :
        \/ revision'[q] = revision[q]
        \/ /\ revision[q].status # "published"
           /\ revision'[q].status \notin LockedStatuses
  BY <1>3 DEF RegisterStagedFile, Mutable, LockedStatuses, DBTypeOK
<1>6. UNCHANGED <<decision, latest>>
  BY DEF RegisterStagedFile, FilesChange
<1>7. QED
  BY <1>2, <1>4, <1>5, <1>6, QuietStep

\* Every status the unlocked requests write.
LEMMA SetStatusInv ==
  ASSUME NEW r \in Revisions, NEW s \in Statuses \ LockedStatuses,
         DBInv, SetRevisionStatus(r, s)
  PROVE  DBStep
<1> USE DEF DBInv
<1>1. DBTypeOK'
  BY DEF SetRevisionStatus, FilesChange, DBTypeOK
<1>2. LockedKept
  BY DEF SetRevisionStatus, LockedKept, Kept, FilesOf
<1>3. \A q \in Revisions :
        \/ revision'[q] = revision[q]
        \/ /\ revision[q].status # "published"
           /\ revision'[q].status \notin LockedStatuses
  BY DEF SetRevisionStatus, StatusLocked, DBTypeOK
<1>4. UNCHANGED <<decision, latest>>
  BY DEF SetRevisionStatus, FilesChange
<1>5. QED
  BY <1>1, <1>2, <1>3, <1>4, QuietStep

LEMMA RecordInspectionInv ==
  ASSUME NEW f, NEW i \in Inspectors, NEW v \in Verdicts,
         DBInv, RecordInspection(f, i, v)
  PROVE  DBStep
<1> USE DEF DBInv
<1>1. DBTypeOK'
  <2>1. f \in DOMAIN file /\ file[f] \in Row
    BY DEF RecordInspection, DBTypeOK
  <2>2. file' = [file EXCEPT ![f] = [file[f] EXCEPT !.verdict[i] = v]]
    BY DEF RecordInspection
  <2>3. [file[f] EXCEPT !.verdict[i] = v] \in Row
    BY <2>1 DEF Row
  <2>4. file' \in [DOMAIN file -> Row] /\ DOMAIN file' = DOMAIN file
    BY <2>1, <2>2, <2>3 DEF DBTypeOK
  <2>5. QED
    BY <2>4 DEF RecordInspection, FilesChange, DBTypeOK
<1>2. LockedKept
  BY DEF RecordInspection, LockedKept, Kept, FilesOf, DBTypeOK, Row
<1>3. QED
  BY <1>1, <1>2, RowsStep DEF RecordInspection, FilesChange

LEMMA MarkFileInv ==
  ASSUME NEW f, NEW st \in {"quarantine", "available", "rejected"},
         NEW sc \in {"clean", "failed", "error"},
         DBInv, MarkFile(f, st, sc)
  PROVE  DBStep
<1> USE DEF DBInv
<1>1. CASE f \notin DOMAIN file
  <2>1. UNCHANGED <<revision, file, issued, analysis, decision, head, latest,
                    candidate>>
    BY <1>1 DEF MarkFile, FilesChange
  <2>2. DBTypeOK' /\ LockedKept
    BY <2>1 DEF DBTypeOK, LockedKept, Kept, FilesOf
  <2>3. QED
    BY <2>1, <2>2, RowsStep
<1>2. CASE f \in DOMAIN file
  <2>1. PutRow(f, [file[f] EXCEPT !.storage = st, !.scan = sc])
    BY <1>2 DEF MarkFile
  <2>2. [file[f] EXCEPT !.storage = st, !.scan = sc] \in Row
    <3>1. file[f] \in Row
      BY <1>2 DEF DBTypeOK
    <3>2. QED
      BY <3>1 DEF Row
  <2>3. file' \in [DOMAIN file -> Row] /\ DOMAIN file' = DOMAIN file
    BY <1>2, <2>1, <2>2 DEF DBTypeOK, PutRow
  <2>4. DBTypeOK'
    BY <2>3 DEF MarkFile, FilesChange, DBTypeOK
  <2>5. revision[file[f].revision].status \notin LockedStatuses
    BY <1>2 DEF MarkFile, Writable, Mutable
  <2>6. LockedKept
    <3> SUFFICES ASSUME NEW q \in Revisions, revision[q].status \in LockedStatuses
                 PROVE  Kept(q)
      BY DEF LockedKept
    <3>1. file[f].revision # q
      BY <2>5
    <3>2. file'[f].revision = file[f].revision
      <4>1. file'[f] = [file[f] EXCEPT !.storage = st, !.scan = sc]
        BY <1>2, <2>1 DEF PutRow
      <4>2. file[f] \in Row
        BY <1>2 DEF DBTypeOK
      <4>3. QED
        BY <4>1, <4>2 DEF Row
    <3>3. \A g \in DOMAIN file : g # f => file'[g] = file[g]
      BY <1>2, <2>1 DEF PutRow
    <3>4. QED
      BY <3>1, <3>2, <3>3, <2>3 DEF Kept, FilesOf
  <2>7. QED
    BY <2>4, <2>6, RowsStep DEF MarkFile, FilesChange
<1>3. QED
  BY <1>1, <1>2

LEMMA DeleteRowInv ==
  ASSUME NEW f, DBInv, DeleteRow(f)
  PROVE  DBStep
<1> USE DEF DBInv
<1>1. DOMAIN file' = DOMAIN file \ {f} /\ \A g \in DOMAIN file' : file'[g] = file[g]
  BY DEF DeleteRow
<1>2. DBTypeOK'
  <2>1. file' \in [DOMAIN file' -> Row]
    BY DEF DeleteRow, DBTypeOK
  <2>2. QED
    BY <1>1, <2>1 DEF DeleteRow, FilesChange, DBTypeOK
<1>3. LockedKept
  BY <1>1 DEF LockedKept, Kept, FilesOf, DeleteRow, Writable, Mutable
<1>4. QED
  BY <1>2, <1>3, RowsStep DEF DeleteRow, FilesChange
LEMMA SaveAnalysisInv ==
  ASSUME NEW r \in Revisions, NEW s \in {"passed", "failed"}, NEW saw \in Listings,
         DBInv, SaveRevisionAnalysis(r, s, saw)
  PROVE  DBStep
<1> USE DEF DBInv
<1>1. DBTypeOK'
  BY DEF SaveRevisionAnalysis, DBTypeOK
<1>2. LockedKept
  BY DEF SaveRevisionAnalysis, LockedKept, Kept, FilesOf
<1>3. QED
  BY <1>1, <1>2, RowsStep DEF SaveRevisionAnalysis

LEMMA LockInv ==
  ASSUME NEW r \in Revisions, DBInv, LockCandidate(r)
  PROVE  DBStep
<1> USE DEF DBInv
<1>1. DBTypeOK'
  BY DEF LockCandidate, DBTypeOK
<1>2. LockedKept
  BY DEF LockCandidate, LockedKept, Kept, FilesOf
<1>3. QED
  BY <1>1, <1>2, RowsStep DEF LockCandidate

LEMMA RollbackInv ==
  ASSUME DBInv, Rollback
  PROVE  DBStep
<1> USE DEF DBInv
<1>1. DBTypeOK'
  BY DEF Rollback, Release, DBTypeOK
<1>2. LockedKept
  BY DEF Rollback, LockedKept, Kept, FilesOf
<1>3. QED
  BY <1>1, <1>2, RowsStep DEF Rollback

LEMMA UnchangedInv ==
  ASSUME DBInv, UNCHANGED dbVars
  PROVE  DBStep
<1> USE DEF DBInv
<1>1. DBTypeOK'
  BY DEF dbVars, DBTypeOK
<1>2. LockedKept
  BY DEF dbVars, LockedKept, Kept, FilesOf
<1>3. QED
  BY <1>1, <1>2, RowsStep DEF dbVars

\* The rows listed are rows of the table, so a listing is a set of entries.
LEMMA ListingType ==
  ASSUME DBTypeOK, NEW F \in SUBSET DOMAIN file
  PROVE  Listing(F) \in Listings
<1> SUFFICES ASSUME NEW f \in F
             PROVE  <<file[f].path, file[f].sha>> \in Paths \X FileIds
  BY DEF Listing, Listings
<1>1. file[f] \in Row
  BY DEF DBTypeOK
<1>2. QED
  BY <1>1 DEF Row

LEMMA FinalizeInv ==
  ASSUME NEW r \in Revisions, DBInv, FinalizeForPolicy(r)
  PROVE  DBStep
<1> USE DEF DBInv
<1>1. Listing(FilesOf(r)) \in Listings
  BY ListingType DEF FilesOf
<1>2. DBTypeOK'
  BY <1>1 DEF FinalizeForPolicy, FilesChange, DBTypeOK, Statuses
<1>3. /\ revision'[r] = [status |-> "review", manifest |-> Listing(FilesOf(r))]
      /\ \A q \in Revisions \ {r} : revision'[q] = revision[q]
      /\ UNCHANGED <<file, decision, latest>>
      /\ revision[r].status \notin LockedStatuses
  BY DEF FinalizeForPolicy, FilesChange, DBTypeOK, Writable, Mutable
<1>4. \A q \in Revisions : Kept(q)
  BY <1>3 DEF Kept, FilesOf
<1>5. SealedReleases'
  <2> SUFFICES ASSUME NEW q \in Revisions, revision'[q].status \in LockedStatuses
               PROVE  Sealed(q)'
    BY DEF SealedReleases, LockedStatuses
  <2>1. CASE q = r
    <3>1. AllFilesClean(r)'
      BY <1>3 DEF FinalizeForPolicy, AllFilesClean, CleanFiles, FilesOf
    <3>2. Listing(FilesOf(r))' = Listing(FilesOf(r))
      BY <1>4, KeptViews
    <3>3. QED
      BY <2>1, <3>1, <3>2, <1>3 DEF Sealed
  <2>2. CASE q # r
    BY <2>2, <1>3, <1>4, KeptSealed DEF SealedReleases
  <2>3. QED
    BY <2>1, <2>2
<1>6. Decided'
  BY <1>3 DEF Decided, LockedStatuses
<1>7. \A q \in Revisions :
        (revision'[q].status = "published") <=> (revision[q].status = "published")
  BY <1>3 DEF LockedStatuses
<1>8. KeepsReleases
  BY <1>3, <1>4, KeptViews DEF KeepsReleases, LockedStatuses
<1>9. CatalogStep
  BY <1>3, <1>4, <1>7, KeptViews DEF CatalogStep, Served, Signed
<1>10. QED
  BY <1>2, <1>5, <1>6, <1>8, <1>9 DEF DBStep

LEMMA BlockInv ==
  ASSUME NEW r \in Revisions, DBInv, BlockDecision(r)
  PROVE  DBStep
<1> USE DEF DBInv
<1>1. revision[r] \in [status : Statuses, manifest : Listings]
  BY DEF DBTypeOK
<1>2. DBTypeOK'
  <2>1. revision[r].manifest \in Listings
    BY <1>1
  <2>2. [outcome |-> "blocked", manifest |-> revision[r].manifest]
          \in [outcome : {"none", "passed", "blocked"}, manifest : Listings]
    BY <2>1
  <2>3. decision' \in [Revisions -> [outcome  : {"none", "passed", "blocked"},
                                     manifest : Listings]]
    BY <2>2 DEF BlockDecision, DBTypeOK
  <2>4. revision' \in [Revisions -> [status : Statuses, manifest : Listings]]
    BY DEF BlockDecision, DBTypeOK, Statuses
  <2>5. QED
    BY <2>3, <2>4 DEF BlockDecision, Release, DBTypeOK
<1>3. /\ revision[r].status = "review"
      /\ revision'[r].status = "quarantined"
      /\ decision'[r].outcome = "blocked"
      /\ \A q \in Revisions \ {r} : revision'[q] = revision[q] /\ decision'[q] = decision[q]
      /\ UNCHANGED <<file, latest>>
  BY DEF BlockDecision, DBTypeOK
<1>4. \A q \in Revisions : Kept(q)
  BY <1>3 DEF Kept, FilesOf
<1>5. SealedReleases'
  <2> SUFFICES ASSUME NEW q \in Revisions, revision'[q].status \in LockedStatuses
               PROVE  Sealed(q)'
    BY DEF SealedReleases, LockedStatuses
  <2>1. q # r
    BY <1>3 DEF LockedStatuses
  <2>2. QED
    BY <2>1, <1>3, <1>4, KeptSealed DEF SealedReleases
<1>6. Decided'
  BY <1>3 DEF Decided
<1>7. \A q \in Revisions :
        (revision'[q].status = "published") <=> (revision[q].status = "published")
  BY <1>3
<1>8. KeepsReleases
  BY <1>3, <1>4, KeptViews DEF KeepsReleases
<1>9. CatalogStep
  <2>1. UNCHANGED Served
    BY <1>4, <1>7, KeptViews DEF Served
  <2>2. decision[r].outcome # "passed"
    BY <1>3 DEF Decided
  <2>3. {q \in Revisions : decision'[q].outcome = "passed"}
          = {q \in Revisions : decision[q].outcome = "passed"}
    BY <1>3, <2>2
  <2>4. UNCHANGED Signed
    BY <1>3, <2>2, <2>3 DEF Signed
  <2>5. QED
    BY <1>3, <2>1, <2>4 DEF CatalogStep
<1>10. QED
  BY <1>2, <1>5, <1>6, <1>8, <1>9 DEF DBStep

\* The publishing transaction is the catalog's Publish.
LEMMA PublishInv ==
  ASSUME NEW r \in Revisions, DBInv, PublishDecision(r)
  PROVE  DBStep
<1> USE DEF DBInv
<1>1. revision[r] \in [status : Statuses, manifest : Listings]
  BY DEF DBTypeOK
<1> DEFINE m == revision[r].manifest
<1>2. m \in Listings
  BY <1>1
<1>3. /\ revision[r].status = "review"
      /\ revision'[r] = [revision[r] EXCEPT !.status = "published"]
      /\ decision'[r] = [outcome |-> "passed", manifest |-> m]
      /\ \A q \in Revisions \ {r} : revision'[q] = revision[q] /\ decision'[q] = decision[q]
      /\ UNCHANGED file
      /\ latest' = r
  BY DEF PublishDecision, PublishGate, DBTypeOK
<1>4. revision'[r].status = "published" /\ revision'[r].manifest = m
  BY <1>1, <1>3
<1>5. DBTypeOK'
  <2>1. decision' \in [Revisions -> [outcome  : {"none", "passed", "blocked"},
                                     manifest : Listings]]
    BY <1>2 DEF PublishDecision, DBTypeOK
  <2>2. revision' \in [Revisions -> [status : Statuses, manifest : Listings]]
    BY DEF PublishDecision, DBTypeOK, Statuses
  <2>3. QED
    BY <2>1, <2>2 DEF PublishDecision, Release, DBTypeOK
<1>6. \A q \in Revisions : Kept(q)
  BY <1>3 DEF Kept, FilesOf
<1>7. Sealed(r) /\ m # {}
  <2>1. AllFilesClean(r) /\ m = Listing(FilesOf(r))
    BY DEF PublishDecision, PublishGate
  <2>2. QED
    BY <2>1 DEF Sealed, AllFilesClean, Listing
<1>8. SealedReleases'
  <2> SUFFICES ASSUME NEW q \in Revisions, revision'[q].status \in LockedStatuses
               PROVE  Sealed(q)'
    BY DEF SealedReleases, LockedStatuses
  <2>1. CASE q = r
    BY <2>1, <1>4, <1>6, <1>7, KeptSealed
  <2>2. CASE q # r
    BY <2>2, <1>3, <1>6, KeptSealed DEF SealedReleases
  <2>3. QED
    BY <2>1, <2>2
<1>9. Decided'
  <2> SUFFICES ASSUME NEW q \in Revisions
               PROVE  /\ (revision'[q].status = "published")
                           <=> (decision'[q].outcome = "passed")
                      /\ decision'[q].outcome = "passed" =>
                           decision'[q].manifest = revision'[q].manifest
    BY DEF Decided
  <2>1. CASE q = r
    BY <2>1, <1>3, <1>4
  <2>2. CASE q # r
    BY <2>2, <1>3 DEF Decided
  <2>3. QED
    BY <2>1, <2>2
<1>10. KeepsReleases
  BY <1>3, <1>6, KeptViews DEF KeepsReleases
<1>11. CatalogStep
  <2>1. Served[r] = {}
    BY <1>3 DEF Served
  <2>2. Listing(CleanFiles(r))' = m
    <3>1. Listing(CleanFiles(r)) = m
      BY DEF PublishDecision, PublishGate, AllFilesClean
    <3>2. QED
      BY <3>1, <1>6, KeptViews
  <2>3. Served' = [Served EXCEPT ![r] = m]
    <3>1. \A q \in Revisions \ {r} : Served'[q] = Served[q]
      BY <1>3, <1>6, KeptViews DEF Served
    <3>2. Served'[r] = m
      BY <1>4, <2>2 DEF Served
    <3>3. QED
      BY <3>1, <3>2 DEF Served
  <2>4. Signed' = Signed \cup {<<r, m>>}
    <3>1. decision[r].outcome # "passed"
      BY <1>3 DEF Decided
    <3>2. {q \in Revisions : decision'[q].outcome = "passed"}
            = {q \in Revisions : decision[q].outcome = "passed"} \cup {r}
      BY <1>3
    <3>3. decision'[r].manifest = m
      BY <1>3
    <3>4. QED
      BY <1>3, <3>1, <3>2, <3>3 DEF Signed
  <2>5. m \in Listings \ {{}}
    BY <1>2, <1>7
  <2>6. Cat!Publish(r)
    BY <1>3, <2>1, <2>3, <2>4, <2>5 DEF Cat!Publish
  <2>7. QED
    BY <1>2, <2>6 DEF CatalogStep, Cat!Next
<1>12. QED
  BY <1>5, <1>8, <1>9, <1>10, <1>11 DEF DBStep

LEMMA CommitInv ==
  ASSUME NEW r \in Revisions, NEW F \in SUBSET (FileIds \ issued),
         NEW copyOf \in [F -> CleanFiles(head)],
         DBInv, CreateRepositoryCommit(r, copyOf)
  PROVE  DBStep
<1> USE DEF DBInv
<1>1. DOMAIN copyOf = F
  OBVIOUS
<1>2. \A f \in F : copyOf[f] \in DOMAIN file
  BY DEF CleanFiles, FilesOf
<1>3. /\ DOMAIN file' = DOMAIN file \cup F
      /\ \A f \in F : file'[f] = CopiedRow(copyOf[f], r)
      /\ \A f \in DOMAIN file \ F : file'[f] = file[f]
  BY <1>1 DEF CreateRepositoryCommit
<1>4. F \cap DOMAIN file = {}
  BY DEF DBTypeOK
<1>5. \A f \in F : CopiedRow(copyOf[f], r) \in Row /\ CopiedRow(copyOf[f], r).revision = r
  <2> SUFFICES ASSUME NEW f \in F
               PROVE  /\ CopiedRow(copyOf[f], r) \in Row
                      /\ CopiedRow(copyOf[f], r).revision = r
    OBVIOUS
  <2>1. file[copyOf[f]] \in Row
    BY <1>2 DEF DBTypeOK
  <2>2. Unscanned \in [Inspectors -> Verdicts \cup {"none"}]
    BY DEF Unscanned
  <2>3. QED
    BY <2>1, <2>2 DEF CopiedRow, Row
<1>6. DBTypeOK'
  <2>1. file' \in [DOMAIN file' -> Row]
    <3>1. \A f \in DOMAIN file' : file'[f] \in Row
      BY <1>3, <1>5 DEF DBTypeOK
    <3>2. file' = [f \in DOMAIN file' |-> file'[f]]
      BY <1>1, <1>3 DEF CreateRepositoryCommit
    <3>3. QED
      BY <3>1, <3>2
  <2>2. issued' = issued \cup F /\ DOMAIN file' \subseteq issued'
    BY <1>1, <1>3 DEF CreateRepositoryCommit, DBTypeOK
  <2>3. revision' \in [Revisions -> [status : Statuses, manifest : Listings]]
    BY DEF CreateRepositoryCommit, DBTypeOK, Statuses
  <2>4. QED
    BY <2>1, <2>2, <2>3 DEF CreateRepositoryCommit, DBTypeOK
<1>7. LockedKept
  <2> SUFFICES ASSUME NEW q \in Revisions, revision[q].status \in LockedStatuses
               PROVE  Kept(q)
    BY DEF LockedKept
  <2>1. q # r
    BY DEF CreateRepositoryCommit, LockedStatuses
  <2>2. FilesOf(q)' = FilesOf(q)
    BY <1>3, <1>4, <1>5, <2>1 DEF FilesOf
  <2>3. QED
    BY <2>2, <1>3, <1>4 DEF Kept, FilesOf
<1>8. \A q \in Revisions :
        \/ revision'[q] = revision[q]
        \/ /\ revision[q].status # "published"
           /\ revision'[q].status \notin LockedStatuses
  BY DEF CreateRepositoryCommit, LockedStatuses, DBTypeOK
<1>9. UNCHANGED <<decision, latest>>
  BY DEF CreateRepositoryCommit
<1>10. QED
  BY <1>6, <1>7, <1>8, <1>9, QuietStep
-----------------------------------------------------------------------------
(***************************************************************************)
(* The requests.  JobsOK is the part of TypeOK about them.                 *)
(***************************************************************************)
JobsOK == job \in [Workers -> Jobs]

LEMMA RequestType ==
  ASSUME NEW r \in Revisions, NEW f \in FileIds \cup {NoFile},
         NEW k \in {"none", "upload", "submit", "delete"}, NEW pc \in Steps
  PROVE  Request(k, pc, r, f) \in Jobs
BY DEF Request, Jobs, Outcomes, Listings

LEMMA NoJobType == NoJob \in Jobs
<1>1. 1 \in Revisions
  BY RevisionBound DEF Revisions
<1>2. QED
  BY <1>1, RequestType DEF NoJob, Steps

LEMMA EndType ==
  ASSUME NEW w \in Workers, JobsOK, End(w)
  PROVE  JobsOK'
BY NoJobType DEF End, JobsOK

LEMMA GotoType ==
  ASSUME NEW w \in Workers, JobsOK, NEW pc \in Steps, Goto(w, pc)
  PROVE  JobsOK'
BY DEF Goto, JobsOK, Jobs

LEMMA ScanType ==
  ASSUME NEW w \in Workers, JobsOK, NEW f \in FileIds \cup {NoFile}, Scan(w, f)
  PROVE  JobsOK'
<1>1. PICK v \in [Inspectors -> Verdicts], o \in Outcomes :
        job' = [job EXCEPT ![w].pc = "record",
                           ![w].file = f,
                           ![w].todo = {l \in @ : l[2] # f},
                           ![w].pending = {<<i, v[i]>> : i \in Inspectors},
                           ![w].outcome = o]
  BY DEF Scan
<1>2. {<<i, v[i]>> : i \in Inspectors} \subseteq Inspectors \X Verdicts
  OBVIOUS
<1>3. job[w] \in Jobs
  BY DEF JobsOK
<1>4. {l \in job[w].todo : l[2] # f} \in Listings
  BY <1>3 DEF Jobs, Listings
<1>5. QED
  BY <1>1, <1>2, <1>3, <1>4 DEF JobsOK, Jobs, Steps

\* Every step is a safe step of the database, and keeps the requests' types.
StepOK == DBStep /\ JobsOK' /\ interrupted' \subseteq Revisions

LEMMA AdmitStep ==
  ASSUME NEW w \in Workers, DBInv, JobsOK, interrupted \subseteq Revisions,
         AdmitUpload(w) \/ AdmitDelete(w) \/ AdmitSubmit(w)
  PROVE  StepOK
<1>1. head \in Revisions /\ \A f \in FilesOf(head) : f \in FileIds
  BY DEF DBInv, DBTypeOK, FilesOf
<1>2. \A j \in Jobs : Admit(w, j) => StepOK
  <2> SUFFICES ASSUME NEW j \in Jobs, Admit(w, j) PROVE StepOK
    OBVIOUS
  <2>1. JobsOK'
    BY DEF Admit, JobsOK
  <2>2. QED
    BY <2>1, UnchangedInv DEF Admit, StepOK
<1>3. CASE AdmitUpload(w)
  BY <1>1, <1>2, <1>3, RequestType DEF AdmitUpload, Steps
<1>4. CASE AdmitDelete(w)
  BY <1>1, <1>2, <1>4, RequestType DEF AdmitDelete, Steps
<1>5. CASE AdmitSubmit(w)
  BY <1>1, <1>2, <1>5, RequestType DEF AdmitSubmit, Steps
<1>6. QED
  BY <1>3, <1>4, <1>5

\* process_upload and rescan_revision_files.
LEMMA ScanningStep ==
  ASSUME NEW w \in Workers, DBInv, JobsOK, interrupted \subseteq Revisions,
         \/ Register(w) \/ RegisterRefused(w) \/ BeginScan(w)
         \/ RecordVerdict(w) \/ Settle(w) \/ Close(w)
  PROVE  StepOK
<1>1. job[w] \in Jobs
  BY DEF JobsOK
<1>2. Rev(w) \in Revisions
  BY <1>1 DEF Rev, Jobs
<1>3. CASE Register(w)
  <2>1. PICK f \in FileIds, p \in Paths :
          /\ RegisterStagedFile(f, Rev(w), p)
          /\ job' = [job EXCEPT ![w].pc = "begin", ![w].file = f]
    BY <1>3 DEF Register
  <2>2. JobsOK'
    BY <2>1, <1>1 DEF JobsOK, Jobs, Steps
  <2>3. QED
    BY <1>2, <1>3, <2>1, <2>2, RegisterInv DEF Register, StepOK
<1>4. CASE RegisterRefused(w)
  BY <1>4, EndType, UnchangedInv DEF RegisterRefused, StepOK
<1>5. CASE BeginScan(w)
  <2>1. DBStep
    BY <1>2, <1>5, SetStatusInv DEF BeginScan, Statuses, LockedStatuses
  <2>2. JobsOK'
    <3>1. job[w].file \in FileIds \cup {NoFile}
      BY <1>1 DEF Jobs
    <3>2. QED
      BY <1>5, <3>1, ScanType, GotoType DEF BeginScan, Steps
  <2>3. QED
    BY <1>5, <2>1, <2>2 DEF BeginScan, StepOK
<1>6. CASE RecordVerdict(w)
  <2>1. PICK p \in job[w].pending :
          /\ RecordInspection(job[w].file, p[1], p[2])
          /\ job' = [job EXCEPT ![w].pending = @ \ {p},
                                ![w].pc = IF job[w].pending = {p}
                                          THEN AfterRecording(w) ELSE @]
    BY <1>6 DEF RecordVerdict
  <2>2. job[w].pending \subseteq Inspectors \X Verdicts
    BY <1>1 DEF Jobs
  <2>3. p[1] \in Inspectors /\ p[2] \in Verdicts
    BY <2>2
  <2>4. JobsOK'
    BY <2>1, <2>2, <1>1 DEF JobsOK, Jobs, Steps, AfterRecording
  <2>5. QED
    BY <1>6, <2>1, <2>3, <2>4, RecordInspectionInv DEF RecordVerdict, StepOK
<1>7. CASE Settle(w)
  <2>1. DBStep
    <3>1. job[w].outcome \in {"passed", "failed", "error"}
      BY <1>1 DEF Jobs, Outcomes
    <3>2. CASE job[w].outcome = "failed"
      BY <3>2, <1>7, MarkFileInv DEF Settle
    <3>3. CASE job[w].outcome = "error"
      BY <3>3, <1>7, MarkFileInv DEF Settle
    <3>4. CASE job[w].outcome = "passed"
      BY <3>4, <1>7, MarkFileInv DEF Settle
    <3>5. QED
      BY <3>1, <3>2, <3>3, <3>4
  <2>2. JobsOK'
    BY <1>7, GotoType DEF Settle, Steps
  <2>3. QED
    BY <1>7, <2>1, <2>2 DEF Settle, StepOK
<1>8. CASE Close(w)
  <2>1. ClosingStatus(job[w].outcome) \in Statuses \ LockedStatuses
    BY DEF ClosingStatus, Statuses, LockedStatuses
  <2>2. JobsOK'
    BY <1>8, EndType, GotoType DEF Close, Steps
  <2>3. QED
    BY <1>2, <1>8, <2>1, <2>2, SetStatusInv DEF Close, StepOK
<1>9. QED
  BY <1>3, <1>4, <1>5, <1>6, <1>7, <1>8
\* inspect_revision.
LEMMA InspectionStep ==
  ASSUME NEW w \in Workers, DBInv, JobsOK, interrupted \subseteq Revisions,
         \/ ListFiles(w) \/ Materialize(w) \/ FindMissing(w)
         \/ RescanFile(w) \/ ScanUnavailable(w) \/ RescanDone(w)
         \/ ReportFailure(w) \/ Analyse(w)
  PROVE  StepOK
<1>1. job[w] \in Jobs
  BY DEF JobsOK
<1>2. Rev(w) \in Revisions /\ job[w].seen \in Listings
  BY <1>1 DEF Rev, Jobs
<1>3. CleanFiles(Rev(w)) \subseteq DOMAIN file
  BY DEF CleanFiles, FilesOf
<1>4. \A F \in SUBSET DOMAIN file : {<<file[f].path, f>> : f \in F} \in Listings
  <2> SUFFICES ASSUME NEW F \in SUBSET DOMAIN file, NEW f \in F
               PROVE  <<file[f].path, f>> \in Paths \X FileIds
    BY DEF Listings
  <2>1. file[f] \in Row /\ f \in FileIds
    BY DEF DBInv, DBTypeOK
  <2>2. QED
    BY <2>1 DEF Row
<1>5. CASE ListFiles(w)
  <2>1. JobsOK'
    <3>1. CASE CleanFiles(Rev(w)) = {}
      BY <3>1, <1>5, EndType DEF ListFiles
    <3>2. CASE CleanFiles(Rev(w)) # {}
      BY <3>2, <1>1, <1>3, <1>4, <1>5 DEF ListFiles, JobsOK, Jobs, Steps
    <3>3. QED
      BY <3>1, <3>2
  <2>2. QED
    BY <1>5, <2>1, UnchangedInv DEF ListFiles, StepOK
<1>6. CASE Materialize(w)
  <2>1. Listing(CleanFiles(Rev(w))) \in Listings
    BY <1>3, ListingType DEF DBInv
  <2>2. JobsOK'
    BY <1>1, <1>6, <2>1 DEF Materialize, JobsOK, Jobs, Steps
  <2>3. QED
    BY <1>6, <2>2, UnchangedInv DEF Materialize, StepOK
<1>7. CASE FindMissing(w)
  <2>1. {l \in job[w].todo : l[2] \in MissingInspections(Rev(w))} \in Listings
    BY <1>1 DEF Jobs, Listings
  <2>2. JobsOK'
    BY <1>1, <1>7, <2>1 DEF FindMissing, JobsOK, Jobs, Steps
  <2>3. QED
    BY <1>7, <2>2, UnchangedInv DEF FindMissing, StepOK
<1>8. CASE RescanFile(w)
  <2>1. PICK l \in job[w].todo : Scan(w, l[2])
    BY <1>8 DEF RescanFile
  <2>2. l[2] \in FileIds
    BY <1>1, <2>1 DEF Jobs, Listings
  <2>3. QED
    BY <1>8, <2>1, <2>2, ScanType, UnchangedInv DEF RescanFile, StepOK
<1>9. CASE ScanUnavailable(w)
  <2>1. JobsOK'
    BY <1>1, <1>9 DEF ScanUnavailable, JobsOK, Jobs, Steps, Outcomes
  <2>2. QED
    BY <1>9, <2>1, UnchangedInv DEF ScanUnavailable, StepOK
<1>10. CASE RescanDone(w)
  <2>1. JobsOK'
    BY <1>1, <1>10 DEF RescanDone, JobsOK, Jobs, Steps, Outcomes
  <2>2. QED
    BY <1>10, <2>1, UnchangedInv DEF RescanDone, StepOK
<1>11. CASE ReportFailure(w)
  BY <1>2, <1>11, EndType, SaveAnalysisInv DEF ReportFailure, StepOK
<1>12. CASE Analyse(w)
  <2>1. DBStep
    BY <1>2, <1>12, SaveAnalysisInv DEF Analyse
  <2>2. JobsOK'
    BY <1>12, EndType, GotoType DEF Analyse, Steps
  <2>3. QED
    BY <1>12, <2>1, <2>2 DEF Analyse, StepOK
<1>13. QED
  BY <1>5, <1>6, <1>7, <1>8, <1>9, <1>10, <1>11, <1>12

\* finalize_revision and the policy service.
LEMMA PolicyStep ==
  ASSUME NEW w \in Workers, DBInv, JobsOK, interrupted \subseteq Revisions,
         Finalize(w) \/ PolicyEvaluate(w) \/ PolicyDeclines(w) \/ ApplyDecision(w)
  PROVE  StepOK
<1>1. job[w] \in Jobs
  BY DEF JobsOK
<1>2. Rev(w) \in Revisions
  BY <1>1 DEF Rev, Jobs
<1>3. CASE Finalize(w)
  <2>1. DBStep
    BY <1>2, <1>3, FinalizeInv, UnchangedInv DEF Finalize
  <2>2. JobsOK'
    BY <1>3, EndType, GotoType DEF Finalize, Steps
  <2>3. QED
    BY <1>3, <2>1, <2>2 DEF Finalize, StepOK
<1>4. CASE PolicyEvaluate(w)
  <2>1. JobsOK'
    <3>1. PICK o \in {"passed", "failed"} :
            job' = [job EXCEPT ![w].pc = "apply", ![w].outcome = o]
      BY <1>4 DEF PolicyEvaluate
    <3>2. QED
      BY <1>1, <3>1 DEF JobsOK, Jobs, Steps, Outcomes
  <2>2. QED
    BY <1>2, <1>4, <2>1, LockInv DEF PolicyEvaluate, StepOK
<1>5. CASE PolicyDeclines(w)
  BY <1>5, EndType, UnchangedInv DEF PolicyDeclines, StepOK
<1>6. CASE ApplyDecision(w)
  <2>1. DBStep
    <3>1. CASE job[w].outcome # "passed"
      BY <3>1, <1>2, <1>6, BlockInv DEF ApplyDecision
    <3>2. CASE job[w].outcome = "passed"
      BY <3>2, <1>2, <1>6, PublishInv, RollbackInv DEF ApplyDecision
    <3>3. QED
      BY <3>1, <3>2
  <2>2. QED
    BY <1>6, <2>1, EndType DEF ApplyDecision, StepOK
<1>7. QED
  BY <1>3, <1>4, <1>5, <1>6

\* DELETE files/[fileId], and requests that die.
LEMMA DeletionStep ==
  ASSUME NEW w \in Workers, DBInv, JobsOK, interrupted \subseteq Revisions,
         \/ DeleteFile(w) \/ DeleteRefused(w) \/ RefreshRevision(w)
         \/ Raise(w) \/ Crash(w)
  PROVE  StepOK
<1>1. job[w] \in Jobs
  BY DEF JobsOK
<1>2. Rev(w) \in Revisions
  BY <1>1 DEF Rev, Jobs
<1>3. CASE DeleteFile(w)
  BY <1>3, GotoType, DeleteRowInv DEF DeleteFile, StepOK, Steps
<1>4. CASE DeleteRefused(w)
  BY <1>4, EndType, UnchangedInv DEF DeleteRefused, StepOK
<1>5. CASE RefreshRevision(w)
  <2>1. DBStep
    <3> DEFINE s == IF FilesOf(Rev(w)) = {} THEN "draft" ELSE "quarantined"
    <3>1. SetRevisionStatus(Rev(w), s)
      BY <1>5 DEF RefreshRevision, RefreshAfterDelete
    <3>2. s \in Statuses \ LockedStatuses
      BY DEF Statuses, LockedStatuses
    <3> HIDE DEF s
    <3>3. QED
      BY <1>2, <3>1, <3>2, SetStatusInv
  <2>2. QED
    BY <1>5, <2>1, EndType DEF RefreshRevision, StepOK
<1>6. Interrupt(w) => JobsOK' /\ interrupted' \subseteq Revisions
  BY <1>2, EndType DEF Interrupt
<1>7. CASE Raise(w)
  BY <1>6, <1>7, UnchangedInv DEF Raise, StepOK
<1>8. CASE Crash(w)
  <2>1. DBStep
    BY <1>8, RollbackInv, UnchangedInv DEF Crash
  <2>2. QED
    BY <1>6, <1>8, <2>1 DEF Crash, StepOK
<1>9. QED
  BY <1>3, <1>4, <1>5, <1>7, <1>8

LEMMA CommitStep ==
  ASSUME DBInv, JobsOK, interrupted \subseteq Revisions, CreateCommit
  PROVE  StepOK
<1>1. DBStep
  BY CommitInv DEF CreateCommit
<1>2. QED
  BY <1>1 DEF CreateCommit, StepOK, JobsOK

-----------------------------------------------------------------------------
(***************************************************************************)
(* The theorems.                                                           *)
(***************************************************************************)
IInv == DBInv /\ JobsOK /\ interrupted \subseteq Revisions

LEMMA IInvInit == Init => IInv /\ Cat!Init
<1> SUFFICES ASSUME Init PROVE IInv /\ Cat!Init
  OBVIOUS
<1>1. 1 \in Revisions
  BY RevisionBound DEF Revisions
<1>2. DBTypeOK
  BY <1>1 DEF Init, DBInit, DBTypeOK, Statuses, Listings
<1>3. SealedReleases /\ Decided
  BY DEF Init, DBInit, SealedReleases, LockedStatuses, Decided
<1>4. JobsOK /\ interrupted \subseteq Revisions
  BY NoJobType DEF Init, JobsOK
<1>5. Cat!Init
  BY DEF Init, DBInit, Cat!Init, Served, Signed
<1>6. QED
  BY <1>2, <1>3, <1>4, <1>5 DEF IInv, DBInv

LEMMA IInvStep == IInv /\ [Next]_vars => IInv' /\ DBStep
<1> SUFFICES ASSUME IInv, [Next]_vars PROVE IInv' /\ DBStep
  OBVIOUS
<1>1. CASE UNCHANGED vars
  <2>1. DBStep
    BY <1>1, UnchangedInv DEF vars, IInv
  <2>2. QED
    BY <1>1, <2>1 DEF vars, IInv, JobsOK, DBStep
<1>2. CASE Next
  <2>1. StepOK
    <3>1. CASE CreateCommit
      BY <3>1, CommitStep DEF IInv
    <3>2. CASE \E w \in Workers : AdmitUpload(w) \/ AdmitDelete(w) \/ AdmitSubmit(w)
      BY <3>2, AdmitStep DEF IInv
    <3>3. ASSUME NEW w \in Workers, Work(w) PROVE StepOK
      BY <3>3, ScanningStep, InspectionStep, PolicyStep, DeletionStep DEF IInv, Work
    <3>4. ASSUME NEW w \in Workers, Crash(w) PROVE StepOK
      BY <3>4, DeletionStep DEF IInv
    <3>5. QED
      BY <1>2, <3>1, <3>2, <3>3, <3>4 DEF Next
  <2>2. QED
    BY <2>1 DEF StepOK, DBStep, IInv
<1>3. QED
  BY <1>1, <1>2

\* The database and the requests only ever hold values of their types.
THEOREM TypeCorrect == Spec => []TypeOK
<1>1. IInv => TypeOK
  BY DEF IInv, DBInv, JobsOK, TypeOK
<1>2. QED
  BY <1>1, IInvInit, IInvStep, PTL DEF Spec

\* A revision in review or published holds clean files only, those of its
\* recorded manifest (finalize_for_policy and guard_release_file_mutation).
THEOREM ReleasesSealed == Spec => []SealedReleases
<1>1. IInv => SealedReleases
  BY DEF IInv, DBInv
<1>2. QED
  BY <1>1, IInvInit, IInvStep, PTL DEF Spec

\* A revision is published exactly when the latest decision about it passed,
\* and that decision names the files it holds (apply_publication_decision).
THEOREM DecisionsAgree == Spec => []DecisionsMatch
<1>1. IInv => DecisionsMatch
  <2> SUFFICES ASSUME IInv, NEW r \in Revisions
               PROVE  (revision[r].status = "published") <=>
                        (/\ decision[r].outcome = "passed"
                         /\ decision[r].manifest = Listing(FilesOf(r)))
    BY DEF DecisionsMatch
  <2>1. revision[r].status = "published" => revision[r].manifest = Listing(FilesOf(r))
    BY DEF IInv, DBInv, SealedReleases, LockedStatuses, Sealed
  <2>2. QED
    BY <2>1 DEF IInv, DBInv, Decided
<1>2. QED
  BY <1>1, IInvInit, IInvStep, PTL DEF Spec

\* No step changes a published revision, its rows, or what it serves.
THEOREM ReleasesImmutable == Spec => ReleaseImmutable
<1>1. IInv /\ [Next]_vars => [KeepsReleases]_vars
  BY IInvStep DEF DBStep
<1>2. QED
  BY <1>1, IInvInit, IInvStep, PTL DEF Spec, ReleaseImmutable

\* The requests implement the catalog readers are promised.
THEOREM RefinesCatalog == Spec => CatalogSpec
<1>1. IInv /\ [Next]_vars => [Cat!Next]_<<Served, Signed, latest>>
  BY IInvStep DEF DBStep, CatalogStep
<1>2. QED
  BY <1>1, IInvInit, IInvStep, PTL DEF Spec, CatalogSpec, Cat!Spec

-----------------------------------------------------------------------------
(***************************************************************************)
(* Who holds what: the policy transaction has one holder, and a revision   *)
(* in "scanning" a request that will take it out, or one that died on it.  *)
(***************************************************************************)
OneHolder ==
  \A v, w \in Workers : At(v, "apply") /\ At(w, "apply") => v = w

HInv == CandidateHeld /\ OneHolder /\ ScanningHasOwner

Others(w) == \A v \in Workers \ {w} : job'[v] = job[v]

\* A transaction that moves no locked row, and puts nothing in "scanning".
CalmDB ==
  /\ UNCHANGED candidate
  /\ \A r \in Revisions :
       /\ r = candidate => revision'[r].status = revision[r].status
       /\ revision'[r].status = "scanning" => revision[r].status = "scanning"

\* A request that is not about the policy, and goes on with what it holds.
CalmRequest(w) ==
  /\ Others(w)
  /\ ~At(w, "apply") /\ ~At(w, "apply")'
  /\ Holding(w) => Holding(w)' /\ Rev(w)' = Rev(w)

LEMMA HeldKept ==
  ASSUME DBTypeOK, CandidateHeld, OneHolder, NEW w \in Workers, Others(w),
         ~At(w, "apply"), ~At(w, "apply")', UNCHANGED candidate,
         candidate \in Revisions => revision'[candidate].status = revision[candidate].status
  PROVE  CandidateHeld' /\ OneHolder'
<1>1. OneHolder'
  BY DEF OneHolder, Others, At
<1>2. candidate # 0 => revision'[candidate].status = "review"
  BY DEF CandidateHeld, DBTypeOK
<1>3. candidate # 0 => \E v \in Workers : Rev(v)' = candidate /\ At(v, "apply")'
  BY DEF CandidateHeld, Others, At, Rev
<1>4. \A v \in Workers : At(v, "apply")' => candidate = Rev(v)'
  BY DEF CandidateHeld, Others, At, Rev
<1>5. QED
  BY <1>1, <1>2, <1>3, <1>4 DEF CandidateHeld

\* What w holds is all that w's step can leave without an owner.
LEMMA OwnedKept ==
  ASSUME ScanningHasOwner, NEW w \in Workers, Others(w), interrupted \subseteq interrupted',
         \A r \in Revisions : revision'[r].status = "scanning" =>
           revision[r].status = "scanning",
         Holding(w) => \/ Holding(w)' /\ Rev(w)' = Rev(w)
                       \/ Rev(w) \in interrupted'
                       \/ Rev(w) \in Revisions => revision'[Rev(w)].status # "scanning"
  PROVE  ScanningHasOwner'
<1> SUFFICES ASSUME NEW r \in Revisions, r \notin interrupted',
                    revision'[r].status = "scanning"
             PROVE  \E v \in Workers : Rev(v)' = r /\ Holding(v)'
  BY DEF ScanningHasOwner
<1>1. PICK v \in Workers : Rev(v) = r /\ Holding(v)
  BY DEF ScanningHasOwner
<1>2. CASE v = w
  BY <1>1, <1>2
<1>3. CASE v # w
  BY <1>1, <1>3 DEF Others, Rev, Holding
<1>4. QED
  BY <1>2, <1>3

LEMMA CalmInv ==
  ASSUME DBTypeOK, HInv, NEW w \in Workers, CalmDB, CalmRequest(w),
         interrupted \subseteq interrupted'
  PROVE  HInv'
<1>1. CandidateHeld' /\ OneHolder'
  BY HeldKept DEF HInv, CalmDB, CalmRequest
<1>2. ScanningHasOwner'
  BY OwnedKept DEF HInv, CalmDB, CalmRequest
<1>3. QED
  BY <1>1, <1>2 DEF HInv

-----------------------------------------------------------------------------
\* The transactions that are calm.
LEMMA UnchangedCalm == ASSUME UNCHANGED dbVars PROVE CalmDB
BY DEF dbVars, CalmDB

LEMMA RegisterCalm ==
  ASSUME DBTypeOK, NEW f, NEW r \in Revisions, NEW p, RegisterStagedFile(f, r, p)
  PROVE  CalmDB
BY DEF DBTypeOK, RegisterStagedFile, CanInsert, RepositoryUnlocked, FilesChange, CalmDB,
       Revisions

LEMMA SetStatusCalm ==
  ASSUME DBTypeOK, NEW r \in Revisions, NEW s, SetRevisionStatus(r, s)
  PROVE  /\ candidate # r /\ UNCHANGED candidate
         /\ revision'[r].status = s
         /\ \A q \in Revisions \ {r} : revision'[q] = revision[q]
         /\ s # "scanning" => CalmDB
<1>1. candidate # r /\ UNCHANGED candidate
  BY DEF SetRevisionStatus, Unlocked, FilesChange
<1>2. revision'[r].status = s /\ \A q \in Revisions \ {r} : revision'[q] = revision[q]
  BY DEF SetRevisionStatus, DBTypeOK
<1>3. QED
  BY <1>1, <1>2 DEF CalmDB

LEMMA FilesCalm ==
  ASSUME UNCHANGED <<revision, candidate>>
  PROVE  CalmDB
BY DEF CalmDB

LEMMA FinalizeCalm ==
  ASSUME DBTypeOK, NEW r \in Revisions, FinalizeForPolicy(r)
  PROVE  CalmDB
BY DEF DBTypeOK, FinalizeForPolicy, Writable, Unlocked, FilesChange, CalmDB

LEMMA CommitCalm ==
  ASSUME DBTypeOK, CreateCommit
  PROVE  CalmDB
<1>1. PICK r \in Revisions, F \in SUBSET (FileIds \ issued) :
        \E copyOf \in [F -> CleanFiles(head)] : CreateRepositoryCommit(r, copyOf)
  BY DEF CreateCommit
<1>2. PICK s \in {"draft", "quarantined"} :
        revision' = [revision EXCEPT ![r].status = s]
  BY <1>1 DEF CreateRepositoryCommit
<1>3. candidate = 0 /\ candidate' = 0
  BY <1>1 DEF CreateRepositoryCommit, RepositoryUnlocked
<1>4. QED
  BY <1>2, <1>3 DEF DBTypeOK, CalmDB, Revisions

LEMMA EndCalm ==
  ASSUME JobsOK, NEW w \in Workers, End(w), ~At(w, "apply"), ~Holding(w)
  PROVE  CalmRequest(w)
BY DEF JobsOK, End, NoJob, Request, CalmRequest, Others, At

LEMMA GotoCalm ==
  ASSUME JobsOK, NEW w \in Workers, NEW pc \in Steps, Goto(w, pc),
         ~At(w, "apply"), pc # "apply",
         Holding(w) => pc \in {"pick", "record", "settle", "close"}
  PROVE  CalmRequest(w)
BY DEF JobsOK, Jobs, Goto, CalmRequest, Others, At, Holding, Rev

LEMMA ScanCalm ==
  ASSUME JobsOK, NEW w \in Workers, NEW f, Scan(w, f), ~At(w, "apply")
  PROVE  CalmRequest(w) /\ Holding(w)' /\ Rev(w)' = Rev(w)
<1>1. PICK v \in [Inspectors -> Verdicts], o \in Outcomes :
        /\ Concludes(v, o)
        /\ job' = [job EXCEPT ![w].pc = "record",
                              ![w].file = f,
                              ![w].todo = {l \in @ : l[2] # f},
                              ![w].pending = {<<i, v[i]>> : i \in Inspectors},
                              ![w].outcome = o]
  BY DEF Scan
<1>2. PICK td, pd : td = {l \in job[w].todo : l[2] # f} /\ pd = {<<i, v[i]>> : i \in Inspectors}
  OBVIOUS
<1>3. job' = [job EXCEPT ![w].pc = "record", ![w].file = f, ![w].todo = td,
                         ![w].pending = pd, ![w].outcome = o]
  BY <1>1, <1>2
<1>4. QED
  BY <1>3 DEF JobsOK, Jobs, CalmRequest, Others, At, Holding, Rev

\* Every action but those of the policy is calm, or gives up what it held.
LEMMA RequestsHeld ==
  ASSUME DBInv, JobsOK, HInv, NEW w \in Workers,
         \/ AdmitUpload(w) \/ AdmitDelete(w) \/ AdmitSubmit(w)
         \/ Register(w) \/ RegisterRefused(w) \/ RecordVerdict(w) \/ Settle(w)
         \/ DeleteFile(w) \/ DeleteRefused(w) \/ RefreshRevision(w)
  PROVE  HInv'
<1>0. DBTypeOK /\ job[w] \in Jobs /\ Rev(w) \in Revisions
  BY DEF DBInv, JobsOK, Jobs, Rev
<1> SUFFICES CalmDB /\ CalmRequest(w) /\ interrupted \subseteq interrupted'
  BY <1>0, CalmInv
<1>1. CASE AdmitUpload(w) \/ AdmitDelete(w) \/ AdmitSubmit(w)
  <2>1. PICK j : Admit(w, j) /\ j.pc \in {"register", "delete", "list"}
    <3>1. CASE AdmitUpload(w)
      BY <3>1 DEF AdmitUpload, Request
    <3>2. CASE AdmitDelete(w)
      BY <3>2 DEF AdmitDelete, Request
    <3>3. CASE AdmitSubmit(w)
      BY <3>3 DEF AdmitSubmit, Request
    <3>4. QED
      BY <1>1, <3>1, <3>2, <3>3
  <2>2. CalmRequest(w)
    BY <2>1 DEF Admit, At, JobsOK, CalmRequest, Others, Holding
  <2>3. QED
    BY <2>1, <2>2, UnchangedCalm DEF Admit
<1>2. CASE Register(w)
  <2>1. PICK f \in FileIds, p \in Paths :
          /\ RegisterStagedFile(f, Rev(w), p)
          /\ job' = [job EXCEPT ![w].pc = "begin", ![w].file = f]
    BY <1>2 DEF Register
  <2>2. CalmRequest(w)
    BY <1>0, <1>2, <2>1 DEF Register, At, JobsOK, Jobs, CalmRequest, Others, Holding
  <2>3. QED
    BY <1>0, <1>2, <2>1, <2>2, RegisterCalm DEF Register
<1>3. CASE RegisterRefused(w) \/ DeleteRefused(w)
  <2>1. CalmRequest(w)
    BY <1>3, EndCalm DEF RegisterRefused, DeleteRefused, At, Holding
  <2>2. QED
    BY <1>3, <2>1, UnchangedCalm DEF RegisterRefused, DeleteRefused
<1>4. CASE RecordVerdict(w)
  <2>1. PICK p \in job[w].pending :
          /\ RecordInspection(job[w].file, p[1], p[2])
          /\ job' = [job EXCEPT ![w].pending = @ \ {p},
                                ![w].pc = IF job[w].pending = {p}
                                          THEN AfterRecording(w) ELSE @]
    BY <1>4 DEF RecordVerdict
  <2>2. PICK pd, q : /\ pd = job[w].pending \ {p}
                     /\ q = IF job[w].pending = {p} THEN AfterRecording(w) ELSE job[w].pc
    OBVIOUS
  <2>3. q \in {"pick", "record", "settle"}
    BY <1>4, <2>2 DEF AfterRecording, RecordVerdict, At
  <2>4. job' = [job EXCEPT ![w].pending = pd, ![w].pc = q]
    BY <2>1, <2>2
  <2>5. CalmRequest(w)
    BY <1>0, <1>4, <2>3, <2>4
       DEF RecordVerdict, At, JobsOK, Jobs, CalmRequest, Others, Holding, Rev
  <2>6. QED
    BY <1>4, <2>1, <2>5, FilesCalm DEF RecordInspection, FilesChange, RecordVerdict
<1>5. CASE Settle(w)
  <2>1. UNCHANGED <<revision, candidate>>
    <3>1. job[w].outcome \in {"passed", "failed", "error"}
      BY <1>0 DEF Jobs, Outcomes
    <3>2. QED
      BY <1>5, <3>1 DEF Settle, MarkFile, FilesChange
  <2>2. CalmRequest(w)
    BY <1>5, GotoCalm DEF Settle, At, Steps
  <2>3. QED
    BY <1>5, <2>1, <2>2, FilesCalm DEF Settle
<1>6. CASE DeleteFile(w)
  <2>1. CalmRequest(w)
    BY <1>6, GotoCalm DEF DeleteFile, At, Steps, Holding
  <2>2. QED
    BY <1>6, <2>1, FilesCalm DEF DeleteFile, DeleteRow, FilesChange
<1>7. CASE RefreshRevision(w)
  <2>1. PICK s : s = IF FilesOf(Rev(w)) = {} THEN "draft" ELSE "quarantined"
    OBVIOUS
  <2>2. SetRevisionStatus(Rev(w), s) /\ s # "scanning"
    BY <1>7, <2>1 DEF RefreshRevision, RefreshAfterDelete
  <2>3. CalmRequest(w)
    BY <1>7, EndCalm DEF RefreshRevision, At, Holding
  <2>4. QED
    BY <1>0, <1>7, <2>2, <2>3, SetStatusCalm DEF RefreshRevision
<1>8. QED
  BY <1>1, <1>2, <1>3, <1>4, <1>5, <1>6, <1>7

LEMMA InspectionHeld ==
  ASSUME DBInv, JobsOK, HInv, NEW w \in Workers,
         \/ ListFiles(w) \/ Materialize(w) \/ FindMissing(w)
         \/ RescanFile(w) \/ ScanUnavailable(w) \/ RescanDone(w)
         \/ ReportFailure(w) \/ Analyse(w) \/ Finalize(w) \/ PolicyDeclines(w)
  PROVE  HInv'
<1>0. DBTypeOK /\ job[w] \in Jobs /\ Rev(w) \in Revisions
  BY DEF DBInv, JobsOK, Jobs, Rev
<1> SUFFICES CalmDB /\ CalmRequest(w) /\ interrupted \subseteq interrupted'
  BY <1>0, CalmInv
<1>1. CASE ListFiles(w)
  <2>1. CASE End(w)
    BY <1>1, <2>1, EndCalm, UnchangedCalm DEF ListFiles, At, Holding
  <2>2. CASE job' = [job EXCEPT ![w].pc = "materialize",
                       ![w].todo = {<<file[f].path, f>> : f \in CleanFiles(Rev(w))}]
    <3>1. PICK td : td = {<<file[f].path, f>> : f \in CleanFiles(Rev(w))}
      OBVIOUS
    <3>2. job' = [job EXCEPT ![w].pc = "materialize", ![w].todo = td]
      BY <2>2, <3>1
    <3>3. CalmRequest(w)
      BY <1>0, <1>1, <3>2 DEF ListFiles, At, JobsOK, Jobs, CalmRequest, Others, Holding
    <3>4. QED
      BY <1>1, <3>3, UnchangedCalm DEF ListFiles
  <2>3. QED
    BY <1>1, <2>1, <2>2 DEF ListFiles
<1>2. CASE Materialize(w)
  <2>1. PICK sn, q : /\ sn = Listing(CleanFiles(Rev(w)))
                     /\ q = IF CleanFiles(Rev(w)) = {} THEN "report" ELSE "missing"
    OBVIOUS
  <2>2. job' = [job EXCEPT ![w].seen = sn, ![w].pc = q] /\ q \in {"report", "missing"}
    BY <1>2, <2>1 DEF Materialize
  <2>3. CalmRequest(w)
    BY <1>0, <1>2, <2>2 DEF Materialize, At, JobsOK, Jobs, CalmRequest, Others, Holding
  <2>4. QED
    BY <1>2, <2>3, UnchangedCalm DEF Materialize
<1>3. CASE FindMissing(w)
  <2>1. PICK td, q : /\ td = {l \in job[w].todo : l[2] \in MissingInspections(Rev(w))}
                     /\ q = IF MissingInspections(Rev(w)) = {} THEN "analyse" ELSE "begin"
    OBVIOUS
  <2>2. job' = [job EXCEPT ![w].todo = td, ![w].pc = q] /\ q \in {"analyse", "begin"}
    BY <1>3, <2>1 DEF FindMissing
  <2>3. CalmRequest(w)
    BY <1>0, <1>3, <2>2 DEF FindMissing, At, JobsOK, Jobs, CalmRequest, Others, Holding
  <2>4. QED
    BY <1>3, <2>3, UnchangedCalm DEF FindMissing
<1>4. CASE RescanFile(w)
  BY <1>4, ScanCalm, UnchangedCalm DEF RescanFile, At
<1>5. CASE ScanUnavailable(w) \/ RescanDone(w)
  <2>1. PICK o : job' = [job EXCEPT ![w].pc = "close", ![w].outcome = o]
    BY <1>5 DEF ScanUnavailable, RescanDone
  <2>2. CalmRequest(w)
    BY <1>0, <1>5, <2>1
       DEF ScanUnavailable, RescanDone, At, JobsOK, Jobs, CalmRequest, Others, Holding, Rev
  <2>3. QED
    BY <1>5, <2>2, UnchangedCalm DEF ScanUnavailable, RescanDone
<1>6. CASE ReportFailure(w)
  BY <1>6, EndCalm, FilesCalm DEF ReportFailure, SaveRevisionAnalysis, At, Holding
<1>7. CASE Analyse(w)
  <2>1. CalmRequest(w)
    BY <1>7, EndCalm, GotoCalm DEF Analyse, At, Holding, Steps
  <2>2. QED
    BY <1>7, <2>1, FilesCalm DEF Analyse, SaveRevisionAnalysis
<1>8. CASE Finalize(w)
  <2>1. CalmRequest(w)
    BY <1>8, EndCalm, GotoCalm DEF Finalize, At, Holding, Steps
  <2>2. CalmDB
    BY <1>0, <1>8, FinalizeCalm, UnchangedCalm DEF Finalize
  <2>3. QED
    BY <1>8, <2>1, <2>2 DEF Finalize
<1>9. CASE PolicyDeclines(w)
  BY <1>9, EndCalm, UnchangedCalm DEF PolicyDeclines, At, Holding
<1>10. QED
  BY <1>1, <1>2, <1>3, <1>4, <1>5, <1>6, <1>7, <1>8, <1>9

\* The steps that put a revision in "scanning", take it out, or die on it.
LEMMA ScanningHeld ==
  ASSUME DBInv, JobsOK, HInv, NEW w \in Workers, BeginScan(w) \/ Close(w) \/ Raise(w)
  PROVE  HInv'
<1>0. DBTypeOK /\ job[w] \in Jobs /\ Rev(w) \in Revisions
  BY DEF DBInv, JobsOK, Jobs, Rev
<1>1. CASE BeginScan(w)
  <2>1. CalmRequest(w) /\ Holding(w)' /\ Rev(w)' = Rev(w)
    <3>1. ~At(w, "apply")
      BY <1>1 DEF BeginScan, At
    <3>2. CASE Scan(w, job[w].file)
      BY <3>1, <3>2, ScanCalm
    <3>3. CASE Goto(w, "pick")
      BY <1>0, <3>1, <3>3, GotoCalm DEF Goto, JobsOK, Jobs, Holding, Rev, Steps
    <3>4. QED
      BY <1>1, <3>2, <3>3 DEF BeginScan
  <2>2. /\ candidate # Rev(w) /\ UNCHANGED candidate
        /\ \A q \in Revisions \ {Rev(w)} : revision'[q] = revision[q]
    BY <1>0, <1>1, SetStatusCalm DEF BeginScan
  <2>3. CandidateHeld' /\ OneHolder'
    BY <1>0, <2>1, <2>2, HeldKept DEF HInv, CalmRequest
  <2>4. ScanningHasOwner'
    <3> SUFFICES ASSUME NEW r \in Revisions, r \notin interrupted,
                        revision'[r].status = "scanning"
                 PROVE  \E v \in Workers : Rev(v)' = r /\ Holding(v)'
      BY <1>1 DEF ScanningHasOwner, BeginScan
    <3>1. CASE r = Rev(w)
      BY <2>1, <3>1
    <3>2. CASE r # Rev(w)
      <4>1. PICK v \in Workers : Rev(v) = r /\ Holding(v)
        BY <2>2, <3>2 DEF HInv, ScanningHasOwner
      <4>2. v # w /\ job'[v] = job[v]
        BY <2>1, <3>2, <4>1 DEF CalmRequest, Others
      <4>3. QED
        BY <4>1, <4>2 DEF Rev, Holding
    <3>3. QED
      BY <3>1, <3>2
  <2>5. QED
    BY <2>3, <2>4 DEF HInv
<1>2. CASE Close(w)
  <2>1. PICK s : s = ClosingStatus(job[w].outcome)
    OBVIOUS
  <2>2. SetRevisionStatus(Rev(w), s) /\ s # "scanning"
    BY <1>2, <2>1 DEF Close, ClosingStatus
  <2>3. CalmDB /\ revision'[Rev(w)].status # "scanning"
    BY <1>0, <2>2, SetStatusCalm
  <2>4. Others(w) /\ ~At(w, "apply") /\ ~At(w, "apply")'
    BY <1>2 DEF Close, At, End, Goto, NoJob, Request, Others, JobsOK, Jobs
  <2>5. CandidateHeld' /\ OneHolder'
    BY <1>0, <2>3, <2>4, HeldKept DEF HInv, CalmDB
  <2>6. ScanningHasOwner'
    BY <1>2, <2>3, <2>4, OwnedKept DEF HInv, CalmDB, Close
  <2>7. QED
    BY <2>5, <2>6 DEF HInv
<1>3. CASE Raise(w)
  <2>1. CalmDB /\ interrupted' = interrupted \cup {Rev(w)}
    BY <1>3, UnchangedCalm DEF Raise, Interrupt
  <2>2. Others(w) /\ ~At(w, "apply") /\ ~At(w, "apply")'
    BY <1>3 DEF Raise, Raises, Interrupt, At, End, NoJob, Request, Others, JobsOK
  <2>3. CandidateHeld' /\ OneHolder'
    BY <1>0, <2>1, <2>2, HeldKept DEF HInv, CalmDB
  <2>4. ScanningHasOwner'
    BY <2>1, <2>2, OwnedKept DEF HInv, CalmDB
  <2>5. QED
    BY <2>3, <2>4 DEF HInv
<1>4. QED
  BY <1>1, <1>2, <1>3

\* The policy transaction opens when there is none, and ends with its request.
LEMMA PolicyHeld ==
  ASSUME DBInv, JobsOK, HInv, NEW w \in Workers,
         PolicyEvaluate(w) \/ ApplyDecision(w) \/ Crash(w)
  PROVE  HInv'
<1>0. DBTypeOK /\ job[w] \in Jobs /\ Rev(w) \in Revisions /\ Rev(w) # 0
  BY DEF DBInv, JobsOK, Jobs, Rev, Revisions
<1>1. CASE PolicyEvaluate(w)
  <2>1. /\ candidate = 0 /\ candidate' = Rev(w) /\ revision[Rev(w)].status = "review"
        /\ UNCHANGED <<revision, interrupted>>
    BY <1>1 DEF PolicyEvaluate, LockCandidate, RepositoryUnlocked
  <2>2. Others(w) /\ At(w, "apply")' /\ Rev(w)' = Rev(w) /\ ~Holding(w)
    <3>1. PICK o \in {"passed", "failed"} :
            job' = [job EXCEPT ![w].pc = "apply", ![w].outcome = o]
      BY <1>1 DEF PolicyEvaluate
    <3>2. QED
      BY <1>0, <1>1, <3>1 DEF PolicyEvaluate, At, JobsOK, Jobs, Others, Rev, Holding
  <2>3. \A v \in Workers : ~At(v, "apply")
    BY <2>1 DEF HInv, CandidateHeld, JobsOK, Jobs, Rev, Revisions
  <2>4. \A v \in Workers \ {w} : ~At(v, "apply")'
    BY <2>2, <2>3 DEF Others, At
  <2>5. CandidateHeld' /\ OneHolder'
    BY <2>1, <2>2, <2>4 DEF CandidateHeld, OneHolder
  <2>6. ScanningHasOwner'
    BY <2>1, <2>2, OwnedKept DEF HInv
  <2>7. QED
    BY <2>5, <2>6 DEF HInv
\* Whatever a policy transaction ends with, nothing it leaves is "scanning".
<1>2. ASSUME At(w, "apply"), End(w), candidate' = 0, interrupted \subseteq interrupted',
             \A r \in Revisions : revision'[r].status = "scanning" =>
               revision[r].status = "scanning"
      PROVE  HInv'
  <2>1. Others(w) /\ ~At(w, "apply")' /\ ~Holding(w)
    BY <1>2 DEF End, NoJob, Request, Others, At, JobsOK, Holding
  <2>2. \A v \in Workers : ~At(v, "apply")'
    BY <1>2, <2>1 DEF HInv, OneHolder, Others, At
  <2>3. CandidateHeld' /\ OneHolder'
    BY <1>2, <2>2 DEF CandidateHeld, OneHolder
  <2>4. ScanningHasOwner'
    BY <1>2, <2>1, OwnedKept DEF HInv
  <2>5. QED
    BY <2>3, <2>4 DEF HInv
<1>3. CASE ApplyDecision(w)
  <2>1. At(w, "apply") /\ End(w) /\ UNCHANGED interrupted
    BY <1>3 DEF ApplyDecision
  <2>2. PICK r : r = Rev(w)
    OBVIOUS
  <2>3. BlockDecision(r) \/ PublishDecision(r) \/ Rollback
    BY <1>3, <2>2 DEF ApplyDecision
  <2>4. candidate' = 0
    BY <2>3 DEF BlockDecision, PublishDecision, Rollback, Release
  <2>5. \A q \in Revisions : revision'[q].status = "scanning" => revision[q].status = "scanning"
    <3>1. \/ UNCHANGED revision
          \/ revision' = [revision EXCEPT ![r].status = "quarantined"]
          \/ revision' = [revision EXCEPT ![r].status = "published"]
      BY <2>3 DEF BlockDecision, PublishDecision, Rollback
    <3>2. QED
      BY <1>0, <3>1 DEF DBTypeOK
  <2>6. QED
    BY <1>2, <2>1, <2>4, <2>5
<1>4. CASE Crash(w)
  <2>1. End(w) /\ interrupted' = interrupted \cup {Rev(w)}
    BY <1>4 DEF Crash, Interrupt
  <2>2. CASE At(w, "apply")
    BY <1>2, <1>4, <2>1, <2>2 DEF Crash, Rollback, Release
  <2>3. CASE ~At(w, "apply")
    <3>1. CalmDB
      BY <1>4, <2>3, UnchangedCalm DEF Crash
    <3>2. Others(w) /\ ~At(w, "apply")'
      BY <2>1 DEF End, NoJob, Request, Others, At, JobsOK
    <3>3. CandidateHeld' /\ OneHolder'
      BY <1>0, <2>3, <3>1, <3>2, HeldKept DEF HInv, CalmDB
    <3>4. ScanningHasOwner'
      BY <2>1, <3>1, <3>2, OwnedKept DEF HInv, CalmDB
    <3>5. QED
      BY <3>3, <3>4 DEF HInv
  <2>4. QED
    BY <2>2, <2>3
<1>5. QED
  BY <1>1, <1>3, <1>4

LEMMA HInvInit == Init => HInv
BY DEF Init, DBInit, NoJob, Request, HInv, CandidateHeld, OneHolder, ScanningHasOwner, At

LEMMA HInvStep == IInv /\ HInv /\ [Next]_vars => HInv'
<1> SUFFICES ASSUME IInv, HInv, [Next]_vars PROVE HInv'
  OBVIOUS
<1>0. DBInv /\ JobsOK /\ DBTypeOK
  BY DEF IInv, DBInv
<1>1. CASE UNCHANGED vars
  BY <1>1 DEF vars, dbVars, HInv, CandidateHeld, OneHolder, ScanningHasOwner, At, Rev, Holding
<1>2. CASE CreateCommit
  <2>1. CalmDB /\ UNCHANGED <<job, interrupted>>
    BY <1>0, <1>2, CommitCalm DEF CreateCommit
  <2>2. QED
    BY <1>0, <2>1
       DEF DBTypeOK, CalmDB, HInv, CandidateHeld, OneHolder, ScanningHasOwner, At, Rev, Holding
<1>3. CASE \E w \in Workers : AdmitUpload(w) \/ AdmitDelete(w) \/ AdmitSubmit(w)
  BY <1>0, <1>3, RequestsHeld
<1>4. ASSUME NEW w \in Workers, Work(w) PROVE HInv'
  BY <1>0, <1>4, RequestsHeld, InspectionHeld, ScanningHeld, PolicyHeld DEF Work
<1>5. ASSUME NEW w \in Workers, Crash(w) PROVE HInv'
  BY <1>0, <1>5, PolicyHeld
<1>6. QED
  BY <1>1, <1>2, <1>3, <1>4, <1>5 DEF Next

\* A policy transaction has one request that will end it, and the revision it
\* holds stays in review until then (publication_candidate).
THEOREM CandidateIsHeld == Spec => []CandidateHeld
<1>1. HInv => CandidateHeld
  BY DEF HInv
<1>2. QED
  BY <1>1, HInvInit, HInvStep, IInvInit, IInvStep, PTL DEF Spec

\* A revision in "scanning" has a request that is still going to take it out,
\* unless one died on it (set_revision_status).
THEOREM ScanningOwned == Spec => []ScanningHasOwner
<1>1. HInv => ScanningHasOwner
  BY DEF HInv
<1>2. QED
  BY <1>1, HInvInit, HInvStep, IInvInit, IInvStep, PTL DEF Spec
=============================================================================
