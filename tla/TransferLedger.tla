--------------------------- MODULE TransferLedger ---------------------------
(***************************************************************************)
(* The database side of resumable transfers: app.repository_uploads, and   *)
(* the transactions that bind a transfer to a row of repository_files.     *)
(* As in RevisionStore, every operator that primes a variable is one       *)
(* committed transaction.                                                  *)
(***************************************************************************)
EXTENDS RevisionStore, TransferDaemon

ASSUME ContentsAreDigests == Contents \subseteq FileIds

VARIABLE upload  \* app.repository_uploads, by transfer

ledgerVars == <<dbVars, upload>>

UploadStates == {"initiated", "uploading", "uploaded", "scanning",
                 "ready", "rejected", "aborted", "expired"}
Receiving == {"initiated", "uploading", "uploaded"}
Ended     == {"rejected", "aborted", "expired"}

Upload == [state  : UploadStates,
           offset : 0 .. Length,
           rev    : Revisions,
           path   : Paths,
           sha    : Contents,
           file   : FileIds \cup {NoFile}]

LedgerTypeOK ==
  /\ DOMAIN upload \subseteq Transfers
  /\ upload \in [DOMAIN upload -> Upload]

LedgerInit == upload = [t \in {} |-> {}]

SetState(t, s) == upload' = [upload EXCEPT ![t].state = s]

Bound(t) == upload[t].file # NoFile

-----------------------------------------------------------------------------
\* Seeded fault: rows of a path are marked expired in any state.
LapsedInAnyState(t, r, p) ==
  /\ upload[t].rev = r
  /\ upload[t].path = p
  /\ t \in expired

\* repository_uploads_active_path_idx, after the expired rows of the path have
\* been marked.
Lapsed(t, r, p) ==
  /\ upload[t].rev = r
  /\ upload[t].path = p
  /\ t \in expired
  /\ upload[t].state \in Receiving \cup {"scanning"}

PathActive(r, p) ==
  \E t \in DOMAIN upload :
    /\ upload[t].state \notin Ended
    /\ upload[t].rev = r
    /\ upload[t].path = p
    /\ ~Lapsed(t, r, p)

\* create_resumable_upload, under the revision's row lock.
CreateUpload(t, r, p, c) ==
  /\ RepositoryUnlocked
  /\ t \notin DOMAIN upload \cup expired
  /\ revision[r].status \in Editable
  /\ ~PathActive(r, p)
  /\ upload' = [u \in DOMAIN upload \cup {t} |->
                  IF u = t THEN [state |-> "initiated", offset |-> 0, rev |-> r,
                                 path |-> p, sha |-> c, file |-> NoFile]
                  ELSE IF Lapsed(u, r, p) THEN [upload[u] EXCEPT !.state = "expired"]
                  ELSE upload[u]]
  /\ UNCHANGED dbVars

\* Seeded fault: the offset the caller read is not compared again.
CanAdvanceBlindly(t, from, to) ==
  /\ t \notin expired
  /\ upload[t].state \in Receiving
  /\ to <= Length

\* advance_resumable_upload; what it marks when the upload has expired goes
\* with the exception it raises next.
CanAdvance(t, from, to) ==
  /\ t \notin expired
  /\ upload[t].state \in Receiving
  /\ upload[t].offset = from
  /\ to > from
  /\ to <= Length

AdvanceUpload(t, from, to) ==
  /\ CanAdvance(t, from, to)
  /\ upload' = [upload EXCEPT ![t].offset = to,
                              ![t].state = IF to = Length THEN "uploaded" ELSE "uploading"]
  /\ UNCHANGED dbVars

\* The gateway's own updates: creation failed, HEAD found no transfer, DELETE.
AbortCreation(t) == SetState(t, "aborted") /\ UNCHANGED dbVars

RetireUpload(t) ==
  /\ upload[t].state \in Receiving
  /\ SetState(t, "aborted")
  /\ UNCHANGED dbVars

AbortUpload(t) ==
  /\ upload[t].state # "ready"
  /\ SetState(t, "aborted")
  /\ UNCHANGED dbVars

-----------------------------------------------------------------------------
(***************************************************************************)
(* The transactions of a commit.                                           *)
(***************************************************************************)
StoreOnly == UNCHANGED <<analysis, decision, head, latest, candidate>>

CanScan(t) ==
  /\ upload[t].state \in {"uploaded", "scanning"}
  /\ upload[t].offset = Length

\* prepare_resumable_scan: the first time a row is inserted and the revision
\* put in scanning, later the row is marked running again.
BindFile(t, f) ==
  /\ ~Bound(t)
  /\ CanInsert(f, upload[t].rev, upload[t].path)
  /\ PutRow(f, [NewRow(upload[t].rev, upload[t].path, f, "running")
                  EXCEPT !.sha = upload[t].sha])
  /\ issued' = issued \cup {f}
  /\ revision' = [revision EXCEPT ![upload[t].rev].status =
                    IF @ \in Editable THEN "scanning" ELSE @]

RescanBound(t, f) ==
  /\ upload[t].file = f
  /\ Bound(t)
  /\ IF f \in DOMAIN file /\ file[f].storage = "quarantine"
     THEN Writable(file[f].revision) /\ PutRow(f, [file[f] EXCEPT !.scan = "running"])
     ELSE UNCHANGED file
  /\ UNCHANGED <<issued, revision>>

PrepareScan(t, f) ==
  /\ CanScan(t)
  /\ BindFile(t, f) \/ RescanBound(t, f)
  /\ upload' = [upload EXCEPT ![t].state = "scanning", ![t].file = f]
  /\ StoreOnly

\* What complete, reject and hold do to the revision and the row, if it is
\* still there; the triggers of both apply.
Conclude(t, f, storage, scan, status) ==
  /\ Unlocked(upload[t].rev)
  /\ IF f \in DOMAIN file
     THEN Writable(file[f].revision)
          /\ PutRow(f, [file[f] EXCEPT !.storage = storage, !.scan = scan])
     ELSE UNCHANGED file
  /\ ~StatusLocked(upload[t].rev)
  /\ revision' = [revision EXCEPT ![upload[t].rev].status = status]
  /\ UNCHANGED issued
  /\ StoreOnly

\* complete_resumable_upload
CanComplete(t, f) ==
  /\ f \in DOMAIN file
  /\ file[f].sha = upload[t].sha
  /\ file[f].storage \in {"quarantine", "available"}
  /\ upload[t].state \in {"scanning", "ready"}

CompleteUpload(t, f) ==
  /\ CanComplete(t, f)
  /\ upload' = [upload EXCEPT ![t].state = "ready", ![t].file = f]
  /\ Conclude(t, f, "available", "clean", "quarantined")

\* reject_resumable_upload
RejectUpload(t, f) ==
  /\ upload[t].state \in {"uploaded", "scanning", "rejected"}
  /\ SetState(t, "rejected")
  /\ Conclude(t, f, "rejected", "failed", "rejected")

CanHold(t) == upload[t].state = "scanning"

\* hold_resumable_upload
HoldUpload(t, f) ==
  /\ CanHold(t)
  /\ SetState(t, "scanning")
  /\ Conclude(t, f, "quarantine", "error", "quarantined")
=============================================================================
