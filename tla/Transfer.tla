------------------------------ MODULE Transfer ------------------------------
(***************************************************************************)
(* Resumable transfers: the gateway's tus endpoints and the runtime's      *)
(* commit, run by concurrent callers over the transfer daemon's files and  *)
(* the database.  Each step is one database transaction or one write of    *)
(* the daemon.                                                             *)
(*   create  POST transfers     a row, then the daemon's transfer          *)
(*   patch   PATCH [transferId] a chunk in the daemon, then the row        *)
(*   head    HEAD [transferId]  the daemon's offset, reconciled with the   *)
(*                              row                                        *)
(*   delete  DELETE             the daemon's transfer, then the row        *)
(*   commit  POST commit        process_completed_transfer                 *)
(***************************************************************************)
EXTENDS TransferLedger

CONSTANTS
  Callers,  \* requests being served at once
  Faults    \* which of FaultKinds may happen

FaultKinds == {"lost",    \* a request dies, or a call it waits for is lost
               "crash",   \* the daemon dies and is started again
               "expiry"}  \* a transfer runs out of its 23 hours

ASSUME FaultsAreKnown == Faults \subseteq FaultKinds

VARIABLES
  call,    \* what each caller is doing
  granted  \* transfers whose capability a client holds

vars == <<ledgerVars, daemonVars, call, granted>>

Steps == {"idle",
          "reserve", "create", "grant", "withdraw", "cancel", "discard",
          "append", "save", "advance",
          "look", "retire",
          "terminate", "abort",
          "fetch", "ledger", "prepare", "record", "promote", "receipt",
          "complete", "refuse", "refusal", "reject", "hold"}

Outcomes == {"passed", "failed", "error"}

Calls == [pc      : Steps,
          rev     : Revisions,
          id      : Transfers \cup {NoFile},
          from    : 0 .. Length,  \* the offset the row had
          to      : 0 .. Length,  \* the offset the daemon answered
          seen    : RecordStatuses \cup UploadStates,
          file    : FileIds \cup {NoFile},
          pending : SUBSET (Inspectors \X Verdicts),
          outcome : Outcomes]

TypeOK ==
  /\ DBTypeOK
  /\ LedgerTypeOK
  /\ DaemonTypeOK
  /\ call \in [Callers -> Calls]
  /\ granted \subseteq DOMAIN upload

NoCall == [pc |-> "idle", rev |-> 1, id |-> NoFile, from |-> 0, to |-> 0,
           seen |-> "none", file |-> NoFile, pending |-> {}, outcome |-> "passed"]

Init ==
  /\ DBInit
  /\ LedgerInit
  /\ DaemonInit
  /\ call = [w \in Callers |-> NoCall]
  /\ granted = {}

At(w, pc) == call[w].pc = pc

Id(w) == call[w].id

Goto(w, pc) == call' = [call EXCEPT ![w].pc = pc]

End(w) == call' = [call EXCEPT ![w] = NoCall]

\* A step of the database, of the daemon, or of neither.
InLedger == UNCHANGED <<daemonVars, granted>>
InDaemon == UNCHANGED <<ledgerVars, granted>>
Nowhere  == UNCHANGED <<ledgerVars, daemonVars, granted>>

Admit(w, c) ==
  /\ At(w, "idle")
  /\ call' = [call EXCEPT ![w] = c]
  /\ Nowhere

-----------------------------------------------------------------------------
(***************************************************************************)
(* POST transfers.                                                         *)
(***************************************************************************)
AdmitCreate(w) ==
  /\ revision[head].status \in Editable
  /\ Admit(w, [NoCall EXCEPT !.pc = "reserve", !.rev = head])

Reserve(w) ==
  /\ At(w, "reserve")
  /\ \E t \in Transfers, p \in Paths, c \in Contents :
       /\ CreateUpload(t, call[w].rev, p, c)
       /\ call' = [call EXCEPT ![w].pc = "create", ![w].id = t]
  /\ InLedger

\* The path has an active transfer, or the revision is not writable.
ReserveRefused(w) ==
  /\ At(w, "reserve")
  /\ End(w)
  /\ Nowhere

CreateInDaemon(w) ==
  /\ At(w, "create")
  /\ CreateRecord(Id(w))
  /\ Goto(w, "grant")
  /\ InDaemon

CreateFails(w) ==
  /\ At(w, "create")
  /\ Goto(w, "withdraw")
  /\ Nowhere

Grant(w) ==
  /\ At(w, "grant")
  /\ granted' = granted \cup {Id(w)}
  /\ End(w)
  /\ UNCHANGED <<ledgerVars, daemonVars>>

\* An agent's receipt could not be recorded: row and transfer are taken back.
ReceiptFails(w) ==
  /\ At(w, "grant")
  /\ Goto(w, "cancel")
  /\ Nowhere

Withdraw(w) ==
  /\ \/ At(w, "withdraw") /\ End(w)
     \/ At(w, "cancel") /\ Goto(w, "discard")
  /\ AbortCreation(Id(w))
  /\ InLedger

-----------------------------------------------------------------------------
\* authorizedTransfer: the row must not have expired.
Authorized(t) == t \in granted /\ t \notin expired

Called(t, pc) ==
  [NoCall EXCEPT !.pc = pc, !.rev = upload[t].rev, !.id = t,
                 !.from = upload[t].offset]

AdmitPatch(w) ==
  \E t \in granted :
    /\ Authorized(t)
    /\ upload[t].state \in {"initiated", "uploading"}
    /\ Admit(w, Called(t, "append"))

\* HEAD will not retire a transfer that a file or a scan depends on.
AdmitHead(w) ==
  \E t \in granted :
    /\ Authorized(t)
    /\ Admit(w, [Called(t, "look") EXCEPT
                   !.seen = IF Bound(t) THEN "scanning" ELSE upload[t].state])

AdmitDelete(w) ==
  \E t \in granted :
    /\ Authorized(t)
    /\ upload[t].state # "ready"
    /\ Admit(w, Called(t, "terminate"))

AdmitCommit(w) ==
  \E t \in granted :
    /\ Authorized(t)
    /\ CanScan(t)
    /\ Admit(w, Called(t, "fetch"))

-----------------------------------------------------------------------------
(***************************************************************************)
(* PATCH, HEAD and DELETE.                                                 *)
(***************************************************************************)
Append(w) ==
  /\ At(w, "append")
  /\ \E n \in 1 .. Length, right \in BOOLEAN :
       /\ AppendPayload(Id(w), call[w].from, n, right)
       /\ call' = [call EXCEPT ![w].pc = "save"]
  /\ InDaemon

\* Wrong offset, wrong chunk checksum, or no such transfer.
AppendRefused(w) ==
  /\ At(w, "append")
  /\ Free(Id(w))
  /\ End(w)
  /\ Nowhere

\* The answer is an error when the directory is gone or the digest is wrong.
SaveAppend(w) ==
  LET rec == Appended(Id(w))
  IN /\ At(w, "save")
     /\ SaveRecord(Id(w), rec)
     /\ IF record[Id(w)].status = "none" \/ rec.status = "rejected"
        THEN End(w)
        ELSE call' = [call EXCEPT ![w].pc = "advance", ![w].to = rec.offset]
     /\ InDaemon

Advance(w) ==
  /\ At(w, "advance")
  /\ AdvanceUpload(Id(w), call[w].from, call[w].to)
  /\ End(w)
  /\ InLedger

AdvanceRaises(w) ==
  /\ At(w, "advance")
  /\ ~CanAdvance(Id(w), call[w].from, call[w].to)
  /\ End(w)
  /\ Nowhere

Look(w) ==
  /\ At(w, "look")
  /\ \/ /\ Loads(Id(w))
        /\ UploadOffset(Id(w)) > call[w].from
        /\ call' = [call EXCEPT ![w].pc = "advance", ![w].to = UploadOffset(Id(w))]
     \/ Loads(Id(w)) /\ UploadOffset(Id(w)) <= call[w].from /\ End(w)
     \/ ~Loads(Id(w)) /\ call[w].seen # "scanning" /\ Goto(w, "retire")
     \/ ~Loads(Id(w)) /\ call[w].seen = "scanning" /\ End(w)
  /\ Nowhere

Retire(w) ==
  /\ At(w, "retire")
  /\ IF upload[Id(w)].state \in Receiving
     THEN RetireUpload(Id(w)) ELSE UNCHANGED ledgerVars
  /\ End(w)
  /\ InLedger

\* A cancelled creation does not look at the answer.
TerminateInDaemon(w) ==
  /\ At(w, "terminate") \/ At(w, "discard")
  /\ Terminate(Id(w))
  /\ IF At(w, "terminate") THEN Goto(w, "abort") ELSE End(w)
  /\ InDaemon

TerminateRefused(w) ==
  /\ At(w, "terminate") \/ At(w, "discard")
  /\ Free(Id(w))
  /\ ~CanTerminate(Id(w))
  /\ End(w)
  /\ Nowhere

Abort(w) ==
  /\ At(w, "abort")
  /\ IF upload[Id(w)].state # "ready"
     THEN AbortUpload(Id(w)) ELSE UNCHANGED ledgerVars
  /\ End(w)
  /\ InLedger

-----------------------------------------------------------------------------
(***************************************************************************)
(* commit_transfer and process_completed_transfer.                         *)
(***************************************************************************)
Fetch(w) ==
  /\ At(w, "fetch")
  /\ IF Loads(Id(w)) /\ record[Id(w)].verified
     THEN call' = [call EXCEPT ![w].pc = "ledger", ![w].seen = record[Id(w)].status]
     ELSE End(w)
  /\ Nowhere

\* Where a commit takes up a transfer whose record it saw.
Resume(w, t) ==
  CASE upload[t].state = "ready" -> "idle"
    [] call[w].seen = "rejected" /\ Bound(t) -> "reject"
    [] call[w].seen = "available" /\ Bound(t) /\ Stored(upload[t].sha) -> "complete"
    [] call[w].seen = "uploaded" /\ payload[t].present
         /\ payload[t].size = Length -> "prepare"
    [] OTHER -> "idle"

ReadLedger(w) ==
  /\ At(w, "ledger")
  /\ IF Resume(w, Id(w)) = "idle" THEN End(w)
     ELSE call' = [call EXCEPT ![w].pc = Resume(w, Id(w)),
                               ![w].file = upload[Id(w)].file]
  /\ Nowhere

Concludes(v, o) ==
  CASE \E i \in Inspectors : v[i] = "failed" -> o = "failed"
    [] \E i \in Inspectors : v[i] = "error"
         /\ \A k \in Inspectors : v[k] # "failed" -> o \in {"error", "failed"}
    [] OTHER -> o \in {"passed", "failed"}

\* The row is bound and the payload is scanned where it lies.
Prepare(w) ==
  /\ At(w, "prepare")
  /\ \E f \in FileIds, v \in [Inspectors -> Verdicts], o \in Outcomes :
       /\ PrepareScan(Id(w), f)
       /\ Concludes(v, o)
       /\ call' = [call EXCEPT ![w].pc = "record",
                               ![w].file = f,
                               ![w].pending = {<<i, v[i]>> : i \in Inspectors},
                               ![w].outcome = o]
  /\ InLedger

PrepareRaises(w) ==
  LET t == Id(w) r == upload[t].rev
  IN /\ At(w, "prepare")
     /\ \/ ~CanScan(t)
        \/ ~Bound(t) /\ (~Mutable(r) \/ ~PathFree(r, upload[t].path))
        \/ Bound(t) /\ file[upload[t].file].storage = "quarantine" /\ ~Mutable(r)
     /\ End(w)
     /\ Nowhere

AfterRecording(o) ==
  CASE o = "failed" -> "refuse" [] o = "error" -> "hold" [] o = "passed" -> "promote"

RecordVerdict(w) ==
  /\ At(w, "record")
  /\ \E p \in call[w].pending :
       /\ RecordInspection(call[w].file, p[1], p[2])
       /\ call' = [call EXCEPT ![w].pending = @ \ {p},
                               ![w].pc = IF call[w].pending = {p}
                                         THEN AfterRecording(call[w].outcome) ELSE @]
  /\ UNCHANGED <<upload, daemonVars, granted>>

Promote(w) ==
  /\ At(w, "promote")
  /\ MovePayload(Id(w), upload[Id(w)].sha)
  /\ Goto(w, "receipt")
  /\ InDaemon

\* Another commit of the transfer was first.
PromoteReplayed(w) ==
  /\ At(w, "promote")
  /\ Free(Id(w))
  /\ Loads(Id(w))
  /\ record[Id(w)].status = "available"
  /\ Goto(w, "complete")
  /\ Nowhere

PromoteRefused(w) ==
  /\ At(w, "promote")
  /\ Free(Id(w))
  /\ ~CanPromote(Id(w), upload[Id(w)].sha)
  /\ ~(Loads(Id(w)) /\ record[Id(w)].status = "available")
  /\ End(w)
  /\ Nowhere

Refuse(w) ==
  /\ At(w, "refuse")
  /\ DropPayload(Id(w))
  /\ Goto(w, "refusal")
  /\ InDaemon

RefuseRefused(w) ==
  /\ At(w, "refuse")
  /\ Free(Id(w))
  /\ ~CanReject(Id(w))
  /\ End(w)
  /\ Nowhere

\* The record that closes a promotion or a rejection.
SaveOutcome(w) ==
  /\ \/ At(w, "receipt") /\ SaveRecord(Id(w), Settled(Id(w), "available"))
     \/ At(w, "refusal") /\ SaveRecord(Id(w), Settled(Id(w), "rejected"))
  /\ IF record[Id(w)].status = "none" THEN End(w)
     ELSE Goto(w, IF At(w, "receipt") THEN "complete" ELSE "reject")
  /\ InDaemon

Settle(w) ==
  /\ \/ At(w, "complete") /\ CompleteUpload(Id(w), call[w].file)
     \/ At(w, "reject") /\ RejectUpload(Id(w), call[w].file)
     \/ At(w, "hold") /\ HoldUpload(Id(w), call[w].file)
  /\ End(w)
  /\ InLedger

\* The upload has another state by now, or a trigger refuses.
SettleRaises(w) ==
  LET t == Id(w) r == upload[t].rev
  IN /\ \/ At(w, "complete") /\ ~CanComplete(t, call[w].file)
        \/ At(w, "reject") /\ upload[t].state \notin {"uploaded", "scanning", "rejected"}
        \/ At(w, "hold") /\ ~CanHold(t)
        \/ /\ call[w].pc \in {"complete", "reject", "hold"}
           /\ IF call[w].file \in DOMAIN file THEN ~Mutable(r) ELSE StatusLocked(r)
     /\ End(w)
     /\ Nowhere

-----------------------------------------------------------------------------
(***************************************************************************)
(* Faults.                                                                 *)
(***************************************************************************)
InDaemonSection(w) == call[w].pc \in {"save", "receipt", "refusal"}

\* A request dies between two of its calls, or one of them is never answered.
Lost(w) ==
  /\ "lost" \in Faults
  /\ ~At(w, "idle")
  /\ ~InDaemonSection(w)
  /\ End(w)
  /\ Nowhere

CrashDaemon ==
  /\ "crash" \in Faults
  /\ DaemonCrash
  /\ call' = [w \in Callers |-> IF InDaemonSection(w) THEN NoCall ELSE call[w]]
  /\ InDaemon

Elapse ==
  /\ "expiry" \in Faults
  /\ \E t \in DOMAIN upload \ expired : Expire(t)
  /\ UNCHANGED call
  /\ InDaemon

Cleanup ==
  /\ \E t \in Transfers : FindExpired(t) \/ RemoveExpired(t)
  /\ UNCHANGED call
  /\ InDaemon

-----------------------------------------------------------------------------
Work(w) ==
  \/ Reserve(w) \/ ReserveRefused(w) \/ CreateInDaemon(w) \/ CreateFails(w)
  \/ Grant(w) \/ ReceiptFails(w) \/ Withdraw(w)
  \/ Append(w) \/ AppendRefused(w) \/ SaveAppend(w)
  \/ Advance(w) \/ AdvanceRaises(w) \/ Look(w) \/ Retire(w)
  \/ TerminateInDaemon(w) \/ TerminateRefused(w) \/ Abort(w)
  \/ Fetch(w) \/ ReadLedger(w) \/ Prepare(w) \/ PrepareRaises(w)
  \/ RecordVerdict(w) \/ Promote(w) \/ PromoteReplayed(w) \/ PromoteRefused(w)
  \/ Refuse(w) \/ RefuseRefused(w) \/ SaveOutcome(w)
  \/ Settle(w) \/ SettleRaises(w)

Next ==
  \/ \E w \in Callers :
       \/ AdmitCreate(w) \/ AdmitPatch(w) \/ AdmitHead(w)
       \/ AdmitDelete(w) \/ AdmitCommit(w)
       \/ Work(w)
       \/ Lost(w)
  \/ CrashDaemon
  \/ Elapse
  \/ Cleanup

Spec == Init /\ [][Next]_vars
-----------------------------------------------------------------------------
(***************************************************************************)
(* Safety.                                                                 *)
(***************************************************************************)
Quiet(t) == \A w \in Callers : Id(w) # t

\* The row's offset never runs ahead of the daemon's record, nor the record
\* ahead of the payload, whatever is lost, retried, reconciled or torn: an
\* acknowledged byte is a byte on disk.
LedgerBehindDisk ==
  \A t \in DOMAIN upload :
    record[t].status # "none" =>
      /\ upload[t].offset <= record[t].offset
      /\ payload[t].present => record[t].offset <= payload[t].size

\* An offset that was acknowledged is never taken back, however late a PATCH
\* or a reconciling HEAD reaches the row with the offset it read.
OffsetStays ==
  [][\A t \in DOMAIN upload : upload'[t].offset >= upload[t].offset]_vars

\* A row is served, and a transfer is ready, only when the store holds bytes
\* that have the declared digest.
ReadyIsStored ==
  /\ \A t \in DOMAIN upload :
       upload[t].state = "ready" =>
         /\ <<upload[t].sha, TRUE>> \in objects
         /\ upload[t].file \in DOMAIN file => file[upload[t].file].storage = "available"
  /\ \A f \in DOMAIN file :
       file[f].storage = "available" => <<file[f].sha, TRUE>> \in objects

\* Concurrent commits, retries and deletions of one transfer agree: what the
\* daemon promoted is never rejected or aborted in the database, and what it
\* rejected is never ready there.
OneOutcome ==
  \A t \in DOMAIN upload :
    /\ record[t].status = "available" => upload[t].state \notin {"rejected", "aborted"}
    /\ record[t].status = "rejected" => upload[t].state # "ready"

\* After any lost call, the client can go on: what a transfer still needs is
\* there for the next chunk, or for the next commit, to find.  (Not so when
\* the daemon itself dies; see PromotionAtomic.)
Retryable ==
  \A t \in DOMAIN upload \ expired :
    Quiet(t) =>
      /\ record[t].status \in Writing =>
           payload[t].present /\ payload[t].size = record[t].offset
      /\ upload[t].state = "scanning" /\ record[t].status # "none" =>
           /\ record[t].verified
           /\ \/ record[t].status = "uploaded" /\ payload[t].size = Length
              \/ record[t].status \in {"available", "rejected"} /\ Bound(t)

(***************************************************************************)
(* The outcome an uploader sees, and the claim that it is an Intake.       *)
(***************************************************************************)
Outcome(t) ==
  IF t \notin DOMAIN upload THEN "open"
  ELSE CASE upload[t].state = "ready" -> upload[t].sha
         [] upload[t].state = "rejected" -> "refused"
         [] upload[t].state \in {"aborted", "expired"} -> "withdrawn"
         [] OTHER -> "open"

Uploads == INSTANCE Intake WITH
             Ids <- Transfers, Digests <- Contents,
             outcome <- [t \in Transfers |-> Outcome(t)],
             kept <- {c \in Contents : <<c, TRUE>> \in objects}

\* Every transfer ends once, and is stored only when its bytes are kept.
IntakeSpec == Uploads!Spec

(***************************************************************************)
(* What a document says, and the code does not do.                         *)
(***************************************************************************)
\* resumable-transfers.md: clean bytes are atomically promoted, with a
\* receipt.  Once nobody works on a transfer, its record and its payload must
\* tell the same story.
PromotionAtomic ==
  \A t \in DOMAIN upload :
    Quiet(t) /\ record[t].status = "uploaded" => payload[t].present
=============================================================================
