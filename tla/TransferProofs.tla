---------------------------- MODULE TransferProofs ----------------------------
(***************************************************************************)
(* TLAPS proofs about Transfer, for every number of callers, transfers,    *)
(* chunks, digests, rows, paths and inspectors.                            *)
(*                                                                         *)
(* Row and record are two copies of one transfer, written in turn by       *)
(* callers that may stop anywhere.  What keeps them together is what each  *)
(* caller knows of its transfer at the step it has reached (CallOK).  It   *)
(* stays true whatever the others do, because a record only moves forward  *)
(* or is removed for good (Forward).                                       *)
(***************************************************************************)
EXTENDS Transfer, TLAPS

Begun      == {"idle", "reserve"}
Creating   == {"create", "grant", "withdraw", "cancel", "discard"}
Sections   == {"save", "receipt", "refusal"}
Binding    == {"record", "promote", "receipt", "complete",
               "refuse", "refusal", "reject", "hold"}
Committing == {"ledger", "prepare"} \cup Binding

Status(t) == record[t].status

\* Record and payload of one transfer, also between two writes of a section.
DiskOK(t) ==
  /\ Status(t) = "none" => payload[t] = NoPayload
  /\ record[t].verified => Status(t) \in {"uploaded", "available", "rejected"}
                           /\ record[t].offset = Length
  /\ Status(t) \in {"uploaded", "available"} => record[t].verified
  /\ Status(t) = "uploaded" /\ payload[t].present =>
       payload[t].intact /\ payload[t].size = Length
  /\ Status(t) \in Writing => payload[t].present
  /\ payload[t].present => record[t].offset <= payload[t].size

\* A transfer whose capability no client holds has received nothing.
UngrantedOK(t) ==
  t \notin granted =>
    /\ Status(t) \in {"none", "created"}
    /\ record[t].offset = 0
    /\ t \notin locked
    /\ t \notin DOMAIN upload => Status(t) = "none"
    /\ t \in DOMAIN upload =>
         /\ upload[t].offset = 0
         /\ upload[t].state \in {"initiated", "aborted", "expired"}
         /\ ~Bound(t)

\* What a row says of the record, which may have been removed.
RowOK(t) ==
  t \in DOMAIN upload =>
    /\ Status(t) # "none" => upload[t].offset <= record[t].offset
    /\ upload[t].state \in Receiving => ~Bound(t)
    /\ upload[t].state \in {"scanning", "ready", "rejected"} => Bound(t)
    /\ Bound(t) => Status(t) = "none" \/ record[t].verified
    /\ Bound(t) /\ upload[t].state = "aborted" => Status(t) = "none"
    /\ upload[t].state = "rejected" => Status(t) \in {"rejected", "none"}
    /\ upload[t].state = "ready" =>
         Status(t) \in {"available", "none"} /\ <<upload[t].sha, TRUE>> \in objects
    /\ Status(t) = "available" => Bound(t) /\ <<upload[t].sha, TRUE>> \in objects

\* The file row a transfer is bound to.
FileOK(t) ==
  t \in DOMAIN upload /\ Bound(t) =>
    LET f == upload[t].file
    IN /\ f \in issued
       /\ f \in DOMAIN file =>
            /\ file[f].sha = upload[t].sha
            /\ upload[t].state = "ready" => file[f].storage = "available"

FilesApart ==
  \A t, u \in DOMAIN upload :
    Bound(t) /\ Bound(u) /\ upload[t].file = upload[u].file => t = u

FilesStored ==
  \A f \in DOMAIN file : file[f].storage = "available" => <<file[f].sha, TRUE>> \in objects

ObjectsIntact == \A o \in objects : o[2] = TRUE

\* What a caller knows of its transfer.
CallOK(w) ==
  LET c == call[w] t == call[w].id
  IN /\ c.pc \notin Begun => t \in DOMAIN upload
     /\ c.pc \notin Begun \cup Creating => t \in granted
     /\ c.pc \in Creating => t \notin granted
     /\ c.pc = "create" => Status(t) = "none"
     /\ c.pc \in Sections => t \in locked
     /\ c.pc = "save" => Status(t) \in Writing \cup {"none"}
     /\ c.pc = "receipt" => Status(t) \in {"uploaded", "none"}
     /\ c.pc = "refusal" => Status(t) \in {"uploaded", "rejected", "none"}
     /\ c.pc \in Committing => Status(t) = "none" \/ record[t].verified
     /\ c.pc \in Binding => Bound(t) /\ upload[t].file = c.file
     /\ c.pc \in {"receipt", "complete"} => <<upload[t].sha, TRUE>> \in objects
     /\ c.pc = "complete" \/ (c.pc = "ledger" /\ c.seen = "available") =>
          Status(t) \in {"available", "none"}
     /\ c.pc = "reject" \/ (c.pc = "ledger" /\ c.seen = "rejected") =>
          Status(t) \in {"rejected", "none"}
     /\ c.pc = "abort" => Status(t) = "none"
     /\ c.pc = "advance" => Status(t) = "none" \/ c.to <= record[t].offset

\* A transfer being created has no other caller, a section no second one.
CallsApart ==
  \A v, w \in Callers :
    v # w /\ call[v].id = call[w].id =>
      /\ call[w].pc \in Creating => call[v].pc \in Begun
      /\ ~(call[w].pc \in Sections /\ call[v].pc \in Sections)

IInv ==
  /\ TypeOK
  /\ \A t \in Transfers : DiskOK(t) /\ UngrantedOK(t) /\ RowOK(t) /\ FileOK(t)
  /\ FilesApart /\ FilesStored /\ ObjectsIntact
  /\ \A w \in Callers : CallOK(w)
  /\ CallsApart

-----------------------------------------------------------------------------
(***************************************************************************)
(* What a step leaves the callers that do not take it.                     *)
(***************************************************************************)
RecordForward(t) ==
  \/ record'[t].status = "none"
  \/ /\ Status(t) # "none"
     /\ record'[t].offset >= record[t].offset
     /\ record[t].verified => record'[t].verified
     /\ Status(t) \in Kept => record'[t].status = Status(t)

RowForward(t) ==
  /\ upload'[t].sha = upload[t].sha
  /\ Bound(t) => upload'[t].file = upload[t].file

Forward ==
  /\ DOMAIN upload \subseteq DOMAIN upload'
  /\ granted \subseteq granted'
  /\ objects \subseteq objects'
  /\ \A t \in DOMAIN upload : RowForward(t)
  /\ \A t \in granted : RecordForward(t)

Undisturbed(v) ==
  /\ call[v].pc \in Creating =>
       /\ call[v].id \notin granted'
       /\ record'[call[v].id].status \in {Status(call[v].id), "none"}
  /\ call[v].pc \in Sections =>
       /\ call[v].id \in locked'
       /\ \/ record'[call[v].id] = record[call[v].id]
          \/ record'[call[v].id].status = "none"

\* The others stand where they stood.
Only(w) ==
  /\ call' \in [Callers -> Calls]
  /\ \A v \in Callers \ {w} : call'[v] = call[v]

\* A creation, or a section, that w enters is its own.
Enters(w) ==
  /\ call'[w].pc \in Creating =>
       \A v \in Callers \ {w} : call[v].id = call'[w].id => call[v].pc \in Begun
  /\ call'[w].pc \in Sections => call'[w].id \notin locked

-----------------------------------------------------------------------------
\* What a caller knows stays true while records move forward.
LEMMA KnowledgeKept ==
  ASSUME IInv, NEW v \in Callers, call'[v] = call[v], Forward, Undisturbed(v),
         record' \in [Transfers -> [status : RecordStatuses, offset : 0 .. Length,
                                    verified : BOOLEAN]]
  PROVE  CallOK(v)'
<1> DEFINE c == call[v]  t == call[v].id
<1>0. CallOK(v) /\ call'[v].id = t /\ call'[v].pc = c.pc
      /\ call'[v].seen = c.seen /\ call'[v].to = c.to /\ call'[v].file = c.file
  BY DEF IInv
<1>c. c \in Calls /\ granted \subseteq DOMAIN upload /\ DOMAIN upload \subseteq Transfers
      /\ record \in [Transfers -> [status : RecordStatuses, offset : 0 .. Length,
                                   verified : BOOLEAN]]
  BY DEF IInv, TypeOK, DaemonTypeOK, LedgerTypeOK
<1>1. /\ c.pc \notin Begun => t \in DOMAIN upload'
      /\ c.pc \notin Begun \cup Creating => t \in granted'
      /\ c.pc \in Creating => t \notin granted'
      /\ c.pc = "create" => Status(t)' = "none"
  BY <1>0 DEF CallOK, Forward, Undisturbed, Creating, Status
<1>2. /\ c.pc \in Sections => t \in locked'
      /\ c.pc = "save" => Status(t)' \in Writing \cup {"none"}
      /\ c.pc = "receipt" => Status(t)' \in {"uploaded", "none"}
      /\ c.pc = "refusal" => Status(t)' \in {"uploaded", "rejected", "none"}
  BY <1>0 DEF CallOK, Undisturbed, Sections, Status
<1>3. c.pc \notin Begun \cup Creating => RecordForward(t) /\ RowForward(t)
  BY <1>0, <1>c DEF CallOK, Forward
<1>4. c.pc \in Committing => Status(t)' = "none" \/ record'[t].verified
  BY <1>0, <1>3 DEF CallOK, RecordForward, Committing, Binding, Begun, Creating, Status
<1>5. c.pc \in Binding => Bound(t)' /\ upload'[t].file = c.file
  BY <1>0, <1>3 DEF CallOK, RowForward, Binding, Begun, Creating, Bound
<1>6. c.pc \in {"receipt", "complete"} => <<upload'[t].sha, TRUE>> \in objects'
  BY <1>0, <1>3 DEF CallOK, RowForward, Begun, Creating, Forward
<1>7. c.pc = "complete" \/ (c.pc = "ledger" /\ c.seen = "available") =>
        Status(t)' \in {"available", "none"}
  BY <1>0, <1>3 DEF CallOK, RecordForward, Begun, Creating, Kept, Status
<1>8. c.pc = "reject" \/ (c.pc = "ledger" /\ c.seen = "rejected") =>
        Status(t)' \in {"rejected", "none"}
  BY <1>0, <1>3 DEF CallOK, RecordForward, Begun, Creating, Kept, Status
<1>9. c.pc = "abort" => Status(t)' = "none"
  BY <1>0, <1>3 DEF CallOK, RecordForward, Begun, Creating, Status
<1>10. c.pc = "advance" => Status(t)' = "none" \/ c.to <= record'[t].offset
  <2> SUFFICES ASSUME c.pc = "advance", Status(t)' # "none"
               PROVE  c.to <= record'[t].offset
    OBVIOUS
  <2>1. t \in granted /\ t \in Transfers
    BY <1>0, <1>c DEF CallOK, Begun, Creating
  <2>2. Status(t) # "none" /\ record'[t].offset >= record[t].offset
    BY <1>3 DEF RecordForward, Begun, Creating, Status
  <2>3. c.to <= record[t].offset
    BY <1>0, <2>2 DEF CallOK
  <2>4. c.to \in Nat /\ record[t].offset \in Nat /\ record'[t].offset \in Nat
    BY <1>c, <2>1, LengthPositive DEF Calls
  <2>5. QED
    BY <2>2, <2>3, <2>4
<1> HIDE DEF c, t
<1>11. QED
  BY <1>0, <1>1, <1>2, <1>4, <1>5, <1>6, <1>7, <1>8, <1>9, <1>10 DEF CallOK, c, t

LEMMA ApartKept ==
  ASSUME IInv, NEW w \in Callers, Only(w), Enters(w), \A v \in Callers : CallOK(v)'
  PROVE  CallsApart'
<1> SUFFICES ASSUME NEW u \in Callers, NEW v \in Callers, u # v,
                    call'[u].id = call'[v].id
             PROVE  /\ call'[v].pc \in Creating => call'[u].pc \in Begun
                    /\ ~(call'[v].pc \in Sections /\ call'[u].pc \in Sections)
  BY DEF CallsApart
<1>1. CASE u # w /\ v # w
  BY <1>1 DEF IInv, CallsApart, Only
<1>2. CASE v = w
  <2>1. call'[u] = call[u] /\ CallOK(u)
    BY <1>2 DEF Only, IInv
  <2>2. QED
    BY <1>2, <2>1 DEF Enters, CallOK
<1>3. CASE u = w
  <2>1. call'[v] = call[v] /\ CallOK(v)
    BY <1>3 DEF Only, IInv
  <2>2. ASSUME call'[v].pc \in Creating PROVE call'[u].pc \in Begun
    <3>1. call'[u].id \notin granted'
      BY <2>2 DEF CallOK
    <3>2. call'[u].pc \in Begun \cup Creating
      BY <3>1 DEF CallOK
    <3>3. call'[u].pc \in Creating => FALSE
      BY <1>3, <2>1, <2>2 DEF Enters, Creating, Begun
    <3>4. QED
      BY <3>2, <3>3
  <2>3. ~(call'[v].pc \in Sections /\ call'[u].pc \in Sections)
    BY <1>3, <2>1 DEF Enters, CallOK
  <2>4. QED
    BY <2>2, <2>3
<1>4. QED
  BY <1>1, <1>2, <1>3

\* The invariant of what the callers share.
Shared ==
  /\ \A t \in Transfers : DiskOK(t) /\ UngrantedOK(t) /\ RowOK(t) /\ FileOK(t)
  /\ FilesApart /\ FilesStored /\ ObjectsIntact

\* A step of w that leaves the shared state right leaves the invariant.
LEMMA StepInv ==
  ASSUME IInv, NEW w \in Callers, TypeOK', Shared', Only(w), Enters(w), CallOK(w)',
         Forward, \A v \in Callers \ {w} : Undisturbed(v)
  PROVE  IInv'
<1>1. \A v \in Callers : CallOK(v)'
  <2> TAKE v \in Callers
  <2>1. CASE v = w
    BY <2>1
  <2>2. CASE v # w
    BY <2>2, KnowledgeKept DEF Only, TypeOK, DaemonTypeOK
  <2>3. QED
    BY <2>1, <2>2
<1>2. CallsApart'
  BY <1>1, ApartKept
<1>3. QED
  BY <1>1, <1>2 DEF IInv, Shared

-----------------------------------------------------------------------------
(***************************************************************************)
(* Steps of a request alone, of the ledger, and of the daemon.             *)
(***************************************************************************)
LEMMA NowhereInv ==
  ASSUME IInv, NEW w \in Callers, Nowhere, Only(w), CallOK(w)',
         call'[w].pc \notin Sections,
         call'[w].pc \in Creating =>
           call[w].pc \in Creating /\ call'[w].id = call[w].id
  PROVE  IInv'
<1>1. UNCHANGED <<revision, file, issued, analysis, decision, head, latest, candidate,
                  upload, record, payload, objects, locked, doomed, expired, granted>>
  BY DEF Nowhere, ledgerVars, dbVars, daemonVars
<1>2. TypeOK'
  BY <1>1 DEF IInv, TypeOK, DBTypeOK, LedgerTypeOK, DaemonTypeOK, Only
<1>3. Shared'
  <2>1. \A t \in Transfers : DiskOK(t)' /\ UngrantedOK(t)' /\ RowOK(t)' /\ FileOK(t)'
    BY <1>1 DEF IInv, DiskOK, UngrantedOK, RowOK, FileOK, Status, Bound
  <2>2. FilesApart' /\ FilesStored' /\ ObjectsIntact'
    BY <1>1 DEF IInv, FilesApart, FilesStored, ObjectsIntact, Bound
  <2>3. QED
    BY <2>1, <2>2 DEF Shared
<1>4. Forward
  BY <1>1, LengthPositive DEF Forward, RowForward, RecordForward, Status, IInv, TypeOK,
     DaemonTypeOK, LedgerTypeOK
<1>5. \A v \in Callers \ {w} : Undisturbed(v)
  BY <1>1 DEF Undisturbed, IInv, CallOK, Status
<1>6. Enters(w)
  BY DEF Enters, IInv, CallsApart
<1>7. QED
  BY <1>2, <1>3, <1>4, <1>5, <1>6, StepInv

\* A transaction; Rows' is what it leaves of rows and files.
LEMMA LedgerInv ==
  ASSUME IInv, NEW w \in Callers, InLedger, TypeOK', Only(w), CallOK(w)', Enters(w),
         DOMAIN upload \subseteq DOMAIN upload',
         \A t \in DOMAIN upload : RowForward(t),
         \A t \in Transfers : UngrantedOK(t)' /\ RowOK(t)' /\ FileOK(t)',
         FilesApart', FilesStored'
  PROVE  IInv'
<1>1. UNCHANGED <<record, payload, objects, locked, doomed, expired, granted>>
  BY DEF InLedger, daemonVars
<1>2. Shared'
  <2>1. \A t \in Transfers : DiskOK(t)'
    BY <1>1 DEF IInv, DiskOK, Status
  <2>2. ObjectsIntact'
    BY <1>1 DEF IInv, ObjectsIntact
  <2>3. QED
    BY <2>1, <2>2 DEF Shared
<1>3. Forward
  BY <1>1, LengthPositive DEF Forward, RecordForward, Status, IInv, TypeOK,
     DaemonTypeOK, LedgerTypeOK
<1>4. \A v \in Callers \ {w} : Undisturbed(v)
  BY <1>1 DEF Undisturbed, IInv, CallOK, Status
<1>5. QED
  BY <1>2, <1>3, <1>4, StepInv

\* The daemon writes the directory of t and nothing of another transfer.
OnlyFilesOf(t) ==
  \A u \in Transfers \ {t} :
    /\ record'[u] = record[u]
    /\ payload'[u] = payload[u]
    /\ (u \in locked') = (u \in locked)

LEMMA SharedByDaemon ==
  ASSUME IInv, NEW t \in Transfers, UNCHANGED <<ledgerVars, granted>>,
         OnlyFilesOf(t), objects \subseteq objects', ObjectsIntact',
         DiskOK(t)', UngrantedOK(t)', RowOK(t)'
  PROVE  Shared'
<1>1. UNCHANGED <<file, issued, upload, granted>>
  BY DEF ledgerVars, dbVars
<1>2. \A u \in Transfers \ {t} : DiskOK(u)' /\ UngrantedOK(u)'
  BY <1>1 DEF IInv, OnlyFilesOf, DiskOK, UngrantedOK, Status, Bound
<1>3. \A u \in Transfers \ {t} : RowOK(u)'
  BY <1>1 DEF IInv, OnlyFilesOf, RowOK, Status, Bound
<1>4. \A u \in Transfers : FileOK(u)'
  BY <1>1 DEF IInv, FileOK, Bound
<1>5. FilesApart' /\ FilesStored'
  BY <1>1 DEF IInv, FilesApart, FilesStored, Bound
<1>6. QED
  BY <1>2, <1>3, <1>4, <1>5 DEF Shared

LEMMA DaemonInv ==
  ASSUME IInv, NEW w \in Callers, NEW t \in Transfers, InDaemon, DaemonTypeOK',
         Only(w), CallOK(w)', Enters(w), OnlyFilesOf(t),
         objects \subseteq objects', ObjectsIntact',
         DiskOK(t)', UngrantedOK(t)', RowOK(t)',
         t \in granted => RecordForward(t),
         \A v \in Callers \ {w} : call[v].id = t => Undisturbed(v)
  PROVE  IInv'
<1>1. UNCHANGED <<revision, file, issued, analysis, decision, head, latest, candidate,
                  upload, granted>> /\ UNCHANGED <<ledgerVars, granted>>
  BY DEF InDaemon, ledgerVars, dbVars
<1>2. TypeOK'
  BY <1>1 DEF IInv, TypeOK, DBTypeOK, LedgerTypeOK, Only
<1>3. Shared'
  BY <1>1, SharedByDaemon
<1>4. granted \subseteq Transfers /\ record \in [Transfers -> [status : RecordStatuses,
        offset : 0 .. Length, verified : BOOLEAN]]
  BY DEF IInv, TypeOK, DaemonTypeOK, LedgerTypeOK
<1>5. Forward
  <2>1. \A u \in granted \ {t} : RecordForward(u)
    BY <1>4, LengthPositive DEF OnlyFilesOf, RecordForward, Status
  <2>2. QED
    BY <1>1, <2>1 DEF Forward, RowForward
<1>6. \A v \in Callers \ {w} : Undisturbed(v)
  <2> SUFFICES ASSUME NEW v \in Callers \ {w}, call[v].id # t PROVE Undisturbed(v)
    OBVIOUS
  <2>1. CallOK(v) /\ DOMAIN upload \subseteq Transfers
    BY DEF IInv, TypeOK, LedgerTypeOK
  <2>2. QED
    BY <1>1, <2>1 DEF Undisturbed, CallOK, OnlyFilesOf, Status, Begun, Creating, Sections
<1>7. QED
  BY <1>2, <1>3, <1>5, <1>6, StepInv

-----------------------------------------------------------------------------
\* What ends, admits or moves a call on leaves the others alone.
LEMMA Typed ==
  ASSUME IInv
  PROVE  /\ call \in [Callers -> Calls]
         /\ DOMAIN upload \subseteq Transfers
         /\ upload \in [DOMAIN upload -> Upload]
         /\ granted \subseteq DOMAIN upload
         /\ record \in [Transfers -> [status : RecordStatuses, offset : 0 .. Length,
                                      verified : BOOLEAN]]
         /\ payload \in [Transfers -> [present : BOOLEAN, size : 0 .. Length,
                                       intact : BOOLEAN]]
         /\ objects \subseteq Contents \X BOOLEAN
         /\ locked \subseteq Transfers
BY DEF IInv, TypeOK, LedgerTypeOK, DaemonTypeOK

\* The store never has an object under a digest that is not its own.
LEMMA StoredIntact ==
  ASSUME IInv, NEW c, Stored(c)
  PROVE  <<c, TRUE>> \in objects
<1>1. PICK o \in objects : o[1] = c
  BY DEF Stored
<1>2. o \in Contents \X BOOLEAN /\ o[2] = TRUE
  BY Typed DEF IInv, ObjectsIntact
<1>3. o = <<o[1], o[2]>>
  BY <1>2
<1>4. QED
  BY <1>1, <1>2, <1>3

LEMMA NoCallTyped == NoCall \in Calls
BY RevisionBound, LengthPositive
   DEF NoCall, Calls, Steps, Revisions, RecordStatuses, UploadStates, Outcomes

LEMMA EndOnly ==
  ASSUME IInv, NEW w \in Callers, End(w)
  PROVE  /\ Only(w) /\ Enters(w) /\ CallOK(w)'
         /\ call'[w].pc \notin Sections \cup Creating
<1>1. Only(w) /\ call'[w] = NoCall
  BY Typed, NoCallTyped DEF Only, End
<1>2. QED
  BY <1>1 DEF NoCall, Enters, CallOK, Sections, Creating, Begun, Committing, Binding

LEMMA GotoOnly ==
  ASSUME IInv, NEW w \in Callers, NEW p \in Steps, Goto(w, p)
  PROVE  /\ Only(w)
         /\ call'[w].pc = p
         /\ call'[w].id = call[w].id /\ call'[w].seen = call[w].seen
         /\ call'[w].to = call[w].to /\ call'[w].file = call[w].file
<1>1. PICK c : c = call[w]
  OBVIOUS
<1>2. c \in Calls
  BY <1>1, Typed
<1>3. call' = [call EXCEPT ![w] = [c EXCEPT !.pc = p]]
  BY <1>1 DEF Goto
<1>4. [c EXCEPT !.pc = p] \in Calls
  BY <1>2 DEF Calls
<1>5. Only(w) /\ call'[w] = [c EXCEPT !.pc = p]
  BY <1>3, <1>4, Typed DEF Only
<1>6. QED
  BY <1>1, <1>2, <1>5 DEF Calls

\* A request that ends and touches nothing.
LEMMA EndInv ==
  ASSUME IInv, NEW w \in Callers, End(w), Nowhere
  PROVE  IInv'
BY EndOnly, NowhereInv

-----------------------------------------------------------------------------
(***************************************************************************)
(* The actions that write nothing but the request.                         *)
(***************************************************************************)
LEMMA AdmitOnly ==
  ASSUME IInv, NEW w \in Callers, NEW c \in Calls, Admit(w, c)
  PROVE  Only(w) /\ call'[w] = c /\ Nowhere
BY Typed DEF Admit, Only

LEMMA CalledTyped ==
  ASSUME IInv, NEW t \in granted, NEW p \in {"append", "look", "terminate", "fetch"}
  PROVE  /\ Called(t, p) \in Calls
         /\ Called(t, p).pc = p
         /\ Called(t, p).id = t
<1>1. t \in DOMAIN upload /\ t \in Transfers /\ upload[t] \in Upload
  BY Typed
<1>2. PICK r, o : r = upload[t].rev /\ o = upload[t].offset
  OBVIOUS
<1>3. r \in Revisions /\ o \in 0 .. Length
  BY <1>1, <1>2 DEF Upload
<1>4. Called(t, p) = [NoCall EXCEPT !.pc = p, !.rev = r, !.id = t, !.from = o]
  BY <1>2 DEF Called
<1>5. QED
  BY <1>1, <1>3, <1>4, NoCallTyped DEF Calls, Steps

\* What a request knows that has only been authorized.
LEMMA AdmittedOK ==
  ASSUME IInv, NEW w \in Callers, NEW c \in Calls, Admit(w, c),
         c.id \in granted, c.pc \in {"append", "look", "terminate", "fetch"}
  PROVE  IInv'
<1>1. Only(w) /\ call'[w] = c /\ Nowhere
  BY AdmitOnly
<1>2. CallOK(w)'
  BY <1>1, Typed DEF CallOK, Nowhere, ledgerVars, Begun, Creating, Sections, Committing, Binding
<1>3. QED
  BY <1>1, <1>2, NowhereInv DEF Sections, Creating

LEMMA AdmitInv ==
  ASSUME IInv, NEW w \in Callers,
         \/ AdmitCreate(w) \/ AdmitPatch(w) \/ AdmitHead(w)
         \/ AdmitDelete(w) \/ AdmitCommit(w)
  PROVE  IInv'
<1>1. CASE AdmitCreate(w)
  <2> DEFINE c == [NoCall EXCEPT !.pc = "reserve", !.rev = head]
  <2>1. head \in Revisions
    BY DEF IInv, TypeOK, DBTypeOK
  <2>2. c \in Calls /\ c.pc = "reserve"
    BY <2>1, NoCallTyped DEF Calls, Steps
  <2>3. Admit(w, c)
    BY <1>1 DEF AdmitCreate
  <2> HIDE DEF c
  <2>4. Only(w) /\ call'[w] = c /\ Nowhere
    BY <2>2, <2>3, AdmitOnly
  <2>5. CallOK(w)'
    BY <2>2, <2>4 DEF CallOK, Begun, Creating, Sections, Committing, Binding
  <2>6. QED
    BY <2>2, <2>4, <2>5, NowhereInv DEF Sections, Creating
<1>2. CASE AdmitPatch(w)
  BY <1>2, CalledTyped, AdmittedOK DEF AdmitPatch
<1>3. CASE AdmitHead(w)
  <2>1. PICK t \in granted :
          Admit(w, [Called(t, "look") EXCEPT
                      !.seen = IF Bound(t) THEN "scanning" ELSE upload[t].state])
    BY <1>3 DEF AdmitHead
  <2>2. PICK s : s = IF Bound(t) THEN "scanning" ELSE upload[t].state
    OBVIOUS
  <2>3. s \in UploadStates
    BY <2>2, Typed DEF Upload, UploadStates
  <2>4. PICK c : c = Called(t, "look")
    OBVIOUS
  <2>5. c \in Calls /\ c.pc = "look" /\ c.id = t
    BY <2>4, CalledTyped
  <2> DEFINE d == [c EXCEPT !.seen = s]
  <2>6. Admit(w, d)
    BY <2>1, <2>2, <2>4
  <2>7. d \in Calls /\ d.pc = "look" /\ d.id = t
    BY <2>3, <2>5 DEF Calls
  <2> HIDE DEF d
  <2>8. QED
    BY <2>6, <2>7, AdmittedOK
<1>4. CASE AdmitDelete(w)
  BY <1>4, CalledTyped, AdmittedOK DEF AdmitDelete
<1>5. CASE AdmitCommit(w)
  BY <1>5, CalledTyped, AdmittedOK DEF AdmitCommit
<1>6. QED
  BY <1>1, <1>2, <1>3, <1>4, <1>5

\* A creation that failed goes on to take itself back.
LEMMA CreationFailsInv ==
  ASSUME IInv, NEW w \in Callers, CreateFails(w) \/ ReceiptFails(w)
  PROVE  IInv'
<1>1. CASE CreateFails(w)
  <2>1. Goto(w, "withdraw") /\ Nowhere /\ call[w].pc = "create"
    BY <1>1 DEF CreateFails, At
  <2>2. Only(w) /\ call'[w].pc = "withdraw" /\ call'[w].id = call[w].id
    BY <2>1, GotoOnly DEF Steps
  <2>3. CallOK(w) /\ UNCHANGED <<upload, granted>>
    BY <2>1 DEF IInv, Nowhere, ledgerVars
  <2>4. CallOK(w)'
    BY <2>1, <2>2, <2>3 DEF CallOK, Begun, Creating, Sections, Committing, Binding
  <2>5. QED
    BY <2>1, <2>2, <2>4, NowhereInv DEF Sections, Creating
<1>2. CASE ReceiptFails(w)
  <2>1. Goto(w, "cancel") /\ Nowhere /\ call[w].pc = "grant"
    BY <1>2 DEF ReceiptFails, At
  <2>2. Only(w) /\ call'[w].pc = "cancel" /\ call'[w].id = call[w].id
    BY <2>1, GotoOnly DEF Steps
  <2>3. CallOK(w) /\ UNCHANGED <<upload, granted>>
    BY <2>1 DEF IInv, Nowhere, ledgerVars
  <2>4. CallOK(w)'
    BY <2>1, <2>2, <2>3 DEF CallOK, Begun, Creating, Sections, Committing, Binding
  <2>5. QED
    BY <2>1, <2>2, <2>4, NowhereInv DEF Sections, Creating
<1>3. QED
  BY <1>1, <1>2

\* HEAD takes the daemon's offset to the row only while a record is there.
LEMMA LookInv ==
  ASSUME IInv, NEW w \in Callers, Look(w)
  PROVE  IInv'
<1>0. /\ call[w].pc = "look" /\ Nowhere
      /\ CallOK(w) /\ call[w].id \in DOMAIN upload /\ call[w].id \in granted
      /\ call[w].id \in Transfers
  BY Typed DEF Look, At, IInv, CallOK, Begun, Creating
<1>u. UNCHANGED <<upload, granted, record>>
  BY <1>0 DEF Nowhere, ledgerVars, daemonVars
<1>1. CASE End(w)
  BY <1>0, <1>1, EndInv
<1>2. CASE Goto(w, "retire")
  <2>1. Only(w) /\ call'[w].pc = "retire" /\ call'[w].id = call[w].id
    BY <1>2, GotoOnly DEF Steps
  <2>2. CallOK(w)'
    BY <1>0, <1>u, <2>1 DEF CallOK, Begun, Creating, Sections, Committing, Binding
  <2>3. QED
    BY <1>0, <2>1, <2>2, NowhereInv DEF Sections, Creating
<1>3. CASE call' = [call EXCEPT ![w].pc = "advance", ![w].to = UploadOffset(Id(w))]
  <2>1. PICK c, o : c = call[w] /\ o = record[call[w].id].offset
    OBVIOUS
  <2>2. c \in Calls /\ o \in 0 .. Length
    BY <1>0, <2>1, Typed
  <2>3. call' = [call EXCEPT ![w] = [c EXCEPT !.pc = "advance", !.to = o]]
    BY <1>3, <2>1 DEF UploadOffset, Id
  <2> DEFINE d == [c EXCEPT !.pc = "advance", !.to = o]
  <2>4. d \in Calls /\ d.pc = "advance" /\ d.id = call[w].id /\ d.to = o
    BY <2>1, <2>2 DEF Calls, Steps
  <2> HIDE DEF d
  <2>5. Only(w) /\ call'[w] = d
    BY <2>3, <2>4, Typed DEF Only, d
  <2>6. CallOK(w)'
    BY <1>0, <1>u, <2>1, <2>2, <2>4, <2>5, LengthPositive
       DEF CallOK, Begun, Creating, Sections, Committing, Binding
  <2>7. QED
    BY <1>0, <2>4, <2>5, <2>6, NowhereInv DEF Sections, Creating
<1>4. QED
  BY <1>1, <1>2, <1>3 DEF Look

LEMMA FetchInv ==
  ASSUME IInv, NEW w \in Callers, Fetch(w)
  PROVE  IInv'
<1>0. /\ call[w].pc = "fetch" /\ Nowhere
      /\ CallOK(w) /\ call[w].id \in DOMAIN upload /\ call[w].id \in granted
      /\ call[w].id \in Transfers
  BY Typed DEF Fetch, At, IInv, CallOK, Begun, Creating
<1>u. UNCHANGED <<upload, granted, record>>
  BY <1>0 DEF Nowhere, ledgerVars, daemonVars
<1>1. CASE End(w)
  BY <1>0, <1>1, EndInv
<1>2. CASE /\ record[call[w].id].verified
           /\ call' = [call EXCEPT ![w].pc = "ledger", ![w].seen = record[Id(w)].status]
  <2>1. PICK c, s : c = call[w] /\ s = record[call[w].id].status
    OBVIOUS
  <2>2. c \in Calls /\ s \in RecordStatuses
    BY <1>0, <2>1, Typed
  <2>3. call' = [call EXCEPT ![w] = [c EXCEPT !.pc = "ledger", !.seen = s]]
    BY <1>2, <2>1 DEF Id
  <2> DEFINE d == [c EXCEPT !.pc = "ledger", !.seen = s]
  <2>4. d \in Calls /\ d.pc = "ledger" /\ d.id = call[w].id /\ d.seen = s
    BY <2>1, <2>2 DEF Calls, Steps
  <2> HIDE DEF d
  <2>5. Only(w) /\ call'[w] = d
    BY <2>3, <2>4, Typed DEF Only, d
  <2>6. CallOK(w)'
    <3>1. record'[d.id].verified /\ record'[d.id].status = s
          /\ d.id \in DOMAIN upload' /\ d.id \in granted'
      BY <1>0, <1>u, <1>2, <2>1, <2>4
    <3>2. QED
      BY <2>4, <2>5, <3>1
         DEF CallOK, Begun, Creating, Sections, Committing, Binding, Status
  <2>7. QED
    BY <1>0, <2>4, <2>5, <2>6, NowhereInv DEF Sections, Creating
<1>3. QED
  BY <1>1, <1>2 DEF Fetch, Id

LEMMA ReadLedgerInv ==
  ASSUME IInv, NEW w \in Callers, ReadLedger(w)
  PROVE  IInv'
<1>0. /\ call[w].pc = "ledger" /\ Nowhere
      /\ CallOK(w) /\ call[w].id \in DOMAIN upload /\ call[w].id \in granted
      /\ call[w].id \in Transfers /\ ObjectsIntact
  BY Typed DEF ReadLedger, At, IInv, CallOK, Begun, Creating
<1>u. UNCHANGED <<upload, granted, record, objects>>
  BY <1>0 DEF Nowhere, ledgerVars, daemonVars
<1>1. CASE End(w)
  BY <1>0, <1>1, EndInv
<1>2. CASE /\ Resume(w, Id(w)) # "idle"
           /\ call' = [call EXCEPT ![w].pc = Resume(w, Id(w)),
                                   ![w].file = upload[Id(w)].file]
  <2>1. PICK c, f, p : c = call[w] /\ f = upload[call[w].id].file /\ p = Resume(w, call[w].id)
    OBVIOUS
  <2>2. c \in Calls /\ f \in FileIds \cup {NoFile}
    BY <1>0, <2>1, Typed DEF Upload
  <2>3. \/ p = "reject" /\ c.seen = "rejected" /\ Bound(call[w].id)
        \/ p = "complete" /\ c.seen = "available" /\ Bound(call[w].id)
           /\ Stored(upload[call[w].id].sha)
        \/ p = "prepare"
    BY <1>2, <2>1 DEF Resume, Id
  <2>4. p = "complete" => <<upload[call[w].id].sha, TRUE>> \in objects
    BY <2>3, StoredIntact
  <2>5. call' = [call EXCEPT ![w] = [c EXCEPT !.pc = p, !.file = f]]
    BY <1>2, <2>1 DEF Id
  <2> DEFINE d == [c EXCEPT !.pc = p, !.file = f]
  <2>6. /\ d \in Calls /\ d.pc = p /\ d.id = call[w].id /\ d.file = f
        /\ d.seen = call[w].seen
    BY <2>1, <2>2, <2>3 DEF Calls, Steps
  <2> HIDE DEF d
  <2>7. Only(w) /\ call'[w] = d
    BY <2>5, <2>6, Typed DEF Only, d
  <2>8. CallOK(w)'
    BY <1>0, <1>u, <2>1, <2>3, <2>4, <2>6, <2>7
       DEF CallOK, Begun, Creating, Sections, Committing, Binding, Status, Bound
  <2>9. QED
    BY <1>0, <2>3, <2>6, <2>7, <2>8, NowhereInv DEF Sections, Creating
<1>3. QED
  BY <1>1, <1>2 DEF ReadLedger

\* The object of another commit's promotion is there.
LEMMA PromoteReplayedInv ==
  ASSUME IInv, NEW w \in Callers, PromoteReplayed(w)
  PROVE  IInv'
<1>0. /\ call[w].pc = "promote" /\ Nowhere /\ Goto(w, "complete")
      /\ CallOK(w) /\ call[w].id \in DOMAIN upload /\ call[w].id \in granted
      /\ call[w].id \in Transfers /\ Status(call[w].id) = "available"
  BY Typed DEF PromoteReplayed, At, IInv, CallOK, Begun, Creating, Id, Status
<1>u. UNCHANGED <<upload, granted, record, objects>>
  BY <1>0 DEF Nowhere, ledgerVars, daemonVars
<1>1. <<upload[call[w].id].sha, TRUE>> \in objects /\ record[call[w].id].verified
  BY <1>0 DEF IInv, RowOK, DiskOK
<1>2. /\ Only(w) /\ call'[w].pc = "complete" /\ call'[w].id = call[w].id
      /\ call'[w].file = call[w].file
  BY <1>0, GotoOnly DEF Steps
<1>3. CallOK(w)'
  BY <1>0, <1>u, <1>1, <1>2
     DEF CallOK, Begun, Creating, Sections, Committing, Binding, Status, Bound
<1>4. QED
  BY <1>0, <1>2, <1>3, NowhereInv DEF Sections, Creating

-----------------------------------------------------------------------------
(***************************************************************************)
(* The daemon's writes.                                                    *)
(***************************************************************************)
RecordType == [status : RecordStatuses, offset : 0 .. Length, verified : BOOLEAN]

PayloadType == [present : BOOLEAN, size : 0 .. Length, intact : BOOLEAN]

\* What changes one directory keeps the types, and the other directories.
LEMMA OneDirectory ==
  ASSUME IInv, NEW t \in Transfers, NEW rec \in RecordType, NEW p \in PayloadType,
         record' = [record EXCEPT ![t] = rec],
         payload' = [payload EXCEPT ![t] = p],
         objects' \subseteq Contents \X BOOLEAN,
         \/ locked' = locked
         \/ locked' = locked \cup {t}
         \/ locked' = locked \ {t},
         doomed' \subseteq Transfers, expired' = expired
  PROVE  /\ DaemonTypeOK' /\ OnlyFilesOf(t)
         /\ record'[t] = rec /\ payload'[t] = p
<1>1. expired \subseteq Transfers /\ locked \subseteq Transfers
  BY DEF IInv, TypeOK, DaemonTypeOK
<1>2. /\ record \in [Transfers -> RecordType]
      /\ payload \in [Transfers -> PayloadType]
  BY Typed DEF RecordType, PayloadType
<1>3. /\ record' \in [Transfers -> RecordType]
      /\ payload' \in [Transfers -> PayloadType]
  BY <1>2
<1>4. DaemonTypeOK'
  BY <1>1, <1>3 DEF DaemonTypeOK, RecordType, PayloadType
<1>5. QED
  BY <1>2, <1>4 DEF OnlyFilesOf

\* Nobody is creating, or in a section of, a granted transfer that is free.
LEMMA FreeUndisturbed ==
  ASSUME IInv, NEW t \in granted, t \notin locked, NEW v \in Callers, call[v].id = t
  PROVE  Undisturbed(v)
<1>1. CallOK(v)
  BY DEF IInv
<1>2. QED
  BY <1>1 DEF CallOK, Undisturbed

\* Nobody else is in the creation, or in the section, that w is in.
LEMMA AloneUndisturbed ==
  ASSUME IInv, NEW w \in Callers, NEW v \in Callers \ {w}, call[v].id = call[w].id,
         call[w].pc \in Creating \cup Sections
  PROVE  Undisturbed(v)
<1>1. CallOK(v) /\ CallOK(w)
  BY DEF IInv
<1>2. CASE call[w].pc \in Creating
  BY <1>2 DEF IInv, CallsApart, Undisturbed, Begun, Creating, Sections
<1>3. CASE call[w].pc \in Sections
  <2>1. call[v].pc \notin Sections
    BY <1>3 DEF IInv, CallsApart
  <2>2. call[w].id \in granted
    BY <1>1, <1>3 DEF CallOK, Begun, Creating, Sections
  <2>3. QED
    BY <1>1, <2>1, <2>2 DEF CallOK, Undisturbed
<1>4. QED
  BY <1>2, <1>3

LEMMA CreateInDaemonInv ==
  ASSUME IInv, NEW w \in Callers, CreateInDaemon(w)
  PROVE  IInv'
<1>0. PICK t, rec, p :
        /\ t = call[w].id
        /\ rec = [NoRecord EXCEPT !.status = "created"]
        /\ p = [present |-> TRUE, size |-> 0, intact |-> TRUE]
  OBVIOUS
<1>1. /\ call[w].pc = "create" /\ CallOK(w)
      /\ t \in DOMAIN upload /\ t \in Transfers /\ t \notin granted
  BY <1>0, Typed DEF CreateInDaemon, At, IInv, CallOK, Begun, Creating
<1>2. /\ record' = [record EXCEPT ![t] = rec]
      /\ payload' = [payload EXCEPT ![t] = p]
      /\ UNCHANGED <<objects, locked, doomed, expired>>
      /\ UNCHANGED <<upload, granted>> /\ InDaemon
  <2>1. CreateRecord(t) /\ InDaemon
    BY <1>0 DEF CreateInDaemon, Id
  <2>2. UNCHANGED <<upload, granted>>
    BY <2>1 DEF InDaemon, ledgerVars
  <2>3. QED
    BY <1>0, <2>1, <2>2 DEF CreateRecord, ClockAndCleanup
<1>3. /\ rec \in RecordType /\ p \in PayloadType
      /\ rec.status = "created" /\ rec.offset = 0 /\ ~rec.verified
  <2>1. PICK no : no = NoRecord
    OBVIOUS
  <2>2. no \in RecordType /\ no.offset = 0 /\ ~no.verified
    BY <2>1, LengthPositive DEF NoRecord, RecordType, RecordStatuses
  <2>3. rec = [no EXCEPT !.status = "created"]
    BY <1>0, <2>1
  <2>4. QED
    BY <1>0, <2>2, <2>3, LengthPositive DEF RecordType, PayloadType, RecordStatuses
<1>4. DaemonTypeOK' /\ OnlyFilesOf(t) /\ record'[t] = rec /\ payload'[t] = p
  <2>1. doomed \subseteq Transfers
    BY DEF IInv, TypeOK, DaemonTypeOK
  <2>2. QED
    BY <1>1, <1>2, <1>3, <2>1, OneDirectory, Typed
<1>5. UngrantedOK(t) /\ RowOK(t)
  BY <1>1 DEF IInv
<1>6. DiskOK(t)' /\ UngrantedOK(t)'
  <2>1. DiskOK(t)'
    BY <1>0, <1>3, <1>4 DEF DiskOK, Status, Writing
  <2>2. UngrantedOK(t)'
    BY <1>0, <1>1, <1>2, <1>3, <1>4, <1>5 DEF UngrantedOK, Status, Bound
  <2>3. QED
    BY <2>1, <2>2
<1>7. RowOK(t)'
  BY <1>0, <1>1, <1>2, <1>3, <1>4, <1>5 DEF RowOK, UngrantedOK, Status, Bound, Receiving
<1>8. Only(w) /\ call'[w].pc = "grant" /\ call'[w].id = t
  BY <1>0, GotoOnly DEF CreateInDaemon, Steps
<1>9. CallOK(w)' /\ Enters(w)
  <2>1. CallOK(w)'
    BY <1>1, <1>2, <1>8 DEF CallOK, Begun, Creating, Sections, Committing, Binding
  <2>2. Enters(w)
    BY <1>0, <1>1, <1>8 DEF Enters, IInv, CallsApart, Creating, Sections
  <2>3. QED
    BY <2>1, <2>2
<1>10. \A v \in Callers \ {w} : call[v].id = t => Undisturbed(v)
  BY <1>0, <1>1, AloneUndisturbed DEF Creating
<1>11. ObjectsIntact'
  BY <1>2 DEF IInv, ObjectsIntact
<1>12. QED
  BY <1>1, <1>2, <1>4, <1>6, <1>7, <1>8, <1>9, <1>10, <1>11, DaemonInv

LEMMA AppendInv ==
  ASSUME IInv, NEW w \in Callers, Append(w)
  PROVE  IInv'
<1>0. PICK t : t = call[w].id
  OBVIOUS
<1>1. /\ call[w].pc = "append" /\ CallOK(w)
      /\ t \in DOMAIN upload /\ t \in Transfers /\ t \in granted
  BY <1>0, Typed DEF Append, At, IInv, CallOK, Begun, Creating
<1>2. PICK n \in 1 .. Length, right \in BOOLEAN :
        AppendPayload(t, call[w].from, n, right)
  BY <1>0 DEF Append, Id
<1>3. PICK q, at, rec : q = payload[t] /\ at = call[w].from /\ rec = record[t]
  OBVIOUS
<1>4. /\ q \in PayloadType /\ rec \in RecordType /\ at \in 0 .. Length
      /\ call[w] \in Calls
  BY <1>1, <1>3, Typed DEF PayloadType, RecordType, Calls
<1>p. PICK p : p = [q EXCEPT !.size = at + n, !.intact = q.intact /\ right]
  OBVIOUS
<1>5. /\ payload' = [payload EXCEPT ![t] = p]
      /\ rec.status \in Writing /\ rec.offset = at /\ at + n <= Length /\ q.present
      /\ locked' = locked \cup {t} /\ t \notin locked
      /\ UNCHANGED <<record, objects, doomed, expired>>
      /\ UNCHANGED <<upload, granted>> /\ InDaemon
  <2>1. InDaemon /\ UNCHANGED <<upload, granted>>
    BY DEF Append, InDaemon, ledgerVars
  <2>2. payload' = [payload EXCEPT ![t] = p]
    BY <1>2, <1>3, <1>p DEF AppendPayload
  <2>3. QED
    BY <1>2, <1>3, <2>1, <2>2 DEF AppendPayload, CanAppend, Free, ClockAndCleanup
<1>6. /\ p \in PayloadType /\ p.present /\ p.size = at + n
  <2>1. at + n \in 0 .. Length
    BY <1>4, <1>5, LengthPositive
  <2>2. (q.intact /\ right) \in BOOLEAN
    OBVIOUS
  <2>3. QED
    BY <1>4, <1>5, <1>p, <2>1, <2>2 DEF PayloadType
<1>7. DaemonTypeOK' /\ OnlyFilesOf(t) /\ record'[t] = rec /\ payload'[t] = p
  <2>1. doomed \subseteq Transfers
    BY DEF IInv, TypeOK, DaemonTypeOK
  <2>2. record' = [record EXCEPT ![t] = rec]
    BY <1>1, <1>3, <1>5, Typed
  <2>3. QED
    BY <1>1, <1>4, <1>5, <1>6, <2>1, <2>2, OneDirectory, Typed
<1>8. DiskOK(t) /\ RowOK(t)
  BY <1>1 DEF IInv
<1>9. DiskOK(t)'
  <2>1. rec.offset <= p.size
    BY <1>4, <1>5, <1>6 DEF RecordType
  <2>2. ~rec.verified
    BY <1>3, <1>5, <1>8 DEF DiskOK, Status, Writing
  <2>3. QED
    BY <1>5, <1>6, <1>7, <2>1, <2>2 DEF DiskOK, Status, Writing
<1>10. UngrantedOK(t)' /\ RowOK(t)'
  BY <1>1, <1>3, <1>5, <1>7, <1>8 DEF UngrantedOK, RowOK, Status, Bound
<1>11. Only(w) /\ call'[w].pc = "save" /\ call'[w].id = t
  <2>1. Goto(w, "save")
    BY DEF Append, Goto
  <2>2. QED
    BY <1>0, <2>1, GotoOnly DEF Steps
<1>12. CallOK(w)' /\ Enters(w)
  <2>1. CallOK(w)'
    BY <1>0, <1>1, <1>3, <1>5, <1>7, <1>11
       DEF CallOK, Begun, Creating, Sections, Committing, Binding, Status
  <2>2. Enters(w)
    BY <1>5, <1>11 DEF Enters, Creating
  <2>3. QED
    BY <2>1, <2>2
<1>13. \A v \in Callers \ {w} : call[v].id = t => Undisturbed(v)
  BY <1>0, <1>1, <1>5, FreeUndisturbed
<1>14. ObjectsIntact' /\ objects \subseteq objects' /\ RecordForward(t)
  BY <1>1, <1>3, <1>4, <1>5, <1>7 DEF IInv, ObjectsIntact, RecordForward, RecordType, Status, Writing
<1>15. QED
  BY <1>1, <1>5, <1>7, <1>9, <1>10, <1>11, <1>12, <1>13, <1>14, DaemonInv

\* What is known of the transfer of a caller past its authorization.
LEMMA Holder ==
  ASSUME IInv, NEW w \in Callers, call[w].pc \notin Begun \cup Creating
  PROVE  /\ CallOK(w) /\ call[w] \in Calls
         /\ call[w].id \in DOMAIN upload /\ call[w].id \in Transfers
         /\ call[w].id \in granted
         /\ DiskOK(call[w].id) /\ RowOK(call[w].id)
         /\ record[call[w].id] \in RecordType /\ payload[call[w].id] \in PayloadType
<1>1. CallOK(w)
  BY DEF IInv
<1>2. call[w].id \in granted
  BY <1>1 DEF CallOK
<1>3. call[w].id \in DOMAIN upload /\ call[w].id \in Transfers
  BY <1>2, Typed
<1>4. QED
  BY <1>1, <1>2, <1>3, Typed DEF IInv, RecordType, PayloadType

LEMMA DaemonSets ==
  ASSUME IInv
  PROVE  doomed \subseteq Transfers /\ expired \subseteq Transfers
BY DEF IInv, TypeOK, DaemonTypeOK

\* The record that closes an append tells what the payload holds.
LEMMA SaveAppendInv ==
  ASSUME IInv, NEW w \in Callers, SaveAppend(w)
  PROVE  IInv'
<1>0. PICK t, q, old, new :
        t = call[w].id /\ q = payload[t] /\ old = record[t] /\ new = Appended(t)
  OBVIOUS
<1>1. /\ call[w].pc = "save"
      /\ CallOK(w) /\ call[w] \in Calls /\ t \in DOMAIN upload /\ t \in Transfers
      /\ t \in granted /\ DiskOK(t) /\ RowOK(t)
      /\ old \in RecordType /\ q \in PayloadType
  <2>1. call[w].pc = "save"
    BY DEF SaveAppend, At
  <2>2. QED
    BY <1>0, <2>1, Holder DEF Begun, Creating
<1>2. /\ SaveRecord(t, new) /\ InDaemon
      /\ IF old.status = "none" \/ new.status = "rejected" THEN End(w)
         ELSE call' = [call EXCEPT ![w].pc = "advance", ![w].to = new.offset]
  BY <1>0 DEF SaveAppend, Id
<1>3. /\ UNCHANGED <<objects, payload, doomed, expired, upload, granted>>
      /\ locked' = locked \ {t} /\ t \in locked
      /\ record' = IF old.status = "none" THEN record ELSE [record EXCEPT ![t] = new]
  BY <1>0, <1>2 DEF SaveRecord, ClockAndCleanup, InDaemon, ledgerVars
<1>4. old.status \in Writing \cup {"none"}
  BY <1>0, <1>1 DEF CallOK, Status
<1>5. /\ new \in RecordType /\ new.offset = q.size
      /\ \/ new.status = "uploading" /\ ~new.verified
         \/ q.size = Length /\ q.intact /\ new.status = "uploaded" /\ new.verified
         \/ q.size = Length /\ new.status = "rejected" /\ ~new.verified
  <2>1. q.size \in 0 .. Length
    BY <1>1 DEF PayloadType
  <2>2. q.size < Length \/ q.size = Length
    BY <2>1, LengthPositive
  <2>3. CASE q.size < Length
    <3>1. q.size # Length
      BY <2>1, <2>3, LengthPositive
    <3>2. QED
      BY <1>0, <2>1, <2>3, <3>1 DEF Appended, RecordType, RecordStatuses
  <2>4. CASE q.size = Length
    <3>1. ~(q.size < Length)
      BY <2>1, <2>4, LengthPositive
    <3>2. q.intact \in BOOLEAN
      BY <1>1 DEF PayloadType
    <3>3. QED
      BY <1>0, <2>1, <2>4, <3>1, <3>2 DEF Appended, RecordType, RecordStatuses
  <2>5. QED
    BY <2>2, <2>3, <2>4
<1>6. PICK rec : rec = IF old.status = "none" THEN old ELSE new
  OBVIOUS
<1>7. DaemonTypeOK' /\ OnlyFilesOf(t) /\ record'[t] = rec /\ payload'[t] = q
  <2>1. record' = [record EXCEPT ![t] = rec] /\ payload' = [payload EXCEPT ![t] = q]
    BY <1>0, <1>1, <1>3, <1>6, Typed
  <2>2. rec \in RecordType
    BY <1>1, <1>5, <1>6
  <2>3. QED
    BY <1>1, <1>3, <2>1, <2>2, OneDirectory, Typed, DaemonSets
<1>8. old.status # "none" => /\ q.present /\ ~old.verified /\ ~Bound(t)
                             /\ old.offset <= q.size
                             /\ upload[t].offset <= old.offset
  BY <1>0, <1>1, <1>4 DEF DiskOK, RowOK, Status, Writing
<1>9. DiskOK(t)'
  BY <1>0, <1>1, <1>3, <1>5, <1>6, <1>7, <1>8 DEF DiskOK, Status, Writing, PayloadType
<1>10. UngrantedOK(t)'
  BY <1>1, <1>3 DEF UngrantedOK
<1>11. RowOK(t)'
  <2>1. CASE old.status = "none"
    BY <1>0, <1>1, <1>3, <1>6, <1>7, <2>1 DEF RowOK, Status, Bound
  <2>2. CASE old.status # "none"
    <3>1. upload[t].offset <= new.offset
      <4>1. upload[t].offset \in Nat /\ old.offset \in Nat /\ q.size \in Nat
        BY <1>1, LengthPositive, Typed DEF Upload, RecordType, PayloadType
      <4>2. QED
        BY <1>5, <1>8, <2>2, <4>1
    <3>2. upload[t].state \notin {"scanning", "ready", "rejected"}
      BY <1>1, <1>8, <2>2 DEF RowOK
    <3>3. QED
      BY <1>1, <1>3, <1>5, <1>6, <1>7, <1>8, <2>2, <3>1, <3>2 DEF RowOK, Status, Bound
  <2>3. QED
    BY <2>1, <2>2
<1>12. ObjectsIntact' /\ objects \subseteq objects'
  BY <1>3 DEF IInv, ObjectsIntact
<1>13. RecordForward(t)
  <2>1. old.status # "none" => new.offset >= old.offset
    BY <1>1, <1>5, <1>8, LengthPositive DEF RecordType, PayloadType
  <2>2. QED
    BY <1>0, <1>4, <1>6, <1>7, <1>8, <2>1 DEF RecordForward, Status, Kept, Writing
<1>14. \A v \in Callers \ {w} : call[v].id = t => Undisturbed(v)
  BY <1>0, <1>1, AloneUndisturbed DEF Sections
<1>15. Only(w) /\ CallOK(w)' /\ Enters(w)
  <2>1. CASE End(w)
    BY <2>1, EndOnly
  <2>2. CASE /\ old.status # "none"
             /\ call' = [call EXCEPT ![w].pc = "advance", ![w].to = new.offset]
    <3>1. PICK c, o : c = call[w] /\ o = new.offset
      OBVIOUS
    <3>2. o \in 0 .. Length
      BY <1>5, <3>1 DEF RecordType
    <3>3. PICK d : d = [c EXCEPT !.pc = "advance", !.to = o]
      OBVIOUS
    <3>4. d \in Calls /\ d.pc = "advance" /\ d.id = t /\ d.to = o
      BY <1>0, <1>1, <3>1, <3>2, <3>3 DEF Calls, Steps
    <3>5. Only(w) /\ call'[w] = d
      BY <2>2, <3>1, <3>3, <3>4, Typed DEF Only
    <3>6. t \in DOMAIN upload' /\ t \in granted' /\ o <= record'[t].offset
      BY <1>1, <1>3, <1>6, <1>7, <2>2, <3>1, <3>2, LengthPositive
    <3>7. CallOK(w)'
      BY <3>4, <3>5, <3>6 DEF CallOK, Begun, Creating, Sections, Committing, Binding
    <3>8. QED
      BY <3>4, <3>5, <3>7 DEF Enters, Creating, Sections
  <2>3. QED
    BY <1>2, <2>1, <2>2
<1>16. QED
  BY <1>1, <1>2, <1>7, <1>9, <1>10, <1>11, <1>12, <1>13, <1>14, <1>15, DaemonInv

\* promote stores bytes that have the digest the row declares.
LEMMA PromoteInv ==
  ASSUME IInv, NEW w \in Callers, Promote(w)
  PROVE  IInv'
<1>0. PICK t, q, old, c :
        t = call[w].id /\ q = payload[t] /\ old = record[t] /\ c = upload[t].sha
  OBVIOUS
<1>1. /\ call[w].pc = "promote"
      /\ CallOK(w) /\ call[w] \in Calls /\ t \in DOMAIN upload /\ t \in Transfers
      /\ t \in granted /\ DiskOK(t) /\ RowOK(t)
      /\ old \in RecordType /\ q \in PayloadType
  <2>1. call[w].pc = "promote"
    BY DEF Promote, At
  <2>2. QED
    BY <1>0, <2>1, Holder DEF Begun, Creating
<1>2. /\ MovePayload(t, c) /\ InDaemon /\ Goto(w, "receipt")
  BY <1>0 DEF Promote, Id
<1>3. /\ old.status = "uploaded" /\ q.present /\ t \notin locked
      /\ Stored(c) => <<c, TRUE>> \in objects
      /\ objects' = IF Stored(c) THEN objects ELSE objects \cup {<<c, q.intact>>}
      /\ payload' = [payload EXCEPT ![t] = NoPayload]
      /\ locked' = locked \cup {t}
      /\ UNCHANGED <<record, doomed, expired, upload, granted>>
  BY <1>0, <1>2 DEF MovePayload, CanPromote, Free, ClockAndCleanup, InDaemon, ledgerVars
<1>4. q.intact = TRUE /\ old.verified /\ c \in Contents
  <2>1. c \in Contents
    BY <1>0, <1>1, Typed DEF Upload
  <2>2. q.intact /\ q.intact \in BOOLEAN
    BY <1>0, <1>1, <1>3 DEF DiskOK, Status, PayloadType
  <2>3. old.verified
    BY <1>0, <1>1, <1>3 DEF DiskOK, Status
  <2>4. QED
    BY <2>1, <2>2, <2>3
<1>5. NoPayload \in PayloadType
  BY LengthPositive DEF NoPayload, PayloadType
<1>6. /\ objects' \subseteq Contents \X BOOLEAN /\ objects \subseteq objects'
      /\ ObjectsIntact' /\ <<c, TRUE>> \in objects'
  <2>0. objects \subseteq Contents \X BOOLEAN /\ \A o \in objects : o[2] = TRUE
    BY Typed DEF IInv, ObjectsIntact
  <2>1. CASE Stored(c)
    BY <1>3, <2>0, <2>1 DEF ObjectsIntact
  <2>2. CASE ~Stored(c)
    <3>1. PICK b, o : b = q.intact /\ o = <<c, b>>
      OBVIOUS
    <3>2. objects' = objects \cup {o}
      BY <1>3, <2>2, <3>1
    <3>3. b \in BOOLEAN /\ b = TRUE
      BY <1>4, <3>1
    <3>4. o \in Contents \X BOOLEAN /\ o[2] = b
      BY <1>4, <3>1, <3>3
    <3>5. ObjectsIntact'
      BY <2>0, <3>2, <3>3, <3>4 DEF ObjectsIntact
    <3>6. QED
      BY <2>0, <3>1, <3>2, <3>3, <3>4, <3>5
  <2>3. QED
    BY <2>1, <2>2
<1>7. /\ DaemonTypeOK' /\ OnlyFilesOf(t) /\ record'[t] = old /\ payload'[t] = NoPayload
  <2>1. record' = [record EXCEPT ![t] = old]
    BY <1>0, <1>1, <1>3, Typed
  <2>2. /\ payload' = [payload EXCEPT ![t] = NoPayload]
        /\ locked' = locked \cup {t}
        /\ doomed' \subseteq Transfers /\ expired' = expired
    BY <1>3, DaemonSets
  <2>3. objects' \subseteq Contents \X BOOLEAN
    BY <1>6
  <2>4. QED
    BY <1>1, <1>5, <2>1, <2>2, <2>3, OneDirectory
<1>8. DiskOK(t)' /\ UngrantedOK(t)' /\ RowOK(t)'
  <2>1. DiskOK(t)'
    BY <1>0, <1>1, <1>3, <1>7 DEF DiskOK, Status, Writing, NoPayload
  <2>2. UngrantedOK(t)'
    BY <1>1, <1>3 DEF UngrantedOK
  <2>3. RowOK(t)'
    BY <1>0, <1>1, <1>3, <1>6, <1>7 DEF RowOK, Status, Bound
  <2>4. QED
    BY <2>1, <2>2, <2>3
<1>9. /\ Only(w) /\ call'[w].pc = "receipt" /\ call'[w].id = t
      /\ call'[w].file = call[w].file
  BY <1>0, <1>2, GotoOnly DEF Steps
<1>10. CallOK(w)'
  BY <1>0, <1>1, <1>3, <1>4, <1>6, <1>7, <1>9
     DEF CallOK, Begun, Creating, Sections, Committing, Binding, Status, Bound
<1>11. Enters(w)
  BY <1>3, <1>9 DEF Enters, Creating
<1>12. \A v \in Callers \ {w} : call[v].id = t => Undisturbed(v)
  BY <1>1, <1>3, FreeUndisturbed
<1>13. RecordForward(t)
  BY <1>0, <1>1, <1>3, <1>7, LengthPositive DEF RecordForward, Status, RecordType
<1>14. QED
  BY <1>1, <1>2, <1>6, <1>7, <1>8, <1>9, <1>10, <1>11, <1>12, <1>13, DaemonInv

LEMMA RefuseInv ==
  ASSUME IInv, NEW w \in Callers, Refuse(w)
  PROVE  IInv'
<1>0. PICK t, q, old : t = call[w].id /\ q = payload[t] /\ old = record[t]
  OBVIOUS
<1>1. /\ call[w].pc = "refuse"
      /\ CallOK(w) /\ call[w] \in Calls /\ t \in DOMAIN upload /\ t \in Transfers
      /\ t \in granted /\ DiskOK(t) /\ RowOK(t)
      /\ old \in RecordType /\ q \in PayloadType
  <2>1. call[w].pc = "refuse"
    BY DEF Refuse, At
  <2>2. QED
    BY <1>0, <2>1, Holder DEF Begun, Creating
<1>2. /\ DropPayload(t) /\ InDaemon /\ Goto(w, "refusal")
  BY <1>0 DEF Refuse, Id
<1>3. /\ old.status # "none" /\ old.status # "available" /\ t \notin locked
      /\ payload' = [payload EXCEPT ![t] = NoPayload]
      /\ locked' = locked \cup {t}
      /\ UNCHANGED <<record, objects, doomed, expired, upload, granted>>
  BY <1>0, <1>2 DEF DropPayload, CanReject, Loads, Free, ClockAndCleanup, InDaemon,
     ledgerVars
<1>4. old.verified /\ old.status \in {"uploaded", "rejected"}
  <2>1. old.verified
    BY <1>0, <1>1, <1>3 DEF CallOK, Committing, Binding, Status
  <2>2. QED
    BY <1>0, <1>1, <1>3, <2>1 DEF DiskOK, Status
<1>5. NoPayload \in PayloadType
  BY LengthPositive DEF NoPayload, PayloadType
<1>6. ObjectsIntact' /\ objects' \subseteq Contents \X BOOLEAN
  BY <1>3, Typed DEF IInv, ObjectsIntact
<1>7. /\ DaemonTypeOK' /\ OnlyFilesOf(t) /\ record'[t] = old /\ payload'[t] = NoPayload
  <2>1. record' = [record EXCEPT ![t] = old]
    BY <1>0, <1>1, <1>3, Typed
  <2>2. doomed' \subseteq Transfers /\ expired' = expired
    BY <1>3, DaemonSets
  <2>3. QED
    BY <1>1, <1>3, <1>5, <1>6, <2>1, <2>2, OneDirectory
<1>8. DiskOK(t)' /\ UngrantedOK(t)' /\ RowOK(t)'
  <2>1. DiskOK(t)'
    BY <1>0, <1>1, <1>4, <1>7 DEF DiskOK, Status, Writing, NoPayload
  <2>2. UngrantedOK(t)'
    BY <1>1, <1>3 DEF UngrantedOK
  <2>3. RowOK(t)'
    BY <1>0, <1>1, <1>3, <1>7 DEF RowOK, Status, Bound
  <2>4. QED
    BY <2>1, <2>2, <2>3
<1>9. /\ Only(w) /\ call'[w].pc = "refusal" /\ call'[w].id = t
      /\ call'[w].file = call[w].file
  BY <1>0, <1>2, GotoOnly DEF Steps
<1>10. CallOK(w)'
  BY <1>0, <1>1, <1>3, <1>4, <1>7, <1>9
     DEF CallOK, Begun, Creating, Sections, Committing, Binding, Status, Bound
<1>11. Enters(w)
  BY <1>3, <1>9 DEF Enters, Creating
<1>12. \A v \in Callers \ {w} : call[v].id = t => Undisturbed(v)
  BY <1>1, <1>3, FreeUndisturbed
<1>13. RecordForward(t)
  BY <1>0, <1>1, <1>3, <1>7, LengthPositive DEF RecordForward, Status, RecordType
<1>14. QED
  BY <1>1, <1>2, <1>3, <1>6, <1>7, <1>8, <1>9, <1>10, <1>11, <1>12, <1>13, DaemonInv

\* What closes a section of a commit agrees with the row.
LEMMA SaveOutcomeInv ==
  ASSUME IInv, NEW w \in Callers, SaveOutcome(w)
  PROVE  IInv'
<1>0. PICK t, q, old, s :
        /\ t = call[w].id /\ q = payload[t] /\ old = record[t]
        /\ s = IF call[w].pc = "receipt" THEN "available" ELSE "rejected"
  OBVIOUS
<1>1. /\ call[w].pc \in {"receipt", "refusal"}
      /\ CallOK(w) /\ call[w] \in Calls /\ t \in DOMAIN upload /\ t \in Transfers
      /\ t \in granted /\ DiskOK(t) /\ RowOK(t)
      /\ old \in RecordType /\ q \in PayloadType
  <2>1. call[w].pc \in {"receipt", "refusal"}
    BY DEF SaveOutcome, At
  <2>2. QED
    BY <1>0, <2>1, Holder DEF Begun, Creating
<1>2. PICK new : new = [old EXCEPT !.status = s]
  OBVIOUS
<1>3. /\ SaveRecord(t, new) /\ InDaemon
      /\ IF old.status = "none" THEN End(w)
         ELSE Goto(w, IF call[w].pc = "receipt" THEN "complete" ELSE "reject")
  BY <1>0, <1>2 DEF SaveOutcome, Settled, Id, At
<1>4. /\ UNCHANGED <<objects, payload, doomed, expired, upload, granted>>
      /\ locked' = locked \ {t} /\ t \in locked
      /\ record' = IF old.status = "none" THEN record ELSE [record EXCEPT ![t] = new]
  BY <1>0, <1>3 DEF SaveRecord, ClockAndCleanup, InDaemon, ledgerVars
<1>5. /\ Bound(t) /\ upload[t].file = call[w].file
      /\ old.status # "none" => old.verified /\ old.offset = Length
      /\ s = "available" => /\ old.status \in {"uploaded", "none"}
                            /\ <<upload[t].sha, TRUE>> \in objects
      /\ s = "rejected" => old.status \in {"uploaded", "rejected", "none"}
      /\ s \in {"available", "rejected"}
  BY <1>0, <1>1 DEF CallOK, DiskOK, Committing, Binding, Status
<1>6. /\ new \in RecordType /\ new.status = s
      /\ new.offset = old.offset /\ new.verified = old.verified
  BY <1>1, <1>2, <1>5 DEF RecordType, RecordStatuses
<1>7. PICK rec : rec = IF old.status = "none" THEN old ELSE new
  OBVIOUS
<1>8. DaemonTypeOK' /\ OnlyFilesOf(t) /\ record'[t] = rec /\ payload'[t] = q
  <2>1. record' = [record EXCEPT ![t] = rec] /\ payload' = [payload EXCEPT ![t] = q]
    BY <1>0, <1>1, <1>4, <1>7, Typed
  <2>2. rec \in RecordType
    BY <1>1, <1>6, <1>7
  <2>3. QED
    BY <1>1, <1>4, <2>1, <2>2, OneDirectory, Typed, DaemonSets
<1>9. DiskOK(t)'
  BY <1>0, <1>1, <1>5, <1>6, <1>7, <1>8 DEF DiskOK, Status, Writing
<1>10. UngrantedOK(t)'
  BY <1>1, <1>4 DEF UngrantedOK
<1>11. RowOK(t)'
  <2>1. CASE old.status = "none"
    BY <1>0, <1>1, <1>4, <1>7, <1>8, <2>1 DEF RowOK, Status, Bound
  <2>2. CASE old.status # "none"
    BY <1>0, <1>1, <1>4, <1>5, <1>6, <1>7, <1>8, <2>2 DEF RowOK, Status, Bound
  <2>3. QED
    BY <2>1, <2>2
<1>12. ObjectsIntact' /\ objects \subseteq objects'
  BY <1>4 DEF IInv, ObjectsIntact
<1>13. RecordForward(t)
  BY <1>0, <1>1, <1>5, <1>6, <1>7, <1>8, LengthPositive
     DEF RecordForward, Status, Kept, RecordType
<1>14. \A v \in Callers \ {w} : call[v].id = t => Undisturbed(v)
  BY <1>0, <1>1, AloneUndisturbed DEF Sections
<1>15. Only(w) /\ CallOK(w)' /\ Enters(w)
  <2>1. CASE End(w)
    BY <2>1, EndOnly
  <2>2. CASE (old.status # "none" /\ s = "available" /\ Goto(w, "complete"))
    <3>1. /\ Only(w) /\ call'[w].pc = "complete" /\ call'[w].id = t
          /\ call'[w].file = call[w].file
      BY <1>0, <2>2, GotoOnly DEF Steps
    <3>2. CallOK(w)'
      BY <1>1, <1>4, <1>5, <1>6, <1>7, <1>8, <2>2, <3>1
         DEF CallOK, Begun, Creating, Sections, Committing, Binding, Status, Bound
    <3>3. QED
      BY <3>1, <3>2 DEF Enters, Creating, Sections
  <2>3. CASE (old.status # "none" /\ s = "rejected" /\ Goto(w, "reject"))
    <3>1. /\ Only(w) /\ call'[w].pc = "reject" /\ call'[w].id = t
          /\ call'[w].file = call[w].file
      BY <1>0, <2>3, GotoOnly DEF Steps
    <3>2. CallOK(w)'
      BY <1>1, <1>4, <1>5, <1>6, <1>7, <1>8, <2>3, <3>1
         DEF CallOK, Begun, Creating, Sections, Committing, Binding, Status, Bound
    <3>3. QED
      BY <3>1, <3>2 DEF Enters, Creating, Sections
  <2>4. QED
    BY <1>0, <1>3, <2>1, <2>2, <2>3
<1>16. QED
  BY <1>1, <1>3, <1>8, <1>9, <1>10, <1>11, <1>12, <1>13, <1>14, <1>15, DaemonInv

\* A directory that is removed leaves nothing to disagree with.
LEMMA RemovedOK ==
  ASSUME IInv, NEW t \in Transfers, record'[t] = NoRecord, payload'[t] = NoPayload,
         UNCHANGED <<upload, granted, objects, locked>>
  PROVE  DiskOK(t)' /\ UngrantedOK(t)' /\ RowOK(t)' /\ RecordForward(t)
<1>1. UngrantedOK(t) /\ RowOK(t)
  BY DEF IInv
<1>2. DiskOK(t)' /\ RecordForward(t)
  BY DEF DiskOK, RecordForward, NoRecord, NoPayload, Status, Writing
<1>3. UngrantedOK(t)' /\ RowOK(t)'
  BY <1>1 DEF UngrantedOK, RowOK, NoRecord, Status, Bound
<1>4. QED
  BY <1>2, <1>3

LEMMA TerminateInv ==
  ASSUME IInv, NEW w \in Callers, TerminateInDaemon(w)
  PROVE  IInv'
<1>0. PICK t : t = call[w].id
  OBVIOUS
<1>1. /\ call[w].pc \in {"terminate", "discard"} /\ CallOK(w)
      /\ t \in DOMAIN upload /\ t \in Transfers
      /\ call[w].pc = "terminate" => t \in granted
  BY <1>0, Typed DEF TerminateInDaemon, At, IInv, CallOK, Begun, Creating
<1>2. /\ t \notin locked
      /\ record' = [record EXCEPT ![t] = NoRecord]
      /\ payload' = [payload EXCEPT ![t] = NoPayload]
      /\ UNCHANGED <<objects, locked, expired, doomed, upload, granted>>
      /\ InDaemon
  BY <1>0 DEF TerminateInDaemon, Terminate, RemoveDirectory, Free, Id, InDaemon, ledgerVars
<1>3. NoRecord \in RecordType /\ NoPayload \in PayloadType
  BY LengthPositive DEF NoRecord, NoPayload, RecordType, PayloadType, RecordStatuses
<1>4. DaemonTypeOK' /\ OnlyFilesOf(t) /\ record'[t] = NoRecord /\ payload'[t] = NoPayload
  <2>1. objects' \subseteq Contents \X BOOLEAN /\ doomed' \subseteq Transfers
    BY <1>2, Typed, DaemonSets
  <2>2. QED
    BY <1>1, <1>2, <1>3, <2>1, OneDirectory
<1>5. DiskOK(t)' /\ UngrantedOK(t)' /\ RowOK(t)' /\ RecordForward(t)
  BY <1>1, <1>2, <1>4, RemovedOK
<1>6. ObjectsIntact' /\ objects \subseteq objects'
  BY <1>2 DEF IInv, ObjectsIntact
<1>7. Only(w) /\ CallOK(w)' /\ Enters(w)
  <2>1. CASE End(w)
    BY <2>1, EndOnly
  <2>2. CASE (call[w].pc = "terminate" /\ Goto(w, "abort"))
    <3>1. Only(w) /\ call'[w].pc = "abort" /\ call'[w].id = t
      BY <1>0, <2>2, GotoOnly DEF Steps
    <3>2. CallOK(w)'
      BY <1>1, <1>2, <1>4, <2>2, <3>1
         DEF CallOK, Begun, Creating, Sections, Committing, Binding, Status, NoRecord
    <3>3. QED
      BY <3>1, <3>2 DEF Enters, Creating, Sections
  <2>3. QED
    BY <2>1, <2>2 DEF TerminateInDaemon, At
<1>8. \A v \in Callers \ {w} : call[v].id = t => Undisturbed(v)
  <2>1. CASE call[w].pc = "terminate"
    BY <1>1, <1>2, <2>1, FreeUndisturbed
  <2>2. CASE call[w].pc = "discard"
    BY <1>0, <2>2, AloneUndisturbed DEF Creating
  <2>3. QED
    BY <1>1, <2>1, <2>2
<1>9. QED
  BY <1>1, <1>2, <1>4, <1>5, <1>6, <1>7, <1>8, DaemonInv

-----------------------------------------------------------------------------
(***************************************************************************)
(* The faults, and what no request waits for.                              *)
(***************************************************************************)
LEMMA BackgroundInv ==
  ASSUME IInv, InDaemon, DaemonTypeOK', Shared', Forward,
         call' \in [Callers -> Calls],
         \A v \in Callers : \/ call'[v] = call[v] /\ Undisturbed(v)
                            \/ call'[v] = NoCall
  PROVE  IInv'
<1>1. UNCHANGED <<revision, file, issued, analysis, decision, head, latest, candidate,
                  upload, granted>>
  BY DEF InDaemon, ledgerVars, dbVars
<1>2. TypeOK'
  BY <1>1 DEF IInv, TypeOK, DBTypeOK, LedgerTypeOK
<1>3. \A v \in Callers : CallOK(v)'
  <2> TAKE v \in Callers
  <2>1. CASE call'[v] = call[v] /\ Undisturbed(v)
    BY <2>1, KnowledgeKept DEF DaemonTypeOK
  <2>2. CASE call'[v] = NoCall
    BY <2>2 DEF NoCall, CallOK, Sections, Creating, Begun, Committing, Binding
  <2>3. QED
    BY <2>1, <2>2
<1>4. CallsApart'
  <2> SUFFICES ASSUME NEW u \in Callers, NEW v \in Callers, u # v,
                      call'[u].id = call'[v].id
               PROVE  /\ call'[v].pc \in Creating => call'[u].pc \in Begun
                      /\ ~(call'[v].pc \in Sections /\ call'[u].pc \in Sections)
    BY DEF CallsApart
  <2>1. NoCall.pc = "idle"
    BY DEF NoCall
  <2>2. CASE call'[u] = NoCall \/ call'[v] = NoCall
    BY <2>1, <2>2 DEF Creating, Sections, Begun
  <2>3. CASE call'[u] = call[u] /\ call'[v] = call[v]
    BY <2>3 DEF IInv, CallsApart
  <2>4. QED
    BY <2>2, <2>3
<1>5. QED
  BY <1>2, <1>3, <1>4 DEF IInv, Shared

LEMMA ElapseInv ==
  ASSUME IInv, Elapse
  PROVE  IInv'
<1>1. PICK t \in DOMAIN upload \ expired : Expire(t)
  BY DEF Elapse
<1>2. /\ expired' = expired \cup {t} /\ InDaemon /\ UNCHANGED call
      /\ UNCHANGED <<record, payload, objects, locked, doomed, file, issued, upload, granted>>
  BY <1>1 DEF Expire, Elapse, InDaemon, ledgerVars, dbVars
<1>3. DaemonTypeOK'
  BY <1>2, Typed DEF IInv, TypeOK, DaemonTypeOK
<1>4. Shared'
  <2>1. \A u \in Transfers : DiskOK(u)' /\ UngrantedOK(u)' /\ RowOK(u)' /\ FileOK(u)'
    BY <1>2 DEF IInv, DiskOK, UngrantedOK, RowOK, FileOK, Status, Bound
  <2>2. FilesApart' /\ FilesStored' /\ ObjectsIntact'
    BY <1>2 DEF IInv, FilesApart, FilesStored, ObjectsIntact, Bound
  <2>3. QED
    BY <2>1, <2>2 DEF Shared
<1>5. Forward
  BY <1>2, Typed, LengthPositive DEF Forward, RowForward, RecordForward, Status
<1>6. \A v \in Callers : call'[v] = call[v] /\ Undisturbed(v)
  BY <1>2 DEF Undisturbed, IInv, CallOK, Status
<1>7. QED
  BY <1>2, <1>3, <1>4, <1>5, <1>6, Typed, BackgroundInv

LEMMA CleanupInv ==
  ASSUME IInv, Cleanup
  PROVE  IInv'
<1>1. PICK t \in Transfers : FindExpired(t) \/ RemoveExpired(t)
  BY DEF Cleanup
<1>2. InDaemon /\ UNCHANGED call /\ UNCHANGED <<file, issued, upload, granted>>
      /\ UNCHANGED <<ledgerVars, granted>>
  BY DEF Cleanup, InDaemon, ledgerVars, dbVars
<1>3. CASE FindExpired(t)
  <2>1. UNCHANGED <<record, payload, objects, locked, expired>> /\ doomed' = {t}
    BY <1>3 DEF FindExpired
  <2>2. DaemonTypeOK'
    BY <2>1 DEF IInv, TypeOK, DaemonTypeOK
  <2>3. Shared'
    <3>1. \A u \in Transfers : DiskOK(u)' /\ UngrantedOK(u)' /\ RowOK(u)' /\ FileOK(u)'
      BY <1>2, <2>1 DEF IInv, DiskOK, UngrantedOK, RowOK, FileOK, Status, Bound
    <3>2. FilesApart' /\ FilesStored' /\ ObjectsIntact'
      BY <1>2, <2>1 DEF IInv, FilesApart, FilesStored, ObjectsIntact, Bound
    <3>3. QED
      BY <3>1, <3>2 DEF Shared
  <2>4. Forward
    BY <1>2, <2>1, Typed, LengthPositive DEF Forward, RowForward, RecordForward, Status
  <2>5. \A v \in Callers : call'[v] = call[v] /\ Undisturbed(v)
    BY <1>2, <2>1 DEF Undisturbed, IInv, CallOK, Status
  <2>6. QED
    BY <1>2, <2>2, <2>3, <2>4, <2>5, Typed, BackgroundInv
<1>4. CASE RemoveExpired(t)
  <2>1. /\ record' = [record EXCEPT ![t] = NoRecord]
        /\ payload' = [payload EXCEPT ![t] = NoPayload]
        /\ UNCHANGED <<objects, locked, expired>> /\ doomed' = {}
    BY <1>4 DEF RemoveExpired, RemoveDirectory
  <2>2. NoRecord \in RecordType /\ NoPayload \in PayloadType
    BY LengthPositive DEF NoRecord, NoPayload, RecordType, PayloadType, RecordStatuses
  <2>3. DaemonTypeOK' /\ OnlyFilesOf(t) /\ record'[t] = NoRecord /\ payload'[t] = NoPayload
    <3>1. objects' \subseteq Contents \X BOOLEAN /\ doomed' \subseteq Transfers
      BY <2>1, Typed
    <3>2. QED
      BY <2>1, <2>2, <3>1, OneDirectory
  <2>4. DiskOK(t)' /\ UngrantedOK(t)' /\ RowOK(t)' /\ RecordForward(t)
    BY <1>2, <2>1, <2>3, RemovedOK
  <2>5. ObjectsIntact' /\ objects \subseteq objects'
    BY <2>1 DEF IInv, ObjectsIntact
  <2>6. Shared'
    BY <1>2, <2>3, <2>4, <2>5, SharedByDaemon
  <2>7. Forward
    <3>1. \A u \in granted \ {t} : RecordForward(u)
      BY <2>3, Typed, LengthPositive DEF OnlyFilesOf, RecordForward, Status
    <3>2. QED
      BY <1>2, <2>4, <2>5, <3>1 DEF Forward, RowForward
  <2>8. \A v \in Callers : call'[v] = call[v] /\ Undisturbed(v)
    <3> SUFFICES ASSUME NEW v \in Callers PROVE call'[v] = call[v] /\ Undisturbed(v)
      OBVIOUS
    <3>1. CallOK(v)
      BY DEF IInv
    <3>2. CASE call[v].id = t
      BY <1>2, <2>1, <2>3, <3>1, <3>2 DEF CallOK, Undisturbed, NoRecord
    <3>3. CASE call[v].id # t
      BY <1>2, <2>1, <2>3, <3>1, <3>3, Typed
         DEF CallOK, Undisturbed, OnlyFilesOf, Status, Begun, Creating, Sections
    <3>4. QED
      BY <3>2, <3>3
  <2>9. QED
    BY <1>2, <2>3, <2>6, <2>7, <2>8, Typed, BackgroundInv
<1>5. QED
  BY <1>1, <1>3, <1>4

\* A death of the daemon may leave any part of a chunk, and no record less.
LEMMA CrashInv ==
  ASSUME IInv, CrashDaemon
  PROVE  IInv'
<1>1. PICK kept \in [locked -> 0 .. Length] :
        /\ \A t \in locked : /\ kept[t] <= payload[t].size
                             /\ kept[t] >= record[t].offset \/ kept[t] = payload[t].size
        /\ payload' = [t \in Transfers |->
                         IF t \in locked THEN [payload[t] EXCEPT !.size = kept[t]]
                         ELSE payload[t]]
  BY DEF CrashDaemon, DaemonCrash
<1>2. /\ InDaemon /\ UNCHANGED <<record, objects, expired, file, issued, upload, granted>>
      /\ locked' = {} /\ doomed' = {}
      /\ call' = [w \in Callers |-> IF InDaemonSection(w) THEN NoCall ELSE call[w]]
  BY DEF CrashDaemon, DaemonCrash, InDaemon, ledgerVars, dbVars
<1>3. \A t \in Transfers :
        /\ payload'[t] \in PayloadType
        /\ payload'[t].present = payload[t].present /\ payload'[t].intact = payload[t].intact
        /\ payload'[t].size <= payload[t].size
        /\ payload'[t].size = payload[t].size \/ payload'[t].size >= record[t].offset
        /\ payload[t].size = 0 => payload'[t] = payload[t]
  <2> SUFFICES ASSUME NEW t \in Transfers
               PROVE  /\ payload'[t] \in PayloadType
                      /\ payload'[t].present = payload[t].present
                      /\ payload'[t].intact = payload[t].intact
                      /\ payload'[t].size <= payload[t].size
                      /\ payload'[t].size = payload[t].size
                         \/ payload'[t].size >= record[t].offset
                      /\ payload[t].size = 0 => payload'[t] = payload[t]
    OBVIOUS
  <2>1. PICK q : q = payload[t]
    OBVIOUS
  <2>2. q \in PayloadType
    BY <2>1, Typed DEF PayloadType
  <2>3. CASE t \notin locked
    BY <1>1, <2>1, <2>2, <2>3, LengthPositive DEF PayloadType
  <2>4. CASE t \in locked
    <3>1. PICK k : k = kept[t]
      OBVIOUS
    <3>2. k \in 0 .. Length /\ k <= q.size /\ (k >= record[t].offset \/ k = q.size)
      BY <1>1, <2>1, <2>4, <3>1
    <3>3. payload'[t] = [q EXCEPT !.size = k]
      BY <1>1, <2>1, <2>4, <3>1
    <3>4. /\ payload'[t] \in PayloadType /\ payload'[t].size = k
          /\ payload'[t].present = q.present /\ payload'[t].intact = q.intact
      BY <2>2, <3>2, <3>3 DEF PayloadType
    <3>5. q.size = 0 => payload'[t] = q
      <4>1. q.size = 0 => k = 0
        BY <3>2, LengthPositive
      <4>2. QED
        BY <2>2, <3>4, <4>1 DEF PayloadType
    <3>6. QED
      BY <2>1, <3>2, <3>4, <3>5
  <2>5. QED
    BY <2>3, <2>4
<1>4. DaemonTypeOK'
  <2>1. payload' \in [Transfers -> PayloadType]
    BY <1>1, <1>3
  <2>2. QED
    BY <1>2, <2>1 DEF IInv, TypeOK, DaemonTypeOK, PayloadType
<1>5. \A t \in Transfers : DiskOK(t)'
  <2> SUFFICES ASSUME NEW t \in Transfers PROVE DiskOK(t)'
    OBVIOUS
  <2>1. DiskOK(t) /\ record'[t] = record[t]
    BY <1>2 DEF IInv
  <2>2. /\ record[t].offset \in 0 .. Length /\ payload[t].size \in 0 .. Length
        /\ payload'[t].size \in 0 .. Length
    BY <1>3, Typed DEF PayloadType
  <2>3. Status(t) = "none" => payload'[t] = NoPayload
    BY <1>3, <2>1 DEF DiskOK, NoPayload
  <2>4. payload'[t].present => record[t].offset <= payload'[t].size
    BY <1>3, <2>1, <2>2, LengthPositive DEF DiskOK
  <2>5. Status(t) = "uploaded" /\ payload'[t].present => payload'[t].size = Length
    <3>1. Status(t) = "uploaded" => record[t].offset = Length
      BY <2>1 DEF DiskOK
    <3>2. QED
      BY <2>2, <2>4, <3>1, LengthPositive
  <2>6. QED
    BY <1>3, <2>1, <2>3, <2>4, <2>5 DEF DiskOK, Status
<1>6. Shared'
  <2>1. \A u \in Transfers : UngrantedOK(u)' /\ RowOK(u)' /\ FileOK(u)'
    BY <1>2 DEF IInv, UngrantedOK, RowOK, FileOK, Status, Bound
  <2>2. FilesApart' /\ FilesStored' /\ ObjectsIntact'
    BY <1>2 DEF IInv, FilesApart, FilesStored, ObjectsIntact, Bound
  <2>3. QED
    BY <1>5, <2>1, <2>2 DEF Shared
<1>7. Forward
  BY <1>2, Typed, LengthPositive DEF Forward, RowForward, RecordForward, Status
<1>8. call' \in [Callers -> Calls]
  BY <1>2, Typed, NoCallTyped
<1>9. \A v \in Callers : \/ call'[v] = call[v] /\ Undisturbed(v)
                         \/ call'[v] = NoCall
  BY <1>2 DEF Undisturbed, IInv, CallOK, Status, InDaemonSection, Sections
<1>10. QED
  BY <1>2, <1>4, <1>6, <1>7, <1>8, <1>9, BackgroundInv

-----------------------------------------------------------------------------
(***************************************************************************)
(* The transactions on one row.                                            *)
(***************************************************************************)
LEMMA RowInv ==
  ASSUME IInv, NEW w \in Callers, InLedger, UNCHANGED dbVars,
         NEW t \in DOMAIN upload, NEW row \in Upload,
         upload' = [upload EXCEPT ![t] = row],
         row.sha = upload[t].sha, row.file = upload[t].file,
         row.state = "ready" => upload[t].state = "ready",
         UngrantedOK(t)', RowOK(t)', Only(w), Enters(w), CallOK(w)'
  PROVE  IInv'
<1>1. /\ UNCHANGED <<revision, file, issued, analysis, decision, head, latest, candidate>>
      /\ UNCHANGED <<record, payload, objects, locked, doomed, expired, granted>>
  BY DEF InLedger, dbVars, daemonVars
<1>2. /\ DOMAIN upload' = DOMAIN upload /\ upload'[t] = row
      /\ \A u \in DOMAIN upload \ {t} : upload'[u] = upload[u]
      /\ upload' \in [DOMAIN upload' -> Upload]
  BY Typed
<1>3. TypeOK'
  BY <1>1, <1>2, Typed DEF IInv, TypeOK, DBTypeOK, LedgerTypeOK, DaemonTypeOK, Only
<1>4. \A u \in DOMAIN upload : RowForward(u)
  BY <1>2 DEF RowForward
<1>5. \A u \in Transfers : UngrantedOK(u)' /\ RowOK(u)'
  BY <1>1, <1>2 DEF IInv, UngrantedOK, RowOK, Status, Bound
<1>6. \A u \in Transfers : FileOK(u)'
  <2> SUFFICES ASSUME NEW u \in Transfers PROVE FileOK(u)'
    OBVIOUS
  <2>1. CASE u = t
    BY <1>1, <1>2, <2>1 DEF IInv, FileOK, Bound
  <2>2. CASE u # t
    BY <1>1, <1>2, <2>2 DEF IInv, FileOK, Bound
  <2>3. QED
    BY <2>1, <2>2
<1>7. FilesApart' /\ FilesStored'
  <2>1. \A u \in DOMAIN upload : upload'[u].file = upload[u].file
    BY <1>2
  <2>2. FilesStored'
    BY <1>1 DEF IInv, FilesStored
  <2>3. FilesApart /\ DOMAIN upload' = DOMAIN upload
    BY <1>2 DEF IInv
  <2>4. FilesApart'
    BY <2>1, <2>3 DEF FilesApart, Bound
  <2>5. QED
    BY <2>2, <2>4
<1>8. QED
  BY <1>2, <1>3, <1>4, <1>5, <1>6, <1>7, LedgerInv

\* The row of t with another state.
LEMMA SetStateIs ==
  ASSUME IInv, NEW t \in DOMAIN upload, NEW s \in UploadStates, SetState(t, s)
  PROVE  \E row \in Upload :
           /\ upload' = [upload EXCEPT ![t] = row] /\ upload'[t] = row
           /\ DOMAIN upload' = DOMAIN upload
           /\ row.state = s /\ row.offset = upload[t].offset
           /\ row.sha = upload[t].sha /\ row.file = upload[t].file
<1>1. PICK old : old = upload[t]
  OBVIOUS
<1>2. PICK row : row = [old EXCEPT !.state = s]
  OBVIOUS
<1>3. old \in Upload
  BY <1>1, Typed
<1>4. upload' = [upload EXCEPT ![t] = row] /\ upload'[t] = row /\ DOMAIN upload' = DOMAIN upload
  BY <1>1, <1>2, Typed DEF SetState
<1>5. row \in Upload /\ row.state = s /\ row.offset = old.offset
      /\ row.sha = old.sha /\ row.file = old.file
  BY <1>2, <1>3 DEF Upload
<1>6. QED
  BY <1>1, <1>4, <1>5

LEMMA WithdrawInv ==
  ASSUME IInv, NEW w \in Callers, Withdraw(w)
  PROVE  IInv'
<1>0. PICK t : t = call[w].id
  OBVIOUS
<1>1. /\ call[w].pc \in {"withdraw", "cancel"} /\ CallOK(w)
      /\ t \in DOMAIN upload /\ t \in Transfers /\ t \notin granted
      /\ UngrantedOK(t) /\ RowOK(t)
  BY <1>0, Typed DEF Withdraw, At, IInv, CallOK, Begun, Creating
<1>2. /\ SetState(t, "aborted") /\ UNCHANGED dbVars /\ InLedger
      /\ UNCHANGED <<record, objects, locked, granted>>
  BY <1>0 DEF Withdraw, AbortCreation, Id, InLedger, daemonVars
<1>3. PICK row \in Upload :
        /\ upload' = [upload EXCEPT ![t] = row] /\ upload'[t] = row
        /\ DOMAIN upload' = DOMAIN upload
        /\ row.state = "aborted" /\ row.offset = upload[t].offset
        /\ row.sha = upload[t].sha /\ row.file = upload[t].file
  BY <1>1, <1>2, SetStateIs DEF UploadStates
<1>4. UngrantedOK(t)' /\ RowOK(t)'
  BY <1>1, <1>2, <1>3 DEF UngrantedOK, RowOK, Status, Bound, Receiving
<1>5. Only(w) /\ Enters(w) /\ CallOK(w)'
  <2>1. CASE End(w)
    BY <2>1, EndOnly
  <2>2. CASE Goto(w, "discard")
    <3>1. Only(w) /\ call'[w].pc = "discard" /\ call'[w].id = t
      BY <1>0, <2>2, GotoOnly DEF Steps
    <3>2. CallOK(w)'
      BY <1>1, <1>2, <1>3, <3>1
         DEF CallOK, Begun, Creating, Sections, Committing, Binding
    <3>3. Enters(w)
      BY <1>0, <1>1, <3>1 DEF Enters, IInv, CallsApart, Creating, Sections
    <3>4. QED
      BY <3>1, <3>2, <3>3
  <2>3. QED
    BY <2>1, <2>2 DEF Withdraw
<1>6. QED
  BY <1>1, <1>2, <1>3, <1>4, <1>5, RowInv

\* A row that still receives, or whose directory is gone, may be aborted.
LEMMA AbortRowInv ==
  ASSUME IInv, NEW w \in Callers, call[w].pc \notin Begun \cup Creating,
         NEW t, t = call[w].id, SetState(t, "aborted"),
         UNCHANGED dbVars, InLedger, End(w),
         upload[t].state \in Receiving \/ Status(t) = "none"
  PROVE  IInv'
<1>1. /\ t \in DOMAIN upload /\ t \in Transfers /\ t \in granted /\ RowOK(t)
  BY Holder
<1>2. UNCHANGED <<record, objects, locked, granted>>
  BY DEF InLedger, daemonVars
<1>3. PICK row \in Upload :
        /\ upload' = [upload EXCEPT ![t] = row] /\ upload'[t] = row
        /\ DOMAIN upload' = DOMAIN upload
        /\ row.state = "aborted" /\ row.offset = upload[t].offset
        /\ row.sha = upload[t].sha /\ row.file = upload[t].file
  BY <1>1, SetStateIs DEF UploadStates
<1>4. UngrantedOK(t)'
  BY <1>1, <1>2 DEF UngrantedOK
<1>5. RowOK(t)'
  <2>1. CASE upload[t].state \in Receiving
    BY <1>1, <1>2, <1>3, <2>1 DEF RowOK, Status, Bound, Receiving
  <2>2. CASE Status(t) = "none"
    BY <1>1, <1>2, <1>3, <2>2 DEF RowOK, Status, Bound, Receiving
  <2>3. QED
    BY <2>1, <2>2
<1>6. QED
  BY <1>1, <1>3, <1>4, <1>5, EndOnly, RowInv

LEMMA RetireInv ==
  ASSUME IInv, NEW w \in Callers, Retire(w)
  PROVE  IInv'
<1>1. call[w].pc = "retire" /\ End(w) /\ InLedger
  BY DEF Retire, At
<1>2. CASE upload[call[w].id].state \in Receiving
  BY <1>1, <1>2, AbortRowInv DEF Retire, RetireUpload, Id, Begun, Creating
<1>3. CASE upload[call[w].id].state \notin Receiving
  BY <1>1, <1>3, EndInv DEF Retire, Id, InLedger, Nowhere
<1>4. QED
  BY <1>2, <1>3

LEMMA AbortInv ==
  ASSUME IInv, NEW w \in Callers, Abort(w)
  PROVE  IInv'
<1>1. call[w].pc = "abort" /\ End(w) /\ InLedger
  BY DEF Abort, At
<1>2. Status(call[w].id) = "none"
  BY <1>1 DEF IInv, CallOK
<1>3. CASE upload[call[w].id].state # "ready"
  BY <1>1, <1>2, <1>3, AbortRowInv DEF Abort, AbortUpload, Id, Begun, Creating
<1>4. CASE upload[call[w].id].state = "ready"
  BY <1>1, <1>4, EndInv DEF Abort, Id, InLedger, Nowhere
<1>5. QED
  BY <1>3, <1>4

\* The row is told of bytes the record has.
LEMMA AdvanceInv ==
  ASSUME IInv, NEW w \in Callers, Advance(w)
  PROVE  IInv'
<1>0. PICK t, old, to : t = call[w].id /\ old = upload[t] /\ to = call[w].to
  OBVIOUS
<1>1. /\ call[w].pc = "advance" /\ CallOK(w) /\ call[w] \in Calls
      /\ t \in DOMAIN upload /\ t \in Transfers /\ t \in granted /\ RowOK(t)
  <2>1. call[w].pc = "advance"
    BY DEF Advance, At
  <2>2. QED
    BY <1>0, <2>1, Holder DEF Begun, Creating
<1>2. /\ AdvanceUpload(t, call[w].from, to) /\ InLedger /\ End(w)
      /\ UNCHANGED <<record, objects, locked, granted>>
  BY <1>0 DEF Advance, Id, InLedger, daemonVars
<1>3. old \in Upload /\ to \in 0 .. Length
  BY <1>0, <1>1, Typed DEF Calls
<1>4. PICK row : row = [old EXCEPT !.offset = to,
                                   !.state = IF to = Length THEN "uploaded" ELSE "uploading"]
  OBVIOUS
<1>5. /\ row \in Upload /\ row.offset = to /\ row.state \in {"uploaded", "uploading"}
      /\ row.sha = old.sha /\ row.file = old.file
  BY <1>3, <1>4 DEF Upload, UploadStates
<1>6. upload' = [upload EXCEPT ![t] = row] /\ upload'[t] = row /\ DOMAIN upload' = DOMAIN upload
  BY <1>0, <1>1, <1>2, <1>4, Typed DEF AdvanceUpload
<1>7. old.state \in Receiving /\ ~Bound(t) /\ UNCHANGED dbVars
  BY <1>0, <1>1, <1>2 DEF AdvanceUpload, CanAdvance, RowOK
<1>8. Status(t) = "none" \/ to <= record[t].offset
  BY <1>0, <1>1 DEF CallOK
<1>9. UngrantedOK(t)' /\ RowOK(t)'
  BY <1>0, <1>1, <1>2, <1>5, <1>6, <1>7, <1>8
     DEF UngrantedOK, RowOK, Status, Bound, Receiving
<1>10. QED
  BY <1>0, <1>1, <1>2, <1>5, <1>6, <1>7, <1>9, EndOnly, RowInv

-----------------------------------------------------------------------------
(***************************************************************************)
(* The transactions that begin and end a transfer.                         *)
(***************************************************************************)
\* A new row, and those of the path that lapsed.
LEMMA ReserveInv ==
  ASSUME IInv, NEW w \in Callers, Reserve(w)
  PROVE  IInv'
<1>1. PICK t \in Transfers, p \in Paths, d \in Contents :
        /\ CreateUpload(t, call[w].rev, p, d)
        /\ call' = [call EXCEPT ![w].pc = "create", ![w].id = t]
  BY DEF Reserve
<1>2. PICK r, c : r = call[w].rev /\ c = call[w]
  OBVIOUS
<1>3. c \in Calls /\ r \in Revisions /\ InLedger
      /\ UNCHANGED <<record, payload, objects, locked, doomed, expired, granted>>
  BY <1>2, Typed DEF Calls, Reserve, InLedger, daemonVars
<1>4. PICK new : new = [state |-> "initiated", offset |-> 0, rev |-> r,
                        path |-> p, sha |-> d, file |-> NoFile]
  OBVIOUS
<1>5. /\ t \notin DOMAIN upload /\ t \notin expired /\ UNCHANGED dbVars
      /\ upload' = [u \in DOMAIN upload \cup {t} |->
                      IF u = t THEN new
                      ELSE IF Lapsed(u, r, p) THEN [upload[u] EXCEPT !.state = "expired"]
                      ELSE upload[u]]
  BY <1>1, <1>2, <1>4 DEF CreateUpload
<1>6. new \in Upload /\ new.state = "initiated" /\ new.offset = 0 /\ new.file = NoFile
  BY <1>3, <1>4, LengthPositive DEF Upload, UploadStates
<1>7. /\ DOMAIN upload' = DOMAIN upload \cup {t} /\ upload'[t] = new
      /\ \A u \in DOMAIN upload :
           /\ upload'[u] \in Upload
           /\ upload'[u].offset = upload[u].offset
           /\ upload'[u].sha = upload[u].sha /\ upload'[u].file = upload[u].file
           /\ \/ upload'[u].state = upload[u].state
              \/ upload'[u].state = "expired"
  <2> SUFFICES ASSUME NEW u \in DOMAIN upload
               PROVE  /\ upload'[u] \in Upload
                      /\ upload'[u].offset = upload[u].offset
                      /\ upload'[u].sha = upload[u].sha /\ upload'[u].file = upload[u].file
                      /\ \/ upload'[u].state = upload[u].state
                         \/ upload'[u].state = "expired"
    BY <1>5
  <2>1. PICK old : old = upload[u]
    OBVIOUS
  <2>2. old \in Upload /\ u # t
    BY <1>5, <2>1, Typed
  <2>3. upload'[u] = old \/ upload'[u] = [old EXCEPT !.state = "expired"]
    BY <1>5, <2>1, <2>2
  <2>4. CASE upload'[u] = old
    BY <2>1, <2>2, <2>4
  <2>5. CASE upload'[u] = [old EXCEPT !.state = "expired"]
    BY <2>1, <2>2, <2>5 DEF Upload, UploadStates
  <2>6. QED
    BY <2>3, <2>4, <2>5
<1>8. t \notin granted /\ Status(t) = "none" /\ record[t].offset = 0 /\ t \notin locked
  BY <1>5, Typed DEF IInv, UngrantedOK
<1>9. PICK e : e = [c EXCEPT !.pc = "create", !.id = t]
  OBVIOUS
<1>10. /\ e \in Calls /\ e.pc = "create" /\ e.id = t
       /\ Only(w) /\ call'[w] = e
  <2>1. e \in Calls /\ e.pc = "create" /\ e.id = t
    BY <1>3, <1>9 DEF Calls, Steps
  <2>2. QED
    BY <1>1, <1>2, <1>9, <2>1, Typed DEF Only
<1>11. CallOK(w)' /\ Enters(w)
  <2>1. CallOK(w)'
    BY <1>3, <1>7, <1>8, <1>10
       DEF CallOK, Begun, Creating, Sections, Committing, Binding, Status
  <2>2. \A v \in Callers : call[v].id = t => call[v].pc \in Begun
    BY <1>5 DEF IInv, CallOK
  <2>3. QED
    BY <1>10, <2>1, <2>2 DEF Enters, Sections
<1>12. TypeOK'
  <2>1. LedgerTypeOK' /\ granted' \subseteq DOMAIN upload'
    <3>1. \A u \in DOMAIN upload' : upload'[u] \in Upload
      BY <1>6, <1>7
    <3>2. upload' = [u \in DOMAIN upload' |-> upload'[u]]
      BY <1>5, <1>7
    <3>3. QED
      BY <1>3, <1>7, <3>1, <3>2, Typed DEF LedgerTypeOK
  <2>2. DBTypeOK' /\ DaemonTypeOK'
    BY <1>3, <1>5 DEF IInv, TypeOK, DBTypeOK, DaemonTypeOK, dbVars
  <2>3. QED
    BY <1>10, <2>1, <2>2 DEF TypeOK, Only
<1>13. \A u \in DOMAIN upload : RowForward(u)
  BY <1>7 DEF RowForward
<1>14. \A u \in Transfers : UngrantedOK(u)' /\ RowOK(u)' /\ FileOK(u)'
  <2> SUFFICES ASSUME NEW u \in Transfers PROVE UngrantedOK(u)' /\ RowOK(u)' /\ FileOK(u)'
    OBVIOUS
  <2>1. UNCHANGED <<file, issued>>
    BY <1>5 DEF dbVars
  <2>2. UngrantedOK(u) /\ RowOK(u) /\ FileOK(u)
    BY DEF IInv
  <2>3. CASE u = t
    BY <1>3, <1>6, <1>7, <1>8, <2>3 DEF UngrantedOK, RowOK, FileOK, Status, Bound
  <2>4. CASE u \in DOMAIN upload
    <3>1. Bound(u)' = Bound(u) /\ Status(u)' = Status(u)
      BY <1>3, <1>7, <2>4 DEF Bound, Status
    <3>2. UngrantedOK(u)'
      BY <1>3, <1>7, <2>2, <2>4, <3>1 DEF UngrantedOK
    <3>3. RowOK(u)'
      BY <1>3, <1>7, <2>2, <2>4, <3>1 DEF RowOK, Receiving
    <3>4. FileOK(u)'
      BY <1>7, <2>1, <2>2, <2>4, <3>1 DEF FileOK
    <3>5. QED
      BY <3>2, <3>3, <3>4
  <2>5. CASE u # t /\ u \notin DOMAIN upload
    BY <1>3, <1>7, <2>2, <2>5 DEF UngrantedOK, RowOK, FileOK, Status
  <2>6. QED
    BY <2>3, <2>4, <2>5
<1>15. FilesApart' /\ FilesStored'
  <2>1. FilesStored'
    BY <1>3, <1>5 DEF IInv, FilesStored, dbVars
  <2>2. FilesApart'
    BY <1>6, <1>7 DEF IInv, FilesApart, Bound
  <2>3. QED
    BY <2>1, <2>2
<1>16. QED
  BY <1>3, <1>7, <1>10, <1>11, <1>12, <1>13, <1>14, <1>15, LedgerInv

LEMMA GrantInv ==
  ASSUME IInv, NEW w \in Callers, Grant(w)
  PROVE  IInv'
<1>0. PICK t : t = call[w].id
  OBVIOUS
<1>1. /\ call[w].pc = "grant" /\ CallOK(w)
      /\ t \in DOMAIN upload /\ t \in Transfers /\ t \notin granted
  BY <1>0, Typed DEF Grant, At, IInv, CallOK, Begun, Creating
<1>2. /\ granted' = granted \cup {t} /\ End(w)
      /\ UNCHANGED <<revision, file, issued, analysis, decision, head, latest, candidate,
                     upload, record, payload, objects, locked, doomed, expired>>
  BY <1>0 DEF Grant, Id, ledgerVars, dbVars, daemonVars
<1>3. Only(w) /\ Enters(w) /\ CallOK(w)'
  BY <1>2, EndOnly
<1>4. TypeOK'
  BY <1>1, <1>2, <1>3 DEF IInv, TypeOK, DBTypeOK, LedgerTypeOK, DaemonTypeOK, Only
<1>5. Shared'
  <2>1. \A u \in Transfers : DiskOK(u)' /\ UngrantedOK(u)' /\ RowOK(u)' /\ FileOK(u)'
    BY <1>2 DEF IInv, DiskOK, UngrantedOK, RowOK, FileOK, Status, Bound
  <2>2. FilesApart' /\ FilesStored' /\ ObjectsIntact'
    BY <1>2 DEF IInv, FilesApart, FilesStored, ObjectsIntact, Bound
  <2>3. QED
    BY <2>1, <2>2 DEF Shared
<1>6. Forward
  <2>1. record'[t].status = "none" \/ Status(t) # "none"
    BY <1>2 DEF Status
  <2>2. QED
    BY <1>1, <1>2, <2>1, Typed, LengthPositive DEF Forward, RowForward, RecordForward, Status
<1>7. \A v \in Callers \ {w} : Undisturbed(v)
  <2> SUFFICES ASSUME NEW v \in Callers \ {w} PROVE Undisturbed(v)
    OBVIOUS
  <2>1. CallOK(v)
    BY DEF IInv
  <2>2. call[v].pc \in Creating => call[v].id # t
    BY <1>0, <1>1 DEF IInv, CallsApart, Creating, Begun
  <2>3. QED
    BY <1>2, <2>1, <2>2 DEF Undisturbed, CallOK, Status
<1>8. QED
  BY <1>3, <1>4, <1>5, <1>6, <1>7, StepInv

\* A row of repository_files put in place keeps the table's type.
LEMMA PutRowIs ==
  ASSUME IInv, NEW f, NEW row \in Row, PutRow(f, row)
  PROVE  /\ DOMAIN file' = DOMAIN file \cup {f}
         /\ file' \in [DOMAIN file' -> Row]
         /\ file'[f] = row
         /\ \A g \in DOMAIN file \ {f} : file'[g] = file[g]
<1>1. file \in [DOMAIN file -> Row]
  BY DEF IInv, TypeOK, DBTypeOK
<1>2. DOMAIN file' = DOMAIN file \cup {f} /\ file'[f] = row
      /\ \A g \in DOMAIN file \ {f} : file'[g] = file[g]
  BY DEF PutRow
<1>3. \A g \in DOMAIN file' : file'[g] \in Row
  BY <1>1, <1>2
<1>4. file' = [g \in DOMAIN file' |-> file'[g]]
  BY <1>2 DEF PutRow
<1>5. QED
  BY <1>2, <1>3, <1>4

\* What a commit's transaction leaves of the other transfers' rows: it writes
\* upload t and, of the files, at most the one t is bound to.
LEMMA CommitInv ==
  ASSUME IInv, NEW w \in Callers, InLedger, DBTypeOK',
         NEW t \in DOMAIN upload, NEW row \in Upload,
         upload' = [upload EXCEPT ![t] = row],
         row.sha = upload[t].sha, row.file # NoFile,
         Bound(t) => row.file = upload[t].file,
         ~Bound(t) => row.file \notin issued,
         issued \subseteq issued', row.file \in issued',
         DOMAIN file' \subseteq DOMAIN file \cup {row.file},
         \A g \in DOMAIN file \ {row.file} : g \in DOMAIN file' /\ file'[g] = file[g],
         row.file \in DOMAIN file' =>
           /\ file'[row.file].sha = row.sha
           /\ row.state = "ready" => file'[row.file].storage = "available"
           /\ file'[row.file].storage = "available" =>
                <<file'[row.file].sha, TRUE>> \in objects,
         t \in granted, RowOK(t)', Only(w), Enters(w), CallOK(w)'
  PROVE  IInv'
<1>1. UNCHANGED <<record, payload, objects, locked, doomed, expired, granted>>
  BY DEF InLedger, daemonVars
<1>2. /\ DOMAIN upload' = DOMAIN upload /\ upload'[t] = row
      /\ \A u \in DOMAIN upload \ {t} : upload'[u] = upload[u]
      /\ upload' \in [DOMAIN upload' -> Upload]
  BY Typed
<1>3. TypeOK'
  BY <1>1, <1>2, Typed DEF IInv, TypeOK, LedgerTypeOK, DaemonTypeOK, Only
<1>4. \A u \in DOMAIN upload : RowForward(u)
  BY <1>2 DEF RowForward, Bound
<1>5. \A u \in Transfers : UngrantedOK(u)' /\ RowOK(u)'
  <2> SUFFICES ASSUME NEW u \in Transfers PROVE UngrantedOK(u)' /\ RowOK(u)'
    OBVIOUS
  <2>1. UngrantedOK(u) /\ RowOK(u)
    BY DEF IInv
  <2>2. CASE u = t
    BY <1>1, <2>2 DEF UngrantedOK
  <2>3. CASE u # t
    BY <1>1, <1>2, <2>1, <2>3 DEF UngrantedOK, RowOK, Status, Bound
  <2>4. QED
    BY <2>2, <2>3
\* The row of another transfer is another one.
<1>6. \A u \in DOMAIN upload \ {t} : Bound(u) =>
        upload[u].file # row.file /\ upload[u].file \in issued
  <2> SUFFICES ASSUME NEW u \in DOMAIN upload \ {t}, Bound(u)
               PROVE  upload[u].file # row.file /\ upload[u].file \in issued
    OBVIOUS
  <2>1. upload[u].file \in issued
    BY Typed DEF IInv, FileOK
  <2>2. CASE Bound(t)
    BY <2>1, <2>2 DEF IInv, FilesApart
  <2>3. CASE ~Bound(t)
    BY <2>1, <2>3
  <2>4. QED
    BY <2>2, <2>3
<1>7. \A u \in Transfers : FileOK(u)'
  <2> SUFFICES ASSUME NEW u \in Transfers, u \in DOMAIN upload, Bound(u)'
               PROVE  FileOK(u)'
    BY <1>2 DEF FileOK
  <2>1. CASE u = t
    BY <1>2, <2>1 DEF FileOK
  <2>2. CASE u # t
    <3>1. upload'[u] = upload[u] /\ Bound(u) /\ FileOK(u)
      BY <1>2, <2>2 DEF Bound, IInv
    <3>2. PICK g : g = upload[u].file
      OBVIOUS
    <3>3. g # row.file /\ g \in issued'
      BY <1>6, <2>2, <3>1, <3>2
    <3>4. g \in DOMAIN file' => g \in DOMAIN file /\ file'[g] = file[g]
      BY <3>3
    <3>5. QED
      BY <3>1, <3>2, <3>3, <3>4 DEF FileOK
  <2>3. QED
    BY <2>1, <2>2
<1>8. FilesApart'
  <2> SUFFICES ASSUME NEW u \in DOMAIN upload, NEW v \in DOMAIN upload, u # v,
                      Bound(u)', Bound(v)', upload'[u].file = upload'[v].file
               PROVE  FALSE
    BY <1>2 DEF FilesApart
  <2>1. CASE u = t
    BY <1>2, <1>6, <2>1 DEF Bound
  <2>2. CASE v = t
    BY <1>2, <1>6, <2>2 DEF Bound
  <2>3. CASE u # t /\ v # t
    BY <1>2, <2>3 DEF IInv, FilesApart, Bound
  <2>4. QED
    BY <2>1, <2>2, <2>3
<1>9. FilesStored'
  <2> SUFFICES ASSUME NEW g \in DOMAIN file', file'[g].storage = "available"
               PROVE  <<file'[g].sha, TRUE>> \in objects
    BY <1>1 DEF FilesStored
  <2>1. CASE g = row.file
    BY <2>1
  <2>2. CASE g # row.file
    BY <2>2 DEF IInv, FilesStored
  <2>3. QED
    BY <2>1, <2>2
<1>10. QED
  BY <1>2, <1>3, <1>4, <1>5, <1>7, <1>8, <1>9, LedgerInv

LEMMA PrepareInv ==
  ASSUME IInv, NEW w \in Callers, Prepare(w)
  PROVE  IInv'
<1>0. PICK t, old, c : t = call[w].id /\ old = upload[t] /\ c = call[w]
  OBVIOUS
<1>1. /\ call[w].pc = "prepare" /\ CallOK(w) /\ c \in Calls
      /\ t \in DOMAIN upload /\ t \in Transfers /\ t \in granted /\ RowOK(t) /\ FileOK(t)
      /\ old \in Upload
  <2>1. call[w].pc = "prepare"
    BY DEF Prepare, At
  <2>2. QED
    BY <1>0, <2>1, Holder, Typed DEF Begun, Creating, IInv
<1>2. PICK f \in FileIds, v \in [Inspectors -> Verdicts], o \in Outcomes :
        /\ PrepareScan(Id(w), f)
        /\ Concludes(v, o)
        /\ call' = [call EXCEPT ![w].pc = "record",
                                ![w].file = f,
                                ![w].pending = {<<i, v[i]>> : i \in Inspectors},
                                ![w].outcome = o]
  BY DEF Prepare
<1>s. PrepareScan(t, f)
  BY <1>0, <1>2 DEF Id
<1>3. InLedger /\ UNCHANGED <<record, objects, locked, granted>>
  BY DEF Prepare, InLedger, daemonVars
<1>4. PICK row : row = [old EXCEPT !.state = "scanning", !.file = f]
  OBVIOUS
<1>5. /\ row \in Upload /\ row.state = "scanning" /\ row.file = f
      /\ row.sha = old.sha /\ row.offset = old.offset
  BY <1>1, <1>4 DEF Upload, UploadStates
<1>6. /\ upload' = [upload EXCEPT ![t] = row] /\ upload'[t] = row
      /\ DOMAIN upload' = DOMAIN upload
  BY <1>0, <1>1, <1>s, <1>4, Typed DEF PrepareScan
<1>7. /\ old.state \in {"uploaded", "scanning"}
      /\ (BindFile(t, f) \/ RescanBound(t, f))
      /\ StoreOnly /\ f # NoFile
  <2>1. f # NoFile
    BY <1>2, NoFileFresh
  <2>2. CanScan(t) /\ (BindFile(t, f) \/ RescanBound(t, f)) /\ StoreOnly
    BY <1>s DEF PrepareScan
  <2>3. old.state \in {"uploaded", "scanning"}
    BY <1>0, <2>2 DEF CanScan
  <2>4. QED
    BY <2>1, <2>2, <2>3
<1>8. /\ revision \in [Revisions -> [status : Statuses, manifest : Listings]]
      /\ issued \subseteq FileIds /\ DOMAIN file \subseteq issued
      /\ file \in [DOMAIN file -> Row]
  BY DEF IInv, TypeOK, DBTypeOK
\* What the two ways to prepare have in common.
<1>9. /\ DBTypeOK' /\ issued \subseteq issued' /\ f \in issued'
      /\ Bound(t) => f = old.file
      /\ ~Bound(t) => f \notin issued
      /\ DOMAIN file' \subseteq DOMAIN file \cup {f}
      /\ \A g \in DOMAIN file \ {f} : g \in DOMAIN file' /\ file'[g] = file[g]
      /\ f \in DOMAIN file' => /\ file'[f].sha = old.sha
                               /\ file'[f].storage = "available" =>
                                    <<file'[f].sha, TRUE>> \in objects
  <2>1. CASE BindFile(t, f)
    <3>1. PICK nr : nr = [NewRow(old.rev, old.path, f, "running") EXCEPT !.sha = old.sha]
      OBVIOUS
    <3>2. old.sha \in FileIds /\ old.rev \in Revisions /\ old.path \in Paths
      BY <1>1, ContentsAreDigests DEF Upload
    <3>3. PICK n : n = NewRow(old.rev, old.path, f, "running")
      OBVIOUS
    <3>4. n \in Row /\ n.storage = "quarantine"
      BY <3>2, <3>3 DEF NewRow, Row, Unscanned
    <3>5. nr \in Row /\ nr.sha = old.sha /\ nr.storage = "quarantine"
      BY <3>1, <3>2, <3>3, <3>4 DEF Row
    <3>6. PutRow(f, nr) /\ f \in FileIds \ issued /\ ~Bound(t) /\ issued' = issued \cup {f}
      BY <1>0, <2>1, <3>1 DEF BindFile, CanInsert
    <3>7. /\ DOMAIN file' = DOMAIN file \cup {f} /\ file' \in [DOMAIN file' -> Row]
          /\ file'[f] = nr /\ \A g \in DOMAIN file \ {f} : file'[g] = file[g]
      BY <3>5, <3>6, PutRowIs
    <3>8. revision' \in [Revisions -> [status : Statuses, manifest : Listings]]
      BY <1>8, <2>1 DEF BindFile, Statuses
    <3>9. DBTypeOK'
      BY <1>7, <1>8, <3>6, <3>7, <3>8 DEF IInv, TypeOK, DBTypeOK, StoreOnly
    <3>10. QED
      BY <3>5, <3>6, <3>7, <3>9
  <2>2. CASE RescanBound(t, f)
    <3>1. /\ old.file = f /\ Bound(t) /\ UNCHANGED <<issued, revision>> /\ f \in issued
          /\ f \in DOMAIN file => file[f].sha = old.sha
      BY <1>0, <1>1, <2>2 DEF RescanBound, FileOK
    <3>2. CASE f \in DOMAIN file /\ file[f].storage = "quarantine"
      <4>1. PICK fr, nr : fr = file[f] /\ nr = [fr EXCEPT !.scan = "running"]
        OBVIOUS
      <4>2. fr \in Row
        BY <1>8, <3>2, <4>1
      <4>3. nr \in Row /\ nr.sha = fr.sha /\ nr.storage = "quarantine"
        BY <3>2, <4>1, <4>2 DEF Row
      <4>4. PutRow(f, nr)
        BY <2>2, <3>2, <4>1 DEF RescanBound
      <4>5. /\ DOMAIN file' = DOMAIN file \cup {f} /\ file' \in [DOMAIN file' -> Row]
            /\ file'[f] = nr /\ \A g \in DOMAIN file \ {f} : file'[g] = file[g]
        BY <4>3, <4>4, PutRowIs
      <4>6. DBTypeOK'
        BY <1>7, <1>8, <3>1, <4>5 DEF IInv, TypeOK, DBTypeOK, StoreOnly
      <4>7. QED
        BY <3>1, <3>2, <4>1, <4>3, <4>5, <4>6
    <3>3. CASE ~(f \in DOMAIN file /\ file[f].storage = "quarantine")
      <4>1. UNCHANGED file
        BY <2>2, <3>3 DEF RescanBound
      <4>2. DBTypeOK'
        BY <1>7, <1>8, <3>1, <4>1 DEF IInv, TypeOK, DBTypeOK, StoreOnly
      <4>3. QED
        BY <3>1, <4>1, <4>2 DEF IInv, FilesStored
    <3>4. QED
      BY <3>2, <3>3
  <2>3. QED
    BY <1>7, <2>1, <2>2
<1>10. Status(t) = "none" \/ record[t].verified
  BY <1>0, <1>1 DEF CallOK, Committing, Binding
<1>11. RowOK(t)'
  BY <1>0, <1>1, <1>3, <1>5, <1>6, <1>7, <1>10 DEF RowOK, Status, Bound, Receiving
<1>12. PICK d, P : /\ P = {<<i, v[i]>> : i \in Inspectors}
                   /\ d = [c EXCEPT !.pc = "record", !.file = f, !.pending = P, !.outcome = o]
  OBVIOUS
<1>13. /\ d \in Calls /\ d.pc = "record" /\ d.id = t /\ d.file = f
       /\ Only(w) /\ call'[w] = d
  <2>1. P \in SUBSET (Inspectors \X Verdicts)
    <3>1. \A i \in Inspectors : v[i] \in Verdicts
      BY <1>2
    <3>2. \A i \in Inspectors : <<i, v[i]>> \in Inspectors \X Verdicts
      BY <3>1
    <3>3. QED
      BY <1>12, <3>2
  <2>2. d \in Calls /\ d.pc = "record" /\ d.id = t /\ d.file = f
    BY <1>0, <1>1, <1>2, <1>12, <2>1 DEF Calls, Steps
  <2>3. call' = [call EXCEPT ![w] = d]
    BY <1>0, <1>2, <1>12
  <2>4. QED
    BY <2>2, <2>3, Typed DEF Only
<1>14. CallOK(w)' /\ Enters(w)
  <2>1. CallOK(w)'
    BY <1>1, <1>3, <1>5, <1>6, <1>7, <1>10, <1>13
       DEF CallOK, Begun, Creating, Sections, Committing, Binding, Status, Bound
  <2>2. QED
    BY <1>13, <2>1 DEF Enters, Creating, Sections
<1>15. QED
  BY <1>0, <1>1, <1>3, <1>5, <1>6, <1>7, <1>9, <1>11, <1>13, <1>14, CommitInv

\* A verdict that is recorded, and where its commit stands then.
LEMMA RecordVerdictInv ==
  ASSUME IInv, NEW w \in Callers, RecordVerdict(w)
  PROVE  IInv'
<1>0. PICK t, c : t = call[w].id /\ c = call[w]
  OBVIOUS
<1>1. /\ call[w].pc = "record" /\ CallOK(w) /\ c \in Calls
      /\ t \in DOMAIN upload /\ t \in Transfers /\ t \in granted
  <2>1. call[w].pc = "record"
    BY DEF RecordVerdict, At
  <2>2. QED
    BY <1>0, <2>1, Holder, Typed DEF Begun, Creating, IInv
<1>2. PICK p \in call[w].pending :
        /\ RecordInspection(call[w].file, p[1], p[2])
        /\ call' = [call EXCEPT ![w].pending = @ \ {p},
                                ![w].pc = IF call[w].pending = {p}
                                          THEN AfterRecording(call[w].outcome) ELSE @]
  BY DEF RecordVerdict
<1>3. /\ InLedger
      /\ UNCHANGED <<upload, record, objects, locked, granted, issued, revision>>
      /\ StoreOnly
  BY <1>2 DEF RecordVerdict, InLedger, daemonVars, RecordInspection, FilesChange, StoreOnly
<1>4. PICK f, i, v : f = c.file /\ i = p[1] /\ v = p[2]
  OBVIOUS
<1>5. f \in DOMAIN file /\ file' = [file EXCEPT ![f].verdict[i] = v]
  BY <1>0, <1>2, <1>4 DEF RecordInspection
<1>6. i \in Inspectors /\ v \in Verdicts
  <2>1. p \in Inspectors \X Verdicts
    BY <1>0, <1>1, <1>2 DEF Calls
  <2>2. QED
    BY <1>4, <2>1
<1>7. file \in [DOMAIN file -> Row]
  BY DEF IInv, TypeOK, DBTypeOK
\* The row keeps its digest and its storage.
<1>8. /\ DOMAIN file' = DOMAIN file /\ file' \in [DOMAIN file' -> Row]
      /\ \A g \in DOMAIN file : /\ file'[g].sha = file[g].sha
                                /\ file'[g].storage = file[g].storage
  <2>1. PICK fr : fr = file[f]
    OBVIOUS
  <2>2. PICK vd : vd = [fr.verdict EXCEPT ![i] = v]
    OBVIOUS
  <2>3. PICK nr : nr = [fr EXCEPT !.verdict = vd]
    OBVIOUS
  <2>4. fr \in Row
    BY <1>5, <1>7, <2>1
  <2>5. vd \in [Inspectors -> Verdicts \cup {"none"}]
    BY <1>6, <2>2, <2>4 DEF Row
  <2>6. nr \in Row /\ nr.sha = fr.sha /\ nr.storage = fr.storage
    BY <2>3, <2>4, <2>5 DEF Row
  <2>7. file' = [file EXCEPT ![f] = nr]
    BY <1>5, <2>1, <2>2, <2>3
  <2>8. QED
    BY <1>7, <2>1, <2>6, <2>7
<1>9. PICK q, P : /\ q = IF call[w].pending = {p} THEN AfterRecording(call[w].outcome) ELSE c.pc
                  /\ P = c.pending \ {p}
  OBVIOUS
<1>10. q \in {"record", "refuse", "hold", "promote"} /\ P \in SUBSET (Inspectors \X Verdicts)
  BY <1>0, <1>1, <1>9 DEF AfterRecording, Calls, Outcomes
<1>11. PICK d : d = [c EXCEPT !.pending = P, !.pc = q]
  OBVIOUS
<1>12. /\ d \in Calls /\ d.pc = q /\ d.id = t /\ d.file = c.file
       /\ Only(w) /\ call'[w] = d
  <2>1. d \in Calls /\ d.pc = q /\ d.id = t /\ d.file = c.file
    BY <1>0, <1>1, <1>10, <1>11 DEF Calls, Steps
  <2>2. call' = [call EXCEPT ![w] = d]
    BY <1>0, <1>2, <1>9, <1>11
  <2>3. QED
    BY <2>1, <2>2, Typed DEF Only
<1>13. CallOK(w)' /\ Enters(w)
  <2>1. CallOK(w)'
    BY <1>0, <1>1, <1>3, <1>10, <1>12
       DEF CallOK, Begun, Creating, Sections, Committing, Binding, Status, Bound
  <2>2. QED
    BY <1>10, <1>12, <2>1 DEF Enters, Creating, Sections
<1>14. TypeOK'
  <2>1. DBTypeOK'
    BY <1>3, <1>8 DEF IInv, TypeOK, DBTypeOK, StoreOnly
  <2>2. QED
    BY <1>3, <1>12, <2>1
       DEF IInv, TypeOK, LedgerTypeOK, DaemonTypeOK, InLedger, daemonVars, Only
<1>15. \A u \in Transfers : UngrantedOK(u)' /\ RowOK(u)'
  BY <1>3 DEF IInv, UngrantedOK, RowOK, Status, Bound
<1>16. \A u \in Transfers : FileOK(u)'
  BY <1>3, <1>8 DEF IInv, FileOK, Bound
<1>17. FilesApart' /\ FilesStored'
  BY <1>3, <1>8 DEF IInv, FilesApart, FilesStored, Bound
<1>18. DOMAIN upload \subseteq DOMAIN upload' /\ \A u \in DOMAIN upload : RowForward(u)
  BY <1>3 DEF RowForward, Bound
<1>19. QED
  BY <1>3, <1>12, <1>13, <1>14, <1>15, <1>16, <1>17, <1>18, LedgerInv

\* What complete, reject and hold leave of the files.
LEMMA ConcludeIs ==
  ASSUME IInv, NEW t \in DOMAIN upload, NEW f \in issued,
         NEW storage \in {"quarantine", "available", "rejected"},
         NEW scan \in {"clean", "failed", "error"},
         NEW status \in {"quarantined", "rejected"},
         Conclude(t, f, storage, scan, status)
  PROVE  /\ DBTypeOK' /\ UNCHANGED issued
         /\ DOMAIN file' = DOMAIN file
         /\ \A g \in DOMAIN file : file'[g].sha = file[g].sha
         /\ \A g \in DOMAIN file \ {f} : file'[g] = file[g]
         /\ f \in DOMAIN file => file'[f].storage = storage
<1>1. /\ revision \in [Revisions -> [status : Statuses, manifest : Listings]]
      /\ issued \subseteq FileIds /\ DOMAIN file \subseteq issued
      /\ file \in [DOMAIN file -> Row]
  BY DEF IInv, TypeOK, DBTypeOK
<1>2. revision' \in [Revisions -> [status : Statuses, manifest : Listings]]
  BY <1>1 DEF Conclude, Statuses
<1>3. UNCHANGED issued /\ StoreOnly
  BY DEF Conclude
<1>4. CASE f \in DOMAIN file
  <2>1. PICK fr, nr : fr = file[f] /\ nr = [fr EXCEPT !.storage = storage, !.scan = scan]
    OBVIOUS
  <2>2. fr \in Row
    BY <1>1, <1>4, <2>1
  <2>3. nr \in Row /\ nr.sha = fr.sha /\ nr.storage = storage
    BY <2>1, <2>2 DEF Row
  <2>4. PutRow(f, nr)
    BY <1>4, <2>1 DEF Conclude
  <2>5. /\ DOMAIN file' = DOMAIN file \cup {f} /\ file' \in [DOMAIN file' -> Row]
        /\ file'[f] = nr /\ \A g \in DOMAIN file \ {f} : file'[g] = file[g]
    BY <2>3, <2>4, PutRowIs
  <2>6. DBTypeOK'
    BY <1>1, <1>2, <1>3, <1>4, <2>5 DEF IInv, TypeOK, DBTypeOK, StoreOnly
  <2>7. QED
    BY <1>3, <1>4, <2>1, <2>3, <2>5, <2>6
<1>5. CASE f \notin DOMAIN file
  <2>1. UNCHANGED file
    BY <1>5 DEF Conclude
  <2>2. DBTypeOK'
    BY <1>1, <1>2, <1>3, <2>1 DEF IInv, TypeOK, DBTypeOK, StoreOnly
  <2>3. QED
    BY <1>3, <1>5, <2>1, <2>2
<1>6. QED
  BY <1>4, <1>5

\* A commit settles a transfer only as the daemon has settled it.
LEMMA SettleInv ==
  ASSUME IInv, NEW w \in Callers, Settle(w)
  PROVE  IInv'
<1>0. PICK t, old, f : t = call[w].id /\ old = upload[t] /\ f = call[w].file
  OBVIOUS
<1>1. /\ call[w].pc \in {"complete", "reject", "hold"} /\ CallOK(w)
      /\ t \in DOMAIN upload /\ t \in Transfers /\ t \in granted
      /\ RowOK(t) /\ FileOK(t) /\ old \in Upload
  <2>1. call[w].pc \in {"complete", "reject", "hold"}
    BY DEF Settle, At
  <2>2. QED
    BY <1>0, <2>1, Holder, Typed DEF Begun, Creating, IInv
<1>2. /\ End(w) /\ InLedger /\ UNCHANGED <<record, objects, locked, granted>>
  BY DEF Settle, InLedger, daemonVars
<1>3. /\ Bound(t) /\ old.file = f /\ f \in issued /\ f # NoFile
      /\ f \in DOMAIN file => file[f].sha = old.sha
      /\ (Status(t) = "none" \/ record[t].verified)
  BY <1>0, <1>1 DEF CallOK, FileOK, Binding, Committing, Bound
<1>4. Only(w) /\ Enters(w) /\ CallOK(w)'
  BY <1>2, EndOnly
<1>5. SUFFICES ASSUME NEW s \in {"ready", "rejected", "scanning"},
                      NEW storage \in {"quarantine", "available", "rejected"},
                      NEW scan \in {"clean", "failed", "error"},
                      NEW status \in {"quarantined", "rejected"},
                      NEW row \in Upload,
                      upload' = [upload EXCEPT ![t] = row],
                      row.state = s, row.file = f,
                      row.sha = old.sha, row.offset = old.offset,
                      Conclude(t, f, storage, scan, status),
                      s = "ready" => /\ storage = "available"
                                     /\ Status(t) \in {"available", "none"}
                                     /\ <<old.sha, TRUE>> \in objects,
                      s # "ready" => storage # "available",
                      s = "rejected" => Status(t) \in {"rejected", "none"}
               PROVE  IInv'
  <2>1. CASE call[w].pc = "complete"
    <3>1. CompleteUpload(t, f)
      BY <1>0, <2>1 DEF Settle, At, Id
    <3>2. PICK row : row = [old EXCEPT !.state = "ready", !.file = f]
      OBVIOUS
    <3>r. /\ row \in Upload /\ row.state = "ready" /\ row.file = f
          /\ row.sha = old.sha /\ row.offset = old.offset
      BY <1>1, <1>3, <3>2 DEF Upload, UploadStates
    <3>3. upload' = [upload EXCEPT ![t] = row]
      BY <1>0, <3>1, <3>2 DEF CompleteUpload
    <3>4. Conclude(t, f, "available", "clean", "quarantined")
      BY <3>1 DEF CompleteUpload
    <3>5. Status(t) \in {"available", "none"} /\ <<old.sha, TRUE>> \in objects
      BY <1>0, <1>1, <2>1 DEF CallOK
    <3>6. QED
      BY <1>5, <3>r, <3>3, <3>4, <3>5
  <2>2. CASE call[w].pc = "reject"
    <3>1. RejectUpload(t, f)
      BY <1>0, <2>2 DEF Settle, At, Id
    <3>2. PICK row \in Upload :
            /\ upload' = [upload EXCEPT ![t] = row] /\ row.state = "rejected"
            /\ row.offset = old.offset /\ row.sha = old.sha /\ row.file = f
      BY <1>0, <1>1, <1>3, <3>1, SetStateIs DEF RejectUpload, UploadStates
    <3>3. Conclude(t, f, "rejected", "failed", "rejected")
      BY <3>1 DEF RejectUpload
    <3>4. Status(t) \in {"rejected", "none"}
      BY <1>0, <1>1, <2>2 DEF CallOK
    <3>5. QED
      BY <1>5, <3>2, <3>3, <3>4
  <2>3. CASE call[w].pc = "hold"
    <3>1. HoldUpload(t, f)
      BY <1>0, <2>3 DEF Settle, At, Id
    <3>2. PICK row \in Upload :
            /\ upload' = [upload EXCEPT ![t] = row] /\ row.state = "scanning"
            /\ row.offset = old.offset /\ row.sha = old.sha /\ row.file = f
      BY <1>0, <1>1, <1>3, <3>1, SetStateIs DEF HoldUpload, UploadStates
    <3>3. Conclude(t, f, "quarantine", "error", "quarantined")
      BY <3>1 DEF HoldUpload
    <3>4. QED
      BY <1>5, <3>2, <3>3
  <2>4. QED
    BY <1>1, <2>1, <2>2, <2>3
<1>8. /\ upload' = [upload EXCEPT ![t] = row] /\ upload'[t] = row
      /\ DOMAIN upload' = DOMAIN upload
  BY <1>1, <1>5, Typed
<1>9. /\ DBTypeOK' /\ UNCHANGED issued
      /\ DOMAIN file' = DOMAIN file
      /\ \A g \in DOMAIN file : file'[g].sha = file[g].sha
      /\ \A g \in DOMAIN file \ {f} : file'[g] = file[g]
      /\ f \in DOMAIN file => file'[f].storage = storage
  BY <1>1, <1>3, <1>5, ConcludeIs
<1>10. f \in DOMAIN file' =>
         /\ file'[f].sha = old.sha
         /\ s = "ready" => file'[f].storage = "available"
         /\ file'[f].storage = "available" => <<file'[f].sha, TRUE>> \in objects
  BY <1>3, <1>5, <1>9
<1>11. RowOK(t)'
  BY <1>0, <1>1, <1>2, <1>3, <1>5, <1>8 DEF RowOK, Status, Bound, Receiving
<1>12. /\ row.sha = upload[t].sha /\ row.file # NoFile
       /\ row.file = upload[t].file /\ Bound(t)
       /\ row.file \in issued' /\ issued \subseteq issued'
  BY <1>0, <1>3, <1>5, <1>9
<1>13. /\ DOMAIN file' \subseteq DOMAIN file \cup {row.file}
       /\ \A g \in DOMAIN file \ {row.file} : g \in DOMAIN file' /\ file'[g] = file[g]
  BY <1>5, <1>9
<1>14. row.file \in DOMAIN file' =>
         /\ file'[row.file].sha = row.sha
         /\ row.state = "ready" => file'[row.file].storage = "available"
         /\ file'[row.file].storage = "available" =>
              <<file'[row.file].sha, TRUE>> \in objects
  BY <1>5, <1>10
<1>15. t \in DOMAIN upload /\ t \in granted /\ InLedger /\ DBTypeOK' /\ row \in Upload
       /\ upload' = [upload EXCEPT ![t] = row]
  BY <1>1, <1>2, <1>5, <1>9
<1>16. QED
  BY <1>4, <1>11, <1>12, <1>13, <1>14, <1>15, CommitInv

-----------------------------------------------------------------------------
(***************************************************************************)
(* The invariant holds, and what follows from it.                          *)
(***************************************************************************)
LEMMA InitInv == Init => IInv
<1> SUFFICES ASSUME Init PROVE IInv
  OBVIOUS
<1>1. /\ DOMAIN upload = {} /\ granted = {} /\ locked = {} /\ objects = {}
      /\ doomed = {} /\ expired = {}
      /\ record = [t \in Transfers |-> NoRecord]
      /\ payload = [t \in Transfers |-> NoPayload]
      /\ call = [w \in Callers |-> NoCall]
  BY DEF Init, LedgerInit, DaemonInit
<1>2. /\ DOMAIN file = {} /\ issued = {} /\ head = 1 /\ latest = 0 /\ candidate = 0
      /\ file = [f \in {} |-> {}]
  BY DEF Init, DBInit
<1>3. TypeOK
  <2>1. DBTypeOK
    <3>1. revision \in [Revisions -> [status : Statuses, manifest : Listings]]
      BY DEF Init, DBInit, Statuses, Listings
    <3>2. analysis \in [Revisions -> [status : {"none", "passed", "failed"}, saw : Listings]]
          /\ decision \in [Revisions -> [outcome : {"none", "passed", "blocked"},
                                         manifest : Listings]]
      BY DEF Init, DBInit, Listings
    <3>3. 1 \in Revisions
      BY RevisionBound DEF Revisions
    <3>4. QED
      BY <1>2, <3>1, <3>2, <3>3 DEF DBTypeOK
  <2>2. upload \in [DOMAIN upload -> Upload]
    BY DEF Init, LedgerInit
  <2>3. DaemonTypeOK
    BY <1>1, LengthPositive DEF DaemonTypeOK, NoRecord, NoPayload, RecordStatuses
  <2>4. QED
    BY <1>1, <2>1, <2>2, <2>3, NoCallTyped DEF TypeOK, LedgerTypeOK
<1>4. \A t \in Transfers : DiskOK(t) /\ UngrantedOK(t) /\ RowOK(t) /\ FileOK(t)
  BY <1>1 DEF DiskOK, UngrantedOK, RowOK, FileOK, Status, NoRecord, NoPayload, Writing
<1>5. FilesApart /\ FilesStored /\ ObjectsIntact
  BY <1>1, <1>2 DEF FilesApart, FilesStored, ObjectsIntact
<1>6. \A w \in Callers : CallOK(w)
  BY <1>1 DEF CallOK, NoCall, Begun, Creating, Sections, Committing, Binding
<1>7. CallsApart
  BY <1>1 DEF CallsApart, NoCall, Creating, Sections
<1>8. QED
  BY <1>3, <1>4, <1>5, <1>6, <1>7 DEF IInv

LEMMA StutterInv ==
  ASSUME IInv, UNCHANGED vars
  PROVE  IInv'
<1>1. UNCHANGED <<revision, file, issued, analysis, decision, head, latest, candidate,
                  upload, record, payload, objects, locked, doomed, expired, call, granted>>
  BY DEF vars, ledgerVars, dbVars, daemonVars
<1>2. TypeOK'
  BY <1>1 DEF IInv, TypeOK, DBTypeOK, LedgerTypeOK, DaemonTypeOK
<1>3. \A t \in Transfers : DiskOK(t)' /\ UngrantedOK(t)' /\ RowOK(t)' /\ FileOK(t)'
  BY <1>1 DEF IInv, DiskOK, UngrantedOK, RowOK, FileOK, Status, Bound
<1>4. FilesApart' /\ FilesStored' /\ ObjectsIntact'
  BY <1>1 DEF IInv, FilesApart, FilesStored, ObjectsIntact, Bound
<1>5. (\A w \in Callers : CallOK(w)') /\ CallsApart'
  BY <1>1 DEF IInv, CallOK, CallsApart, Status, Bound
<1>6. QED
  BY <1>2, <1>3, <1>4, <1>5 DEF IInv

\* The steps that end a request and touch nothing.
Ends(w) ==
  \/ ReserveRefused(w) \/ AppendRefused(w) \/ AdvanceRaises(w) \/ TerminateRefused(w)
  \/ PrepareRaises(w) \/ PromoteRefused(w) \/ RefuseRefused(w) \/ SettleRaises(w)
  \/ Lost(w)

LEMMA EndsNowhere ==
  ASSUME NEW w \in Callers, Ends(w)
  PROVE  End(w) /\ Nowhere
<1>1. CASE ReserveRefused(w) \/ AppendRefused(w) \/ AdvanceRaises(w) \/ TerminateRefused(w)
  BY <1>1 DEF ReserveRefused, AppendRefused, AdvanceRaises, TerminateRefused
<1>2. CASE PromoteRefused(w) \/ RefuseRefused(w) \/ Lost(w)
  BY <1>2 DEF PromoteRefused, RefuseRefused, Lost
<1>3. CASE PrepareRaises(w)
  BY <1>3 DEF PrepareRaises
<1>4. CASE SettleRaises(w)
  BY <1>4 DEF SettleRaises
<1>5. QED
  BY <1>1, <1>2, <1>3, <1>4 DEF Ends

LEMMA NextInv == IInv /\ [Next]_vars => IInv'
<1> SUFFICES ASSUME IInv, [Next]_vars PROVE IInv'
  OBVIOUS
<1>1. ASSUME NEW w \in Callers,
             \/ AdmitCreate(w) \/ AdmitPatch(w) \/ AdmitHead(w)
             \/ AdmitDelete(w) \/ AdmitCommit(w)
      PROVE  IInv'
  BY <1>1, AdmitInv
<1>2. ASSUME NEW w \in Callers, Ends(w) PROVE IInv'
  BY <1>2, EndsNowhere, EndInv
<1>3. ASSUME NEW w \in Callers, Work(w) PROVE IInv'
  <2>1. CASE \/ Reserve(w) \/ CreateInDaemon(w) \/ CreateFails(w)
             \/ Grant(w) \/ ReceiptFails(w) \/ Withdraw(w)
    BY <2>1, ReserveInv, CreateInDaemonInv, CreationFailsInv, GrantInv, WithdrawInv
  <2>2. CASE \/ Append(w) \/ SaveAppend(w) \/ Advance(w) \/ Look(w) \/ Retire(w)
             \/ TerminateInDaemon(w) \/ Abort(w)
    BY <2>2, AppendInv, SaveAppendInv, AdvanceInv, LookInv, RetireInv, TerminateInv, AbortInv
  <2>3. CASE Fetch(w) \/ ReadLedger(w) \/ Prepare(w) \/ RecordVerdict(w)
    BY <2>3, FetchInv, ReadLedgerInv, PrepareInv, RecordVerdictInv
  <2>4. CASE Promote(w) \/ PromoteReplayed(w) \/ Refuse(w) \/ SaveOutcome(w) \/ Settle(w)
    BY <2>4, PromoteInv, PromoteReplayedInv, RefuseInv, SaveOutcomeInv, SettleInv
  <2>5. CASE Ends(w)
    BY <1>2, <2>5
  <2>6. QED
    BY <1>3, <2>1, <2>2, <2>3, <2>4, <2>5 DEF Work, Ends
<1>4. ASSUME NEW w \in Callers, Lost(w) PROVE IInv'
  BY <1>2, <1>4 DEF Ends
<1>5. CASE CrashDaemon \/ Elapse \/ Cleanup
  BY <1>5, CrashInv, ElapseInv, CleanupInv
<1>6. CASE UNCHANGED vars
  BY <1>6, StutterInv
<1>7. QED
  BY <1>1, <1>3, <1>4, <1>5, <1>6 DEF Next

\* Whatever is lost, retried, torn, expired or cleaned up between two calls,
\* row, record, payload, object and file row agree as far as IInv says.
THEOREM TransferInvariant == Spec => []IInv
BY InitInv, NextInv, PTL DEF Spec

\* Every row, record, payload and request has the type the code declares.
THEOREM TransferTypeCorrect == Spec => []TypeOK
<1>1. IInv => TypeOK
  BY DEF IInv
<1>2. QED
  BY <1>1, TransferInvariant, PTL

\* What the gateway has acknowledged the daemon has on disk.
THEOREM LedgerBehind == Spec => []LedgerBehindDisk
<1>1. IInv => LedgerBehindDisk
  BY Typed DEF IInv, LedgerBehindDisk, RowOK, DiskOK, Status
<1>2. QED
  BY <1>1, TransferInvariant, PTL

\* A transfer is ready, and a row is served, only when the store holds bytes
\* with the declared digest.
THEOREM ReadyStored == Spec => []ReadyIsStored
<1>1. IInv => ReadyIsStored
  <2> SUFFICES ASSUME IInv PROVE ReadyIsStored
    OBVIOUS
  <2>1. ASSUME NEW t \in DOMAIN upload, upload[t].state = "ready"
        PROVE  /\ <<upload[t].sha, TRUE>> \in objects
               /\ upload[t].file \in DOMAIN file => file[upload[t].file].storage = "available"
    BY <2>1, Typed DEF IInv, RowOK, FileOK
  <2>2. QED
    BY <2>1 DEF IInv, ReadyIsStored, FilesStored
<1>2. QED
  BY <1>1, TransferInvariant, PTL

\* Commits, retries and deletions of one transfer agree on how it ended.
THEOREM OutcomesAgree == Spec => []OneOutcome
<1>1. IInv => OneOutcome
  BY Typed DEF IInv, OneOutcome, RowOK, Status
<1>2. QED
  BY <1>1, TransferInvariant, PTL

-----------------------------------------------------------------------------
(***************************************************************************)
(* What one step may do to the rows of repository_uploads and to the store.*)
(***************************************************************************)
Open == Receiving \cup {"scanning"}

RowMoves(old, row) ==
  /\ row.sha = old.sha
  /\ row.offset >= old.offset
  /\ \/ row.state = old.state
     \/ old.state \in Open /\ row.state \in Open \cup {"rejected"}
     \/ old.state \in Open /\ row.state = "ready" /\ <<old.sha, TRUE>> \in objects
     \/ old.state # "ready" /\ row.state = "aborted"

Still == UNCHANGED <<upload, objects>>

Stores == \E c \in Contents, b \in BOOLEAN :
            UNCHANGED upload /\ objects' = objects \cup {<<c, b>>}

Writes == \E t \in DOMAIN upload, row \in Upload :
            /\ upload' = [upload EXCEPT ![t] = row]
            /\ RowMoves(upload[t], row)
            /\ UNCHANGED objects

Lapses(u) == upload[u].state \in Open /\ upload'[u] = [upload[u] EXCEPT !.state = "expired"]

Adds == /\ DOMAIN upload \subseteq DOMAIN upload'
        /\ \A u \in DOMAIN upload : upload'[u] = upload[u] \/ Lapses(u)
        /\ \A u \in DOMAIN upload' \ DOMAIN upload : upload'[u].state = "initiated"
        /\ UNCHANGED objects

LEMMA NowhereStill == ASSUME Nowhere PROVE Still
BY DEF Nowhere, Still, ledgerVars, daemonVars

LEMMA AdmitsStill ==
  ASSUME NEW w \in Callers,
         \/ AdmitCreate(w) \/ AdmitPatch(w) \/ AdmitHead(w)
         \/ AdmitDelete(w) \/ AdmitCommit(w)
  PROVE  Still
BY NowhereStill DEF AdmitCreate, AdmitPatch, AdmitHead, AdmitDelete, AdmitCommit, Admit

LEMMA StateMoves ==
  ASSUME IInv, NEW t \in DOMAIN upload, NEW s \in UploadStates, SetState(t, s), InLedger,
         \/ upload[t].state \in Open /\ s \in Open \cup {"rejected"}
         \/ upload[t].state = s
         \/ upload[t].state # "ready" /\ s = "aborted"
  PROVE  Writes
<1>1. PICK row \in Upload :
        /\ upload' = [upload EXCEPT ![t] = row]
        /\ row.state = s /\ row.offset = upload[t].offset /\ row.sha = upload[t].sha
  BY SetStateIs
<1>2. row.offset \in Nat
  BY LengthPositive DEF Upload
<1>3. RowMoves(upload[t], row)
  BY <1>1, <1>2 DEF RowMoves
<1>4. QED
  BY <1>1, <1>3 DEF Writes, InLedger, daemonVars

LEMMA CreationMoves ==
  ASSUME IInv, NEW w \in Callers,
         \/ Reserve(w) \/ CreateInDaemon(w) \/ CreateFails(w)
         \/ Grant(w) \/ ReceiptFails(w) \/ Withdraw(w)
  PROVE  Still \/ Writes \/ Adds
<1>1. CASE Reserve(w)
  <2>1. PICK t \in Transfers, p \in Paths, c \in Contents :
          CreateUpload(t, call[w].rev, p, c)
    BY <1>1 DEF Reserve
  <2>2. UNCHANGED objects
    BY <1>1 DEF Reserve, InLedger, daemonVars
  <2>3. t \notin DOMAIN upload /\ DOMAIN upload' = DOMAIN upload \cup {t}
    BY <2>1 DEF CreateUpload
  <2>4. upload'[t].state = "initiated"
    BY <2>1 DEF CreateUpload
  <2>5. \A u \in DOMAIN upload : upload'[u] = upload[u] \/ Lapses(u)
    BY <2>1, <2>3 DEF CreateUpload, Lapses, Lapsed, Open
  <2>6. QED
    BY <2>2, <2>3, <2>4, <2>5 DEF Adds
<1>2. CASE CreateInDaemon(w)
  BY <1>2 DEF CreateInDaemon, InDaemon, CreateRecord, ledgerVars, Still
<1>3. CASE CreateFails(w) \/ ReceiptFails(w)
  BY <1>3, NowhereStill DEF CreateFails, ReceiptFails
<1>4. CASE Grant(w)
  BY <1>4 DEF Grant, ledgerVars, daemonVars, Still
<1>5. CASE Withdraw(w)
  <2>1. call[w].pc \in Creating /\ SetState(Id(w), "aborted") /\ InLedger
    BY <1>5 DEF Withdraw, At, Creating, AbortCreation
  <2>2. Id(w) \in DOMAIN upload /\ Id(w) \notin granted
    BY <2>1 DEF IInv, CallOK, Id, Creating, Begun
  <2>3. Id(w) \in Transfers
    BY <2>2, Typed
  <2>4. upload[Id(w)].state # "ready"
    BY <2>2, <2>3 DEF IInv, UngrantedOK
  <2>5. QED
    BY <2>1, <2>2, <2>4, StateMoves DEF UploadStates
<1>6. QED
  BY <1>1, <1>2, <1>3, <1>4, <1>5

LEMMA WriterMoves ==
  ASSUME IInv, NEW w \in Callers,
         \/ Append(w) \/ SaveAppend(w) \/ Advance(w) \/ Look(w) \/ Retire(w)
         \/ TerminateInDaemon(w) \/ Abort(w)
  PROVE  Still \/ Writes
<1>1. CASE Append(w)
  BY <1>1 DEF Append, AppendPayload, InDaemon, ledgerVars, Still
<1>2. CASE SaveAppend(w)
  BY <1>2 DEF SaveAppend, SaveRecord, InDaemon, ledgerVars, Still
<1>3. CASE Advance(w)
  <2>1. PICK t, old, to : t = call[w].id /\ old = upload[t] /\ to = call[w].to
    OBVIOUS
  <2>2. call[w].pc = "advance" /\ InLedger /\ AdvanceUpload(t, call[w].from, to)
    BY <1>3, <2>1 DEF Advance, At, Id
  <2>3. t \in DOMAIN upload /\ old \in Upload /\ call[w] \in Calls
    BY <2>1, <2>2, Typed DEF IInv, CallOK, Begun
  <2>4. /\ old.state \in Receiving /\ old.offset = call[w].from /\ to > call[w].from
        /\ to \in 0 .. Length
    BY <2>1, <2>2, <2>3 DEF AdvanceUpload, CanAdvance, Calls
  <2>5. PICK s : s = IF to = Length THEN "uploaded" ELSE "uploading"
    OBVIOUS
  <2>6. PICK row : row = [old EXCEPT !.offset = to, !.state = s]
    OBVIOUS
  <2>7. row \in Upload /\ row.sha = old.sha /\ row.offset = to /\ row.state = s
    BY <2>3, <2>4, <2>5, <2>6 DEF Upload, UploadStates
  <2>8. upload' = [upload EXCEPT ![t] = row]
    BY <2>1, <2>2, <2>5, <2>6 DEF AdvanceUpload
  <2>9. RowMoves(old, row)
    <3>1. row.offset >= old.offset
      BY <2>3, <2>4, <2>7, LengthPositive DEF Upload
    <3>2. QED
      BY <2>4, <2>5, <2>7, <3>1 DEF RowMoves, Open, Receiving
  <2>10. QED
    BY <2>1, <2>2, <2>3, <2>7, <2>8, <2>9 DEF Writes, InLedger, daemonVars
<1>4. CASE Look(w)
  BY <1>4, NowhereStill DEF Look
<1>5. CASE Retire(w)
  <2>1. InLedger /\ call[w].pc = "retire"
    BY <1>5 DEF Retire, At
  <2>2. Id(w) \in DOMAIN upload
    BY <2>1 DEF IInv, CallOK, Begun, Id
  <2>3. CASE upload[Id(w)].state \in Receiving
    <3>1. SetState(Id(w), "aborted")
      BY <1>5, <2>3 DEF Retire, RetireUpload
    <3>2. QED
      BY <2>1, <2>2, <2>3, <3>1, StateMoves DEF UploadStates, Receiving
  <2>4. CASE upload[Id(w)].state \notin Receiving
    BY <1>5, <2>1, <2>4 DEF Retire, ledgerVars, InLedger, daemonVars, Still
  <2>5. QED
    BY <2>3, <2>4
<1>6. CASE TerminateInDaemon(w)
  BY <1>6 DEF TerminateInDaemon, Terminate, RemoveDirectory, InDaemon, ledgerVars, Still
<1>7. CASE Abort(w)
  <2>1. InLedger /\ call[w].pc = "abort"
    BY <1>7 DEF Abort, At
  <2>2. Id(w) \in DOMAIN upload
    BY <2>1 DEF IInv, CallOK, Begun, Id
  <2>3. CASE upload[Id(w)].state # "ready"
    <3>1. SetState(Id(w), "aborted")
      BY <1>7, <2>3 DEF Abort, AbortUpload
    <3>2. QED
      BY <2>1, <2>2, <2>3, <3>1, StateMoves DEF UploadStates
  <2>4. CASE upload[Id(w)].state = "ready"
    BY <1>7, <2>1, <2>4 DEF Abort, ledgerVars, InLedger, daemonVars, Still
  <2>5. QED
    BY <2>3, <2>4
<1>8. QED
  BY <1>1, <1>2, <1>3, <1>4, <1>5, <1>6, <1>7

LEMMA CommitMoves ==
  ASSUME IInv, NEW w \in Callers,
         \/ Fetch(w) \/ ReadLedger(w) \/ Prepare(w) \/ RecordVerdict(w)
         \/ Promote(w) \/ PromoteReplayed(w) \/ Refuse(w) \/ SaveOutcome(w) \/ Settle(w)
  PROVE  Still \/ Stores \/ Writes
<1>1. CASE Fetch(w) \/ ReadLedger(w) \/ PromoteReplayed(w)
  BY <1>1, NowhereStill DEF Fetch, ReadLedger, PromoteReplayed
<1>2. CASE Prepare(w)
  <2>1. PICK t, old : t = call[w].id /\ old = upload[t]
    OBVIOUS
  <2>2. call[w].pc = "prepare" /\ InLedger
    BY <1>2 DEF Prepare, At
  <2>3. t \in DOMAIN upload /\ old \in Upload
    BY <2>1, <2>2, Typed DEF IInv, CallOK, Begun
  <2>4. PICK f \in FileIds : PrepareScan(t, f)
    BY <1>2, <2>1 DEF Prepare, Id
  <2>5. PICK row : row = [old EXCEPT !.state = "scanning", !.file = f]
    OBVIOUS
  <2>6. row \in Upload /\ row.sha = old.sha /\ row.offset = old.offset
        /\ row.state = "scanning"
    BY <2>3, <2>5 DEF Upload, UploadStates
  <2>7. upload' = [upload EXCEPT ![t] = row] /\ old.state \in Open
    BY <2>1, <2>4, <2>5 DEF PrepareScan, CanScan, Open, Receiving
  <2>8. RowMoves(old, row)
    BY <2>3, <2>6, <2>7, LengthPositive DEF RowMoves, Open, Upload
  <2>9. QED
    BY <2>1, <2>2, <2>3, <2>6, <2>7, <2>8 DEF Writes, InLedger, daemonVars
<1>3. CASE RecordVerdict(w)
  BY <1>3 DEF RecordVerdict, daemonVars, Still
<1>4. CASE Promote(w)
  <2>1. PICK t, c, b : t = Id(w) /\ c = upload[t].sha /\ b = payload[t].intact
    OBVIOUS
  <2>2. call[w].pc = "promote" /\ UNCHANGED upload /\ MovePayload(t, c)
    BY <1>4, <2>1 DEF Promote, At, InDaemon, ledgerVars
  <2>3. t \in DOMAIN upload
    BY <2>1, <2>2 DEF IInv, CallOK, Begun, Id
  <2>4. c \in Contents /\ b \in BOOLEAN
    BY <2>1, <2>3, Typed DEF Upload
  <2>5. objects' = objects \/ objects' = objects \cup {<<c, b>>}
    BY <2>1, <2>2 DEF MovePayload
  <2>6. QED
    BY <2>2, <2>4, <2>5 DEF Stores, Still
<1>5. CASE Refuse(w)
  BY <1>5 DEF Refuse, DropPayload, InDaemon, ledgerVars, Still
<1>6. CASE SaveOutcome(w)
  BY <1>6 DEF SaveOutcome, SaveRecord, InDaemon, ledgerVars, Still
<1>7. CASE Settle(w)
  <2>1. PICK t, old, f : t = call[w].id /\ old = upload[t] /\ f = call[w].file
    OBVIOUS
  <2>2. call[w].pc \in {"complete", "reject", "hold"} /\ InLedger
    BY <1>7 DEF Settle, At
  <2>3. t \in DOMAIN upload /\ old \in Upload
    BY <2>1, <2>2, Typed DEF IInv, CallOK, Begun
  <2>4. CASE call[w].pc = "complete"
    <3>1. CompleteUpload(t, f)
      BY <1>7, <2>1, <2>4 DEF Settle, At, Id
    <3>2. PICK row : row = [old EXCEPT !.state = "ready", !.file = f]
      OBVIOUS
    <3>3. f \in FileIds
      BY <3>1 DEF CompleteUpload, CanComplete, IInv, TypeOK, DBTypeOK
    <3>4. row \in Upload /\ row.sha = old.sha /\ row.offset = old.offset
          /\ row.state = "ready"
      BY <2>3, <3>2, <3>3 DEF Upload, UploadStates
    <3>5. upload' = [upload EXCEPT ![t] = row] /\ old.state \in {"scanning", "ready"}
      BY <2>1, <3>1, <3>2 DEF CompleteUpload, CanComplete
    <3>6. <<old.sha, TRUE>> \in objects
      BY <2>1, <2>4 DEF IInv, CallOK
    <3>7. RowMoves(old, row)
      BY <2>3, <3>4, <3>5, <3>6, LengthPositive DEF RowMoves, Open, Upload
    <3>8. QED
      BY <2>1, <2>2, <2>3, <3>4, <3>5, <3>7 DEF Writes, InLedger, daemonVars
  <2>5. CASE call[w].pc = "reject"
    <3>1. RejectUpload(t, f)
      BY <1>7, <2>1, <2>5 DEF Settle, At, Id
    <3>2. SetState(t, "rejected") /\ upload[t].state \in {"uploaded", "scanning", "rejected"}
      BY <3>1 DEF RejectUpload
    <3>3. upload[t].state \in Open \/ upload[t].state = "rejected"
      BY <3>2 DEF Open, Receiving
    <3>4. QED
      BY <2>2, <2>3, <3>2, <3>3, StateMoves DEF UploadStates
  <2>6. CASE call[w].pc = "hold"
    <3>1. HoldUpload(t, f)
      BY <1>7, <2>1, <2>6 DEF Settle, At, Id
    <3>2. SetState(t, "scanning") /\ upload[t].state = "scanning"
      BY <3>1 DEF HoldUpload, CanHold
    <3>3. QED
      BY <2>2, <2>3, <3>2, StateMoves DEF UploadStates
  <2>7. QED
    BY <2>2, <2>4, <2>5, <2>6
<1>8. QED
  BY <1>1, <1>2, <1>3, <1>4, <1>5, <1>6, <1>7

LEMMA StepMoves ==
  ASSUME IInv, [Next]_vars
  PROVE  Still \/ Stores \/ Writes \/ Adds
<1>1. ASSUME NEW w \in Callers, Ends(w) PROVE Still
  BY <1>1, EndsNowhere, NowhereStill
<1>2. ASSUME NEW w \in Callers, Work(w) PROVE Still \/ Stores \/ Writes \/ Adds
  <2>1. CASE \/ Reserve(w) \/ CreateInDaemon(w) \/ CreateFails(w)
             \/ Grant(w) \/ ReceiptFails(w) \/ Withdraw(w)
    BY <2>1, CreationMoves
  <2>2. CASE \/ Append(w) \/ SaveAppend(w) \/ Advance(w) \/ Look(w) \/ Retire(w)
             \/ TerminateInDaemon(w) \/ Abort(w)
    BY <2>2, WriterMoves
  <2>3. CASE \/ Fetch(w) \/ ReadLedger(w) \/ Prepare(w) \/ RecordVerdict(w)
             \/ Promote(w) \/ PromoteReplayed(w) \/ Refuse(w) \/ SaveOutcome(w) \/ Settle(w)
    BY <2>3, CommitMoves
  <2>4. CASE Ends(w)
    BY <1>1, <2>4
  <2>5. QED
    BY <1>2, <2>1, <2>2, <2>3, <2>4 DEF Work, Ends
<1>3. ASSUME NEW w \in Callers, Lost(w) PROVE Still
  BY <1>1, <1>3 DEF Ends
<1>4. CASE CrashDaemon
  BY <1>4 DEF CrashDaemon, DaemonCrash, InDaemon, ledgerVars, Still
<1>5. CASE Elapse
  BY <1>5 DEF Elapse, Expire, InDaemon, ledgerVars, Still
<1>6. CASE Cleanup
  BY <1>6 DEF Cleanup, FindExpired, RemoveExpired, RemoveDirectory, InDaemon, ledgerVars, Still
<1>7. CASE UNCHANGED vars
  BY <1>7 DEF vars, ledgerVars, daemonVars, Still
<1>8. QED
  BY AdmitsStill, <1>2, <1>3, <1>4, <1>5, <1>6, <1>7 DEF Next

\* An acknowledged offset is never taken back, however late the PATCH or the
\* reconciling HEAD that read an older one.
THEOREM OffsetsStay == Spec => OffsetStays
<1> DEFINE Step == \A t \in DOMAIN upload : upload'[t].offset >= upload[t].offset
<1>1. ASSUME IInv, [Next]_vars PROVE Step
  <2>1. \A t \in DOMAIN upload : upload[t].offset \in Nat
    BY <1>1, Typed, LengthPositive DEF Upload
  <2>2. CASE Still \/ Stores
    BY <2>1, <2>2 DEF Still, Stores
  <2>3. CASE Writes
    BY <1>1, <2>1, <2>3, Typed DEF Writes, RowMoves
  <2>4. CASE Adds
    <3> SUFFICES ASSUME NEW t \in DOMAIN upload PROVE upload'[t].offset >= upload[t].offset
      OBVIOUS
    <3>1. CASE upload'[t] = upload[t]
      BY <2>1, <3>1
    <3>2. CASE Lapses(t)
      <4>1. upload[t] \in Upload
        BY <1>1, Typed
      <4>2. upload'[t].offset = upload[t].offset
        BY <3>2, <4>1 DEF Lapses, Upload
      <4>3. QED
        BY <2>1, <4>2
    <3>3. QED
      BY <2>4, <3>1, <3>2 DEF Adds
  <2>5. QED
    BY <1>1, <2>2, <2>3, <2>4, StepMoves
<1>2. IInv /\ [Next]_vars => [Step]_vars
  BY <1>1
<1>3. QED
  BY <1>2, TransferInvariant, PTL DEF Spec, OffsetStays

-----------------------------------------------------------------------------
(***************************************************************************)
(* Transfers are an Intake: every step is one of its steps, or leaves the  *)
(* uploader's view alone.                                                  *)
(***************************************************************************)
Held == {c \in Contents : <<c, TRUE>> \in objects}

View == [t \in Transfers |-> Outcome(t)]

LEMMA OutcomeIs ==
  ASSUME IInv, NEW t \in DOMAIN upload
  PROVE  /\ upload[t].state \in Open => Outcome(t) = "open"
         /\ upload[t].state = "ready" => Outcome(t) = upload[t].sha
         /\ upload[t].state = "rejected" => Outcome(t) = "refused"
         /\ upload[t].state \in {"aborted", "expired"} => Outcome(t) = "withdrawn"
         /\ upload[t].state \in Open \cup {"ready", "rejected", "aborted", "expired"}
BY Typed DEF Outcome, Open, Receiving, Upload, UploadStates

LEMMA SameView ==
  ASSUME UNCHANGED upload
  PROVE  View' = View
BY DEF View, Outcome

LEMMA WritesIntake ==
  ASSUME IInv, IInv', Writes
  PROVE  [Uploads!Next]_<<View, Held>>
<1>1. PICK t \in DOMAIN upload, row \in Upload :
        upload' = [upload EXCEPT ![t] = row] /\ RowMoves(upload[t], row) /\ UNCHANGED objects
  BY DEF Writes
<1>2. /\ DOMAIN upload' = DOMAIN upload /\ upload'[t] = row /\ t \in Transfers
      /\ \A u \in DOMAIN upload \ {t} : upload'[u] = upload[u]
  BY <1>1, Typed
<1>3. \A u \in Transfers \ {t} : Outcome(u)' = Outcome(u)
  BY <1>2 DEF Outcome
<1>4. View' = [View EXCEPT ![t] = Outcome(t)'] /\ View[t] = Outcome(t)
  BY <1>2, <1>3 DEF View
<1>5. UNCHANGED Held
  BY <1>1 DEF Held
<1>6. PICK a, z : a = upload[t].state /\ z = row.state
  OBVIOUS
<1>o. /\ a \in Open => Outcome(t) = "open"
      /\ a = "ready" => Outcome(t) = upload[t].sha
      /\ a = "rejected" => Outcome(t) = "refused"
      /\ a \in {"aborted", "expired"} => Outcome(t) = "withdrawn"
      /\ a \in Open \cup {"ready", "rejected", "aborted", "expired"}
  BY <1>6, OutcomeIs
<1>n. /\ z \in Open => Outcome(t)' = "open"
      /\ z = "ready" => Outcome(t)' = row.sha
      /\ z = "rejected" => Outcome(t)' = "refused"
      /\ z \in {"aborted", "expired"} => Outcome(t)' = "withdrawn"
  BY <1>2, <1>6 DEF Outcome, Open, Receiving
<1>7. CASE Outcome(t)' = Outcome(t)
  BY <1>4, <1>5, <1>7 DEF View
<1>8. CASE a \in Open /\ z = "ready" /\ <<upload[t].sha, TRUE>> \in objects
  <2>1. row.sha = upload[t].sha /\ row.sha \in Contents
    BY <1>1 DEF RowMoves, Upload
  <2>2. row.sha \in Held /\ View[t] = "open" /\ View' = [View EXCEPT ![t] = row.sha]
    BY <1>4, <1>8, <1>n, <1>o, <2>1 DEF Held
  <2>3. Uploads!Store(t)
    BY <1>5, <2>2 DEF Uploads!Store, Uploads!End, View, Held
  <2>4. QED
    BY <1>2, <2>3 DEF Uploads!Next
<1>9. CASE a \in Open /\ z = "rejected"
  <2>1. View[t] = "open" /\ View' = [View EXCEPT ![t] = "refused"]
    BY <1>4, <1>9, <1>n, <1>o
  <2>2. Uploads!Refuse(t)
    BY <1>5, <2>1 DEF Uploads!Refuse, Uploads!End, View, Held
  <2>3. QED
    BY <1>2, <2>2 DEF Uploads!Next
<1>10. CASE a \in Open \cup {"rejected"} /\ z = "aborted"
  <2>1. View[t] \in {"open", "refused"}
    BY <1>4, <1>10, <1>o
  <2>2. View' = [u \in Transfers |-> IF u \in {t} THEN "withdrawn" ELSE View[u]]
    BY <1>4, <1>10, <1>n DEF View
  <2>3. Uploads!Withdraw({t})
    BY <1>5, <2>1, <2>2 DEF Uploads!Withdraw, View, Held
  <2>4. QED
    BY <1>2, <2>3 DEF Uploads!Next
<1>11. QED
  <2>1. \/ z = a
        \/ a \in Open /\ z \in Open \cup {"rejected"}
        \/ a \in Open /\ z = "ready" /\ <<upload[t].sha, TRUE>> \in objects
        \/ a # "ready" /\ z = "aborted"
    BY <1>1, <1>6 DEF RowMoves
  <2>2. CASE z = a
    BY <1>1, <1>7, <1>n, <1>o, <2>2 DEF RowMoves
  <2>3. CASE a \in Open /\ z \in Open
    BY <1>7, <1>n, <1>o, <2>3
  <2>4. CASE a \in {"aborted", "expired"} /\ z = "aborted"
    BY <1>7, <1>n, <1>o, <2>4
  <2>5. QED
    BY <1>8, <1>9, <1>10, <1>o, <2>1, <2>2, <2>3, <2>4

LEMMA AddsIntake ==
  ASSUME IInv, IInv', Adds
  PROVE  [Uploads!Next]_<<View, Held>>
<1>1. PICK T : T = {u \in DOMAIN upload : Lapses(u)}
  OBVIOUS
<1>2. T \in SUBSET Transfers /\ DOMAIN upload' \subseteq Transfers
  BY <1>1, Typed DEF IInv, TypeOK, LedgerTypeOK
<1>3. UNCHANGED Held
  BY DEF Adds, Held
<1>4. \A u \in T : View[u] = "open" /\ Outcome(u)' = "withdrawn"
  <2> SUFFICES ASSUME NEW u \in T PROVE View[u] = "open" /\ Outcome(u)' = "withdrawn"
    OBVIOUS
  <2>1. u \in DOMAIN upload /\ Lapses(u) /\ u \in DOMAIN upload' /\ u \in Transfers
        /\ upload[u] \in Upload
    BY <1>1, <1>2, Typed DEF Adds
  <2>2. upload'[u].state = "expired"
    BY <2>1 DEF Lapses, Upload
  <2>3. QED
    BY <2>1, <2>2, OutcomeIs DEF Lapses, View, Outcome
<1>5. \A u \in Transfers \ T : Outcome(u)' = Outcome(u)
  <2> SUFFICES ASSUME NEW u \in Transfers \ T PROVE Outcome(u)' = Outcome(u)
    OBVIOUS
  <2>1. CASE u \in DOMAIN upload
    BY <1>1, <2>1 DEF Adds, Outcome
  <2>2. CASE u \in DOMAIN upload' \ DOMAIN upload
    BY <2>2 DEF Adds, Outcome
  <2>3. CASE u \notin DOMAIN upload'
    BY <2>3 DEF Adds, Outcome
  <2>4. QED
    BY <2>1, <2>2, <2>3
<1>6. View' = [u \in Transfers |-> IF u \in T THEN "withdrawn" ELSE View[u]]
  BY <1>4, <1>5 DEF View
<1>7. Uploads!Withdraw(T)
  BY <1>3, <1>4, <1>6 DEF Uploads!Withdraw, View, Held
<1>8. QED
  BY <1>2, <1>7 DEF Uploads!Next

\* Every transfer ends once, and is stored only when its bytes are kept.
THEOREM RefinesIntake == Spec => IntakeSpec
<1>1. Init => Uploads!Init
  BY DEF Init, LedgerInit, DaemonInit, Uploads!Init, Outcome
<1>2. ASSUME IInv, IInv', [Next]_vars PROVE [Uploads!Next]_<<View, Held>>
  <2>1. CASE Still
    BY <2>1, SameView DEF Still, Held
  <2>2. CASE Stores
    <3>1. PICK c \in Contents, b \in BOOLEAN :
            UNCHANGED upload /\ objects' = objects \cup {<<c, b>>}
      BY <2>2 DEF Stores
    <3>2. b = TRUE
      <4>1. <<c, b>>[2] = TRUE
        BY <1>2, <3>1 DEF IInv, ObjectsIntact
      <4>2. QED
        BY <4>1
    <3>3. Held' = Held \cup {c} /\ View' = View
      BY <3>1, <3>2, SameView DEF Held
    <3>4. Uploads!Keep(c)
      BY <3>3 DEF Uploads!Keep, Held, View
    <3>5. QED
      BY <3>4 DEF Uploads!Next
  <2>3. CASE Writes
    BY <1>2, <2>3, WritesIntake
  <2>4. CASE Adds
    BY <1>2, <2>4, AddsIntake
  <2>5. QED
    BY <1>2, <2>1, <2>2, <2>3, <2>4, StepMoves
<1>3. IInv /\ IInv' /\ [Next]_vars =>
        [Uploads!Next]_<<[t \in Transfers |-> Outcome(t)],
                         {c \in Contents : <<c, TRUE>> \in objects}>>
  BY <1>2 DEF View, Held
<1>4. QED
  BY <1>1, <1>3, TransferInvariant, PTL DEF Spec, IntakeSpec, Uploads!Spec

-----------------------------------------------------------------------------
(***************************************************************************)
(* What a retry finds.  As long as the daemon does not die, a transfer is  *)
(* locked only by a caller that will write the record next, and an         *)
(* unlocked one is whole: its record says where its payload ends.          *)
(***************************************************************************)
LocksHeld == \A t \in locked : \E w \in Callers : call[w].pc \in Sections /\ call[w].id = t

WholeFile(t) ==
  /\ Status(t) \in Writing => payload[t].size = record[t].offset
  /\ Status(t) = "uploaded" => payload[t].present

Whole ==
  /\ LocksHeld
  /\ \A t \in Transfers \ locked : WholeFile(t)

Others(w) == \A v \in Callers \ {w} : call'[v] = call[v]

\* A request outside the sections that writes nothing of the daemon's.
LEMMA WholeOutside ==
  ASSUME IInv, Whole, NEW w \in Callers, Others(w), call[w].pc \notin Sections,
         UNCHANGED <<record, payload, locked>>
  PROVE  Whole'
<1>1. LocksHeld'
  BY DEF Whole, LocksHeld, Others
<1>2. \A t \in Transfers \ locked : WholeFile(t)'
  BY DEF Whole, WholeFile, Status
<1>3. QED
  BY <1>1, <1>2 DEF Whole

\* One that replaces or removes a transfer outside its sections.
LEMMA WholeWritten ==
  ASSUME IInv, Whole, NEW w \in Callers, Others(w), call[w].pc \notin Sections,
         NEW t \in Transfers, UNCHANGED locked, WholeFile(t)',
         \A u \in Transfers \ {t} : record'[u] = record[u] /\ payload'[u] = payload[u]
  PROVE  Whole'
<1>1. LocksHeld'
  BY DEF Whole, LocksHeld, Others
<1>2. \A u \in Transfers \ locked : WholeFile(u)'
  BY DEF Whole, WholeFile, Status
<1>3. QED
  BY <1>1, <1>2 DEF Whole

\* One that enters a section of its transfer.
LEMMA WholeEntered ==
  ASSUME IInv, Whole, NEW w \in Callers, Others(w), call[w].pc \notin Sections,
         NEW t \in Transfers, locked' = locked \cup {t},
         call'[w].pc \in Sections, call'[w].id = t,
         \A u \in Transfers \ {t} : record'[u] = record[u] /\ payload'[u] = payload[u]
  PROVE  Whole'
<1>1. LocksHeld'
  <2> SUFFICES ASSUME NEW u \in locked'
               PROVE  \E v \in Callers : call'[v].pc \in Sections /\ call'[v].id = u
    BY DEF LocksHeld
  <2>1. CASE u = t
    BY <2>1
  <2>2. CASE u # t
    <3>1. PICK v \in Callers : call[v].pc \in Sections /\ call[v].id = u
      BY <2>2 DEF Whole, LocksHeld
    <3>2. call'[v] = call[v]
      BY <3>1 DEF Others
    <3>3. QED
      BY <3>1, <3>2
  <2>3. QED
    BY <2>1, <2>2
<1>2. \A u \in Transfers \ locked' : WholeFile(u)'
  BY DEF Whole, WholeFile, Status
<1>3. QED
  BY <1>1, <1>2 DEF Whole

\* One that leaves a section with the record written.
LEMMA WholeLeft ==
  ASSUME IInv, Whole, NEW w \in Callers, Others(w),
         NEW t \in Transfers, call[w].id = t, locked' = locked \ {t}, WholeFile(t)',
         \A u \in Transfers \ {t} : record'[u] = record[u] /\ payload'[u] = payload[u]
  PROVE  Whole'
<1>1. LocksHeld'
  <2> SUFFICES ASSUME NEW u \in locked, u # t
               PROVE  \E v \in Callers : call'[v].pc \in Sections /\ call'[v].id = u
    BY DEF LocksHeld
  <2>1. PICK v \in Callers : call[v].pc \in Sections /\ call[v].id = u
    BY DEF Whole, LocksHeld
  <2>2. call'[v] = call[v]
    BY <2>1 DEF Others
  <2>3. QED
    BY <2>1, <2>2
<1>2. \A u \in Transfers \ locked' : WholeFile(u)'
  BY DEF Whole, WholeFile, Status
<1>3. QED
  BY <1>1, <1>2 DEF Whole

LEMMA CallsOthers ==
  ASSUME IInv, NEW w \in Callers, End(w) \/ (\E p \in Steps : Goto(w, p))
  PROVE  Others(w)
BY Typed DEF End, Goto, Others

\* The actions of a caller that leave the daemon alone.
LEMMA RequestsWhole ==
  ASSUME IInv, Whole, NEW w \in Callers,
         \/ AdmitCreate(w) \/ AdmitPatch(w) \/ AdmitHead(w)
         \/ AdmitDelete(w) \/ AdmitCommit(w)
         \/ Ends(w)
         \/ Reserve(w) \/ CreateFails(w) \/ Grant(w) \/ ReceiptFails(w) \/ Withdraw(w)
         \/ Advance(w) \/ Look(w) \/ Retire(w) \/ Abort(w)
         \/ Fetch(w) \/ ReadLedger(w) \/ Prepare(w) \/ RecordVerdict(w)
         \/ PromoteReplayed(w) \/ Settle(w)
  PROVE  Whole'
<1> SUFFICES Others(w) /\ call[w].pc \notin Sections /\ UNCHANGED <<record, payload, locked>>
  BY WholeOutside
<1>c. call \in [Callers -> Calls]
  BY Typed
<1>1. ASSUME NEW c, Admit(w, c)
      PROVE  Others(w) /\ call[w].pc \notin Sections /\ UNCHANGED <<record, payload, locked>>
  BY <1>1, <1>c DEF Admit, At, Sections, Others, Nowhere, daemonVars
<1>2. CASE \/ AdmitCreate(w) \/ AdmitPatch(w) \/ AdmitHead(w)
           \/ AdmitDelete(w) \/ AdmitCommit(w)
  BY <1>1, <1>2 DEF AdmitCreate, AdmitPatch, AdmitHead, AdmitDelete, AdmitCommit
<1>3. CASE Ends(w)
  <2>1. End(w) /\ Nowhere
    BY <1>3, EndsNowhere
  <2>2. call[w].pc \notin Sections
    <3>1. CASE ReserveRefused(w) \/ AppendRefused(w) \/ AdvanceRaises(w) \/ TerminateRefused(w)
      BY <3>1 DEF ReserveRefused, AppendRefused, AdvanceRaises, TerminateRefused, At, Sections
    <3>2. CASE PromoteRefused(w) \/ RefuseRefused(w) \/ Lost(w)
      BY <3>2 DEF PromoteRefused, RefuseRefused, Lost, At, Sections, InDaemonSection
    <3>3. CASE PrepareRaises(w)
      BY <3>3 DEF PrepareRaises, At, Sections
    <3>4. CASE SettleRaises(w)
      BY <3>4 DEF SettleRaises, At, Sections
    <3>5. QED
      BY <1>3, <3>1, <3>2, <3>3, <3>4 DEF Ends
  <2>3. QED
    BY <2>1, <2>2, CallsOthers DEF Nowhere, daemonVars
<1>4. CASE Reserve(w)
  BY <1>4, <1>c DEF Reserve, At, Sections, Others, InLedger, daemonVars
<1>5. CASE CreateFails(w) \/ ReceiptFails(w)
  BY <1>5, CallsOthers
     DEF CreateFails, ReceiptFails, At, Sections, Steps, Nowhere, daemonVars
<1>6. CASE Grant(w)
  BY <1>6, CallsOthers DEF Grant, At, Sections, daemonVars
<1>7. CASE Withdraw(w)
  BY <1>7, CallsOthers DEF Withdraw, At, Sections, Steps, InLedger, daemonVars
<1>8. CASE Advance(w) \/ Retire(w) \/ Abort(w) \/ Settle(w)
  BY <1>8, CallsOthers DEF Advance, Retire, Abort, Settle, At, Sections, InLedger, daemonVars
<1>9. CASE Look(w)
  <2>1. Others(w)
    BY <1>9, <1>c DEF Look, End, Goto, Others
  <2>2. QED
    BY <1>9, <2>1 DEF Look, At, Sections, Nowhere, daemonVars
<1>10. CASE Fetch(w) \/ ReadLedger(w)
  <2>1. Others(w)
    BY <1>10, <1>c DEF Fetch, ReadLedger, End, Others
  <2>2. QED
    BY <1>10, <2>1 DEF Fetch, ReadLedger, At, Sections, Nowhere, daemonVars
<1>11. CASE Prepare(w)
  <2>1. Others(w)
    BY <1>11, <1>c DEF Prepare, Others
  <2>2. QED
    BY <1>11, <2>1 DEF Prepare, At, Sections, InLedger, daemonVars
<1>12. CASE RecordVerdict(w)
  <2>1. Others(w)
    BY <1>12, <1>c DEF RecordVerdict, Others
  <2>2. QED
    BY <1>12, <2>1 DEF RecordVerdict, At, Sections, daemonVars
<1>13. CASE PromoteReplayed(w)
  BY <1>13, CallsOthers DEF PromoteReplayed, At, Sections, Steps, Nowhere, daemonVars
<1>14. QED
  BY <1>2, <1>3, <1>4, <1>5, <1>6, <1>7, <1>8, <1>9, <1>10, <1>11, <1>12, <1>13

\* The actions of a caller that write the daemon's files.
LEMMA DaemonWhole ==
  ASSUME IInv, Whole, NEW w \in Callers,
         \/ CreateInDaemon(w) \/ Append(w) \/ SaveAppend(w) \/ TerminateInDaemon(w)
         \/ Promote(w) \/ Refuse(w) \/ SaveOutcome(w)
  PROVE  Whole'
<1>c. call \in [Callers -> Calls]
  BY Typed
<1>0. PICK t, q, old : t = call[w].id /\ q = payload[t] /\ old = record[t]
  OBVIOUS
<1>1. CallOK(w) /\ call[w].pc \notin Begun /\ t \in Transfers
  <2>1. call[w].pc \notin Begun
    BY DEF CreateInDaemon, Append, SaveAppend, TerminateInDaemon, Promote, Refuse,
           SaveOutcome, At, Begun
  <2>2. QED
    BY <1>0, <2>1, Typed DEF IInv, CallOK
<1>3. CASE CreateInDaemon(w)
  <2>1. Others(w) /\ call[w].pc \notin Sections /\ CreateRecord(t)
    BY <1>0, <1>3, CallsOthers DEF CreateInDaemon, At, Sections, Steps, Id
  <2>2. UNCHANGED locked /\ record'[t].offset = 0 /\ payload'[t].size = 0
        /\ record'[t].status = "created"
    BY <1>1, <2>1, Typed DEF CreateRecord, NoRecord
  <2>3. \A u \in Transfers \ {t} : record'[u] = record[u] /\ payload'[u] = payload[u]
    BY <2>1, Typed DEF CreateRecord
  <2>4. WholeFile(t)'
    BY <2>2 DEF WholeFile, Status
  <2>5. QED
    BY <1>1, <2>1, <2>2, <2>3, <2>4, WholeWritten
<1>4. CASE Append(w)
  <2>1. call[w].pc = "append" /\ call' = [call EXCEPT ![w].pc = "save"]
    BY <1>4 DEF Append, At
  <2>2. PICK n \in 1 .. Length, right \in BOOLEAN : AppendPayload(t, call[w].from, n, right)
    BY <1>0, <1>4 DEF Append, Id
  <2>3. Others(w) /\ call'[w].pc = "save" /\ call'[w].id = t
    BY <1>0, <1>c, <2>1, GotoOnly DEF Goto, Steps, Only, Others
  <2>4. /\ locked' = locked \cup {t} /\ UNCHANGED record
        /\ \A u \in Transfers \ {t} : payload'[u] = payload[u]
    BY <2>2, Typed DEF AppendPayload
  <2>5. QED
    BY <1>1, <2>1, <2>3, <2>4, WholeEntered DEF Sections
<1>5. CASE SaveAppend(w)
  <2>1. PICK rec : rec = Appended(t)
    OBVIOUS
  <2>2. SaveRecord(t, rec) /\ call[w].pc = "save"
    BY <1>0, <1>5, <2>1 DEF SaveAppend, At, Id
  <2>3. Others(w)
    BY <1>5, <1>c DEF SaveAppend, End, Others
  <2>4. /\ locked' = locked \ {t} /\ UNCHANGED payload
        /\ \A u \in Transfers \ {t} : record'[u] = record[u]
    BY <2>2, Typed DEF SaveRecord
  <2>5. WholeFile(t)'
    <3>1. CASE Status(t) = "none"
      <4>1. record' = record
        BY <2>2, <3>1 DEF SaveRecord, Status
      <4>2. QED
        BY <3>1, <4>1 DEF WholeFile, Status, Writing
    <3>2. CASE Status(t) # "none"
      <4>1. record'[t] = rec
        BY <1>1, <2>2, <3>2, Typed DEF SaveRecord, Status
      <4>2. payload[t].present
        BY <1>0, <1>1, <2>2, <3>2 DEF IInv, CallOK, DiskOK
      <4>3. rec.offset = payload[t].size
        BY <2>1 DEF Appended
      <4>4. QED
        BY <2>4, <4>1, <4>2, <4>3 DEF WholeFile, Status
    <3>3. QED
      BY <3>1, <3>2
  <2>6. QED
    BY <1>0, <1>1, <2>3, <2>4, <2>5, WholeLeft
<1>6. CASE TerminateInDaemon(w)
  <2>1. call[w].pc \notin Sections /\ Terminate(t)
    BY <1>0, <1>6 DEF TerminateInDaemon, At, Sections, Id
  <2>2. Others(w)
    BY <1>6, CallsOthers DEF TerminateInDaemon, Steps
  <2>3. /\ UNCHANGED locked /\ record'[t].status = "none"
        /\ \A u \in Transfers \ {t} : record'[u] = record[u] /\ payload'[u] = payload[u]
    BY <1>1, <2>1, Typed DEF Terminate, RemoveDirectory, NoRecord
  <2>4. WholeFile(t)'
    BY <2>3 DEF WholeFile, Status, Writing
  <2>5. QED
    BY <1>1, <2>1, <2>2, <2>3, <2>4, WholeWritten
<1>7. CASE Promote(w)
  <2>1. PICK c : c = upload[t].sha
    OBVIOUS
  <2>2. call[w].pc = "promote" /\ Goto(w, "receipt") /\ MovePayload(t, c)
    BY <1>0, <1>7, <2>1 DEF Promote, At, Id
  <2>3. Others(w) /\ call'[w].pc = "receipt" /\ call'[w].id = t
    BY <1>0, <2>2, GotoOnly DEF Steps, Only, Others
  <2>4. /\ locked' = locked \cup {t} /\ UNCHANGED record
        /\ \A u \in Transfers \ {t} : payload'[u] = payload[u]
    BY <2>2, Typed DEF MovePayload
  <2>5. QED
    BY <1>1, <2>2, <2>3, <2>4, WholeEntered DEF Sections
<1>8. CASE Refuse(w)
  <2>1. call[w].pc = "refuse" /\ Goto(w, "refusal") /\ DropPayload(t)
    BY <1>0, <1>8 DEF Refuse, At, Id
  <2>2. Others(w) /\ call'[w].pc = "refusal" /\ call'[w].id = t
    BY <1>0, <2>1, GotoOnly DEF Steps, Only, Others
  <2>3. /\ locked' = locked \cup {t} /\ UNCHANGED record
        /\ \A u \in Transfers \ {t} : payload'[u] = payload[u]
    BY <2>1, Typed DEF DropPayload
  <2>4. QED
    BY <1>1, <2>1, <2>2, <2>3, WholeEntered DEF Sections
<1>9. CASE SaveOutcome(w)
  <2>1. PICK s \in {"available", "rejected"} : SaveRecord(t, Settled(t, s))
    BY <1>0, <1>9 DEF SaveOutcome, Id
  <2>2. PICK rec : rec = Settled(t, s)
    OBVIOUS
  <2>3. SaveRecord(t, rec)
    BY <2>1, <2>2
  <2>4. Others(w)
    BY <1>9, <1>c DEF SaveOutcome, End, Goto, Others
  <2>5. /\ locked' = locked \ {t} /\ UNCHANGED payload
        /\ \A u \in Transfers \ {t} : record'[u] = record[u]
    BY <2>3, Typed DEF SaveRecord
  <2>6. rec.status = s
    <3>1. old \in [status : RecordStatuses, offset : 0 .. Length, verified : BOOLEAN]
      BY <1>0, <1>1, Typed
    <3>2. rec = [old EXCEPT !.status = s]
      BY <1>0, <2>2 DEF Settled
    <3>3. QED
      BY <3>1, <3>2
  <2>7. record'[t].status \in {"available", "rejected", "none"}
    BY <1>1, <2>3, <2>6, Typed DEF SaveRecord
  <2>8. WholeFile(t)'
    BY <2>7 DEF WholeFile, Status, Writing
  <2>9. QED
    BY <1>0, <1>1, <2>4, <2>5, <2>8, WholeLeft
<1>10. QED
  BY <1>3, <1>4, <1>5, <1>6, <1>7, <1>8, <1>9

\* The clock and the cleanup, which takes no lock.
LEMMA CleanupWhole ==
  ASSUME IInv, Whole, Elapse \/ Cleanup
  PROVE  Whole'
<1>1. UNCHANGED <<locked, call>>
  BY DEF Elapse, Expire, Cleanup, FindExpired, RemoveExpired, RemoveDirectory
<1>2. \A t \in Transfers :
        \/ record'[t] = record[t] /\ payload'[t] = payload[t]
        \/ record'[t].status = "none"
  BY Typed DEF Elapse, Expire, Cleanup, FindExpired, RemoveExpired, RemoveDirectory, NoRecord
<1>3. LocksHeld'
  BY <1>1 DEF Whole, LocksHeld
<1>4. \A t \in Transfers \ locked : WholeFile(t)'
  BY <1>2 DEF Whole, WholeFile, Status, Writing
<1>5. QED
  BY <1>1, <1>3, <1>4 DEF Whole

LEMMA WholeStep ==
  ASSUME "crash" \notin Faults, IInv, Whole, [Next]_vars
  PROVE  Whole'
<1>1. ASSUME NEW w \in Callers, Work(w) PROVE Whole'
  <2>1. CASE \/ CreateInDaemon(w) \/ Append(w) \/ SaveAppend(w) \/ TerminateInDaemon(w)
             \/ Promote(w) \/ Refuse(w) \/ SaveOutcome(w)
    BY <2>1, DaemonWhole
  <2>2. CASE \/ Ends(w)
             \/ Reserve(w) \/ CreateFails(w) \/ Grant(w) \/ ReceiptFails(w) \/ Withdraw(w)
             \/ Advance(w) \/ Look(w) \/ Retire(w) \/ Abort(w)
             \/ Fetch(w) \/ ReadLedger(w) \/ Prepare(w) \/ RecordVerdict(w)
             \/ PromoteReplayed(w) \/ Settle(w)
    BY <2>2, RequestsWhole
  <2>3. QED
    BY <1>1, <2>1, <2>2 DEF Work, Ends
<1>2. ASSUME NEW w \in Callers,
             \/ AdmitCreate(w) \/ AdmitPatch(w) \/ AdmitHead(w)
             \/ AdmitDelete(w) \/ AdmitCommit(w)
             \/ Lost(w)
      PROVE  Whole'
  BY <1>2, RequestsWhole DEF Ends
<1>3. CASE Elapse \/ Cleanup
  BY <1>3, CleanupWhole
<1>4. CASE UNCHANGED vars
  BY <1>4 DEF vars, daemonVars, Whole, LocksHeld, WholeFile, Status
<1>5. QED
  BY <1>1, <1>2, <1>3, <1>4 DEF Next, CrashDaemon

\* While the daemon does not die, a transfer that nobody works on can be gone
\* on with, by the next chunk or the next commit, whatever call was lost.
THEOREM RetriesGoOn ==
  ASSUME "crash" \notin Faults
  PROVE  Spec => []Retryable
<1>1. Init => Whole
  BY DEF Init, DaemonInit, Whole, LocksHeld, WholeFile, Status, NoRecord, Writing
<1>2. IInv /\ Whole /\ [Next]_vars => Whole'
  BY WholeStep
<1>3. IInv /\ Whole => Retryable
  <2> SUFFICES ASSUME IInv, Whole, NEW t \in DOMAIN upload \ expired, Quiet(t)
               PROVE  /\ record[t].status \in Writing =>
                           payload[t].present /\ payload[t].size = record[t].offset
                      /\ upload[t].state = "scanning" /\ record[t].status # "none" =>
                           /\ record[t].verified
                           /\ \/ record[t].status = "uploaded" /\ payload[t].size = Length
                              \/ record[t].status \in {"available", "rejected"} /\ Bound(t)
    BY DEF Retryable
  <2>1. t \in Transfers
    BY Typed
  <2>2. t \notin locked
    BY DEF Quiet, Whole, LocksHeld, Id
  <2>3. WholeFile(t) /\ DiskOK(t) /\ RowOK(t)
    BY <2>1, <2>2 DEF Whole, IInv
  <2>4. QED
    BY <2>3 DEF WholeFile, DiskOK, RowOK, Status
<1>4. QED
  BY <1>1, <1>2, <1>3, TransferInvariant, PTL DEF Spec
=============================================================================
