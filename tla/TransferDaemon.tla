--------------------------- MODULE TransferDaemon ---------------------------
(***************************************************************************)
(* The files of superii-transferd: for every transfer a directory with a   *)
(* payload and a record (state.json), and the content-addressed objects.   *)
(* A call that changes two of them holds the transfer's lock in between    *)
(* and never awaits there, so only a crash of the daemon, or the cleanup,  *)
(* which takes no lock, can come between the two.                          *)
(***************************************************************************)
EXTENDS Naturals, FiniteSets

CONSTANTS
  Transfers,  \* transfer ids; the gateway draws a new one for every create
  Contents,   \* SHA-256 digests a transfer may declare
  Length      \* chunks in a complete payload

ASSUME LengthPositive == Length \in Nat \ {0}

VARIABLES
  record,   \* state.json, replaced by rename; "none" without the directory
  payload,  \* bytes in quarantine, and whether they are the declared ones
  objects,  \* objects/sha256: digest, and whether the bytes have it
  locked,   \* transfers whose lock a call holds between two writes
  doomed,   \* transfers the cleanup has found expired and will remove
  expired   \* transfers whose expires_at has passed

daemonVars == <<record, payload, objects, locked, doomed, expired>>

RecordStatuses == {"none", "created", "uploading", "uploaded",
                   "rejected", "available"}
Writing == {"created", "uploading"}
Kept    == {"available", "rejected"}

DaemonTypeOK ==
  /\ record \in [Transfers -> [status   : RecordStatuses,
                               offset   : 0 .. Length,
                               verified : BOOLEAN]]  \* actual = expected SHA-256
  /\ payload \in [Transfers -> [present : BOOLEAN, size : 0 .. Length,
                                intact : BOOLEAN]]
  /\ objects \subseteq Contents \X BOOLEAN
  /\ locked \subseteq Transfers
  /\ doomed \subseteq Transfers
  /\ expired \subseteq Transfers

NoRecord == [status |-> "none", offset |-> 0, verified |-> FALSE]

NoPayload == [present |-> FALSE, size |-> 0, intact |-> TRUE]

DaemonInit ==
  /\ record = [t \in Transfers |-> NoRecord]
  /\ payload = [t \in Transfers |-> NoPayload]
  /\ objects = {}
  /\ locked = {}
  /\ doomed = {}
  /\ expired = {}

\* load: an expired transfer is not found unless it was settled.
Loads(t) ==
  /\ record[t].status # "none"
  /\ t \in expired => record[t].status \in Kept

PayloadLength(t) == payload[t].size                        \* seeded fault

\* The Upload-Offset header of an answer.
UploadOffset(t) == record[t].offset

Stored(c) == \E o \in objects : o[1] = c

Free(t) == t \notin locked

ClockAndCleanup == UNCHANGED <<doomed, expired>>

\* create: directory, empty payload and record; ids are never drawn twice.
CreateRecord(t) ==
  /\ record[t].status = "none"
  /\ t \notin expired
  /\ record' = [record EXCEPT ![t] = [NoRecord EXCEPT !.status = "created"]]
  /\ payload' = [payload EXCEPT ![t] = [present |-> TRUE, size |-> 0, intact |-> TRUE]]
  /\ UNCHANGED <<objects, locked>>
  /\ ClockAndCleanup

(***************************************************************************)
(* append, up to the fsync of the payload: the chunk must start where both *)
(* the record and the payload end.                                         *)
(***************************************************************************)
\* Seeded fault: a chunk may run past the declared length.
CanAppendPastEnd(t, at, n) ==
  /\ Loads(t)
  /\ record[t].status \in Writing
  /\ record[t].offset = at
  /\ payload[t].present
  /\ payload[t].size = at

CanAppend(t, at, n) ==
  /\ Loads(t)
  /\ record[t].status \in Writing
  /\ record[t].offset = at
  /\ at + n <= Length
  /\ payload[t].present
  /\ payload[t].size = at

AppendPayload(t, at, n, right) ==
  /\ Free(t)
  /\ CanAppend(t, at, n)
  /\ payload' = [payload EXCEPT ![t].size = at + n, ![t].intact = @ /\ right]
  /\ locked' = locked \cup {t}
  /\ UNCHANGED <<record, objects>>
  /\ ClockAndCleanup

\* What save_record leaves, unless the cleanup removed the directory.
SaveRecord(t, rec) ==
  /\ t \in locked
  /\ record' = IF record[t].status = "none" THEN record
               ELSE [record EXCEPT ![t] = rec]
  /\ locked' = locked \ {t}
  /\ UNCHANGED <<payload, objects>>
  /\ ClockAndCleanup

\* Seeded fault: the complete payload is not hashed against its declaration.
AppendedUnhashed(t) ==
  [status |-> IF payload[t].size = Length THEN "uploaded" ELSE "uploading",
   offset |-> payload[t].size, verified |-> payload[t].size = Length]

Appended(t) ==
  [status |-> IF payload[t].size < Length THEN "uploading"
              ELSE IF payload[t].intact THEN "uploaded" ELSE "rejected",
   offset |-> payload[t].size,
   verified |-> payload[t].size = Length /\ payload[t].intact]

(***************************************************************************)
(* promote, up to the fsync of the store: the payload is renamed to its    *)
(* digest, or removed when the store has that object, intact, already.     *)
(***************************************************************************)
CanPromote(t, c) ==
  /\ Loads(t)
  /\ record[t].status = "uploaded"
  /\ payload[t].present
  /\ Stored(c) => <<c, TRUE>> \in objects

MovePayload(t, c) ==
  /\ Free(t)
  /\ CanPromote(t, c)
  /\ objects' = IF Stored(c) THEN objects ELSE objects \cup {<<c, payload[t].intact>>}
  /\ payload' = [payload EXCEPT ![t] = NoPayload]
  /\ locked' = locked \cup {t}
  /\ UNCHANGED record
  /\ ClockAndCleanup

\* Seeded fault: reject does not look at the record's status.
CanRejectAnything(t) == Loads(t)

\* reject, up to the removal of the payload.
CanReject(t) == Loads(t) /\ record[t].status # "available"

DropPayload(t) ==
  /\ Free(t)
  /\ CanReject(t)
  /\ payload' = [payload EXCEPT ![t] = NoPayload]
  /\ locked' = locked \cup {t}
  /\ UNCHANGED <<record, objects>>
  /\ ClockAndCleanup

SettledUnsaved(t, status) == record[t]                    \* seeded fault

Settled(t, status) == [record[t] EXCEPT !.status = status]

CanTerminate(t) == Loads(t) /\ record[t].status # "available"

RemoveDirectory(t) ==
  /\ record' = [record EXCEPT ![t] = NoRecord]
  /\ payload' = [payload EXCEPT ![t] = NoPayload]
  /\ UNCHANGED <<objects, locked, expired>>

Terminate(t) ==
  /\ Free(t)
  /\ CanTerminate(t)
  /\ RemoveDirectory(t)
  /\ UNCHANGED doomed

-----------------------------------------------------------------------------
Expire(t) ==
  /\ expired' = expired \cup {t}
  /\ UNCHANGED <<record, payload, objects, locked, doomed>>

\* cleanup_expired: one directory after the other, load and then remove,
\* without the transfer's lock.
FindExpired(t) ==
  /\ doomed = {}
  /\ record[t].status # "none"
  /\ ~Loads(t)
  /\ doomed' = {t}
  /\ UNCHANGED <<record, payload, objects, locked, expired>>

RemoveExpired(t) ==
  /\ t \in doomed
  /\ doomed' = {}
  /\ RemoveDirectory(t)

\* The daemon dies.  A chunk being copied may have been written in part.
DaemonCrash ==
  /\ \E kept \in [locked -> 0 .. Length] :
       /\ \A t \in locked :
            /\ kept[t] <= payload[t].size
            /\ kept[t] >= record[t].offset \/ kept[t] = payload[t].size
       /\ payload' = [t \in Transfers |->
                        IF t \in locked THEN [payload[t] EXCEPT !.size = kept[t]]
                        ELSE payload[t]]
  /\ locked' = {}
  /\ doomed' = {}
  /\ UNCHANGED <<record, objects, expired>>
=============================================================================
