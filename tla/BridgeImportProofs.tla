-------------------------- MODULE BridgeImportProofs --------------------------
(***************************************************************************)
(* TLAPS proofs about BridgeImport, for any numbers of jobs, items,        *)
(* repositories, commits, files, retries and columns of the claimed row.   *)
(*                                                                         *)
(* The argument: a claim may leave any number of items downloading, but    *)
(* only the one the worker is at is ever prepared (BegunKept), so each of  *)
(* its steps knows its item, the revision it made and the source it        *)
(* recorded (AtStep).  A job with an item that waits or is worked on is in *)
(* progress unless the claim of its cancellation ended it (Stranded), and  *)
(* the worker refreshes such a job at its close only; no other refresh     *)
(* makes a job run again.                                                  *)
(***************************************************************************)
EXTENDS BridgeImport, SequenceTheorems, FiniteSetTheorems, TLAPS

(***************************************************************************)
(* The inductive invariant.                                                *)
(***************************************************************************)
JobsInOrder == \E n \in 0 .. MaxJobs : DOMAIN job = 1 .. n

Typed == TypeOK /\ JobsInOrder

Begun     == {"downloading", "scanning"}
Before    == {"refused", "download", "check", "prepare"}
After     == {"upload", "send", "inspect", "complete", "finish", "publish"}
Holding   == After \cup {"set", "fail"}
ItemSteps == Before \cup Holding \cup {"reuse"}

\* The source of an item's repository records its import.
RecordedAs(i) ==
  \E n \in 1 .. Len(source[i[2]]) :
    source[i[2]][n] = [commit |-> item[i].commit, rev |-> item[i].rev]

\* What the worker's next statement may take for granted.
AtStep ==
  /\ w.job = None <=> w.pc \in {"down", "poll"}
  /\ w.job # None => w.job \in DOMAIN job /\ job[w.job].status # "queued"
  /\ w.pc \in ItemSteps => w.item \in DOMAIN item /\ w.item[1] = w.job
  /\ w.pc \in Before => item[w.item].status = "downloading"
  /\ w.pc \in After =>
       item[w.item].status = "scanning" /\ item[w.item].rev = w.item /\ w.item \in DOMAIN rev
  /\ w.pc \in {"upload", "send", "inspect"} => rev[w.item] = "draft"
  /\ w.pc = "send" => w.files < Files
  /\ w.pc \in {"complete", "finish", "publish"} => rev[w.item] = "review"
  /\ w.pc \in {"finish", "publish"} => RecordedAs(w.item)
  /\ w.pc = "set" /\ w.to = "complete" => RecordedAs(w.item)
  /\ w.pc = "reuse" => item[w.item].status = "complete"

\* An item that was begun is of a job that does not wait, and of the worker's
\* job only the worker's item is prepared.
BegunKept ==
  \A i \in DOMAIN item : item[i].status \in Begun =>
    /\ job[i[1]].status # "queued"
    /\ w.job = i[1] /\ item[i].status = "scanning" => w.pc \in Holding /\ w.item = i

\* An item has no destination before it is scanned, and never another one
\* than the revision it created.
Destinations ==
  /\ \A i \in DOMAIN item : item[i].status \in {"queued", "downloading"} => item[i].rev = None
  /\ \A i \in DOMAIN rev : item[i].rev = i

OneJob == \A j, k \in DOMAIN job : InProgress(j) /\ InProgress(k) => j = k

\* An ended job has no active item, but for those that a claim left behind and
\* its cancellation ended; the worker is about to close it, or has.
Stranded ==
  \A i \in DOMAIN item : item[i].status \in Active /\ ~InProgress(i[1]) =>
    /\ job[i[1]].status = "cancelled" /\ job[i[1]].cancel /\ item[i].status = "downloading"
    /\ w.job = i[1] => w.pc = "close"

IInv == Typed /\ AtStep /\ BegunKept /\ Destinations /\ OneJob /\ Stranded /\ CompleteIsRecorded

-----------------------------------------------------------------------------
(***************************************************************************)
(* Refreshing a job, and what an invariant needs to stay.                  *)
(***************************************************************************)
\* A job runs while one of its items waits or is worked on.
LEMMA SummaryRuns ==
  ASSUME NEW j, NEW items
  PROVE  /\ Summary(j, items) \in {"running", "failed", "cancelled", "complete"}
         /\ Summary(j, items) = "running" <=> \E i \in ItemsOf(j, items) : items[i].status \in Active
BY DEF Summary

LEMMA RefreshedJob ==
  ASSUME Typed, NEW j \in DOMAIN job, NEW items
  PROVE  /\ Refreshed(j, items) \in [DOMAIN job -> Job]
         /\ Refreshed(j, items)[j].status = Summary(j, items)
         /\ Refreshed(j, items)[j].tries = job[j].tries
         /\ \A k \in DOMAIN job \ {j} : Refreshed(j, items)[k] = job[k]
<1>1. job \in [DOMAIN job -> Job]
  BY DEF Typed, TypeOK
<1>2. Summary(j, items) \in {"running", "failed", "cancelled", "complete"}
  BY SummaryRuns
<1>3. QED
  BY <1>1, <1>2 DEF Refreshed, Job

LEMMA NoneIsNew ==
  ASSUME Typed
  PROVE  /\ \A i \in DOMAIN item : i \in ItemIds /\ i # None /\ i[1] # None
                                  /\ i[1] \in DOMAIN job /\ i[2] \in Repos
         /\ \A j \in DOMAIN job : j \in Jobs /\ j # None
<1>1. DOMAIN job \subseteq Jobs /\ DOMAIN item \subseteq (DOMAIN job) \X Repos
  BY DEF Typed, TypeOK
<1>2. \A j \in Jobs : j # None
  BY NoneFresh DEF Jobs
<1>3. \A i \in ItemIds : i # None
  BY NoneFresh DEF ItemIds, Jobs
<1>4. DOMAIN item \subseteq ItemIds
  BY <1>1 DEF ItemIds
<1>5. QED
  BY <1>1, <1>2, <1>3, <1>4

\* No job starts to be in progress.
LEMMA OneJobKept ==
  ASSUME OneJob, DOMAIN job' = DOMAIN job,
         \A k \in DOMAIN job :
           job'[k].status \in {"queued", "running"} => job[k].status \in {"queued", "running"}
  PROVE  OneJob'
BY DEF OneJob, InProgress

\* No job with an active item ends, and the worker takes up none that did.
LEMMA StrandedKept ==
  ASSUME Typed, Stranded, DOMAIN item' = DOMAIN item, DOMAIN job' = DOMAIN job,
         \A i \in DOMAIN item : item'[i].status \in Active =>
           \/ job'[i[1]].status \in {"queued", "running"}
           \/ /\ item'[i] = item[i]
              /\ job'[i[1]].status = job[i[1]].status /\ job'[i[1]].cancel = job[i[1]].cancel
              /\ w'.job = i[1] => w'.job = w.job /\ w'.pc = w.pc
  PROVE  Stranded'
<1>1. \A i \in DOMAIN item : i[1] \in DOMAIN job
  BY NoneIsNew
<1>2. QED
  BY <1>1 DEF Stranded, InProgress

\* What the worker is at is in progress, as long as anything of it is.
LEMMA WorkerActive ==
  ASSUME IInv, w.job # None, w.pc # "close", NEW i \in DOMAIN item, i[1] = w.job,
         item[i].status \in Active
  PROVE  job[w.job].status \in {"queued", "running"}
BY DEF IInv, Stranded, InProgress

\* What is recorded stays so: sources only grow.
SourcesKept ==
  \A r \in Repos : \A n \in 1 .. Len(source[r]) :
    n \in 1 .. Len(source'[r]) /\ source'[r][n] = source[r][n]

LEMMA RecordedKept ==
  ASSUME NEW i \in DOMAIN item, i[2] \in Repos, RecordedAs(i), SourcesKept,
         item'[i].commit = item[i].commit, item'[i].rev = item[i].rev
  PROVE  RecordedAs(i)'
BY DEF RecordedAs, SourcesKept

LEMMA CompleteUpdate ==
  ASSUME Typed, CompleteIsRecorded, SourcesKept,
         \A i \in DOMAIN item' : item'[i].status = "complete" =>
           \/ RecordedAs(i)'
           \/ /\ i \in DOMAIN item /\ item[i].status = "complete"
              /\ item'[i].commit = item[i].commit /\ item'[i].rev = item[i].rev
  PROVE  CompleteIsRecorded'
<1>1. \A i \in DOMAIN item : i[2] \in Repos
  BY DEF Typed, TypeOK
<1>2. \A i \in DOMAIN item : item[i].status = "complete" => RecordedAs(i)
  BY DEF CompleteIsRecorded, RecordedAs
<1>3. \A i \in DOMAIN item' : item'[i].status = "complete" => RecordedAs(i)'
  BY <1>1, <1>2, RecordedKept
<1>4. QED
  BY <1>3 DEF CompleteIsRecorded, RecordedAs

LEMMA SourcesFrame ==
  ASSUME UNCHANGED source
  PROVE  SourcesKept
BY DEF SourcesKept

-----------------------------------------------------------------------------
(***************************************************************************)
(* Steps that only move the worker.                                        *)
(***************************************************************************)
\* Everything but the worker stays.
LEMMA OnlyWorker ==
  ASSUME IInv, UNCHANGED <<job, item, rev, source, sync>>, w' \in Worker, AtStep', BegunKept', Stranded'
  PROVE  IInv'
<1>1. Typed' /\ Destinations'
  BY DEF IInv, Typed, TypeOK, JobsInOrder, Destinations
<1>2. OneJob'
  BY DEF IInv, OneJob, InProgress
<1>3. CompleteIsRecorded'
  BY DEF IInv, CompleteIsRecorded
<1>4. QED
  BY <1>1, <1>2, <1>3 DEF IInv

\* The worker goes on with the same job and item.
LEMMA WorkerGoesOn ==
  ASSUME IInv, UNCHANGED <<job, item, rev, source, sync>>, w' \in Worker,
         w.job # None, w'.job = w.job, w'.item = w.item,
         \/ w'.pc = w.pc /\ w'.to = w.to /\ w'.files = w.files
         \/ w'.pc \in {"refuse", "next", "close"} /\ w.pc \in {"open", "next"}
         \/ w'.pc = "fail" /\ w.pc \in ItemSteps
         \/ w'.pc = "set" /\ w'.to # "complete" /\ w.pc = "fail"
         \/ w'.pc \in Before /\ w.pc \in Before
         \/ w'.pc = "inspect" /\ w.pc = "upload"
         \/ w'.pc = "send" /\ w'.files < Files /\ w.pc = "upload"
         \/ w'.pc = "upload" /\ w.pc = "send"
         \/ w'.pc = "publish" /\ w.pc = "finish"
  PROVE  IInv'
<1>1. w'.pc \in ItemSteps <=> w.pc \in ItemSteps
  BY DEF ItemSteps, Holding, Before, After
<1>2. w.pc \in Holding => w'.pc \in Holding
  BY DEF ItemSteps, Holding, Before, After
<1>3. BegunKept'
  BY <1>2 DEF IInv, BegunKept
<1>4. RecordedAs(w.item)' <=> RecordedAs(w.item)
  BY DEF RecordedAs
<1>5. w'.pc \in After => w.pc \in After
  BY DEF After, Before
<1>6. w'.pc \in Before => w.pc \in Before
  BY DEF After, Before
<1>7. /\ w'.pc \in {"upload", "send", "inspect"} => w.pc \in {"upload", "send", "inspect"}
      /\ w'.pc \in {"complete", "finish", "publish"} => w.pc \in {"complete", "finish", "publish"}
      /\ w'.pc \in {"finish", "publish"} => w.pc \in {"finish", "publish"}
      /\ w'.pc = "set" /\ w'.to = "complete" => w.pc = "set" /\ w.to = "complete"
      /\ w'.pc = "send" /\ w.pc = "send" => w'.files = w.files
      /\ w'.pc = "send" /\ w.pc # "send" => w'.files < Files
      /\ w'.pc = "reuse" => w.pc = "reuse"
  BY DEF Before
<1>8. w.pc \notin {"down", "poll"} /\ w'.pc \notin {"down", "poll"}
  BY DEF IInv, AtStep, Before
<1>9. AtStep'
  BY <1>1, <1>4, <1>5, <1>6, <1>7, <1>8 DEF IInv, AtStep
<1>10. w.pc = "close" => w'.pc = "close"
  BY DEF ItemSteps, Holding, Before, After
<1>11. Stranded'
  BY <1>10 DEF IInv, Stranded, InProgress
<1>12. QED
  BY <1>3, <1>9, <1>11, OnlyWorker

\* The worker lets go of its job, or dies, or is started again.
LEMMA WorkerLetsGo ==
  ASSUME IInv, UNCHANGED <<job, item, rev, source, sync>>,
         w' \in Worker, w'.pc \in {"down", "poll"}, w'.job = None
  PROVE  IInv'
<1>1. w'.pc \notin ItemSteps \cup Before \cup After
  BY DEF ItemSteps, Holding, Before, After
<1>2. AtStep'
  BY <1>1 DEF AtStep
<1>3. BegunKept'
  BY <1>1, NoneIsNew DEF IInv, BegunKept
<1>4. Stranded'
  BY NoneIsNew DEF IInv, Stranded, InProgress
<1>5. QED
  BY <1>2, <1>3, <1>4, OnlyWorker

-----------------------------------------------------------------------------
(***************************************************************************)
(* Steps that end items.                                                   *)
(***************************************************************************)
Ended == {"complete", "blocked", "failed", "cancelled"}

\* The worker's item gets a state in which nobody works on it, its job is
\* refreshed, and the worker is left without an item.
LEMMA SettledItem ==
  ASSUME IInv, NEW i \in DOMAIN item, i[1] = w.job, NEW s \in Ended,
         SetItem(i, s), s = "complete" => RecordedAs(i),
         UNCHANGED <<source, sync>>,
         DOMAIN rev' = DOMAIN rev, rev' \in [DOMAIN rev -> {"draft", "review", "published", "blocked"}],
         w' \in Worker, w'.job = w.job,
         w.pc \in ItemSteps, w.item = i, w'.pc \in {"next", "refuse"}
  PROVE  IInv'
<1>1. /\ item' = [item EXCEPT ![i].status = s] /\ job' = Refreshed(w.job, item')
      /\ item \in [DOMAIN item -> Item] /\ w.job \in DOMAIN job /\ w.job # None /\ w.pc # "close"
  BY DEF SetItem, IInv, Typed, TypeOK, AtStep, ItemSteps, Holding, Before, After
<1>2. /\ DOMAIN item' = DOMAIN item
      /\ \A x \in DOMAIN item \ {i} : item'[x] = item[x]
      /\ item'[i].status = s /\ item'[i].commit = item[i].commit /\ item'[i].rev = item[i].rev
      /\ item'[i] \in Item
  BY <1>1 DEF Item, Ended, Active
<1>3. /\ job' \in [DOMAIN job -> Job]
      /\ job'[w.job].status = Summary(w.job, item')
      /\ \A k \in DOMAIN job \ {w.job} : job'[k] = job[k]
  BY <1>1, RefreshedJob DEF IInv
<1>4. /\ job'[w.job].status \in {"running", "failed", "cancelled", "complete"}
      /\ job'[w.job].status = "running" <=>
           \E x \in DOMAIN item : x[1] = w.job /\ item'[x].status \in Active
  BY <1>2, <1>3, SummaryRuns DEF ItemsOf
<1>5. Typed'
  BY <1>1, <1>2, <1>3 DEF IInv, Typed, TypeOK, JobsInOrder
<1>6. \A x \in DOMAIN item : item'[x].status \in Active \cup Begun => x # i /\ item'[x] = item[x]
  BY <1>2 DEF Active, Begun, Ended
<1>7. OneJob'
  <2>1. job'[w.job].status = "running" => job[w.job].status \in {"queued", "running"}
    BY <1>1, <1>4, <1>6, WorkerActive
  <2>2. QED
    BY <1>1, <1>3, <1>4, <2>1, OneJobKept DEF IInv
<1>8. Stranded'
  BY <1>1, <1>2, <1>3, <1>4, <1>6, NoneIsNew, StrandedKept DEF IInv
<1>9. CompleteIsRecorded'
  <2>1. SourcesKept /\ i[2] \in Repos
    BY SourcesFrame, NoneIsNew DEF IInv
  <2>2. s = "complete" => RecordedAs(i)'
    BY <1>2, <2>1, RecordedKept
  <2>3. QED
    BY <1>2, <2>1, <2>2, CompleteUpdate DEF IInv
<1>10. Destinations'
  BY <1>1, <1>2, <1>6 DEF IInv, Destinations, Ended
<1>11. BegunKept'
  <2>1. \A x \in DOMAIN item : item'[x].status \in Begun =>
          /\ item'[x] = item[x] /\ x # i /\ x[1] \in DOMAIN job
          /\ job'[x[1]] = job[x[1]] \/ x[1] = w.job
    BY <1>3, <1>6, NoneIsNew DEF IInv
  <2>2. \A x \in DOMAIN item : item'[x].status = "scanning" => x[1] # w.job
    BY <2>1 DEF IInv, BegunKept, Begun
  <2>3. QED
    BY <1>2, <1>4, <2>1, <2>2 DEF IInv, BegunKept
<1>12. AtStep'
  BY <1>1, <1>3, <1>4 DEF IInv, AtStep, ItemSteps, Holding, Before, After
<1>13. QED
  BY <1>5, <1>7, <1>8, <1>9, <1>10, <1>11, <1>12 DEF IInv

\* The items of a job that wait are ended; none is begun, or the job goes on.
LEMMA EndedQueue ==
  ASSUME IInv, NEW j \in DOMAIN job, NEW s \in Ended \ {"complete"}, item' = EndQueued(j, s)
  PROVE  /\ DOMAIN item' = DOMAIN item /\ item' \in [DOMAIN item -> Item]
         /\ \A i \in DOMAIN item :
              /\ item'[i].commit = item[i].commit /\ item'[i].rev = item[i].rev
              /\ item[i].status # "queued" \/ i[1] # j => item'[i] = item[i]
              /\ item[i].status = "queued" /\ i[1] = j => item'[i].status = s
         /\ CompleteIsRecorded' \/ source' # source
         /\ Destinations' \/ rev' # rev
<1>1. item \in [DOMAIN item -> Item] /\ item' = [i \in DOMAIN item |-> item'[i]]
  BY DEF EndQueued, IInv, Typed, TypeOK
<1>2. DOMAIN item' = DOMAIN item
  BY DEF EndQueued
<1>3. \A i \in DOMAIN item :
        /\ item'[i] \in Item
        /\ item'[i].commit = item[i].commit /\ item'[i].rev = item[i].rev
        /\ item[i].status # "queued" \/ i[1] # j => item'[i] = item[i]
        /\ item[i].status = "queued" /\ i[1] = j => item'[i].status = s
  BY <1>1 DEF EndQueued, Item, Ended
<1>4. source' = source => CompleteIsRecorded'
  BY <1>2, <1>3, SourcesFrame, CompleteUpdate DEF IInv
<1>5. rev' = rev => Destinations'
  BY <1>2, <1>3 DEF IInv, Destinations, Ended, Typed, TypeOK
<1>6. QED
  BY <1>1, <1>2, <1>3, <1>4, <1>5

\* A worker that is between items ends its cancelled job, and leaves those that
\* were claimed with an item.
LEMMA CancelledJob ==
  ASSUME IInv, w.pc \in {"refuse", "next"}, job[w.job].cancel, CancelJob, UNCHANGED <<rev, source, sync>>,
         w' \in Worker,
         \/ w'.pc = "close" /\ w'.job = w.job
         \/ w'.pc \in {"down", "poll"} /\ w'.job = None
  PROVE  IInv'
<1>1. w.job \in DOMAIN job /\ w.job # None /\ w'.pc \notin ItemSteps /\ w.pc \notin ItemSteps
  BY DEF IInv, AtStep, ItemSteps, Holding, Before, After
<1>2. /\ DOMAIN item' = DOMAIN item /\ item' \in [DOMAIN item -> Item]
      /\ \A i \in DOMAIN item :
           /\ item[i].status # "queued" \/ i[1] # w.job => item'[i] = item[i]
           /\ item[i].status = "queued" /\ i[1] = w.job => item'[i].status = "cancelled"
      /\ CompleteIsRecorded' /\ Destinations'
  BY <1>1, EndedQueue DEF Ended, CancelJob
<1>3. /\ job' \in [DOMAIN job -> Job]
      /\ job'[w.job].status = "cancelled" /\ job'[w.job].cancel
      /\ \A k \in DOMAIN job \ {w.job} : job'[k] = job[k]
  <2> DEFINE ended == [job[w.job] EXCEPT !.status = "cancelled", !.stale = FALSE]
  <2>1. job \in [DOMAIN job -> Job] /\ job' = [job EXCEPT ![w.job] = ended]
    BY DEF CancelJob, IInv, Typed, TypeOK
  <2>2. ended \in Job /\ ended.status = "cancelled"
    BY <1>1, <2>1 DEF Job
  <2>3. ended.cancel = job[w.job].cancel
    BY <1>1, <2>1 DEF Job
  <2>4. ended.cancel
    BY <2>3, Zenon
  <2> HIDE DEF ended
  <2>5. job'[w.job] = ended /\ \A k \in DOMAIN job \ {w.job} : job'[k] = job[k]
    BY <1>1, <2>1
  <2>6. job'[w.job].cancel
    BY <2>4, <2>5, Zenon
  <2>7. QED
    BY <1>1, <2>1, <2>2, <2>5, <2>6
<1>4. \A i \in DOMAIN item : item'[i].status \in Active =>
        item'[i] = item[i] /\ (i[1] = w.job => item'[i].status = "downloading")
  BY <1>1, <1>2 DEF Active, Begun, IInv, BegunKept, ItemSteps
<1>5. Typed'
  BY <1>2, <1>3 DEF IInv, Typed, TypeOK, JobsInOrder
<1>6. OneJob'
  BY <1>3, OneJobKept DEF IInv
<1>7. Stranded'
  <2>1. \A i \in DOMAIN item : i[1] \in DOMAIN job /\ i[1] # None
    BY NoneIsNew DEF IInv
  <2>2. ASSUME NEW i \in DOMAIN item, i[1] = w.job
        PROVE  job'[i[1]].status = "cancelled" /\ job'[i[1]].cancel /\ (w'.job = i[1] => w'.pc = "close")
    BY <1>3, <2>1, <2>2
  <2>3. ASSUME NEW i \in DOMAIN item, i[1] # w.job, item'[i].status \in Active, ~InProgress(i[1])'
        PROVE  /\ job'[i[1]].status = "cancelled" /\ job'[i[1]].cancel /\ item'[i].status = "downloading"
               /\ w'.job # i[1]
    <3>1. item'[i] = item[i] /\ job'[i[1]] = job[i[1]] /\ i[1] # None /\ ~InProgress(i[1])
      BY <1>3, <1>4, <2>1, <2>3 DEF InProgress
    <3>2. QED
      BY <2>3, <3>1 DEF IInv, Stranded
  <2>4. QED
    BY <1>2, <1>4, <2>2, <2>3 DEF Stranded
<1>8. BegunKept'
  <2>1. \A i \in DOMAIN item : item'[i].status \in Begun =>
          item'[i] = item[i] /\ i[1] \in DOMAIN job /\ i[1] # None
    BY <1>4, NoneIsNew DEF Active, Begun, IInv
  <2>2. \A i \in DOMAIN item : item'[i].status = "scanning" => i[1] # w.job
    BY <1>4 DEF Active
  <2>3. QED
    BY <1>2, <1>3, <2>1, <2>2 DEF IInv, BegunKept
<1>9. AtStep'
  BY <1>1, <1>3 DEF AtStep, ItemSteps, Holding, Before, After
<1>10. QED
  BY <1>2, <1>5, <1>6, <1>7, <1>8, <1>9 DEF IInv

-----------------------------------------------------------------------------
(***************************************************************************)
(* The loop over the items of a job.                                       *)
(***************************************************************************)
LEMMA IdleTyped ==
  ASSUME NEW pc \in {"down", "poll"}, w' = [Idle EXCEPT !.pc = pc]
  PROVE  w' \in Worker /\ w'.pc = pc /\ w'.job = None
<1> DEFINE idle == [pc |-> pc, job |-> None, item |-> None, row |-> NoRow, files |-> 0,
                    to |-> "complete", stop |-> FALSE]
<1>1. w' = idle
  BY DEF Idle
<1>2. 0 \in 0 .. Files /\ pc \in Steps
  BY ImportAssumption DEF Steps
<1>3. NoRow \in Row
  BY DEF NoRow, Row
<1> HIDE DEF NoRow, Row
<1>4. idle \in Worker /\ idle.pc = pc /\ idle.job = None
  BY <1>2, <1>3 DEF Worker
<1>5. QED
  BY <1>1, <1>4

LEMMA DownTyped ==
  ASSUME w' = Down
  PROVE  w' \in Worker /\ w'.pc = "down" /\ w'.job = None
BY IdleTyped DEF Down

LEMMA LeaveTyped ==
  ASSUME Leave
  PROVE  w' \in Worker /\ w'.pc \in {"down", "poll"} /\ w'.job = None
<1>1. \E pc \in {"down", "poll"} : w' = [Idle EXCEPT !.pc = pc]
  BY DEF Leave
<1>2. QED
  BY <1>1, IdleTyped

LEMMA GoesTyped ==
  ASSUME IInv, NEW pc \in Steps, Goes(pc)
  PROVE  /\ w' \in Worker /\ w'.pc = pc /\ w'.job = w.job /\ w'.item = w.item
         /\ w'.files = w.files /\ w'.to = w.to
BY DEF Goes, Worker, IInv, Typed, TypeOK

LEMMA DoneTyped ==
  ASSUME IInv, Done
  PROVE  w' \in Worker /\ w'.pc = "next" /\ w'.job = w.job
<1>1. 0 \in 0 .. Files
  BY ImportAssumption
<1>2. w \in Worker /\ w' = [w EXCEPT !.pc = "next", !.item = None, !.files = 0, !.to = "complete"]
  BY DEF Done, IInv, Typed, TypeOK
<1>3. QED
  BY <1>1, <1>2 DEF Worker, Steps

\* What a claim takes: items of the job that waited, the first column's among
\* them, and nothing else of them changes.
LEMMA ClaimedItems ==
  ASSUME Typed, NEW row \in Claims, item' = Taken(row)
  PROVE  /\ row[1] \in Waiting /\ \A k : Column(row, k) \in Waiting \cup {None}
         /\ DOMAIN item' = DOMAIN item /\ item' \in [DOMAIN item -> Item]
         /\ \A x \in DOMAIN item :
              /\ item'[x].commit = item[x].commit /\ item'[x].rev = item[x].rev
              /\ item'[x] = item[x] \/ (x \in Waiting /\ item'[x].status = "downloading")
         /\ item'[row[1]].status = "downloading"
<1>1. PICK n \in 1 .. Width : row \in [1 .. n -> Waiting]
  BY DEF Claims
<1>2. DOMAIN row = 1 .. n /\ 1 \in 1 .. n /\ \A k \in 1 .. n : row[k] \in Waiting
  BY <1>1, ColumnsInOrder
<1>3. Range(row) \subseteq Waiting /\ row[1] \in Range(row)
  BY <1>2 DEF Range
<1>4. item \in [DOMAIN item -> Item] /\ Waiting \subseteq DOMAIN item
  BY DEF Typed, TypeOK, Waiting, ItemsOf
<1>5. item' = [i \in DOMAIN item |-> IF i \in Range(row) THEN [item[i] EXCEPT !.status = "downloading"]
                                     ELSE item[i]]
  BY DEF Taken
<1>6. \A x \in DOMAIN item : [item[x] EXCEPT !.status = "downloading"] \in Item
  BY <1>4 DEF Item, Active
<1>7. \A x \in DOMAIN item :
        /\ [item[x] EXCEPT !.status = "downloading"].commit = item[x].commit
        /\ [item[x] EXCEPT !.status = "downloading"].rev = item[x].rev
        /\ [item[x] EXCEPT !.status = "downloading"].status = "downloading"
  BY <1>4 DEF Item
<1>8. \A k : Column(row, k) \in Waiting \cup {None}
  BY <1>2 DEF Column
<1>9. QED
  BY <1>2, <1>3, <1>4, <1>5, <1>6, <1>7, <1>8

\* The worker claims items that waited, and begins the first one or dies.
LEMMA BeginStep ==
  ASSUME IInv, w.pc \in {"refuse", "next"}, NEW row \in Claims, item' = Taken(row),
         UNCHANGED <<job, rev, source, sync>>, w' \in Worker,
         \/ w'.pc \in {"refused", "download"} /\ w'.job = w.job /\ w'.item = row[1]
         \/ w'.pc = "down" /\ w'.job = None
  PROVE  IInv'
<1>1. /\ row[1] \in Waiting /\ DOMAIN item' = DOMAIN item /\ item' \in [DOMAIN item -> Item]
      /\ \A x \in DOMAIN item :
           /\ item'[x].commit = item[x].commit /\ item'[x].rev = item[x].rev
           /\ item'[x] = item[x] \/ (x \in Waiting /\ item'[x].status = "downloading")
      /\ item'[row[1]].status = "downloading"
  BY ClaimedItems DEF IInv
<1>2. /\ w.job # None /\ w.job \in DOMAIN job /\ job[w.job].status # "queued" /\ w.pc \notin Holding
      /\ w.pc # "close"
  BY DEF IInv, AtStep, Holding, After
<1>3. \A x \in Waiting : x \in DOMAIN item /\ x[1] = w.job /\ item[x].status = "queued"
  BY DEF Waiting, ItemsOf
<1>4. \A x \in Waiting : job[w.job].status \in {"queued", "running"}
  BY <1>2, <1>3, WorkerActive DEF Active
<1>5. Typed'
  BY <1>1 DEF IInv, Typed, TypeOK, JobsInOrder
<1>6. AtStep'
  BY <1>1, <1>2, <1>3 DEF AtStep, ItemSteps, Holding, Before, After
<1>7. BegunKept'
  <2>1. \A x \in DOMAIN item : item'[x].status = "scanning" => item'[x] = item[x]
    BY <1>1
  <2>2. \A x \in DOMAIN item : item'[x].status = "scanning" => x[1] # w.job
    BY <1>2, <2>1 DEF IInv, BegunKept, Begun
  <2>3. \A x \in DOMAIN item : item'[x].status \in Begun => job[x[1]].status # "queued"
    BY <1>1, <1>2, <1>3 DEF IInv, BegunKept
  <2>4. \A x \in DOMAIN item : x[1] # None
    BY NoneIsNew DEF IInv
  <2>5. QED
    BY <1>1, <2>2, <2>3, <2>4 DEF BegunKept
<1>8. Destinations'
  <2>1. DOMAIN rev \subseteq DOMAIN item
    BY DEF IInv, Typed, TypeOK
  <2>2. QED
    BY <1>1, <1>3, <2>1 DEF IInv, Destinations
<1>9. CompleteIsRecorded'
  <2>1. \A x \in DOMAIN item : item'[x].status = "complete" => item'[x] = item[x]
    BY <1>1
  <2>2. QED
    BY <1>1, <2>1, SourcesFrame, CompleteUpdate DEF IInv
<1>10. OneJob'
  BY DEF IInv, OneJob, InProgress
<1>11. Stranded'
  <2>1. \A x \in DOMAIN item : x[1] # None
    BY NoneIsNew DEF IInv
  <2>2. ASSUME NEW x \in DOMAIN item, item'[x].status \in Active, ~InProgress(x[1])
        PROVE  /\ job[x[1]].status = "cancelled" /\ job[x[1]].cancel /\ item'[x].status = "downloading"
               /\ w'.job # x[1]
    <3>1. x \notin Waiting
      BY <1>2, <1>3, <1>4, <2>2 DEF InProgress
    <3>2. item'[x] = item[x]
      BY <1>1, <3>1
    <3>3. /\ job[x[1]].status = "cancelled" /\ job[x[1]].cancel /\ item[x].status = "downloading"
          /\ w.job # x[1]
      BY <1>2, <2>2, <3>2 DEF IInv, Stranded
    <3>4. QED
      BY <2>1, <3>2, <3>3
  <2>3. \A x \in DOMAIN item : InProgress(x[1])' <=> InProgress(x[1])
    BY DEF InProgress
  <2>4. QED
    BY <1>1, <2>2, <2>3 DEF Stranded
<1>12. QED
  BY <1>5, <1>6, <1>7, <1>8, <1>9, <1>10, <1>11 DEF IInv

LEMMA RefuseStep ==
  ASSUME IInv, Refuse
  PROVE  IInv'
<1>1. w.pc = "refuse" /\ UNCHANGED <<rev, source, sync>> /\ w \in Worker
  BY DEF Refuse, IInv, Typed, TypeOK
<1>2. CASE job[w.job].cancel
  BY <1>1, <1>2, LeaveTyped, CancelledJob DEF Refuse
<1>3. CASE Leave /\ UNCHANGED <<item, job>>
  BY <1>1, <1>3, LeaveTyped, WorkerLetsGo
<1>4. ASSUME NEW row \in Claims, item' = Taken(row), UNCHANGED job,
             w' = [w EXCEPT !.pc = "refused", !.item = row[1]]
      PROVE  IInv'
  <2>1. row[1] \in ItemIds
    BY <1>4, ClaimedItems, NoneIsNew DEF IInv, Waiting, ItemsOf
  <2>2. w' \in Worker /\ w'.pc = "refused" /\ w'.job = w.job /\ w'.item = row[1]
    BY <1>1, <1>4, <2>1 DEF Worker, Steps
  <2>3. QED
    BY <1>1, <1>4, <2>2, BeginStep
<1>5. QED
  BY <1>2, <1>3, <1>4 DEF Refuse

LEMMA NextItemStep ==
  ASSUME IInv, NextItem
  PROVE  IInv'
<1>1. w.pc = "next" /\ UNCHANGED <<rev, source, sync>> /\ w.job # None /\ w \in Worker
  BY DEF NextItem, IInv, AtStep, Typed, TypeOK
<1>2. Goes("close") => w' \in Worker /\ w'.pc = "close" /\ w'.job = w.job /\ w'.item = w.item
  BY GoesTyped DEF Steps
<1>3. CASE Goes("close") /\ UNCHANGED <<item, job>>
  BY <1>1, <1>2, <1>3, WorkerGoesOn
<1>4. CASE job[w.job].cancel /\ CancelJob /\ Goes("close")
  BY <1>1, <1>2, <1>4, CancelledJob
<1>5. ASSUME NEW row \in Claims, item' = Taken(row), UNCHANGED job, w' = Down
      PROVE  IInv'
  BY <1>1, <1>5, DownTyped, BeginStep
<1>6. ASSUME NEW row \in Claims, item' = Taken(row), UNCHANGED job,
             w' = [w EXCEPT !.pc = "download", !.item = row[1], !.files = 0,
                            !.row = [repo     |-> Column(row, RepoColumn),
                                     commit   |-> Column(row, CommitColumn),
                                     manifest |-> Column(row, ManifestColumn)]]
      PROVE  IInv'
  <2>1. 0 \in 0 .. Files
    BY ImportAssumption
  <2>2. row[1] \in ItemIds /\ \A k : Column(row, k) \in ItemIds \cup {None}
    BY <1>6, ClaimedItems, NoneIsNew DEF IInv, Waiting, ItemsOf
  <2> DEFINE r == [repo     |-> Column(row, RepoColumn),
                   commit   |-> Column(row, CommitColumn),
                   manifest |-> Column(row, ManifestColumn)]
  <2>3. r \in Row
    BY <2>2 DEF Row
  <2>4. w' = [w EXCEPT !.pc = "download", !.item = row[1], !.files = 0, !.row = r]
    BY <1>6
  <2> HIDE DEF r
  <2>5. w' \in Worker /\ w'.pc = "download" /\ w'.job = w.job /\ w'.item = row[1]
    BY <1>1, <2>1, <2>2, <2>3, <2>4 DEF Worker, Steps
  <2>6. QED
    BY <1>1, <1>6, <2>5, BeginStep
<1>7. QED
  BY <1>3, <1>4, <1>5, <1>6 DEF NextItem

LEMMA CloseStep ==
  ASSUME IInv, CloseJob
  PROVE  IInv'
<1>1. w.pc = "close" /\ UNCHANGED <<item, rev, source, sync>> /\ w.job # None
  BY DEF CloseJob, IInv, AtStep
<1>2. w.job \in DOMAIN job /\ job \in [DOMAIN job -> Job] /\ DOMAIN job \subseteq Jobs
  BY <1>1 DEF IInv, Typed, TypeOK, AtStep
<1>3. CASE w' = Down /\ UNCHANGED job
  BY <1>1, <1>3, DownTyped, WorkerLetsGo
<1>4. ASSUME Leave, NEW st, st = IF w.stop /\ Released(w.job) THEN "queued" ELSE Summary(w.job, item),
             job' = [job EXCEPT ![w.job].status = st],
             ~(Summary(w.job, item) = "running" /\ \E k \in Jobs \ {w.job} : InProgress(k))
      PROVE  IInv'
  <2>1. w' \in Worker /\ w'.pc \in {"down", "poll"} /\ w'.job = None
    BY <1>4, LeaveTyped
  <2>2. Released(w.job) => \E i \in DOMAIN item : i[1] = w.job /\ item[i].status \in Active
    BY DEF Released, ItemsOf, Active
  <2>3. /\ st \in {"queued", "running", "failed", "cancelled", "complete"}
        /\ st \in {"queued", "running"} <=> \E i \in DOMAIN item : i[1] = w.job /\ item[i].status \in Active
        /\ st \in {"queued", "running"} => Summary(w.job, item) = "running"
        /\ st = "queued" => Released(w.job)
    BY <1>4, <2>2, SummaryRuns DEF ItemsOf
  <2>4. /\ job' \in [DOMAIN job -> Job] /\ job'[w.job].status = st
        /\ \A k \in DOMAIN job \ {w.job} : job'[k] = job[k]
    BY <1>2, <1>4, <2>3 DEF Job
  <2>5. Typed' /\ Destinations'
    BY <1>1, <2>1, <2>4 DEF IInv, Typed, TypeOK, JobsInOrder, Destinations
  <2>6. CompleteIsRecorded'
    BY <1>1 DEF IInv, CompleteIsRecorded
  <2>7. BegunKept'
    <3>1. \A i \in DOMAIN item : i[1] \in DOMAIN job /\ i[1] # None
      BY NoneIsNew DEF IInv
    <3>2. \A i \in DOMAIN item : item[i].status \in Begun /\ i[1] = w.job => st # "queued"
      BY <2>3 DEF Released, ItemsOf, Begun
    <3>3. QED
      BY <1>1, <2>1, <2>4, <3>1, <3>2 DEF IInv, BegunKept
  <2>8. AtStep'
    BY <2>1 DEF AtStep, ItemSteps, Holding, Before, After
  <2>9. OneJob'
    <3>1. CASE st \in {"queued", "running"}
      <4>1. \A k \in DOMAIN job \ {w.job} : job[k].status \notin {"queued", "running"}
        BY <1>2, <1>4, <2>3, <3>1 DEF InProgress
      <4>2. QED
        BY <2>4, <4>1 DEF OneJob, InProgress
    <3>2. CASE st \notin {"queued", "running"}
      BY <2>4, <3>2, OneJobKept DEF IInv
    <3>3. QED
      BY <3>1, <3>2
  <2>10. Stranded'
    <3>1. \A i \in DOMAIN item : i[1] \in DOMAIN job /\ i[1] # None
      BY NoneIsNew DEF IInv
    <3>2. QED
      BY <1>1, <2>1, <2>3, <2>4, <3>1, StrandedKept DEF IInv
  <2>11. QED
    BY <2>5, <2>6, <2>7, <2>8, <2>9, <2>10 DEF IInv
<1>5. QED
  BY <1>1, <1>3, <1>4 DEF CloseJob

-----------------------------------------------------------------------------
(***************************************************************************)
(* The statements of process_item.                                         *)
(***************************************************************************)
LEMMA OpenStep ==
  ASSUME IInv, OpenJob
  PROVE  IInv'
<1>1. w.pc = "open" /\ UNCHANGED <<job, item, rev, source, sync>> /\ w.job # None
  BY DEF OpenJob, IInv, AtStep
<1>2. /\ w' \in Worker /\ w'.pc \in {"next", "refuse"} /\ w'.job = w.job /\ w'.item = w.item
  BY GoesTyped DEF OpenJob, Steps
<1>3. QED
  BY <1>1, <1>2, WorkerGoesOn

LEMMA AtItem ==
  ASSUME IInv, w.pc \in ItemSteps
  PROVE  /\ w.item \in DOMAIN item /\ w.item[1] = w.job /\ w.item \in ItemIds
         /\ w.job # None /\ w.job \in DOMAIN job /\ w.pc # "close"
         /\ item \in [DOMAIN item -> Item] /\ item[w.item] \in Item /\ w \in Worker
         /\ rev \in [DOMAIN rev -> {"draft", "review", "published", "blocked"}]
<1>1. w.item \in DOMAIN item /\ w.item[1] = w.job
  BY DEF IInv, AtStep
<1>2. w.job # None /\ w.job \in DOMAIN job /\ w.pc # "close"
  BY DEF IInv, AtStep, ItemSteps, Holding, Before, After
<1>3. /\ item \in [DOMAIN item -> Item] /\ w \in Worker
      /\ rev \in [DOMAIN rev -> {"draft", "review", "published", "blocked"}]
  BY DEF IInv, Typed, TypeOK
<1>4. QED
  BY <1>1, <1>2, <1>3, NoneIsNew DEF IInv

\* An item step that fails, and the handler of its exception.
LEMMA ItemFails ==
  ASSUME IInv, w.pc \in ItemSteps, Goes("fail"), UNCHANGED <<job, item, rev, source, sync>>
  PROVE  IInv'
<1>1. w' \in Worker /\ w'.pc = "fail" /\ w'.job = w.job /\ w'.item = w.item
  BY GoesTyped DEF Steps
<1>2. QED
  BY <1>1, AtItem, WorkerGoesOn

LEMMA FailStep ==
  ASSUME IInv, Fail
  PROVE  IInv'
<1>1. w.pc = "fail" /\ w.pc \in ItemSteps /\ UNCHANGED <<job, item, rev, source, sync>>
  BY DEF Fail, ItemSteps, Holding
<1>2. PICK s \in {"cancelled", "failed"} : w' = [w EXCEPT !.pc = "set", !.files = 0, !.to = s]
  BY DEF Fail
<1>3. 0 \in 0 .. Files /\ w \in Worker
  BY <1>1, AtItem, ImportAssumption
<1>4. /\ w' \in Worker /\ w'.pc = "set" /\ w'.to # "complete" /\ w'.job = w.job /\ w'.item = w.item
  BY <1>2, <1>3 DEF Worker, Steps
<1>5. QED
  BY <1>1, <1>4, AtItem, WorkerGoesOn

LEMMA ItemSettles ==
  ASSUME IInv, w.pc \in ItemSteps, NEW s \in Ended, SetItem(w.item, s), Done,
         s = "complete" => RecordedAs(w.item), UNCHANGED <<rev, source, sync>>
  PROVE  IInv'
BY DoneTyped, AtItem, SettledItem

LEMMA RefusedStep ==
  ASSUME IInv, Refused
  PROVE  IInv'
<1>1. /\ w.pc = "refused" /\ w.pc \in ItemSteps /\ SetItem(w.item, "failed") /\ UNCHANGED <<rev, source, sync>>
      /\ w' = [w EXCEPT !.pc = "refuse", !.item = None]
  BY DEF Refused, ItemSteps, Before
<1>2. w' \in Worker /\ w'.pc = "refuse" /\ w'.job = w.job
  BY <1>1, AtItem DEF Worker, Steps
<1>3. QED
  BY <1>1, <1>2, AtItem, SettledItem DEF Ended

LEMMA DownloadStep ==
  ASSUME IInv, Download
  PROVE  IInv'
<1>1. w.pc = "download" /\ w.pc \in ItemSteps /\ UNCHANGED <<job, item, rev, source, sync>>
  BY DEF Download, ItemSteps, Before
<1>2. PICK pc \in {"check", "fail"} : w' = [w EXCEPT !.pc = pc, !.row = NoRow]
  BY DEF Download
<1>3. NoRow \in Row
  BY DEF NoRow, Row
<1>4. w' \in Worker /\ w'.pc = pc /\ w'.job = w.job /\ w'.item = w.item
  BY <1>1, <1>2, <1>3, AtItem DEF Worker, Steps
<1>5. QED
  BY <1>1, <1>4, AtItem, WorkerGoesOn DEF Before

\* A stop puts the item back, and it has no destination yet.
LEMMA CheckStep ==
  ASSUME IInv, Check
  PROVE  IInv'
<1>1. /\ w.pc = "check" /\ w.pc \in ItemSteps /\ w.pc \in Before /\ UNCHANGED <<rev, source, sync>>
  BY DEF Check, ItemSteps, Before
<1>2. CASE w.stop
  <2>1. /\ item' = [item EXCEPT ![w.item].status = "queued"] /\ UNCHANGED job
        /\ w' \in Worker /\ w'.pc = "next" /\ w'.job = w.job
    BY <1>2, DoneTyped DEF Check
  <2>2. /\ w.item \in DOMAIN item /\ w.item[1] = w.job /\ w.job # None /\ w.job \in DOMAIN job
        /\ item \in [DOMAIN item -> Item] /\ item[w.item].status = "downloading"
        /\ job[w.job].status # "queued"
    BY <1>1, AtItem DEF IInv, AtStep
  <2>3. job[w.job].status \in {"queued", "running"}
    BY <1>1, <2>2, AtItem, WorkerActive DEF Active
  <2>4. /\ DOMAIN item' = DOMAIN item /\ item' \in [DOMAIN item -> Item]
        /\ \A x \in DOMAIN item \ {w.item} : item'[x] = item[x]
        /\ item'[w.item].status = "queued"
        /\ item'[w.item].commit = item[w.item].commit /\ item'[w.item].rev = item[w.item].rev
    BY <2>1, <2>2 DEF Item, Active
  <2>5. Typed'
    BY <1>1, <2>1, <2>4 DEF IInv, Typed, TypeOK, JobsInOrder
  <2>6. AtStep'
    BY <2>1, <2>2 DEF AtStep, ItemSteps, Holding, Before, After
  <2>7. BegunKept'
    <3>1. \A x \in DOMAIN item : item'[x].status \in Begun => x # w.item /\ item'[x] = item[x]
      BY <2>4 DEF Begun
    <3>2. \A x \in DOMAIN item : item'[x].status = "scanning" => x[1] # w.job
      BY <3>1 DEF IInv, BegunKept, Begun
    <3>3. QED
      BY <2>1, <2>4, <3>1, <3>2 DEF IInv, BegunKept
  <2>8. Destinations'
    <3>1. item[w.item].rev = None
      BY <2>2 DEF IInv, Destinations
    <3>2. DOMAIN rev \subseteq DOMAIN item
      BY DEF IInv, Typed, TypeOK
    <3>3. \A x \in DOMAIN item : item'[x].rev = item[x].rev
      BY <2>4
    <3>4. \A x \in DOMAIN item : item'[x].status \in {"queued", "downloading"} => item'[x].rev = None
      BY <2>4, <3>1 DEF IInv, Destinations
    <3>5. QED
      BY <1>1, <3>2, <3>3, <3>4, <2>4 DEF IInv, Destinations
  <2>9. CompleteIsRecorded'
    BY <1>1, <2>4, SourcesFrame, CompleteUpdate DEF IInv
  <2>10. OneJob'
    BY <2>1 DEF IInv, OneJob, InProgress
  <2>11. Stranded'
    <3>1. \A x \in DOMAIN item \ {w.item} : x[1] = w.job /\ item[x].status \in Active =>
            job[w.job].status \in {"queued", "running"}
      BY <2>3
    <3>2. QED
      BY <2>1, <2>2, <2>3, <2>4, StrandedKept DEF IInv
  <2>12. QED
    BY <2>5, <2>6, <2>7, <2>8, <2>9, <2>10, <2>11 DEF IInv
<1>3. CASE ~w.stop /\ job[w.job].cancel
  BY <1>1, <1>3, ItemSettles DEF Check, Ended
<1>4. CASE ~w.stop /\ ~job[w.job].cancel
  <2>1. UNCHANGED <<job, item, rev, source, sync>> /\ (Goes("prepare") \/ Goes("fail"))
    BY <1>4 DEF Check
  <2>2. CASE Goes("fail")
    BY <1>1, <2>1, <2>2, ItemFails
  <2>3. CASE Goes("prepare")
    <3>1. w' \in Worker /\ w'.pc = "prepare" /\ w'.job = w.job /\ w'.item = w.item
      BY <2>3, GoesTyped DEF Steps
    <3>2. QED
      BY <1>1, <2>1, <3>1, AtItem, WorkerGoesOn DEF Before
  <2>4. QED
    BY <2>1, <2>2, <2>3
<1>5. QED
  BY <1>2, <1>3, <1>4

LEMMA UploadStep ==
  ASSUME IInv, Upload
  PROVE  IInv'
<1>1. w.pc = "upload" /\ w.pc \in ItemSteps /\ UNCHANGED <<rev, source, sync>>
  BY DEF Upload, ItemSteps, Holding, After
<1>2. CASE w.files < Files /\ job[w.job].cancel
  BY <1>1, <1>2, ItemSettles DEF Upload, Ended
<1>3. CASE ~(w.files < Files /\ job[w.job].cancel)
  <2>1. PICK pc \in {"send", "inspect"} : Goes(pc) /\ (pc = "send" => w.files < Files)
    BY <1>3 DEF Upload
  <2>2. UNCHANGED <<job, item, rev, source, sync>>
    BY <1>1, <1>3 DEF Upload
  <2>3. w' \in Worker /\ w'.pc = pc /\ w'.job = w.job /\ w'.item = w.item /\ w'.files = w.files
    BY <2>1, GoesTyped DEF Steps
  <2>4. QED
    BY <1>1, <2>1, <2>2, <2>3, AtItem, WorkerGoesOn
<1>4. QED
  BY <1>2, <1>3

LEMMA SendStep ==
  ASSUME IInv, Send
  PROVE  IInv'
<1>1. w.pc = "send" /\ w.pc \in ItemSteps /\ UNCHANGED <<job, item, rev, source, sync>>
  BY DEF Send, ItemSteps, Holding, After
<1>2. CASE w' = [w EXCEPT !.pc = "upload", !.files = @ + 1]
  <2>1. w \in Worker /\ w.files < Files /\ Files \in Nat
    BY <1>1, AtItem, ImportAssumption DEF IInv, AtStep
  <2>2. w.files + 1 \in 0 .. Files
    BY <2>1 DEF Worker
  <2>3. w' \in Worker /\ w'.pc = "upload" /\ w'.job = w.job /\ w'.item = w.item
    BY <1>2, <2>1, <2>2 DEF Worker, Steps
  <2>4. QED
    BY <1>1, <2>3, AtItem, WorkerGoesOn
<1>3. CASE Goes("fail")
  BY <1>1, <1>3, ItemFails
<1>4. QED
  BY <1>2, <1>3 DEF Send

\* The entries of a source, and the last of them.
LEMMA SourceEntries ==
  ASSUME Typed, NEW r \in Repos
  PROVE  /\ source[r] \in Seq([commit : Commits, rev : DOMAIN rev]) /\ Len(source[r]) \in Nat
         /\ source[r] # <<>> =>
              /\ Len(source[r]) \in 1 .. Len(source[r])
              /\ Last(source[r]) = source[r][Len(source[r])]
              /\ Last(source[r]) \in [commit : Commits, rev : DOMAIN rev]
<1>1. source[r] \in Seq([commit : Commits, rev : DOMAIN rev])
  BY DEF Typed, TypeOK
<1>2. Len(source[r]) \in Nat
  BY <1>1, LenProperties
<1>3. ASSUME source[r] # <<>>
      PROVE  /\ Len(source[r]) \in 1 .. Len(source[r])
             /\ source[r][Len(source[r])] \in [commit : Commits, rev : DOMAIN rev]
  <2>1. Len(source[r]) \in Nat \ {0}
    BY <1>1, <1>3, EmptySeq
  <2>2. Len(source[r]) \in 1 .. Len(source[r])
    BY <2>1
  <2>3. QED
    BY <1>1, <2>2, ElementOfSeq
<1>4. Last(source[r]) = source[r][Len(source[r])]
  BY DEF Last
<1>5. QED
  BY <1>1, <1>2, <1>3, <1>4

\* An entry appended to a list.
LEMMA Appended ==
  ASSUME NEW S, NEW s \in Seq(S), NEW e \in S
  PROVE  /\ Append(s, e) \in Seq(S) /\ Len(s) \in Nat /\ Len(Append(s, e)) = Len(s) + 1
         /\ \A n \in 1 .. Len(s) : Append(s, e)[n] = s[n]
         /\ Append(s, e)[Len(s) + 1] = e
BY AppendProperties, LenProperties

LEMMA SourcesWiden ==
  ASSUME Typed, NEW S, DOMAIN rev \subseteq S
  PROVE  source \in [Repos -> Seq([commit : Commits, rev : S])]
<1> DEFINE Old == [commit : Commits, rev : DOMAIN rev]
           New == [commit : Commits, rev : S]
<1>1. source \in [Repos -> Seq(Old)]
  BY DEF Typed, TypeOK
<1>2. Old \subseteq New
  OBVIOUS
<1> SUFFICES source \in [Repos -> Seq(New)]
  OBVIOUS
<1> HIDE DEF Old, New
<1>3. \A r \in Repos : source[r] \in Seq(New)
  BY <1>1, <1>2, SeqMonotonic
<1>4. QED
  BY <1>1, <1>3

LEMMA PrepareStep ==
  ASSUME IInv, Prepare
  PROVE  IInv'
<1> DEFINE i == w.item
<1>1. w.pc = "prepare" /\ w.pc \in ItemSteps /\ w.pc \in Before /\ UNCHANGED <<job, source, sync>>
  BY DEF Prepare, ItemSteps, Before
<1>2. /\ i \in DOMAIN item /\ i[1] = w.job /\ i \in ItemIds /\ i # None /\ i[2] \in Repos
      /\ item \in [DOMAIN item -> Item] /\ item[i] \in Item
      /\ rev \in [DOMAIN rev -> {"draft", "review", "published", "blocked"}]
      /\ w.job # None /\ w.job \in DOMAIN job /\ w.pc \notin Holding /\ w.pc # "close"
  BY <1>1, AtItem, NoneIsNew DEF IInv, Holding, After
<1>3. item[i].status = "downloading" /\ item[i].rev = None /\ job[w.job].status \in {"queued", "running"}
      /\ job[w.job].status # "queued"
  BY <1>1, <1>2, WorkerActive DEF IInv, AtStep, Destinations, Active
<1>4. i \notin DOMAIN rev
  BY <1>2, <1>3 DEF IInv, Destinations
<1>5. DOMAIN rev \subseteq DOMAIN item
  BY DEF IInv, Typed, TypeOK
<1>6. CASE Goes("fail") /\ UNCHANGED <<item, rev>>
  BY <1>1, <1>6, ItemFails
<1>7. ASSUME NEW r \in ItemIds, NEW s \in {"complete", "scanning"},
             item' = [item EXCEPT ![i].rev = r, ![i].status = s], w'.job = w.job
      PROVE  /\ DOMAIN item' = DOMAIN item /\ item' \in [DOMAIN item -> Item]
             /\ \A x \in DOMAIN item \ {i} : item'[x] = item[x]
             /\ item'[i].rev = r /\ item'[i].status = s /\ item'[i].commit = item[i].commit
             /\ OneJob' /\ Stranded'
  <2>1. /\ DOMAIN item' = DOMAIN item /\ item' \in [DOMAIN item -> Item]
        /\ \A x \in DOMAIN item \ {i} : item'[x] = item[x]
        /\ item'[i].rev = r /\ item'[i].status = s /\ item'[i].commit = item[i].commit
    BY <1>2, <1>7 DEF Item, Active
  <2>2. OneJob'
    BY <1>1 DEF IInv, OneJob, InProgress
  <2>3. \A x \in DOMAIN item \ {i} : x[1] = w.job /\ item[x].status \in Active =>
          job[x[1]].status \in {"queued", "running"}
    BY <1>2, WorkerActive
  <2>4. Stranded'
    BY <1>1, <1>2, <1>3, <1>7, <2>1, <2>3, StrandedKept DEF IInv
  <2>5. QED
    BY <2>1, <2>2, <2>4
<1>8. CASE /\ source[i[2]] # <<>> /\ Last(source[i[2]]).commit = item[i].commit
           /\ item' = [item EXCEPT ![i].rev = Last(source[i[2]]).rev, ![i].status = "complete"]
           /\ Goes("reuse") /\ UNCHANGED rev
  <2> DEFINE last == Last(source[i[2]])
  <2>1. /\ Len(source[i[2]]) \in 1 .. Len(source[i[2]]) /\ last = source[i[2]][Len(source[i[2]])]
        /\ last \in [commit : Commits, rev : DOMAIN rev]
    BY <1>2, <1>8, SourceEntries DEF IInv
  <2>2. last.rev \in ItemIds
    BY <1>5, <2>1, NoneIsNew DEF IInv
  <2>3. w' \in Worker /\ w'.pc = "reuse" /\ w'.job = w.job /\ w'.item = i
    BY <1>8, GoesTyped DEF Steps
  <2>4. /\ DOMAIN item' = DOMAIN item /\ item' \in [DOMAIN item -> Item]
        /\ \A x \in DOMAIN item \ {i} : item'[x] = item[x]
        /\ item'[i].rev = last.rev /\ item'[i].status = "complete"
        /\ item'[i].commit = item[i].commit
        /\ OneJob' /\ Stranded'
    BY <1>7, <1>8, <2>2, <2>3
  <2>5. Typed'
    BY <1>1, <1>8, <2>4, <2>3 DEF IInv, Typed, TypeOK, JobsInOrder
  <2>6. AtStep'
    BY <1>1, <1>2, <1>3, <2>4, <2>3 DEF AtStep, ItemSteps, Holding, Before, After
  <2>7. BegunKept'
    BY <1>1, <1>2, <2>4, <2>3 DEF IInv, BegunKept, Begun
  <2>8. Destinations'
    BY <1>4, <1>8, <2>4 DEF IInv, Destinations, Typed, TypeOK
  <2>9. CompleteIsRecorded'
    <3>1. last = [commit |-> item[i].commit, rev |-> last.rev]
      BY <1>8, <2>1
    <3>2. source'[i[2]] = source[i[2]]
      BY <1>1
    <3>3. RecordedAs(i)'
      BY <2>1, <2>4, <2>3, <3>1, <3>2 DEF RecordedAs
    <3>4. QED
      BY <1>1, <2>4, <2>3, <3>3, SourcesFrame, CompleteUpdate DEF IInv
  <2>10. QED
    BY <2>4, <2>5, <2>6, <2>7, <2>8, <2>9 DEF IInv
<1>9. CASE /\ item' = [item EXCEPT ![i].rev = i, ![i].status = "scanning"]
           /\ rev' = Put(rev, i, "draft") /\ Goes("upload")
  <2>1. w' \in Worker /\ w'.pc = "upload" /\ w'.job = w.job /\ w'.item = i
    BY <1>9, GoesTyped DEF Steps
  <2>2. /\ DOMAIN item' = DOMAIN item /\ item' \in [DOMAIN item -> Item]
        /\ \A x \in DOMAIN item \ {i} : item'[x] = item[x]
        /\ item'[i].rev = i /\ item'[i].status = "scanning"
        /\ item'[i].commit = item[i].commit
        /\ OneJob' /\ Stranded'
    BY <1>2, <1>7, <1>9, <2>1
  <2>3. /\ DOMAIN rev' = DOMAIN rev \cup {i} /\ rev'[i] = "draft"
        /\ rev' \in [DOMAIN rev' -> {"draft", "review", "published", "blocked"}]
    BY <1>2, <1>9 DEF Put
  <2>4. source \in [Repos -> Seq([commit : Commits, rev : DOMAIN rev'])]
    BY <2>3, SourcesWiden DEF IInv
  <2>5. Typed'
    BY <1>1, <1>2, <1>5, <2>2, <2>1, <2>3, <2>4 DEF IInv, Typed, TypeOK, JobsInOrder
  <2>6. AtStep'
    BY <1>1, <1>2, <1>3, <2>2, <2>1, <2>3 DEF AtStep, ItemSteps, Holding, Before, After
  <2>7. BegunKept'
    <3>1. \A x \in DOMAIN item : item[x].status = "scanning" => x[1] # w.job
      BY <1>2 DEF IInv, BegunKept, Begun
    <3>2. w'.pc \in Holding
      BY <2>1 DEF Holding, After
    <3>3. QED
      BY <1>1, <1>2, <1>3, <2>2, <2>1, <3>1, <3>2 DEF IInv, BegunKept, Begun
  <2>8. Destinations'
    BY <1>5, <2>2, <2>3 DEF IInv, Destinations
  <2>9. CompleteIsRecorded'
    BY <1>1, <2>2, SourcesFrame, CompleteUpdate DEF IInv
  <2>10. QED
    BY <2>2, <2>5, <2>6, <2>7, <2>8, <2>9 DEF IInv
<1>10. QED
  BY <1>6, <1>8, <1>9 DEF Prepare, LastImportIs

\* Steps that only decide about the revision of the worker's item.
LEMMA RevisionStep ==
  ASSUME IInv, w.pc \in ItemSteps, UNCHANGED <<job, item, source, sync>>,
         NEW r, NEW v \in {"draft", "review", "published", "blocked"}, rev' = [rev EXCEPT ![r] = v],
         w' \in Worker, w'.job = w.job, w'.item = w.item, AtStep', w'.pc \in Holding
  PROVE  IInv'
<1>1. DOMAIN rev' = DOMAIN rev /\ rev' \in [DOMAIN rev -> {"draft", "review", "published", "blocked"}]
  BY AtItem
<1>2. Typed'
  BY <1>1 DEF IInv, Typed, TypeOK, JobsInOrder
<1>3. BegunKept' /\ Destinations'
  BY <1>1 DEF IInv, BegunKept, Destinations
<1>4. OneJob' /\ CompleteIsRecorded'
  BY DEF IInv, OneJob, InProgress, CompleteIsRecorded
<1>5. Stranded'
  BY AtItem DEF IInv, Stranded, InProgress
<1>6. QED
  BY <1>2, <1>3, <1>4, <1>5 DEF IInv

LEMMA InspectStep ==
  ASSUME IInv, Inspect
  PROVE  IInv'
<1>1. w.pc = "inspect" /\ w.pc \in ItemSteps /\ UNCHANGED <<job, item, source, sync>>
  BY DEF Inspect, ItemSteps, Holding, After
<1>2. CASE rev' = [rev EXCEPT ![w.item] = "review"] /\ Goes("complete")
  <2>1. w' \in Worker /\ w'.pc = "complete" /\ w'.job = w.job /\ w'.item = w.item
    BY <1>2, GoesTyped DEF Steps
  <2>2. /\ item[w.item].status = "scanning" /\ item[w.item].rev = w.item /\ w.item \in DOMAIN rev
        /\ w.job # None /\ w.job \in DOMAIN job /\ job[w.job].status # "queued"
        /\ w.item \in DOMAIN item /\ w.item[1] = w.job
    BY <1>1, AtItem DEF IInv, AtStep, After
  <2>3. rev'[w.item] = "review" /\ DOMAIN rev' = DOMAIN rev
    BY <1>2, <2>2
  <2>4. AtStep'
    BY <1>1, <2>1, <2>2, <2>3 DEF AtStep, ItemSteps, Holding, Before, After
  <2>5. w'.pc \in Holding
    BY <2>1 DEF Holding, After
  <2>6. QED
    BY <1>1, <1>2, <2>1, <2>4, <2>5, RevisionStep
<1>3. CASE UNCHANGED rev /\ Goes("fail")
  BY <1>1, <1>3, ItemFails
<1>4. QED
  BY <1>2, <1>3 DEF Inspect

\* A source is recorded for the revision that was sealed.
LEMMA CompleteStep ==
  ASSUME IInv, Complete
  PROVE  IInv'
<1> DEFINE i == w.item
           entry == [commit |-> item[i].commit, rev |-> i]
<1>1. w.pc = "complete" /\ w.pc \in ItemSteps /\ UNCHANGED <<job, item, rev>>
  BY DEF Complete, ItemSteps, Holding, After
<1>2. CASE Goes("fail") /\ UNCHANGED <<source, sync>>
  BY <1>1, <1>2, ItemFails
<1>3. CASE /\ source' = [source EXCEPT ![i[2]] = Append(@, entry)]
           /\ sync' = [sync EXCEPT ![i[2]] = IF @ = None THEN None ELSE item[i].commit]
           /\ Goes("finish")
  <2>1. /\ item[i].status = "scanning" /\ item[i].rev = i /\ i \in DOMAIN rev /\ rev[i] = "review"
        /\ w.job # None /\ w.job \in DOMAIN job /\ job[w.job].status # "queued"
        /\ i \in DOMAIN item /\ i[1] = w.job /\ i[2] \in Repos /\ item[i] \in Item
    BY <1>1, AtItem, NoneIsNew DEF IInv, AtStep, After
  <2>2. w' \in Worker /\ w'.pc = "finish" /\ w'.job = w.job /\ w'.item = i
    BY <1>3, GoesTyped DEF Steps
  <2>3. entry \in [commit : Commits, rev : DOMAIN rev]
    BY <2>1 DEF Item
  <2>4. /\ Append(source[i[2]], entry) \in Seq([commit : Commits, rev : DOMAIN rev])
        /\ Len(Append(source[i[2]], entry)) = Len(source[i[2]]) + 1
        /\ Len(source[i[2]]) \in Nat
        /\ \A n \in 1 .. Len(source[i[2]]) : Append(source[i[2]], entry)[n] = source[i[2]][n]
        /\ Append(source[i[2]], entry)[Len(source[i[2]]) + 1] = entry
    <3> DEFINE E == [commit : Commits, rev : DOMAIN rev]
    <3>1. source[i[2]] \in Seq(E) /\ entry \in E
      BY <2>1, <2>3, SourceEntries DEF IInv
    <3> SUFFICES /\ Append(source[i[2]], entry) \in Seq(E)
                 /\ Len(Append(source[i[2]], entry)) = Len(source[i[2]]) + 1
                 /\ Len(source[i[2]]) \in Nat
                 /\ \A n \in 1 .. Len(source[i[2]]) : Append(source[i[2]], entry)[n] = source[i[2]][n]
                 /\ Append(source[i[2]], entry)[Len(source[i[2]]) + 1] = entry
      OBVIOUS
    <3> HIDE DEF E, entry
    <3>2. QED
      BY <3>1, Appended
  <2> HIDE DEF entry
  <2>5. /\ source' \in [Repos -> Seq([commit : Commits, rev : DOMAIN rev])]
        /\ source'[i[2]] = Append(source[i[2]], entry)
        /\ \A r \in Repos \ {i[2]} : source'[r] = source[r]
    BY <1>3, <2>1, <2>4 DEF IInv, Typed, TypeOK
  <2>6. sync' \in [Repos -> Commits \cup {None}]
    BY <1>3, <2>1 DEF IInv, Typed, TypeOK, Item
  <2>7. Typed'
    BY <1>1, <2>2, <2>5, <2>6 DEF IInv, Typed, TypeOK, JobsInOrder
  <2>8. SourcesKept
    <3>1. \A n \in 1 .. Len(source[i[2]]) : n \in 1 .. Len(source[i[2]]) + 1
      BY <2>4
    <3>2. QED
      BY <2>4, <2>5, <3>1 DEF SourcesKept
  <2>9. RecordedAs(i)'
    <3>1. Len(source[i[2]]) + 1 \in 1 .. Len(source'[i[2]])
      BY <2>4, <2>5
    <3>2. source'[i[2]][Len(source[i[2]]) + 1] = [commit |-> item[i].commit, rev |-> item[i].rev]
      BY <2>1, <2>4, <2>5 DEF entry
    <3>3. QED
      BY <1>1, <2>2, <3>1, <3>2 DEF RecordedAs
  <2>10. AtStep'
    BY <1>1, <2>1, <2>2, <2>9 DEF AtStep, ItemSteps, Holding, Before, After
  <2>11. BegunKept' /\ Destinations'
    BY <1>1, <2>2 DEF IInv, BegunKept, Destinations, Holding, After
  <2>12. OneJob'
    BY <1>1 DEF IInv, OneJob, InProgress
  <2>13. CompleteIsRecorded'
    BY <1>1, <2>8, CompleteUpdate DEF IInv
  <2>14. Stranded'
    BY <1>1, <2>2, AtItem DEF IInv, Stranded, InProgress
  <2>15. QED
    BY <2>7, <2>10, <2>11, <2>12, <2>13, <2>14 DEF IInv
<1>4. QED
  BY <1>1, <1>2, <1>3 DEF Complete

\* The runtime fails, or the policy service's verdict decides what the item
\* becomes.
LEMMA PublishStep ==
  ASSUME IInv, Publish
  PROVE  IInv'
<1>1. w.pc = "publish" /\ w.pc \in ItemSteps /\ UNCHANGED <<job, item, source, sync>>
  BY DEF Publish, ItemSteps, Holding, After
<1>2. CASE Goes("fail") /\ UNCHANGED rev
  BY <1>1, <1>2, ItemFails
<1>3. ASSUME NEW verdict \in {"published", "blocked"}, rev' = [rev EXCEPT ![w.item] = verdict],
             \/ w' = [w EXCEPT !.pc = "set",
                               !.to = IF verdict = "published" THEN "complete" ELSE "blocked"]
             \/ Goes("fail")
      PROVE  IInv'
  <2>1. /\ w.job # None /\ w.job \in DOMAIN job /\ job[w.job].status # "queued"
        /\ w.item \in DOMAIN item /\ w.item[1] = w.job /\ w \in Worker /\ RecordedAs(w.item)
    BY <1>1, AtItem DEF IInv, AtStep, After
  <2>2. w' \in Worker /\ w'.pc \in {"set", "fail"} /\ w'.job = w.job /\ w'.item = w.item
    <3>1. CASE w' = [w EXCEPT !.pc = "set", !.to = IF verdict = "published" THEN "complete" ELSE "blocked"]
      BY <2>1, <3>1 DEF Worker, Steps
    <3>2. CASE Goes("fail")
      BY <3>2, GoesTyped DEF Steps
    <3>3. QED
      BY <1>3, <3>1, <3>2
  <2>3. RecordedAs(w.item)'
    BY <1>1, <2>1, <2>2 DEF RecordedAs
  <2>4. AtStep'
    BY <1>1, <2>1, <2>2, <2>3 DEF AtStep, ItemSteps, Holding, Before, After
  <2>5. w'.pc \in Holding
    BY <2>2 DEF Holding
  <2>6. QED
    BY <1>1, <1>3, <2>2, <2>4, <2>5, RevisionStep
<1>4. QED
  BY <1>2, <1>3 DEF Publish

\* What the worker set the item to is what it knows of it.
LEMMA OutcomeStep ==
  ASSUME IInv, SetOutcome
  PROVE  IInv'
<1>1. /\ w.pc = "set" /\ w.pc \in ItemSteps /\ SetItem(w.item, w.to) /\ UNCHANGED <<rev, source, sync>>
      /\ Done
  BY DEF SetOutcome, ItemSteps, Holding
<1>2. w.to \in Ended /\ (w.to = "complete" => RecordedAs(w.item))
  BY <1>1, AtItem DEF IInv, AtStep, Worker, Ended
<1>3. QED
  BY <1>1, <1>2, ItemSettles

\* A browser import becomes a draft in the workspace.
LEMMA FinishStep ==
  ASSUME IInv, Finish
  PROVE  IInv'
<1>1. w.pc = "finish" /\ w.pc \in ItemSteps /\ UNCHANGED <<source, sync>>
  BY DEF Finish, ItemSteps, Holding, After
<1>2. CASE job[w.job].finish
  <2>1. Reopen(w.item) /\ SetItem(w.item, "complete") /\ Done
    BY <1>2 DEF Finish
  <2>2. w' \in Worker /\ w'.pc = "next" /\ w'.job = w.job
    BY <2>1, DoneTyped
  <2>3. DOMAIN rev' = DOMAIN rev /\ rev' \in [DOMAIN rev -> {"draft", "review", "published", "blocked"}]
    BY <1>1, <2>1, AtItem DEF Reopen
  <2>4. RecordedAs(w.item)
    BY <1>1 DEF IInv, AtStep
  <2>5. QED
    BY <1>1, <2>1, <2>2, <2>3, <2>4, AtItem, SettledItem DEF Ended
<1>3. CASE ~job[w.job].finish
  <2>1. Goes("publish") /\ UNCHANGED <<rev, item, job>>
    BY <1>3 DEF Finish
  <2>2. w' \in Worker /\ w'.pc = "publish" /\ w'.job = w.job /\ w'.item = w.item
    BY <2>1, GoesTyped DEF Steps
  <2>3. QED
    BY <1>1, <2>1, <2>2, AtItem, WorkerGoesOn
<1>4. QED
  BY <1>2, <1>3

\* An item that was imported before ends with its job refreshed.
LEMMA ReuseStep ==
  ASSUME IInv, Reuse
  PROVE  IInv'
<1>1. w.pc = "reuse" /\ w.pc \in ItemSteps /\ w.pc \notin Holding /\ UNCHANGED <<item, source, sync>>
  BY DEF Reuse, ItemSteps, Holding, After
<1>2. CASE Goes("fail") /\ UNCHANGED <<rev, job>>
  BY <1>1, <1>2, ItemFails
<1>3. CASE /\ rev' = [rev EXCEPT ![item[w.item].rev] = "draft"] \/ rev' = rev
           /\ job' = Refreshed(w.job, item) /\ Done
  <2>1. w' \in Worker /\ w'.pc = "next" /\ w'.job = w.job
    BY <1>3, DoneTyped
  <2>2. /\ DOMAIN rev' = DOMAIN rev
        /\ rev' \in [DOMAIN rev -> {"draft", "review", "published", "blocked"}]
    BY <1>1, <1>3, AtItem
  <2>3. w.job # None /\ w.job \in DOMAIN job /\ w.pc # "close"
    BY <1>1, AtItem
  <2>4. /\ job' \in [DOMAIN job -> Job] /\ job'[w.job].status = Summary(w.job, item)
        /\ \A k \in DOMAIN job \ {w.job} : job'[k] = job[k]
    BY <1>3, <2>3, RefreshedJob DEF IInv
  <2>5. /\ job'[w.job].status \in {"running", "failed", "cancelled", "complete"}
        /\ job'[w.job].status = "running" <=>
             \E x \in DOMAIN item : x[1] = w.job /\ item[x].status \in Active
    BY <2>4, SummaryRuns DEF ItemsOf
  <2>6. Typed'
    BY <1>1, <2>1, <2>2, <2>4 DEF IInv, Typed, TypeOK, JobsInOrder
  <2>7. \A x \in DOMAIN item : x[1] \in DOMAIN job
    BY NoneIsNew DEF IInv
  <2>8. BegunKept'
    <3>1. \A x \in DOMAIN item : item[x].status = "scanning" => x[1] # w.job
      BY <1>1 DEF IInv, BegunKept, Begun
    <3>2. QED
      BY <1>1, <2>1, <2>4, <2>5, <2>7, <3>1 DEF IInv, BegunKept
  <2>9. AtStep'
    BY <2>1, <2>3, <2>4, <2>5 DEF AtStep, ItemSteps, Holding, Before, After
  <2>10. Destinations'
    BY <1>1, <2>2 DEF IInv, Destinations
  <2>11. OneJob'
    <3>1. job'[w.job].status = "running" => job[w.job].status \in {"queued", "running"}
      BY <2>3, <2>5, WorkerActive
    <3>2. QED
      BY <2>4, <2>5, <3>1, OneJobKept DEF IInv
  <2>12. Stranded'
    BY <1>1, <2>1, <2>4, <2>5, <2>7, StrandedKept DEF IInv
  <2>13. CompleteIsRecorded'
    BY <1>1 DEF IInv, CompleteIsRecorded
  <2>14. QED
    BY <2>6, <2>8, <2>9, <2>10, <2>11, <2>12, <2>13 DEF IInv
<1>4. QED
  BY <1>2, <1>3 DEF Reuse, Reopen

-----------------------------------------------------------------------------
(***************************************************************************)
(* What members, the clock and the worker's loop do to jobs.               *)
(***************************************************************************)
\* The items of more jobs.
LEMMA ProductGrows ==
  ASSUME NEW A, NEW B, NEW R, NEW X, A \subseteq B, X \subseteq A \X R
  PROVE  X \subseteq B \X R
<1>1. A \X R \subseteq B \X R
  OBVIOUS
<1>2. QED
  BY <1>1

\* A job is queued only when none is in progress.
LEMMA CreateStep ==
  ASSUME IInv, NEW j \in Jobs, NEW origin \in {"web", "sync"}, NEW finish \in BOOLEAN,
         NEW sel \in SUBSET Repos, NEW read \in [sel -> Commits],
         CreateJob(j, origin, finish, read), UNCHANGED <<rev, source, w, sync>>
  PROVE  IInv'
<1>1. CASE UNCHANGED <<job, item>>
  <2>1. w' \in Worker /\ AtStep' /\ BegunKept' /\ Stranded'
    BY <1>1 DEF IInv, Typed, TypeOK, AtStep, BegunKept, RecordedAs, Stranded, InProgress
  <2>2. QED
    BY <1>1, <2>1, OnlyWorker
<1>2. CASE ~UNCHANGED <<job, item>>
  <2> DEFINE new == [status |-> "queued", origin |-> origin, finish |-> finish,
                     cancel |-> FALSE, stale |-> FALSE, tries |-> 0]
  <2>1. /\ \A k \in DOMAIN job : ~InProgress(k) /\ job[k].status \notin {"queued", "running"}
        /\ j = Cardinality(DOMAIN job) + 1
        /\ job' = Put(job, j, new)
        /\ item' = [i \in DOMAIN item \cup ({j} \X sel) |->
                      IF i[1] = j THEN [status |-> "queued", commit |-> read[i[2]], rev |-> None]
                      ELSE item[i]]
    BY <1>2 DEF CreateJob, InProgress
  <2>2. PICK n \in 0 .. MaxJobs - 1 : DOMAIN job = 1 .. n /\ j = n + 1
    <3>1. PICK n \in 0 .. MaxJobs : DOMAIN job = 1 .. n
      BY DEF IInv, Typed, JobsInOrder
    <3>2. Cardinality(DOMAIN job) = n
      BY <3>1, FS_Interval, ImportAssumption
    <3>3. QED
      BY <2>1, <3>1, <3>2, ImportAssumption DEF Jobs
  <2>3. /\ DOMAIN job' = 1 .. n + 1 /\ job'[j] = new
        /\ \A k \in DOMAIN job : k # j /\ job'[k] = job[k]
        /\ job' \in [DOMAIN job' -> Job]
    <3>1. new \in Job
      BY ImportAssumption DEF Job
    <3> HIDE DEF new
    <3>2. DOMAIN job \cup {j} = 1 .. n + 1 /\ \A k \in DOMAIN job : k # j
      BY <2>2
    <3>3. job' = [k \in 1 .. n + 1 |-> IF k = j THEN new ELSE job[k]]
      BY <2>1, <3>2 DEF Put
    <3>4. \A k \in 1 .. n + 1 : k # j => k \in DOMAIN job
      BY <2>2
    <3>5. job \in [DOMAIN job -> Job]
      BY DEF IInv, Typed, TypeOK
    <3>6. QED
      BY <2>2, <3>1, <3>2, <3>3, <3>4, <3>5
  <2>4. \A i \in DOMAIN item : i \in DOMAIN item' /\ i[1] # j /\ item'[i] = item[i]
    <3>1. \A i \in DOMAIN item : i[1] # j
      BY <2>3, NoneIsNew DEF IInv
    <3>2. QED
      BY <2>1, <3>1
  <2>5. \A i \in DOMAIN item' \ DOMAIN item :
          /\ i[1] = j /\ i[2] \in sel
          /\ item'[i] = [status |-> "queued", commit |-> read[i[2]], rev |-> None]
    BY <2>1
  <2>6. /\ DOMAIN item' \subseteq (DOMAIN job') \X Repos
        /\ item' \in [DOMAIN item' -> Item]
    <3>1. /\ DOMAIN item \subseteq (DOMAIN job) \X Repos /\ item \in [DOMAIN item -> Item]
          /\ DOMAIN job \subseteq DOMAIN job' /\ j \in DOMAIN job'
      BY <2>2, <2>3 DEF IInv, Typed, TypeOK
    <3>2. DOMAIN item' \subseteq (DOMAIN job') \X Repos
      <4>1. DOMAIN item' = DOMAIN item \cup ({j} \X sel)
        BY <2>1
      <4>2. {j} \X sel \subseteq (DOMAIN job') \X Repos
        BY <3>1
      <4>3. (DOMAIN item) \subseteq (DOMAIN job') \X Repos
        BY <3>1, ProductGrows
      <4> HIDE DEF new
      <4>4. QED
        BY <4>1, <4>2, <4>3
    <3>3. ASSUME NEW i \in DOMAIN item' PROVE item'[i] \in Item
      <4>1. CASE i \in DOMAIN item
        BY <2>4, <3>1, <4>1
      <4>2. CASE i \notin DOMAIN item
        <5>1. read[i[2]] \in Commits /\ "queued" \in Active
          BY <2>5, <4>2 DEF Active
        <5>2. QED
          BY <2>5, <4>2, <5>1 DEF Item
      <4>3. QED
        BY <4>1, <4>2
    <3>4. item' = [i \in DOMAIN item' |-> item'[i]]
      BY <2>1
    <3>5. QED
      BY <3>2, <3>3, <3>4
  <2>7. Typed'
    <3>1. DOMAIN job' \subseteq Jobs /\ JobsInOrder'
      <4>1. n + 1 \in 0 .. MaxJobs
        BY <2>2, ImportAssumption
      <4>2. QED
        BY <2>3, <4>1, ImportAssumption DEF Jobs, JobsInOrder
    <3>2. TypeOK /\ DOMAIN rev \subseteq DOMAIN item'
      BY <2>4 DEF IInv, Typed, TypeOK
    <3>3. TypeOK'
      <4>1. /\ rev' \in [DOMAIN rev' -> {"draft", "review", "published", "blocked"}]
            /\ source' \in [Repos -> Seq([commit : Commits, rev : DOMAIN rev'])]
            /\ sync' \in [Repos -> Commits \cup {None}]
            /\ w' \in Worker
        BY <3>2 DEF TypeOK
      <4>2. DOMAIN rev' \subseteq DOMAIN item'
        BY <3>2
      <4>3. DOMAIN job' \subseteq Jobs /\ job' \in [DOMAIN job' -> Job]
        BY <2>3, <3>1
      <4> HIDE DEF new
      <4>4. QED
        BY <2>6, <4>1, <4>2, <4>3, Zenon DEF TypeOK
    <3>4. QED
      BY <3>1, <3>3 DEF Typed
  <2>8. AtStep'
    <3>1. /\ w.pc \in {"finish", "publish"} => RecordedAs(w.item)'
          /\ w.pc = "set" /\ w.to = "complete" => RecordedAs(w.item)'
      BY <2>4 DEF IInv, AtStep, RecordedAs, ItemSteps, Holding, After
    <3>2. w.job # None => w.job \in DOMAIN job' /\ job'[w.job] = job[w.job]
      BY <2>2, <2>3 DEF IInv, AtStep
    <3>3. w.pc \in ItemSteps => w.item \in DOMAIN item' /\ item'[w.item] = item[w.item]
      BY <2>4 DEF IInv, AtStep
    <3>4. QED
      BY <3>1, <3>2, <3>3 DEF IInv, AtStep, ItemSteps, Holding
  <2>9. BegunKept'
    <3>1. \A i \in DOMAIN item' : item'[i].status \in Begun =>
            i \in DOMAIN item /\ item'[i] = item[i] /\ i[1] \in DOMAIN job /\ job'[i[1]] = job[i[1]]
      BY <2>3, <2>4, <2>5, NoneIsNew DEF Begun, IInv
    <3>2. QED
      BY <3>1 DEF IInv, BegunKept
  <2>10. Destinations'
    <3>1. DOMAIN rev \subseteq DOMAIN item
      BY DEF IInv, Typed, TypeOK
    <3>2. QED
      BY <2>4, <2>5, <3>1 DEF IInv, Destinations
  <2>11. CompleteIsRecorded'
    <3>1. \A i \in DOMAIN item' : item'[i].status = "complete" => i \in DOMAIN item /\ item'[i] = item[i]
      BY <2>4, <2>5
    <3>2. QED
      BY <3>1, SourcesFrame, CompleteUpdate DEF IInv
  <2>12. OneJob'
    <3>1. \A k \in DOMAIN job' : k \in DOMAIN job \/ k = j
      BY <2>2, <2>3
    <3>2. \A k \in DOMAIN job : job'[k].status \notin {"queued", "running"}
      BY <2>1, <2>3
    <3>3. \A k \in DOMAIN job' : InProgress(k)' => k = j
      BY <3>1, <3>2 DEF InProgress
    <3>4. QED
      BY <3>3 DEF OneJob
  <2>13. Stranded'
    <3>1. \A i \in DOMAIN item' \ DOMAIN item : InProgress(i[1])'
      BY <2>2, <2>3, <2>5 DEF InProgress
    <3>2. \A i \in DOMAIN item : i[1] \in DOMAIN job /\ job'[i[1]] = job[i[1]] /\ ~InProgress(i[1])
      BY <2>1, <2>3, NoneIsNew DEF IInv
    <3>3. QED
      BY <2>4, <3>1, <3>2 DEF IInv, Stranded
  <2>14. QED
    BY <2>7, <2>8, <2>9, <2>10, <2>11, <2>12, <2>13 DEF IInv
<1>3. QED
  BY <1>1, <1>2

\* A cancellation ends the items that wait; the one that is worked on goes on.
LEMMA CancelStep ==
  ASSUME IInv, NEW j \in Jobs, RequestCancel(j)
  PROVE  IInv'
<1>1. /\ j \in DOMAIN job /\ item' = EndQueued(j, "cancelled") /\ UNCHANGED <<rev, source, w, sync>>
      /\ job[j].status \in {"queued", "running"}
      /\ job' = [Refreshed(j, item') EXCEPT ![j].cancel = TRUE]
  BY DEF RequestCancel, InProgress
<1>2. /\ DOMAIN item' = DOMAIN item /\ item' \in [DOMAIN item -> Item]
      /\ \A i \in DOMAIN item :
           /\ item'[i].commit = item[i].commit /\ item'[i].rev = item[i].rev
           /\ item[i].status # "queued" \/ i[1] # j => item'[i] = item[i]
           /\ item[i].status = "queued" /\ i[1] = j => item'[i].status = "cancelled"
      /\ CompleteIsRecorded' /\ Destinations'
  BY <1>1, EndedQueue DEF Ended
<1>3. /\ job' \in [DOMAIN job -> Job]
      /\ job'[j].status = Summary(j, item')
      /\ \A k \in DOMAIN job \ {j} : job'[k] = job[k]
  <2>1. /\ Refreshed(j, item') \in [DOMAIN job -> Job]
        /\ Refreshed(j, item')[j].status = Summary(j, item')
        /\ \A k \in DOMAIN job \ {j} : Refreshed(j, item')[k] = job[k]
    BY <1>1, RefreshedJob DEF IInv
  <2> DEFINE R == Refreshed(j, item')
  <2>2. job' = [R EXCEPT ![j].cancel = TRUE]
    BY <1>1
  <2> HIDE DEF R
  <2>3. R \in [DOMAIN job -> Job] /\ R[j].status = Summary(j, item') /\ \A k \in DOMAIN job \ {j} : R[k] = job[k]
    BY <2>1 DEF R
  <2>4. [R[j] EXCEPT !.cancel = TRUE] \in Job /\ [R[j] EXCEPT !.cancel = TRUE].status = R[j].status
    BY <1>1, <2>3 DEF Job
  <2>5. job' = [R EXCEPT ![j] = [R[j] EXCEPT !.cancel = TRUE]]
    BY <2>2
  <2>6. QED
    BY <1>1, <2>3, <2>4, <2>5
<1>4. /\ job'[j].status \in {"running", "failed", "cancelled", "complete"}
      /\ job'[j].status = "running" <=> \E i \in DOMAIN item : i[1] = j /\ item'[i].status \in Active
  BY <1>2, <1>3, SummaryRuns DEF ItemsOf
<1>5. Typed'
  BY <1>1, <1>2, <1>3 DEF IInv, Typed, TypeOK, JobsInOrder
<1>6. \A i \in DOMAIN item : item'[i].status \in Active => item'[i] = item[i]
  BY <1>2 DEF Active
<1>7. OneJob' /\ Stranded'
  <2>1. OneJob'
    BY <1>1, <1>3, <1>4, OneJobKept DEF IInv
  <2>2. Stranded'
    BY <1>1, <1>2, <1>3, <1>4, <1>6, NoneIsNew, StrandedKept DEF IInv
  <2>3. QED
    BY <2>1, <2>2
<1>8. \A k \in DOMAIN job : job[k].status # "queued" => job'[k].status # "queued"
  BY <1>3, <1>4
<1>9. BegunKept'
  <2>1. \A i \in DOMAIN item : item'[i].status \in Begun => item'[i] = item[i] /\ i[1] \in DOMAIN job
    BY <1>6, NoneIsNew DEF Begun, Active, IInv
  <2>2. QED
    BY <1>1, <1>2, <1>8, <2>1 DEF IInv, BegunKept
<1>10. AtStep'
  <2>1. w.pc \in Before \cup After \cup {"reuse"} => item'[w.item] = item[w.item]
    BY <1>2 DEF IInv, AtStep, ItemSteps, Holding
  <2>2. /\ w.pc \in {"finish", "publish"} => RecordedAs(w.item)'
        /\ w.pc = "set" /\ w.to = "complete" => RecordedAs(w.item)'
    BY <1>1, <1>2 DEF IInv, AtStep, RecordedAs, ItemSteps, Holding, After
  <2>3. QED
    BY <1>1, <1>2, <1>3, <1>8, <2>1, <2>2 DEF IInv, AtStep
<1>11. QED
  BY <1>2, <1>5, <1>7, <1>9, <1>10 DEF IInv

\* Recovery puts back or fails the items that were worked on.
LEMMA RecoveredItems ==
  ASSUME Typed, NEW j \in Jobs, Recover(j)
  PROVE  /\ DOMAIN item' = DOMAIN item /\ item' \in [DOMAIN item -> Item]
         /\ \A i \in DOMAIN item :
              /\ item'[i].commit = item[i].commit /\ item'[i].rev = item[i].rev
              /\ i[1] # j \/ item[i].status \notin Active => item'[i] = item[i]
              /\ i[1] = j /\ item[i].status \in Active => item'[i].status \in {"queued", "failed"}
              /\ item'[i].status = "queued" => item[i].status = "queued" \/ item[i].rev = None
<1> DEFINE items == Recovered(j)
           spent == [i \in DOMAIN items |-> IF i[1] = j /\ items[i].status = "queued"
                                            THEN [items[i] EXCEPT !.status = "failed"] ELSE items[i]]
           waits == \E i \in ItemsOf(j, items) : items[i].status = "queued"
<1>1. item' = spent \/ item' = items
  BY DEF Recover
<1>2. item \in [DOMAIN item -> Item]
  BY DEF Typed, TypeOK
<1>3. /\ DOMAIN items = DOMAIN item
      /\ \A i \in DOMAIN item :
           /\ items[i] \in Item /\ items[i].commit = item[i].commit /\ items[i].rev = item[i].rev
           /\ i[1] # j \/ item[i].status \notin Active => items[i] = item[i]
           /\ i[1] = j /\ item[i].status \in Active => items[i].status \in {"queued", "failed"}
           /\ items[i].status = "queued" => item[i].status = "queued" \/ item[i].rev = None
  BY <1>2 DEF Recovered, Item, Active
<1>4. /\ DOMAIN spent = DOMAIN item
      /\ \A i \in DOMAIN item :
           /\ spent[i] \in Item /\ spent[i].commit = item[i].commit /\ spent[i].rev = item[i].rev
           /\ i[1] # j \/ item[i].status \notin Active => spent[i] = item[i]
           /\ i[1] = j /\ item[i].status \in Active => spent[i].status = "failed"
  <2> HIDE DEF items
  <2>1. DOMAIN spent = DOMAIN item
    BY <1>3
  <2>2. \A i \in DOMAIN item : spent[i] = IF i[1] = j /\ items[i].status = "queued"
                                         THEN [items[i] EXCEPT !.status = "failed"] ELSE items[i]
    BY <1>3
  <2> HIDE DEF spent
  <2>3. QED
    BY <1>2, <1>3, <2>1, <2>2 DEF Item, Active
<1>5. /\ DOMAIN item' = DOMAIN item /\ item' \in [DOMAIN item -> Item]
      /\ \A i \in DOMAIN item :
           /\ item'[i].commit = item[i].commit /\ item'[i].rev = item[i].rev
           /\ i[1] # j \/ item[i].status \notin Active => item'[i] = item[i]
           /\ i[1] = j /\ item[i].status \in Active => item'[i].status \in {"queued", "failed"}
           /\ item'[i].status = "queued" => item[i].status = "queued" \/ item[i].rev = None
  <2>1. CASE item' = items
    <3>1. items = [i \in DOMAIN item |-> items[i]]
      BY DEF Recovered
    <3> HIDE DEF items
    <3>2. QED
      BY <1>3, <2>1, <3>1
  <2>2. CASE item' = spent
    <3>1. spent = [i \in DOMAIN item |-> spent[i]]
      BY DEF Recovered
    <3>2. \A i \in DOMAIN item : i[1] = j /\ item[i].status = "queued" => spent[i].status = "failed"
      BY <1>4 DEF Active
    <3> HIDE DEF items, spent
    <3>3. QED
      BY <1>4, <2>2, <3>1, <3>2
  <2>3. QED
    BY <1>1, <2>1, <2>2
<1>6. QED
  BY <1>5

\* Recovery leaves no item of the job begun, and the worker has none then.
LEMMA RecoverStep ==
  ASSUME IInv, NEW j \in Jobs, Recover(j)
  PROVE  IInv'
<1> DEFINE items == Recovered(j)
           spent == [i \in DOMAIN items |-> IF i[1] = j /\ items[i].status = "queued"
                                            THEN [items[i] EXCEPT !.status = "failed"] ELSE items[i]]
           waits == \E i \in ItemsOf(j, items) : items[i].status = "queued"
<1>1. /\ w.pc = "poll" /\ j \in DOMAIN job /\ job[j].status = "running" /\ UNCHANGED <<rev, source, w, sync>>
      /\ \/ item' = spent /\ job' = Refreshed(j, spent)
         \/ /\ item' = items
            /\ MayRetry(j)
            /\ job' = IF waits
                      THEN [Refreshed(j, items) EXCEPT ![j].status = "queued", ![j].tries = @ + 1]
                      ELSE Refreshed(j, items)
  BY DEF Recover
<1>2. w.job = None
  BY <1>1 DEF IInv, AtStep
<1>3. /\ DOMAIN item' = DOMAIN item /\ item' \in [DOMAIN item -> Item]
      /\ \A i \in DOMAIN item :
           /\ item'[i].commit = item[i].commit /\ item'[i].rev = item[i].rev
           /\ i[1] # j \/ item[i].status \notin Active => item'[i] = item[i]
           /\ i[1] = j /\ item[i].status \in Active => item'[i].status \in {"queued", "failed"}
           /\ item'[i].status = "queued" => item[i].status = "queued" \/ item[i].rev = None
  BY RecoveredItems DEF IInv
<1>4. /\ job' \in [DOMAIN job -> Job]
      /\ \A k \in DOMAIN job \ {j} : job'[k] = job[k]
      /\ (\E i \in DOMAIN item : i[1] = j /\ item'[i].status \in Active) => job'[j].status \in {"queued", "running"}
  <2> HIDE DEF items, spent
  <2>1. \A its : /\ Refreshed(j, its) \in [DOMAIN job -> Job]
                 /\ Refreshed(j, its)[j].status = Summary(j, its)
                 /\ Refreshed(j, its)[j].tries = job[j].tries
                 /\ \A k \in DOMAIN job \ {j} : Refreshed(j, its)[k] = job[k]
    BY <1>1, RefreshedJob DEF IInv
  <2>2. job' = Refreshed(j, item') =>
          ((\E i \in DOMAIN item : i[1] = j /\ item'[i].status \in Active) => job'[j].status = "running")
    BY <1>3, <2>1, SummaryRuns DEF ItemsOf
  <2>3. CASE job' = Refreshed(j, item')
    BY <2>1, <2>2, <2>3
  <2>4. CASE job' = [Refreshed(j, items) EXCEPT ![j].status = "queued", ![j].tries = @ + 1] /\ MayRetry(j)
    <3> DEFINE R == Refreshed(j, items)
    <3>1. R \in [DOMAIN job -> Job] /\ R[j].tries = job[j].tries /\ \A k \in DOMAIN job \ {j} : R[k] = job[k]
      BY <2>1
    <3> HIDE DEF R
    <3>2. job' = [R EXCEPT ![j].status = "queued", ![j].tries = @ + 1]
      BY <2>4 DEF R
    <3>3. R[j].tries + 1 \in 0 .. RetryLimit
      <4>1. R[j].tries \in 0 .. RetryLimit /\ RetryLimit \in Nat
        BY <1>1, <3>1, ImportAssumption DEF Job
      <4>2. R[j].tries < RetryLimit
        BY <2>4, <3>1 DEF MayRetry
      <4>3. QED
        BY <4>1, <4>2
    <3>4. QED
      BY <1>1, <3>1, <3>2, <3>3 DEF Job
  <2>5. QED
    BY <1>1, <2>3, <2>4
<1> HIDE DEF items, spent, waits
<1>5. Typed'
  BY <1>1, <1>3, <1>4 DEF IInv, Typed, TypeOK, JobsInOrder
<1>6. AtStep'
  BY <1>1, <1>2 DEF AtStep, ItemSteps, Holding, Before, After
<1>7. BegunKept'
  <2>1. \A i \in DOMAIN item : item'[i].status \in Begun =>
          i[1] # j /\ item'[i] = item[i] /\ i[1] \in DOMAIN job /\ i[1] # None
    BY <1>3, NoneIsNew DEF Begun, Active, IInv
  <2>2. QED
    BY <1>1, <1>2, <1>3, <1>4, <2>1 DEF IInv, BegunKept
<1>8. Destinations'
  <2>1. DOMAIN rev \subseteq DOMAIN item
    BY DEF IInv, Typed, TypeOK
  <2>2. \A i \in DOMAIN item : item'[i].status = "downloading" => item'[i] = item[i]
    BY <1>3 DEF Active
  <2>3. \A i \in DOMAIN item : item'[i].status \in {"queued", "downloading"} => item'[i].rev = None
    BY <1>3, <2>2 DEF IInv, Destinations
  <2>4. QED
    BY <1>1, <1>3, <2>1, <2>3 DEF IInv, Destinations
<1>9. CompleteIsRecorded'
  <2>1. \A i \in DOMAIN item : item'[i].status = "complete" => item'[i] = item[i]
    BY <1>3
  <2>2. QED
    BY <1>1, <1>3, <2>1, SourcesFrame, CompleteUpdate DEF IInv
<1>10. OneJob' /\ Stranded'
  <2>1. OneJob'
    BY <1>1, <1>4, OneJobKept DEF IInv
  <2>2. Stranded'
    BY <1>1, <1>3, <1>4, NoneIsNew, StrandedKept DEF IInv
  <2>3. QED
    BY <2>1, <2>2
<1>11. QED
  BY <1>5, <1>6, <1>7, <1>8, <1>9, <1>10 DEF IInv

\* The worker claims a job that waits, so none of its items was begun.
LEMMA ClaimStep ==
  ASSUME IInv, NEW j \in Jobs, ClaimJob(j)
  PROVE  IInv'
<1>1. /\ w.pc = "poll" /\ j \in DOMAIN job /\ job[j].status = "queued" /\ UNCHANGED <<item, rev, source, sync>>
      /\ job' = [job EXCEPT ![j].status = "running", ![j].stale = FALSE]
      /\ w' = [w EXCEPT !.pc = "open", !.job = j]
  BY DEF ClaimJob
<1>2. /\ job' \in [DOMAIN job -> Job] /\ job'[j].status = "running"
      /\ \A k \in DOMAIN job \ {j} : job'[k] = job[k]
  BY <1>1 DEF IInv, Typed, TypeOK, Job
<1>3. w' \in Worker /\ w'.pc = "open" /\ w'.job = j
  BY <1>1 DEF IInv, Typed, TypeOK, Worker, Steps
<1>4. Typed' /\ Destinations'
  BY <1>1, <1>2, <1>3 DEF IInv, Typed, TypeOK, JobsInOrder, Destinations
<1>5. CompleteIsRecorded'
  BY <1>1 DEF IInv, CompleteIsRecorded
<1>6. \A i \in DOMAIN item : item[i].status \in Begun => i[1] # j /\ job'[i[1]] = job[i[1]]
  BY <1>1, <1>2, NoneIsNew DEF IInv, BegunKept
<1>7. BegunKept'
  BY <1>1, <1>3, <1>6 DEF IInv, BegunKept
<1>8. AtStep'
  BY <1>1, <1>2, <1>3, NoneIsNew DEF IInv, AtStep, ItemSteps, Holding, Before, After
<1>9. OneJob' /\ Stranded'
  <2>1. OneJob'
    BY <1>1, <1>2, OneJobKept DEF IInv
  <2>2. Stranded'
    BY <1>1, <1>2, <1>3, NoneIsNew, StrandedKept DEF IInv
  <2>3. QED
    BY <2>1, <2>2
<1>10. QED
  BY <1>4, <1>5, <1>7, <1>8, <1>9 DEF IInv

\* A missing heartbeat changes no status.
LEMMA StaleStep ==
  ASSUME IInv, NEW j \in Jobs, Stale(j)
  PROVE  IInv'
<1>1. j \in DOMAIN job /\ UNCHANGED <<item, rev, source, w, sync>> /\ job' = [job EXCEPT ![j].stale = TRUE]
  BY DEF Stale
<1>2. /\ job' \in [DOMAIN job -> Job]
      /\ \A k \in DOMAIN job : job'[k].status = job[k].status /\ job'[k].cancel = job[k].cancel
  BY <1>1 DEF IInv, Typed, TypeOK, Job
<1>3. Typed' /\ Destinations'
  BY <1>1, <1>2 DEF IInv, Typed, TypeOK, JobsInOrder, Destinations
<1>4. CompleteIsRecorded'
  BY <1>1 DEF IInv, CompleteIsRecorded
<1>5. BegunKept'
  BY <1>1, <1>2, NoneIsNew DEF IInv, BegunKept
<1>6. AtStep'
  BY <1>1, <1>2 DEF IInv, AtStep, RecordedAs
<1>7. OneJob' /\ Stranded'
  <2>1. OneJob'
    BY <1>1, <1>2, OneJobKept DEF IInv
  <2>2. Stranded'
    BY <1>1, <1>2, NoneIsNew, StrandedKept DEF IInv
  <2>3. QED
    BY <2>1, <2>2
<1>8. QED
  BY <1>3, <1>4, <1>5, <1>6, <1>7 DEF IInv

\* A subscription remembers a commit, and nothing else reads it here.
LEMMA SyncStep ==
  ASSUME IInv, NEW r \in Repos, SetSync(r)
  PROVE  IInv'
<1>1. /\ UNCHANGED <<job, item, rev, source, w>> /\ source[r] # <<>>
      /\ sync' = [sync EXCEPT ![r] = IF sync[r] = None THEN Last(source[r]).commit ELSE None]
  BY DEF SetSync
<1>2. Last(source[r]).commit \in Commits
  <2> DEFINE E == [commit : Commits, rev : DOMAIN rev]
  <2>1. source[r] \in Seq(E)
    BY DEF IInv, Typed, TypeOK
  <2> HIDE DEF E
  <2>2. Len(source[r]) \in 1 .. Len(source[r]) /\ Last(source[r]) = source[r][Len(source[r])]
    BY <1>1, <2>1, EmptySeq DEF Last
  <2>3. Last(source[r]) \in E
    BY <2>1, <2>2, ElementOfSeq
  <2>4. QED
    BY <2>3 DEF E
<1>3. sync' \in [Repos -> Commits \cup {None}]
  BY <1>1, <1>2 DEF IInv, Typed, TypeOK
<1>4. Typed' /\ Destinations'
  BY <1>1, <1>3 DEF IInv, Typed, TypeOK, JobsInOrder, Destinations
<1>5. CompleteIsRecorded'
  BY <1>1 DEF IInv, CompleteIsRecorded
<1>6. BegunKept' /\ AtStep'
  BY <1>1 DEF IInv, BegunKept, AtStep, RecordedAs
<1>7. OneJob' /\ Stranded'
  BY <1>1 DEF IInv, OneJob, Stranded, InProgress
<1>8. QED
  BY <1>4, <1>5, <1>6, <1>7 DEF IInv

LEMMA RequestStep ==
  ASSUME IInv, NEW j \in Jobs, NEW sel \in SUBSET Repos, NEW finish \in Finishes,
         RequestImport(j, sel, finish)
  PROVE  IInv'
<1>1. PICK read \in [sel -> Commits] : CreateJob(j, "web", finish, read)
  BY DEF RequestImport
<1>2. finish \in BOOLEAN /\ UNCHANGED <<rev, source, w, sync>>
  BY ImportAssumption DEF RequestImport
<1>3. QED
  BY <1>1, <1>2, CreateStep

LEMMA CheckSyncStep ==
  ASSUME IInv, NEW r \in Repos, NEW c \in Commits, NEW j \in Jobs, CheckSync(r, c, j)
  PROVE  IInv'
<1>1. PICK read \in [{r} -> Commits] : CreateJob(j, "sync", FALSE, read)
  <2>1. [x \in {r} |-> c] \in [{r} -> Commits]
    OBVIOUS
  <2>2. QED
    BY <2>1 DEF CheckSync
<1>2. UNCHANGED <<rev, source, w, sync>> /\ {r} \in SUBSET Repos
  BY DEF CheckSync
<1>3. QED
  BY <1>1, <1>2, CreateStep

\* The process dies, is asked to stop, or is started again.
LEMMA ProcessStep ==
  ASSUME IInv, Crash \/ Stop \/ Restart
  PROVE  IInv'
<1>1. CASE Crash
  BY <1>1, DownTyped, WorkerLetsGo DEF Crash
<1>2. CASE Restart
  <2>1. w' = Idle /\ UNCHANGED <<job, item, rev, source, sync>>
    BY <1>2 DEF Restart
  <2>2. 0 \in 0 .. Files /\ NoRow \in Row
    BY ImportAssumption DEF NoRow, Row
  <2>3. w' \in Worker /\ w'.pc = "poll" /\ w'.job = None
    BY <2>1, <2>2 DEF Idle, Worker, Steps
  <2>4. QED
    BY <2>1, <2>3, WorkerLetsGo
<1>3. CASE Stop
  <2>1. w.job # None /\ w' = [w EXCEPT !.stop = TRUE] /\ UNCHANGED <<job, item, rev, source, sync>>
    BY <1>3 DEF Stop
  <2>2. w' \in Worker /\ w'.job = w.job /\ w'.item = w.item /\ w'.pc = w.pc
        /\ w'.to = w.to /\ w'.files = w.files
    BY <2>1 DEF IInv, Typed, TypeOK, Worker
  <2>3. QED
    BY <2>1, <2>2, WorkerGoesOn
<1>4. QED
  BY <1>1, <1>2, <1>3

-----------------------------------------------------------------------------
(***************************************************************************)
(* The invariant.                                                          *)
(***************************************************************************)
LEMMA InvInit ==
  ASSUME Init
  PROVE  IInv
<1>1. /\ DOMAIN job = {} /\ job = [j \in {} |-> {}] /\ DOMAIN item = {} /\ item = [i \in {} |-> {}]
      /\ DOMAIN rev = {} /\ rev = [i \in {} |-> {}] /\ source = [r \in Repos |-> <<>>]
      /\ sync = [r \in Repos |-> None] /\ w = Idle
  BY DEF Init
<1>2. w \in Worker /\ w.pc = "poll" /\ w.job = None
  <2>1. 0 \in 0 .. Files /\ NoRow \in Row
    BY ImportAssumption DEF NoRow, Row
  <2> HIDE DEF NoRow, Row
  <2>2. QED
    BY <1>1, <2>1 DEF Idle, Worker, Steps
<1>3. source \in [Repos -> Seq([commit : Commits, rev : DOMAIN rev])]
  <2> DEFINE E == [commit : Commits, rev : DOMAIN rev]
  <2> HIDE DEF E
  <2>1. <<>> \in Seq(E)
    BY EmptySeq
  <2>2. source \in [Repos -> Seq(E)]
    BY <1>1, <2>1
  <2>3. QED
    BY <2>2 DEF E
<1>4. JobsInOrder
  <2>1. 0 \in 0 .. MaxJobs /\ 1 .. 0 = {}
    BY ImportAssumption
  <2>2. QED
    BY <1>1, <2>1 DEF JobsInOrder
<1>5. /\ job \in [DOMAIN job -> Job] /\ item \in [DOMAIN item -> Item]
      /\ rev \in [DOMAIN rev -> {"draft", "review", "published", "blocked"}]
      /\ sync \in [Repos -> Commits \cup {None}]
  BY <1>1
<1>6. DOMAIN job \subseteq Jobs /\ DOMAIN item \subseteq (DOMAIN job) \X Repos /\ DOMAIN rev \subseteq DOMAIN item
  BY <1>1
<1>7. TypeOK
  BY <1>2, <1>3, <1>5, <1>6, Zenon DEF TypeOK
<1>8. AtStep
  BY <1>2 DEF AtStep, ItemSteps, Holding, Before, After
<1>9. BegunKept /\ Destinations /\ OneJob /\ Stranded /\ CompleteIsRecorded
  BY <1>1 DEF BegunKept, Destinations, OneJob, Stranded, CompleteIsRecorded
<1>10. QED
  BY <1>4, <1>7, <1>8, <1>9 DEF IInv, Typed

LEMMA InvStep ==
  ASSUME IInv, [Next]_vars
  PROVE  IInv'
<1>1. CASE UNCHANGED vars
  <2>1. w' \in Worker /\ AtStep' /\ BegunKept' /\ Stranded'
    BY <1>1 DEF vars, IInv, Typed, TypeOK, AtStep, BegunKept, RecordedAs, Stranded, InProgress
  <2>2. QED
    BY <1>1, <2>1, OnlyWorker DEF vars
<1>2. CASE \E j \in Jobs, sel \in SUBSET Repos, finish \in Finishes : RequestImport(j, sel, finish)
  BY <1>2, RequestStep
<1>3. CASE \E j \in Jobs : RequestCancel(j) \/ Recover(j) \/ ClaimJob(j) \/ Stale(j)
  BY <1>3, CancelStep, RecoverStep, ClaimStep, StaleStep
<1>4. CASE \E r \in Repos : SetSync(r)
  BY <1>4, SyncStep
<1>5. CASE \E r \in Repos, c \in Commits, j \in Jobs : CheckSync(r, c, j)
  BY <1>5, CheckSyncStep
<1>6. CASE Process
  BY <1>6, OpenStep, RefuseStep, RefusedStep, NextItemStep, CloseStep, DownloadStep, CheckStep, PrepareStep, UploadStep,
     SendStep, InspectStep, CompleteStep, ReuseStep, FinishStep, PublishStep, OutcomeStep, FailStep DEF Process
<1>7. CASE Crash \/ Stop \/ Restart
  BY <1>7, ProcessStep
<1>8. QED
  BY <1>1, <1>2, <1>3, <1>4, <1>5, <1>6, <1>7 DEF Next

\* However the worker is interrupted and whatever it claims, its next statement
\* finds the item, the revision and the source it left.
THEOREM ImportInvariant == Spec => []IInv
<1>1. Init => IInv
  BY InvInit
<1>2. IInv /\ [Next]_vars => IInv'
  BY InvStep
<1>3. QED
  BY <1>1, <1>2, PTL DEF Spec

\* Jobs, items, revisions, sources and the worker keep their shape.
THEOREM ImportTypeCorrect == Spec => []TypeOK
<1>1. IInv => TypeOK
  BY DEF IInv, Typed
<1>2. QED
  BY <1>1, ImportInvariant, PTL

\* One import of the profile at most is in progress, and one that is not has
\* active items only if it was cancelled while its claim had taken them.
THEOREM OneImportActive == Spec => []OneImportAtATime
<1>1. IInv => OneImportAtATime
  BY DEF IInv, OneJob, Stranded, OneImportAtATime
<1>2. QED
  BY <1>1, ImportInvariant, PTL

\* In the tables, a complete item is the recorded import of its commit.
THEOREM CompletionsRecorded == Spec => []CompleteIsRecorded
<1>1. IInv => CompleteIsRecorded
  BY DEF IInv
<1>2. QED
  BY <1>1, ImportInvariant, PTL

-----------------------------------------------------------------------------
(***************************************************************************)
(* What no step does.                                                      *)
(***************************************************************************)
\* An item that ended stays so and keeps its destination.
ItemsGoForward ==
  \A i \in DOMAIN item :
    /\ i \in DOMAIN item'
    /\ item[i].rev # None => item'[i].rev # None
    /\ item[i].status \notin Active => item'[i].status \notin Active

LEMMA StatusSet ==
  ASSUME Typed, NEW i \in DOMAIN item, NEW s, item' = [item EXCEPT ![i].status = s],
         s \notin Active \/ item[i].status \in Active
  PROVE  ItemsGoForward
<1>1. item \in [DOMAIN item -> Item]
  BY DEF Typed, TypeOK
<1>2. \A x \in DOMAIN item \ {i} : item'[x] = item[x]
  OBVIOUS
<1>3. item'[i].status = s /\ item'[i].rev = item[i].rev
  BY <1>1 DEF Item
<1>4. QED
  BY <1>2, <1>3 DEF ItemsGoForward

LEMMA QueueEnds ==
  ASSUME Typed, NEW j, item' = EndQueued(j, "cancelled")
  PROVE  ItemsGoForward
<1>1. item \in [DOMAIN item -> Item]
  BY DEF Typed, TypeOK
<1>2. \A x \in DOMAIN item :
        /\ x \in DOMAIN item'
        /\ item'[x] = item[x] \/ item'[x].status = "cancelled"
        /\ item'[x].rev = item[x].rev
  BY <1>1 DEF EndQueued, Item
<1>3. QED
  BY <1>2 DEF ItemsGoForward, Active

\* The worker's steps.
LEMMA ProcessForward ==
  ASSUME IInv, Process
  PROVE  ItemsGoForward
<1>1. Typed /\ (w.pc \in ItemSteps => w.item \in DOMAIN item)
  BY DEF IInv, AtStep
<1>2. CASE UNCHANGED item
  BY <1>2 DEF ItemsGoForward
<1>3. ASSUME NEW row \in Claims, item' = Taken(row) PROVE ItemsGoForward
  <2>1. \A x \in DOMAIN item : /\ x \in DOMAIN item' /\ item'[x].rev = item[x].rev
                               /\ item'[x] = item[x] \/ x \in Waiting
    BY <1>1, <1>3, ClaimedItems
  <2>2. \A x \in Waiting : item[x].status \in Active
    BY DEF Waiting, Active
  <2>3. QED
    BY <2>1, <2>2 DEF ItemsGoForward
<1>4. CASE Refuse \/ NextItem
  <2>1. CancelJob \/ UNCHANGED item \/ \E row \in Claims : item' = Taken(row)
    BY <1>4 DEF Refuse, NextItem
  <2>2. QED
    BY <1>1, <1>2, <1>3, <2>1, QueueEnds DEF CancelJob
<1>5. CASE Check
  <2>1. w.item \in DOMAIN item /\ item[w.item].status \in Active
    BY <1>5 DEF Check, IInv, AtStep, ItemSteps, Holding, Before, Active
  <2>2. \/ UNCHANGED item
        \/ item' = [item EXCEPT ![w.item].status = "queued"]
        \/ item' = [item EXCEPT ![w.item].status = "cancelled"]
    BY <1>5 DEF Check, SetItem
  <2>3. QED
    BY <1>1, <1>2, <2>1, <2>2, StatusSet
<1>6. CASE Prepare
  <2> DEFINE i == w.item
  <2>1. i \in DOMAIN item /\ item[i].status \in Active /\ item[i].rev = None /\ item \in [DOMAIN item -> Item]
    BY <1>6 DEF Prepare, IInv, AtStep, ItemSteps, Holding, Before, Active, Destinations, Typed, TypeOK
  <2>2. DOMAIN item' = DOMAIN item /\ \A x \in DOMAIN item \ {i} : item'[x] = item[x]
    BY <1>6 DEF Prepare
  <2>3. QED
    BY <2>1, <2>2 DEF ItemsGoForward
<1>7. CASE Upload
  <2>1. UNCHANGED item \/ (w.item \in DOMAIN item /\ item' = [item EXCEPT ![w.item].status = "cancelled"])
    BY <1>1, <1>7 DEF Upload, SetItem, ItemSteps, Holding, After
  <2>2. QED
    BY <1>1, <1>2, <2>1, StatusSet DEF Active
<1>8. CASE Finish
  <2>1. UNCHANGED item \/ (w.item \in DOMAIN item /\ item' = [item EXCEPT ![w.item].status = "complete"])
    BY <1>1, <1>8 DEF Finish, SetItem, ItemSteps, Holding, After
  <2>2. QED
    BY <1>1, <1>2, <2>1, StatusSet DEF Active
<1>9. CASE SetOutcome \/ Refused
  <2>1. /\ w.item \in DOMAIN item
        /\ \E s \in {"complete", "blocked", "failed", "cancelled"} : item' = [item EXCEPT ![w.item].status = s]
    BY <1>1, <1>9 DEF SetOutcome, Refused, SetItem, ItemSteps, Holding, Before, Typed, TypeOK, Worker
  <2>2. QED
    BY <1>1, <2>1, StatusSet DEF Active
<1>10. CASE OpenJob \/ CloseJob \/ Download \/ Send \/ Inspect \/ Complete \/ Reuse \/ Publish \/ Fail
  BY <1>2, <1>10 DEF OpenJob, CloseJob, Download, Send, Inspect, Complete, Reuse, Publish, Fail
<1>11. QED
  BY <1>4, <1>5, <1>6, <1>7, <1>8, <1>9, <1>10 DEF Process

LEMMA CreateForward ==
  ASSUME IInv, NEW j \in Jobs, NEW origin, NEW finish, NEW read, CreateJob(j, origin, finish, read)
  PROVE  ItemsGoForward
<1>1. CASE UNCHANGED item
  BY <1>1 DEF ItemsGoForward
<1>2. CASE ~UNCHANGED item
  <2>1. /\ j = Cardinality(DOMAIN job) + 1
        /\ item' = [i \in DOMAIN item \cup ({j} \X DOMAIN read) |->
                      IF i[1] = j THEN [status |-> "queued", commit |-> read[i[2]], rev |-> None]
                      ELSE item[i]]
    BY <1>2 DEF CreateJob
  <2>2. PICK n \in 0 .. MaxJobs : DOMAIN job = 1 .. n
    BY DEF IInv, Typed, JobsInOrder
  <2>3. j \notin DOMAIN job
    <3>1. Cardinality(DOMAIN job) = n
      BY <2>2, FS_Interval, ImportAssumption
    <3>2. QED
      BY <2>1, <2>2, <3>1, ImportAssumption
  <2>4. \A i \in DOMAIN item : i[1] # j
    BY <2>3, NoneIsNew DEF IInv
  <2>5. \A i \in DOMAIN item : i \in DOMAIN item' /\ item'[i] = item[i]
    BY <2>1, <2>4
  <2>6. QED
    BY <2>5 DEF ItemsGoForward
<1>3. QED
  BY <1>1, <1>2

LEMMA ItemsForward ==
  ASSUME IInv, [Next]_vars
  PROVE  ItemsGoForward
<1>1. CASE UNCHANGED item
  BY <1>1 DEF ItemsGoForward
<1>2. CASE \E j \in Jobs, sel \in SUBSET Repos, finish \in Finishes : RequestImport(j, sel, finish)
  BY <1>2, CreateForward DEF RequestImport
<1>3. ASSUME NEW j \in Jobs, RequestCancel(j) PROVE ItemsGoForward
  BY <1>3, QueueEnds DEF RequestCancel, IInv
<1>4. ASSUME NEW j \in Jobs, Recover(j) PROVE ItemsGoForward
  <2>1. \A i \in DOMAIN item : /\ i \in DOMAIN item' /\ item'[i].rev = item[i].rev
                               /\ item[i].status \notin Active => item'[i] = item[i]
    BY <1>4, RecoveredItems DEF IInv
  <2>2. QED
    BY <2>1 DEF ItemsGoForward
<1>5. CASE \E r \in Repos, c \in Commits, j \in Jobs : CheckSync(r, c, j)
  BY <1>5, CreateForward DEF CheckSync
<1>6. CASE Process
  BY <1>6, ProcessForward
<1>7. ASSUME NEW j \in Jobs, ClaimJob(j) \/ Stale(j) PROVE ItemsGoForward
  BY <1>1, <1>7 DEF ClaimJob, Stale
<1>8. CASE (\E r \in Repos : SetSync(r)) \/ Crash \/ Stop \/ Restart \/ UNCHANGED vars
  BY <1>1, <1>8 DEF SetSync, Crash, Stop, Restart, vars
<1>9. QED
  BY <1>2, <1>3, <1>4, <1>5, <1>6, <1>7, <1>8 DEF Next

\* An item that has a destination is never put back to be tried again, and one
\* that ended is never worked on again.
THEOREM RetriesBeforeDestination == Spec => RetriedBeforeDestination
<1> DEFINE Step == \A i \in DOMAIN item :
                     /\ item[i].rev # None => item'[i].status # "queued"
                     /\ item[i].status \notin Active => item'[i].status \notin Active
<1>1. ASSUME IInv, IInv', [Next]_vars PROVE Step
  <2>1. \A i \in DOMAIN item : i \in DOMAIN item'
    BY <1>1, ItemsForward DEF ItemsGoForward
  <2>2. \A i \in DOMAIN item' : item'[i].status = "queued" => item'[i].rev = None
    BY <1>1 DEF IInv, Destinations
  <2>3. QED
    BY <1>1, <2>1, <2>2, ItemsForward DEF ItemsGoForward
<1>2. IInv /\ IInv' /\ [Next]_vars => [Step]_vars
  BY <1>1
<1>3. QED
  BY <1>2, ImportInvariant, PTL DEF Spec, RetriedBeforeDestination
=============================================================================
