------------------------ MODULE TrackPipelineProofs ------------------------
(***************************************************************************)
(* Theorems about TrackPipeline, for every number of tracks, requests,     *)
(* workers, task ids, attempts and faults.                                 *)
(***************************************************************************)
EXTENDS TrackPipeline, TLAPS

-----------------------------------------------------------------------------
(* Rows.  Every statement of the repository maps a good row to a good row, *)
(* so the table stays good whatever the order in which they run.           *)

RowOK(r) ==
  /\ r.key <=> r.status = "ready"
  /\ r.lease # "none" <=> r.status = "downloading"
  /\ r.status = "queued" => r.attempts < MaxAttempts
  /\ r.status = "downloading" => r.attempts >= 1
  /\ r.status = "absent" => r.attempts = 0

GoodRow == {r \in Row : RowOK(r)}

\* The row of a track nobody knows yet, and a row as an INSERT leaves it.
LEMMA InitialRows == AbsentRow \in GoodRow /\ NewRow \in GoodRow
<1>1. MaxAttempts \in Nat /\ 0 \in 0..MaxAttempts
  BY BudgetAssumption
<1>2. AbsentRow \in GoodRow
  BY <1>1 DEF AbsentRow, GoodRow, Row, RowOK, Status
<1>3. NewRow \in GoodRow
  BY <1>1 DEF AbsentRow, NewRow, GoodRow, Row, RowOK, Status
<1>. QED  BY <1>2, <1>3

LEMMA InsertedRow == ASSUME NEW r \in GoodRow PROVE Inserted(r) \in GoodRow
  BY InitialRows DEF Inserted

LEMMA QueuedRow ==
  ASSUME NEW r \in GoodRow, Acquirable(r) PROVE Queued(r) \in GoodRow
<1> DEFINE a == IF r.attempts >= MaxAttempts THEN 0 ELSE r.attempts
<1>1. a \in 0..MaxAttempts /\ a < MaxAttempts
  BY BudgetAssumption DEF GoodRow, Row
<1>2. Queued(r) = [r EXCEPT !.status = "queued", !.attempts = a,
                            !.lease = "none", !.old = FALSE]
  BY DEF Queued
<1> HIDE DEF a
<1>. QED  BY <1>1, <1>2 DEF Acquirable, GoodRow, Row, RowOK, Status

LEMMA SetTaskIdRow ==
  ASSUME NEW r \in GoodRow, NEW u \in TaskIds PROVE SetTaskId(r, u) \in GoodRow
  BY DEF SetTaskId, GoodRow, Row, RowOK, Status

LEMMA FailQueuedRow ==
  ASSUME NEW r \in GoodRow
  PROVE  MarkEnqueueFailed(r) \in GoodRow /\ FailQueued(r) \in GoodRow
  BY DEF MarkEnqueueFailed, FailQueued, GoodRow, Row, RowOK, Status

LEMMA ClaimedRow ==
  ASSUME NEW r \in GoodRow, NEW u \in TaskIds, Claimable(r, u)
  PROVE  Claimed(r, u) \in GoodRow
<1> DEFINE a == r.attempts + 1
<1>1. a \in 0..MaxAttempts /\ a >= 1
  BY BudgetAssumption DEF Claimable, GoodRow, Row, RowOK
<1>2. Claimed(r, u) = [r EXCEPT !.status = "downloading", !.attempts = a,
                                !.task = u, !.lease = "running"]
  BY DEF Claimed
<1> HIDE DEF a
<1>. QED  BY <1>1, <1>2 DEF Claimable, GoodRow, Row, RowOK, Status

LEMMA FinishedRow ==
  ASSUME NEW r \in GoodRow, NEW u \in TaskIds
  PROVE  MarkReady(r, u) \in GoodRow /\ MarkFailed(r, u) \in GoodRow
  BY DEF MarkReady, MarkFailed, Owns, GoodRow, Row, RowOK, Status

LEMMA PreparedRetryRow ==
  ASSUME NEW r \in GoodRow, Retriable(r) PROVE PreparedRetry(r) \in GoodRow
  BY DEF PreparedRetry, Retriable, GoodRow, Row, RowOK, Status

LEMMA RequeueStaleRow == ASSUME NEW r \in GoodRow PROVE RequeueStale(r) \in GoodRow
  BY DEF RequeueStale, Exhausted, Stale, GoodRow, Row, RowOK, Status

LEMMA TimePassedRow ==
  ASSUME NEW r \in GoodRow
  PROVE  /\ r.lease = "running" => LeasePassed(r) \in GoodRow
         /\ RequestAged(r) \in GoodRow
  BY DEF LeasePassed, RequestAged, GoodRow, Row, RowOK, Status

\* The one statement without a WHERE on the status is safe only on a row that
\* is not being downloaded: hence the invariant on the reconciler below.
LEMMA MarkStorageMissingRow ==
  ASSUME NEW r \in GoodRow, r.status # "downloading"
  PROVE  MarkStorageMissing(r) \in GoodRow
  BY DEF MarkStorageMissing, GoodRow, Row, RowOK, Status

-----------------------------------------------------------------------------
(* The inductive invariant.                                                *)

RowsGood == row \in [Tracks -> GoodRow]

\* What the reconciler has read is still true: nothing but the reconciler
\* itself takes a row out of "ready".
ReconcilerReadsReady ==
  \A t \in reconciler.expected \cup reconciler.missing : row[t].status = "ready"

RowInv == RowsGood /\ ReconcilerReadsReady

IInv == TypeOK /\ RowInv

THEOREM InitIInv == Init => IInv
<1> SUFFICES ASSUME Init PROVE IInv
  OBVIOUS
<1>1. RowInv
  BY InitialRows DEF Init, RowInv, RowsGood, ReconcilerReadsReady, IdleReconciler
<1>2. row \in [Tracks -> Row]
  BY <1>1 DEF RowInv, RowsGood, GoodRow
<1>3. 0 \in 0..MaxRetries
  BY BudgetAssumption DEF MaxRetries
<1>4. TypeOK
  BY <1>2, <1>3, FaultsAssumption
  DEF Init, TypeOK, IdleCaller, IdleWorker, IdleReconciler, CallerPC, WorkerPC
<1>. QED  BY <1>1, <1>4 DEF IInv

\* One statement on one row.
LEMMA UpdateRow ==
  ASSUME IInv, NEW t \in Tracks, NEW r \in GoodRow,
         row' = [row EXCEPT ![t] = r],
         row[t].status = "ready" => r.status = "ready",
         UNCHANGED reconciler
  PROVE  RowInv' /\ row' \in [Tracks -> Row]
<1>1. RowsGood' /\ row' \in [Tracks -> Row]
  BY DEF IInv, RowInv, RowsGood, GoodRow
<1>2. ASSUME NEW s \in reconciler.expected \cup reconciler.missing
      PROVE  row'[s].status = "ready"
  BY <1>2 DEF IInv, TypeOK, RowInv, RowsGood, ReconcilerReadsReady
<1>. QED  BY <1>1, <1>2 DEF RowInv, ReconcilerReadsReady

LEMMA KeepRows ==
  ASSUME IInv, UNCHANGED <<row, reconciler>>
  PROVE  RowInv' /\ row' \in [Tracks -> Row]
  BY DEF IInv, TypeOK, RowInv, RowsGood, ReconcilerReadsReady

LEMMA RowType == ASSUME IInv, NEW t \in Tracks PROVE row[t] \in GoodRow
  BY DEF IInv, RowInv, RowsGood

LEMMA CallerPreserves ==
  ASSUME IInv, NEW c \in Callers, CallerStep(c)
  PROVE  IInv'
<1>. USE DEF IInv
<1>1. CASE \E t \in Tracks : Admit(c, t)
  <2>1. RowInv' /\ row' \in [Tracks -> Row]
    BY <1>1, KeepRows DEF Admit
  <2>. QED  BY <1>1, <2>1 DEF Admit, TypeOK, CallerPC, envVars
<1>2. CASE QueueExisting(c)
  <2> DEFINE t == caller[c].track
  <2>1. t \in Tracks
    BY <1>2 DEF QueueExisting, TypeOK
  <2>2. RowInv' /\ row' \in [Tracks -> Row]
    <3>1. CASE UNCHANGED row
      BY <1>2, <3>1, KeepRows DEF QueueExisting
    <3>2. CASE Acquirable(row[t]) /\ row' = [row EXCEPT ![t] = Queued(@)]
      <4>1. Queued(row[t]) \in GoodRow
        BY <2>1, <3>2, RowType, QueuedRow
      <4>2. row[t].status # "ready"
        BY <3>2 DEF Acquirable
      <4>. QED  BY <1>2, <2>1, <3>2, <4>1, <4>2, UpdateRow DEF QueueExisting
    <3>. QED  BY <1>2, <3>1, <3>2 DEF QueueExisting
  <2>3. caller' = [caller EXCEPT ![c].pc = "fetching"] \/ caller' = [caller EXCEPT ![c] = IdleCaller]
          \/ \E u \in TaskIds : caller' = [caller EXCEPT ![c].pc = "assigning", ![c].task = u]
    BY <1>2 DEF QueueExisting, Goto, Leave
  <2>4. UNCHANGED <<objects, queue, worker, recovering, reconciler, envVars, faults>>
    BY <1>2 DEF QueueExisting
  <2>. QED  BY <2>1, <2>2, <2>3, <2>4 DEF IdleCaller, TypeOK, CallerPC, envVars
<1>3. CASE ProviderRejects(c)
  <2>1. RowInv' /\ row' \in [Tracks -> Row]
    BY <1>3, KeepRows DEF ProviderRejects
  <2>. QED  BY <1>3, <2>1 DEF ProviderRejects, Leave, IdleCaller, TypeOK, CallerPC, envVars
<1>4. CASE UpsertAndQueue(c)
  <2> DEFINE t == caller[c].track
             r == Inserted(row[t])
  <2>1. t \in Tracks
    BY <1>4 DEF UpsertAndQueue, TypeOK
  <2>2. RowInv' /\ row' \in [Tracks -> Row]
    <3>1. CASE UNCHANGED row
      BY <1>4, <3>1, KeepRows DEF UpsertAndQueue
    <3>2. CASE Acquirable(r) /\ row' = [row EXCEPT ![t] = Queued(r)]
      <4>1. Queued(r) \in GoodRow
        BY <2>1, <3>2, RowType, InsertedRow, QueuedRow
      <4>2. row[t].status # "ready"
        BY <3>2 DEF Acquirable, Inserted
      <4>. QED  BY <1>4, <2>1, <3>2, <4>1, <4>2, UpdateRow DEF UpsertAndQueue
    <3>. QED  BY <1>4, <3>1, <3>2 DEF UpsertAndQueue
  <2>. QED  BY <1>4, <2>2 DEF UpsertAndQueue, Leave, IdleCaller, TypeOK, CallerPC, envVars
<1>5. CASE AssignTask(c) \/ Rebind(c)
  <2> DEFINE t == caller[c].track
             u == caller[c].task
  <2>1. t \in Tracks /\ u \in TaskIds
    BY <1>5 DEF AssignTask, Rebind, TypeOK
  <2>2. row' = [row EXCEPT ![t] = SetTaskId(row[t], u)] /\ UNCHANGED reconciler
    BY <1>5 DEF AssignTask, Rebind
  <2>3. SetTaskId(row[t], u) \in GoodRow
    BY <2>1, RowType, SetTaskIdRow
  <2>4. row[t].status = "ready" => SetTaskId(row[t], u).status = "ready"
    BY DEF SetTaskId
  <2>5. RowInv' /\ row' \in [Tracks -> Row]
    BY <2>1, <2>2, <2>3, <2>4, UpdateRow
  <2>. QED  BY <1>5, <2>5
       DEF AssignTask, Rebind, Goto, Leave, IdleCaller, TypeOK, CallerPC, envVars
<1>6. CASE Publish(c) \/ EnqueueFails(c)
  <2>1. RowInv' /\ row' \in [Tracks -> Row]
    BY <1>6, KeepRows DEF Publish, EnqueueFails
  <2>2. caller[c].pc = "publishing" => PublishedBy(c) \in Message
    BY BudgetAssumption DEF PublishedBy, Message, MaxRetries, TypeOK
  <2>3. queue' \in SUBSET Message
    BY <1>6, <2>2 DEF Publish, EnqueueFails, TypeOK
  <2>4. faults' \in 0..MaxFaults
    BY <1>6, FaultsAssumption DEF Publish, EnqueueFails, Fault, TypeOK
  <2>. QED  BY <1>6, <2>1, <2>3, <2>4 DEF Publish, EnqueueFails, Goto, TypeOK, CallerPC, envVars
<1>7. CASE Abandon(c)
  <2> DEFINE t == caller[c].track
  <2>1. t \in Tracks
    BY <1>7 DEF Abandon, TypeOK
  <2>2. MarkEnqueueFailed(row[t]) \in GoodRow
    BY <2>1, RowType, FailQueuedRow
  <2>3. row[t].status = "ready" => MarkEnqueueFailed(row[t]).status = "ready"
    BY DEF MarkEnqueueFailed
  <2>4. RowInv' /\ row' \in [Tracks -> Row]
    BY <1>7, <2>1, <2>2, <2>3, UpdateRow DEF Abandon
  <2>. QED  BY <1>7, <2>4 DEF Abandon, Leave, IdleCaller, TypeOK, CallerPC, envVars
<1>8. CASE CallerDies(c)
  <2>1. RowInv' /\ row' \in [Tracks -> Row]
    BY <1>8, KeepRows DEF CallerDies
  <2>2. faults' \in 0..MaxFaults
    BY <1>8, FaultsAssumption DEF CallerDies, Fault, TypeOK
  <2>. QED  BY <1>8, <2>1, <2>2 DEF CallerDies, Leave, IdleCaller, TypeOK, CallerPC, envVars
<1>. QED
  BY <1>1, <1>2, <1>3, <1>4, <1>5, <1>6, <1>7, <1>8 DEF CallerStep

\* A worker moves on with the message it holds, and nothing but the rows changes.
LEMMA StepPreserves ==
  ASSUME TypeOK, row' \in [Tracks -> Row],
         NEW w \in Workers, NEW pc \in WorkerPC, Step(w, pc),
         worker[w].pc # "idle",
         pc = "republishing" => worker[w].retries < MaxRetries,
         faults' \in 0..MaxFaults,
         UNCHANGED <<objects, queue, caller, recovering, reconciler, envVars>>
  PROVE  TypeOK'
  BY DEF Step, TypeOK, WorkerPC, envVars

LEMMA WorkerPreserves ==
  ASSUME IInv, NEW w \in Workers, WorkerStep(w)
  PROVE  IInv'
<1> DEFINE t == worker[w].track
           u == worker[w].task
<1>. USE DEF IInv
<1>0. /\ worker[w].pc # "idle" => t \in Tracks /\ u \in TaskIds
      /\ MaxRetries \in Nat /\ 0 \in 0..MaxRetries
  BY BudgetAssumption DEF TypeOK, MaxRetries
<1>1. CASE Deliver(w)
  <2>1. RowInv' /\ row' \in [Tracks -> Row]
    BY <1>1, KeepRows DEF Deliver
  <2>. QED  BY <1>1, <2>1 DEF Deliver, TypeOK, Message, WorkerPC, envVars
<1>2. CASE StartFails(w) \/ FailureUnrecorded(w) \/ RepublishFails(w)
  <2>1. RowInv' /\ row' \in [Tracks -> Row]
    BY <1>2, KeepRows DEF StartFails, FailureUnrecorded, RepublishFails
  <2>2. faults' \in 0..MaxFaults
    BY <1>2, FaultsAssumption DEF StartFails, FailureUnrecorded, RepublishFails, Fault, TypeOK
  <2>3. PICK pc \in {"retrying", "finished"} : Step(w, pc)
    BY <1>2 DEF StartFails, FailureUnrecorded, RepublishFails
  <2>. QED  BY <1>2, <2>1, <2>2, <2>3, StepPreserves
       DEF StartFails, FailureUnrecorded, RepublishFails, WorkerPC
<1>3. CASE Start(w)
  <2>1. RowInv' /\ row' \in [Tracks -> Row]
    BY <1>3, KeepRows DEF Start
  <2>. QED  BY <1>3, <2>1 DEF Start, Step, TypeOK, WorkerPC, envVars
<1>4. CASE Refuse(w)
  <2>1. FailQueued(row[t]) \in GoodRow
    BY <1>0, <1>4, RowType, FailQueuedRow DEF Refuse
  <2>2. row[t].status = "ready" => FailQueued(row[t]).status = "ready"
    BY DEF FailQueued
  <2>3. RowInv' /\ row' \in [Tracks -> Row]
    BY <1>0, <1>4, <2>1, <2>2, UpdateRow DEF Refuse
  <2>. QED  BY <1>4, <2>3 DEF Refuse, Step, TypeOK, WorkerPC, envVars
<1>5. CASE Claim(w)
  <2>1. CASE ~Claimable(row[t], u)
    <3>1. RowInv' /\ row' \in [Tracks -> Row]
      BY <1>5, <2>1, KeepRows DEF Claim
    <3>. QED  BY <1>5, <2>1, <3>1, StepPreserves DEF Claim, TypeOK, WorkerPC
  <2>2. CASE Claimable(row[t], u)
    <3>1. Claimed(row[t], u) \in GoodRow
      BY <1>0, <1>5, <2>2, RowType, ClaimedRow DEF Claim
    <3>2. row[t].status # "ready"
      BY <2>2 DEF Claimable
    <3>3. RowInv' /\ row' \in [Tracks -> Row]
      BY <1>0, <1>5, <2>2, <3>1, <3>2, UpdateRow DEF Claim
    <3>. QED  BY <1>5, <2>2, <3>3, StepPreserves DEF Claim, TypeOK, WorkerPC
  <2>. QED  BY <2>1, <2>2
<1>6. CASE Upload(w)
  <2>1. RowInv' /\ row' \in [Tracks -> Row]
    BY <1>6, KeepRows DEF Upload
  <2>. QED  BY <1>0, <1>6, <2>1 DEF Upload, Put, Step, TypeOK, WorkerPC, envVars
<1>7. CASE Complete(w)
  <2>1. MarkReady(row[t], u) \in GoodRow
    BY <1>0, <1>7, RowType, FinishedRow DEF Complete
  <2>2. row[t].status = "ready" => MarkReady(row[t], u).status = "ready"
    BY DEF MarkReady, Owns
  <2>3. RowInv' /\ row' \in [Tracks -> Row]
    BY <1>0, <1>7, <2>1, <2>2, UpdateRow DEF Complete
  <2>. QED  BY <1>7, <2>3 DEF Complete, Step, TypeOK, WorkerPC, envVars
<1>8. CASE NoMatch(w) \/ AttemptFails(w)
  <2>1. MarkFailed(row[t], u) \in GoodRow
    BY <1>0, <1>8, RowType, FinishedRow DEF NoMatch, AttemptFails
  <2>2. row[t].status = "ready" => MarkFailed(row[t], u).status = "ready"
    BY DEF MarkFailed, Owns
  <2>3. RowInv' /\ row' \in [Tracks -> Row]
    BY <1>0, <1>8, <2>1, <2>2, UpdateRow DEF NoMatch, AttemptFails
  <2>. QED  BY <1>8, <2>3 DEF NoMatch, AttemptFails, Step, TypeOK, WorkerPC, envVars
<1>9. CASE Retry(w)
  <2>1. CASE ~(worker[w].retries < MaxRetries /\ Retriable(row[t]))
    <3>1. RowInv' /\ row' \in [Tracks -> Row]
      BY <1>9, <2>1, KeepRows DEF Retry
    <3>. QED  BY <1>9, <2>1, <3>1, StepPreserves DEF Retry, TypeOK, WorkerPC
  <2>2. CASE worker[w].retries < MaxRetries /\ Retriable(row[t])
    <3>1. PreparedRetry(row[t]) \in GoodRow
      BY <1>0, <1>9, <2>2, RowType, PreparedRetryRow DEF Retry
    <3>2. row[t].status # "ready"
      BY <2>2 DEF Retriable
    <3>3. RowInv' /\ row' \in [Tracks -> Row]
      BY <1>0, <1>9, <2>2, <3>1, <3>2, UpdateRow DEF Retry
    <3>. QED  BY <1>9, <2>2, <3>3, StepPreserves DEF Retry, TypeOK, WorkerPC
  <2>. QED  BY <1>9, <2>1, <2>2 DEF Retry
<1>10. CASE Republish(w)
  <2>1. RowInv' /\ row' \in [Tracks -> Row]
    BY <1>10, KeepRows DEF Republish
  <2>2. worker[w].retries + 1 \in 0..MaxRetries
    BY <1>0, <1>10 DEF Republish, TypeOK
  <2>3. [Held(w) EXCEPT !.retries = @ + 1] \in Message
    BY <1>0, <1>10, <2>2 DEF Republish, Held, Message
  <2>. QED  BY <1>10, <2>1, <2>3 DEF Republish, Step, TypeOK, WorkerPC, envVars
<1>11. CASE Ack(w)
  <2>1. RowInv' /\ row' \in [Tracks -> Row]
    BY <1>11, KeepRows DEF Ack
  <2>. QED  BY <1>0, <1>11, <2>1 DEF Ack, IdleWorker, TypeOK, WorkerPC, envVars
<1>12. CASE WorkerDies(w)
  <2>1. RowInv' /\ row' \in [Tracks -> Row]
    BY <1>12, KeepRows DEF WorkerDies
  <2>2. faults' \in 0..MaxFaults
    BY <1>12, FaultsAssumption DEF WorkerDies, Fault, TypeOK
  <2>3. Held(w) \in Message
    BY <1>0, <1>12 DEF WorkerDies, Held, Message, TypeOK
  <2>4. queue' \in SUBSET Message
    BY <1>12, <2>3 DEF WorkerDies, TypeOK
  <2>. QED  BY <1>0, <1>12, <2>1, <2>2, <2>4
       DEF WorkerDies, IdleWorker, TypeOK, WorkerPC, envVars
<1>. QED
  BY <1>1, <1>2, <1>3, <1>4, <1>5, <1>6, <1>7, <1>8, <1>9, <1>10, <1>11, <1>12
  DEF WorkerStep

LEMMA RecoverPreserves == ASSUME IInv, RecoverStep PROVE IInv'
<1>. USE DEF IInv
<1>1. CASE Recover \/ RecoverDisabled
  <2>1. ASSUME NEW t \in Tracks
        PROVE  /\ row'[t] \in GoodRow
               /\ row[t].status = "ready" => row'[t].status = "ready"
    <3>1. CASE Recover
      <4>1. row'[t] = RequeueStale(row[t])
        BY <3>1 DEF Recover
      <4>. QED  BY <4>1, RowType, RequeueStaleRow DEF RequeueStale, Exhausted, Stale
    <3>2. CASE RecoverDisabled
      <4>1. row'[t] = FailQueued(row[t])
        BY <3>2 DEF RecoverDisabled
      <4>. QED  BY <4>1, RowType, FailQueuedRow DEF FailQueued
    <3>. QED  BY <1>1, <3>1, <3>2
  <2>2. RowsGood' /\ row' \in [Tracks -> Row]
    BY <1>1, <2>1 DEF Recover, RecoverDisabled, RowsGood, GoodRow
  <2>3. ReconcilerReadsReady'
    BY <1>1, <2>1 DEF Recover, RecoverDisabled, RowInv, ReconcilerReadsReady, TypeOK
  <2>4. recovering' \in SUBSET Tracks
    BY <1>1 DEF Recover, RecoverDisabled, TypeOK
  <2>. QED  BY <1>1, <2>2, <2>3, <2>4 DEF Recover, RecoverDisabled, RowInv, TypeOK, envVars
<1>2. CASE RecoverDies
  <2>1. RowInv' /\ row' \in [Tracks -> Row]
    BY <1>2, KeepRows DEF RecoverDies
  <2>2. faults' \in 0..MaxFaults
    BY <1>2, FaultsAssumption DEF RecoverDies, Fault, TypeOK
  <2>. QED  BY <1>2, <2>1, <2>2 DEF RecoverDies, TypeOK, envVars
<1>3. CASE \E t \in Tracks : RecoverPublish(t)
  <2>1. RowInv' /\ row' \in [Tracks -> Row]
    BY <1>3, KeepRows DEF RecoverPublish
  <2>2. 0 \in 0..MaxRetries
    BY BudgetAssumption DEF MaxRetries
  <2>3. queue' \in SUBSET Message /\ recovering' \in SUBSET Tracks
    BY <1>3, <2>2 DEF RecoverPublish, Message, TypeOK
  <2>. QED  BY <1>3, <2>1, <2>3 DEF RecoverPublish, TypeOK, envVars
<1>. QED  BY <1>1, <1>2, <1>3 DEF RecoverStep

LEMMA ReconcilerPreserves == ASSUME IInv, ReconcilerStep PROVE IInv'
<1>. USE DEF IInv
<1>0. \A t \in Tracks : row[t] \in GoodRow
  BY RowType
<1>1. CASE ReadStorageKeys
  <2>1. \A t \in Tracks : row[t].key => row[t].status = "ready"
    BY <1>0 DEF GoodRow, RowOK
  <2>2. reconciler'.expected = {t \in Tracks : row[t].key}
        /\ reconciler'.missing = reconciler.missing /\ reconciler' \in
             [pc : {"idle", "listing", "repairing", "deleting"}, expected : SUBSET Tracks,
              missing : SUBSET Tracks, orphans : SUBSET Tracks]
    BY <1>1 DEF ReadStorageKeys, TypeOK
  <2>3. RowInv'
    BY <1>1, <2>1, <2>2 DEF ReadStorageKeys, RowInv, RowsGood, ReconcilerReadsReady, TypeOK
  <2>. QED  BY <1>1, <2>2, <2>3 DEF ReadStorageKeys, TypeOK, envVars
<1>2. CASE ListObjectKeys
  <2>1. reconciler'.missing \subseteq reconciler.expected /\ reconciler'.expected = {}
    BY <1>2 DEF ListObjectKeys
  <2>2. RowInv'
    BY <1>2, <2>1 DEF ListObjectKeys, RowInv, RowsGood, ReconcilerReadsReady
  <2>. QED  BY <1>2, <2>2 DEF ListObjectKeys, ObjectKeys, TypeOK, envVars
<1>3. CASE RepairMissing
  <2>1. \A t \in Tracks : row'[t] \in GoodRow
    <3>. SUFFICES ASSUME NEW t \in Tracks PROVE row'[t] \in GoodRow
      OBVIOUS
    <3>1. CASE t \in reconciler.missing
      <4>1. row[t].status = "ready" /\ row'[t] = MarkStorageMissing(row[t])
        BY <1>3, <3>1 DEF RepairMissing, RowInv, ReconcilerReadsReady
      <4>. QED  BY <1>0, <4>1, MarkStorageMissingRow
    <3>2. CASE t \notin reconciler.missing
      BY <1>0, <1>3, <3>2 DEF RepairMissing
    <3>. QED  BY <3>1, <3>2
  <2>2. RowsGood' /\ row' \in [Tracks -> Row]
    BY <1>3, <2>1 DEF RepairMissing, RowsGood, GoodRow
  <2>3. ReconcilerReadsReady'
    BY <1>3 DEF RepairMissing, ReconcilerReadsReady, IdleReconciler
  <2>. QED  BY <1>3, <2>2, <2>3 DEF RepairMissing, IdleReconciler, RowInv, TypeOK, envVars
<1>4. CASE \E t \in Tracks : DeleteOrphan(t)
  <2>1. reconciler'.missing \subseteq reconciler.missing
        /\ reconciler'.expected \subseteq reconciler.expected
    BY <1>4 DEF DeleteOrphan, IdleReconciler, TypeOK
  <2>2. RowInv'
    BY <1>4, <2>1 DEF DeleteOrphan, RowInv, RowsGood, ReconcilerReadsReady
  <2>. QED  BY <1>4, <2>2 DEF DeleteOrphan, DeleteObject, IdleReconciler, TypeOK, envVars
<1>5. CASE ReconcilerDies
  <2>1. RowInv'
    BY <1>5 DEF ReconcilerDies, IdleReconciler, RowInv, RowsGood, ReconcilerReadsReady
  <2>2. faults' \in 0..MaxFaults
    BY <1>5, FaultsAssumption DEF ReconcilerDies, Fault, TypeOK
  <2>. QED  BY <1>5, <2>1, <2>2 DEF ReconcilerDies, IdleReconciler, TypeOK, envVars
<1>. QED  BY <1>1, <1>2, <1>3, <1>4, <1>5 DEF ReconcilerStep

LEMMA EnvironmentPreserves == ASSUME IInv, EnvironmentStep PROVE IInv'
<1>. USE DEF IInv
<1>1. ASSUME NEW t \in Tracks, ImportTrack(t) \/ LeaseExpires(t) \/ RequestAges(t)
      PROVE  IInv'
  <2>1. PICK r \in GoodRow : /\ row' = [row EXCEPT ![t] = r]
                             /\ row[t].status = "ready" => r.status = "ready"
    <3>1. CASE ImportTrack(t)
      <4>1. Inserted(row[t]) \in GoodRow
        BY RowType, InsertedRow
      <4>. QED  BY <3>1, <4>1 DEF ImportTrack
    <3>2. CASE LeaseExpires(t)
      <4>1. LeasePassed(row[t]) \in GoodRow
        BY <3>2, RowType, TimePassedRow DEF LeaseExpires
      <4>2. row[t].status # "ready"
        BY <3>2, RowType DEF LeaseExpires, GoodRow, RowOK
      <4>. QED  BY <3>2, <4>1, <4>2 DEF LeaseExpires
    <3>3. CASE RequestAges(t)
      <4>1. RequestAged(row[t]) \in GoodRow
        BY RowType, TimePassedRow
      <4>. QED  BY <3>3, <4>1 DEF RequestAges, RequestAged
    <3>. QED  BY <1>1, <3>1, <3>2, <3>3
  <2>2. UNCHANGED <<objects, queue, caller, worker, recovering, reconciler, envVars, faults>>
    BY <1>1 DEF ImportTrack, LeaseExpires, RequestAges
  <2>3. RowInv' /\ row' \in [Tracks -> Row]
    BY <2>1, <2>2, UpdateRow
  <2>. QED  BY <2>2, <2>3 DEF TypeOK, envVars
<1>2. CASE \E t \in Tracks : ObjectLost(t)
  <2>1. RowInv' /\ row' \in [Tracks -> Row]
    BY <1>2, KeepRows DEF ObjectLost
  <2>2. faults' \in 0..MaxFaults
    BY <1>2, FaultsAssumption DEF ObjectLost, Fault, TypeOK
  <2>. QED  BY <1>2, <2>1, <2>2 DEF ObjectLost, TypeOK, envVars
<1>3. CASE SetPlayback \/ CachesExpire
  <2>1. RowInv' /\ row' \in [Tracks -> Row]
    BY <1>3, KeepRows DEF SetPlayback, CachesExpire
  <2>2. playback' \in BOOLEAN /\ visible' \in SUBSET BOOLEAN
    BY <1>3 DEF SetPlayback, CachesExpire, TypeOK
  <2>. QED  BY <1>3, <2>1, <2>2 DEF SetPlayback, CachesExpire, TypeOK
<1>. QED  BY <1>1, <1>2, <1>3 DEF EnvironmentStep

THEOREM StepIInv == IInv /\ [Next]_vars => IInv'
<1> SUFFICES ASSUME IInv, [Next]_vars PROVE IInv'
  OBVIOUS
<1>1. CASE UNCHANGED vars
  BY <1>1 DEF IInv, TypeOK, RowInv, RowsGood, ReconcilerReadsReady, vars
<1>. QED
  BY <1>1, CallerPreserves, WorkerPreserves, RecoverPreserves, ReconcilerPreserves,
     EnvironmentPreserves DEF Next

THEOREM Invariance == Spec => []IInv
  BY InitIInv, StepIInv, PTL DEF Spec

THEOREM TypeCorrect == Spec => []TypeOK
<1>1. IInv => TypeOK
  BY DEF IInv
<1>. QED  BY <1>1, Invariance, PTL
LEMMA KeyIffReadyHolds == IInv => KeyIffReady
  BY RowType DEF KeyIffReady, GoodRow, RowOK

\* A key is stored exactly while a row is ready (repository.py:235 and 345),
\* whatever interleaving and faults occur.
THEOREM KeyStored == Spec => []KeyIffReady
  BY KeyIffReadyHolds, Invariance, PTL

\* The table never strands a track (repository.py, every statement), whatever
\* interleaving and faults occur.
THEOREM TableSafe == Spec => []NeverStranded
<1>1. IInv => NeverStranded
  <2>. SUFFICES ASSUME IInv, NEW t \in Tracks
                PROVE  /\ row[t].status = "queued" => Stale(RequestAged(row[t]))
                       /\ row[t].status = "downloading" =>
                            /\ row[t].lease # "none"
                            /\ Stale(LeasePassed(row[t])) \/ Exhausted(LeasePassed(row[t]))
    BY DEF NeverStranded
  <2>1. row[t] \in Row /\ RowOK(row[t])
    BY RowType DEF GoodRow
  <2>. QED  BY <2>1, BudgetAssumption
       DEF RowOK, Row, Status, Stale, Exhausted, RequestAged, LeasePassed
<1>. QED  BY <1>1, Invariance, PTL

-----------------------------------------------------------------------------
(* When no execution outlives its lease, a busy worker holds its row.      *)

HoldInv == WorkerHoldsRow /\ OneWorkerPerTrack

BusyPC == {"downloading", "uploaded"}

\* Steps of anyone but a worker.
LEMMA WorkersUndisturbed ==
  ASSUME HoldInv, UNCHANGED worker,
         \A t \in Tracks : (\E v \in Workers : Busy(v, t)) => row'[t] = row[t]
  PROVE  HoldInv'
  BY DEF HoldInv, WorkerHoldsRow, OneWorkerPerTrack, Busy, Owns

\* Steps of one worker, after which it is in state x.
LEMMA OthersUndisturbed ==
  ASSUME IInv, HoldInv, NEW w \in Workers, NEW x,
         worker' = [worker EXCEPT ![w] = x],
         \A t \in Tracks : (\E v \in Workers : v # w /\ Busy(v, t)) => row'[t] = row[t],
         x.pc \in BusyPC =>
           /\ Owns(row'[x.track], x.task) /\ row'[x.track].lease = "running"
           /\ \A v \in Workers : Busy(v, x.track) => v = w
  PROVE  HoldInv'
<1>1. ASSUME NEW v \in Workers PROVE worker'[v] = IF v = w THEN x ELSE worker[v]
  BY DEF IInv, TypeOK
<1>2. WorkerHoldsRow'
  <2>. SUFFICES ASSUME NEW v \in Workers, NEW t \in Tracks, Busy(v, t)'
                PROVE  Owns(row'[t], worker'[v].task) /\ row'[t].lease = "running"
    BY DEF WorkerHoldsRow, Owns
  <2>1. CASE v = w
    BY <1>1, <2>1 DEF Busy, BusyPC
  <2>2. CASE v # w
    <3>1. worker'[v] = worker[v] /\ Busy(v, t)
      BY <1>1, <2>2 DEF Busy
    <3>2. row'[t] = row[t]
      BY <2>2, <3>1
    <3>. QED  BY <3>1, <3>2 DEF HoldInv, WorkerHoldsRow
  <2>. QED  BY <2>1, <2>2
<1>3. OneWorkerPerTrack'
  BY <1>1 DEF HoldInv, OneWorkerPerTrack, Busy, BusyPC
<1>. QED  BY <1>2, <1>3 DEF HoldInv

LEMMA BusyDownloads ==
  ASSUME HoldInv, NEW v \in Workers, NEW t \in Tracks, Busy(v, t)
  PROVE  row[t].status = "downloading" /\ row[t].lease = "running"
  BY DEF HoldInv, WorkerHoldsRow, Owns

LEMMA CallerKeepsHold ==
  ASSUME IInv, HoldInv, NEW c \in Callers, CallerStep(c)
  PROVE  HoldInv'
<1>1. UNCHANGED worker
  BY DEF CallerStep, Admit, QueueExisting, ProviderRejects, UpsertAndQueue, AssignTask,
         Publish, Rebind, EnqueueFails, Abandon, CallerDies
<1>2. ASSUME NEW t \in Tracks, row[t].status = "downloading" PROVE row'[t] = row[t]
  <2>1. row \in [Tracks -> Row]
    BY DEF IInv, TypeOK
  <2>2. CASE UNCHANGED row
    BY <2>2
  <2>4. CASE QueueExisting(c) /\ row' # row
    <3>1. caller[c].track \in Tracks /\ row' = [row EXCEPT ![caller[c].track] = Queued(@)]
          /\ Acquirable(row[caller[c].track])
      BY <2>4 DEF QueueExisting, IInv, TypeOK
    <3>. QED  BY <1>2, <2>1, <3>1 DEF Acquirable
  <2>5. CASE UpsertAndQueue(c) /\ row' # row
    <3> DEFINE r == Inserted(row[caller[c].track])
    <3>1. caller[c].track \in Tracks /\ row' = [row EXCEPT ![caller[c].track] = Queued(r)]
          /\ Acquirable(r)
      BY <2>5 DEF UpsertAndQueue, IInv, TypeOK
    <3>2. row[caller[c].track].status # "downloading"
      BY <3>1 DEF Acquirable, Inserted
    <3>. QED  BY <1>2, <2>1, <3>1, <3>2
  <2>6. CASE AssignTask(c) \/ Rebind(c)
    BY <1>2, <2>1, <2>6 DEF AssignTask, Rebind, SetTaskId
  <2>7. CASE Abandon(c)
    BY <1>2, <2>1, <2>7 DEF Abandon, MarkEnqueueFailed
  <2>8. CASE Publish(c) \/ EnqueueFails(c) \/ CallerDies(c) \/ ProviderRejects(c)
               \/ \E s \in Tracks : Admit(c, s)
    BY <2>8 DEF Publish, EnqueueFails, CallerDies, ProviderRejects, Admit
  <2>. QED  BY <2>2, <2>4, <2>5, <2>6, <2>7, <2>8 DEF CallerStep
<1>. QED  BY <1>1, <1>2, BusyDownloads, WorkersUndisturbed

LEMMA PeriodicKeepHold ==
  ASSUME IInv, HoldInv, RecoverStep \/ ReconcilerStep
  PROVE  HoldInv'
<1>1. UNCHANGED worker
  BY DEF RecoverStep, Recover, RecoverDisabled, RecoverDies, RecoverPublish, ReconcilerStep,
         ReadStorageKeys, ListObjectKeys, RepairMissing, ReconcilerDies, DeleteOrphan
<1>2. ASSUME NEW t \in Tracks, row[t].status = "downloading", row[t].lease = "running"
      PROVE row'[t] = row[t]
  <2>1. CASE Recover
    BY <1>2, <2>1 DEF Recover, RequeueStale, Exhausted, Stale
  <2>2. CASE RecoverDisabled
    BY <1>2, <2>2 DEF RecoverDisabled, FailQueued
  <2>3. CASE RepairMissing
    BY <1>2, <2>3 DEF RepairMissing, IInv, RowInv, ReconcilerReadsReady
  <2>4. CASE RecoverDies \/ (\E s \in Tracks : RecoverPublish(s)) \/ ReadStorageKeys
               \/ ListObjectKeys \/ ReconcilerDies \/ (\E s \in Tracks : DeleteOrphan(s))
    BY <2>4 DEF RecoverDies, RecoverPublish, ReadStorageKeys, ListObjectKeys,
                ReconcilerDies, DeleteOrphan
  <2>. QED  BY <2>1, <2>2, <2>3, <2>4 DEF RecoverStep, ReconcilerStep
<1>. QED  BY <1>1, <1>2, BusyDownloads, WorkersUndisturbed

LEMMA EnvironmentKeepsHold ==
  ASSUME TimelyLeases, IInv, HoldInv, EnvironmentStep
  PROVE  HoldInv'
<1>1. UNCHANGED worker
  BY DEF EnvironmentStep, ImportTrack, LeaseExpires, RequestAges, ObjectLost,
         SetPlayback, CachesExpire
<1>2. ASSUME NEW t \in Tracks, NEW v \in Workers, Busy(v, t) PROVE row'[t] = row[t]
  <2>1. row[t].status = "downloading" /\ row \in [Tracks -> Row]
    BY <1>2, BusyDownloads DEF IInv, TypeOK
  <2>2. CASE \E s \in Tracks : ImportTrack(s)
    BY <2>1, <2>2 DEF ImportTrack
  <2>3. CASE \E s \in Tracks : LeaseExpires(s)
    BY <1>2, <2>1, <2>3 DEF LeaseExpires
  <2>4. CASE \E s \in Tracks : RequestAges(s)
    BY <2>1, <2>4 DEF RequestAges
  <2>5. CASE SetPlayback \/ CachesExpire \/ \E s \in Tracks : ObjectLost(s)
    BY <2>5 DEF SetPlayback, CachesExpire, ObjectLost
  <2>. QED  BY <2>2, <2>3, <2>4, <2>5 DEF EnvironmentStep
<1>. QED  BY <1>1, <1>2, WorkersUndisturbed

LEMMA WorkerKeepsHold ==
  ASSUME IInv, HoldInv, NEW w \in Workers, WorkerStep(w)
  PROVE  HoldInv'
<1> DEFINE t == worker[w].track
           u == worker[w].task
<1>1. /\ worker \in [Workers -> [pc : WorkerPC, track : Tracks \cup {NoTrack},
                                task : TaskIds \cup {NoTask}, retries : 0..MaxRetries]]
      /\ row \in [Tracks -> Row]
      /\ worker[w].pc # "idle" => t \in Tracks /\ u \in TaskIds
  BY DEF IInv, TypeOK
<1>2. ASSUME NEW pc \in WorkerPC \ BusyPC,
             worker' = [worker EXCEPT ![w].pc = pc] \/ worker' = [worker EXCEPT ![w] = IdleWorker],
             \A s \in Tracks : (\E v \in Workers : v # w /\ Busy(v, s)) => row'[s] = row[s]
      PROVE  HoldInv'
  <2>1. PICK x : worker' = [worker EXCEPT ![w] = x] /\ x.pc \notin BusyPC
    <3>1. CASE worker' = [worker EXCEPT ![w].pc = pc]
      <4>1. worker' = [worker EXCEPT ![w] = [worker[w] EXCEPT !.pc = pc]]
        BY <1>1, <3>1
      <4>2. [worker[w] EXCEPT !.pc = pc].pc = pc
        BY <1>1
      <4>. QED  BY <1>2, <4>1, <4>2
    <3>2. CASE worker' = [worker EXCEPT ![w] = IdleWorker]
      <4>1. IdleWorker.pc \notin BusyPC
        BY DEF IdleWorker, BusyPC
      <4>. QED  BY <3>2, <4>1
    <3>. QED  BY <1>2, <3>1, <3>2
  <2>. QED  BY <1>2, <2>1, OthersUndisturbed
<1>3. CASE Deliver(w)
  <2>1. PICK m \in queue : worker' = [worker EXCEPT ![w] =
               [pc |-> "starting", track |-> m.track, task |-> m.task, retries |-> m.retries]]
    BY <1>3 DEF Deliver
  <2>2. UNCHANGED row
    BY <1>3 DEF Deliver
  <2> DEFINE x == [pc |-> "starting", track |-> m.track, task |-> m.task, retries |-> m.retries]
  <2>3. x.pc \notin BusyPC
    BY DEF BusyPC
  <2> HIDE DEF x
  <2>. QED  BY <2>1, <2>2, <2>3, OthersUndisturbed DEF x
<1>4. CASE StartFails(w) \/ FailureUnrecorded(w) \/ RepublishFails(w) \/ Start(w)
             \/ Republish(w) \/ Ack(w) \/ WorkerDies(w)
  <2>1. PICK pc \in WorkerPC \ BusyPC : worker' = [worker EXCEPT ![w].pc = pc]
                                          \/ worker' = [worker EXCEPT ![w] = IdleWorker]
    <3>1. CASE Ack(w) \/ WorkerDies(w)
      BY <3>1 DEF Ack, WorkerDies, WorkerPC, BusyPC
    <3>2. CASE StartFails(w) \/ FailureUnrecorded(w) \/ RepublishFails(w) \/ Start(w)
                 \/ Republish(w)
      <4>1. Step(w, "retrying") \/ Step(w, "finished") \/ Step(w, "claiming")
        BY <3>2 DEF StartFails, FailureUnrecorded, RepublishFails, Start, Republish
      <4>. QED  BY <4>1 DEF Step, WorkerPC, BusyPC
    <3>. QED  BY <1>4, <3>1, <3>2
  <2>2. UNCHANGED row
    BY <1>4 DEF StartFails, FailureUnrecorded, RepublishFails, Start, Republish, Ack, WorkerDies
  <2>. QED  BY <1>2, <2>1, <2>2
<1>5. CASE Refuse(w)
  <2>1. Step(w, "finished") /\ row' = [row EXCEPT ![t] = FailQueued(@)]
    BY <1>5 DEF Refuse
  <2>2. \A s \in Tracks : row[s].status = "downloading" => row'[s] = row[s]
    BY <1>1, <2>1 DEF FailQueued
  <2>. QED  BY <1>2, <2>1, <2>2, BusyDownloads DEF Step, WorkerPC, BusyPC
<1>6. CASE Retry(w)
  <2>1. Step(w, "finished") \/ Step(w, "republishing")
    BY <1>6 DEF Retry
  <2>2. \/ UNCHANGED row
        \/ Retriable(row[t]) /\ row' = [row EXCEPT ![t] = PreparedRetry(row[t])]
    BY <1>6 DEF Retry
  <2>3. \A s \in Tracks : row[s].status = "downloading" => row'[s] = row[s]
    BY <1>1, <2>2 DEF Retriable
  <2>. QED  BY <1>2, <2>1, <2>3, BusyDownloads DEF Step, WorkerPC, BusyPC
<1>7. CASE Claim(w)
  <2>1. CASE ~Claimable(row[t], u)
    BY <1>2, <1>7, <2>1 DEF Claim, Step, WorkerPC, BusyPC
  <2>2. CASE Claimable(row[t], u)
    <3> DEFINE x == [worker[w] EXCEPT !.pc = "downloading"]
    <3>1. worker' = [worker EXCEPT ![w] = x] /\ x.pc = "downloading" /\ x.track = t /\ x.task = u
      BY <1>1, <1>7, <2>2 DEF Claim, Step
    <3>2. t \in Tracks /\ row' = [row EXCEPT ![t] = Claimed(@, u)]
      BY <1>1, <1>7, <2>2 DEF Claim
    <3>3. Owns(row'[t], u) /\ row'[t].lease = "running"
      BY <1>1, <3>2 DEF Owns, Claimed, Row
    <3>4. \A v \in Workers : ~Busy(v, t)
      BY <2>2, <3>2, BusyDownloads DEF Claimable
    <3>5. \A s \in Tracks : (\E v \in Workers : v # w /\ Busy(v, s)) => row'[s] = row[s]
      BY <1>1, <3>2, <3>4
    <3> HIDE DEF x
    <3>. QED  BY <3>1, <3>3, <3>4, <3>5, OthersUndisturbed
  <2>. QED  BY <2>1, <2>2
<1>8. CASE Upload(w)
  <2> DEFINE x == [worker[w] EXCEPT !.pc = "uploaded"]
  <2>1. worker' = [worker EXCEPT ![w] = x] /\ x.pc = "uploaded" /\ x.track = t /\ x.task = u
    BY <1>1, <1>8 DEF Upload, Step
  <2>2. UNCHANGED row /\ Busy(w, t) /\ t \in Tracks
    BY <1>1, <1>8 DEF Upload, Busy
  <2>3. Owns(row[t], u) /\ row[t].lease = "running" /\ \A v \in Workers : Busy(v, t) => v = w
    BY <2>2 DEF HoldInv, WorkerHoldsRow, OneWorkerPerTrack
  <2> HIDE DEF x
  <2>. QED  BY <2>1, <2>2, <2>3, OthersUndisturbed
<1>9. CASE Complete(w) \/ NoMatch(w) \/ AttemptFails(w)
  <2>1. Busy(w, t) /\ t \in Tracks
    BY <1>1, <1>9 DEF Complete, NoMatch, AttemptFails, Busy
  <2>2. \A v \in Workers : Busy(v, t) => v = w
    BY <2>1 DEF HoldInv, OneWorkerPerTrack
  <2>3. \A s \in Tracks : s # t => row'[s] = row[s]
    BY <1>1, <1>9 DEF Complete, NoMatch, AttemptFails
  <2>4. Step(w, "finished") \/ Step(w, "retrying")
    BY <1>9 DEF Complete, NoMatch, AttemptFails
  <2>. QED  BY <1>2, <2>2, <2>3, <2>4 DEF Step, WorkerPC, BusyPC
<1>. QED
  BY <1>3, <1>4, <1>5, <1>6, <1>7, <1>8, <1>9 DEF WorkerStep

LEMMA HoldStep == ASSUME TimelyLeases PROVE IInv /\ HoldInv /\ [Next]_vars => HoldInv'
<1> SUFFICES ASSUME IInv, HoldInv, [Next]_vars PROVE HoldInv'
  OBVIOUS
<1>1. CASE UNCHANGED vars
  BY <1>1, WorkersUndisturbed DEF vars
<1>. QED
  BY <1>1, CallerKeepsHold, WorkerKeepsHold, PeriodicKeepHold, EnvironmentKeepsHold DEF Next

LEMMA HoldInit == Init => HoldInv
  BY DEF Init, IdleWorker, HoldInv, WorkerHoldsRow, OneWorkerPerTrack, Busy

\* With a lease longer than the hard time limit, no interleaving of requests,
\* redeliveries, retries, recovery and reconciliation takes a row from the
\* worker that downloads it (service.py:320-364).
THEOREM WorkerHolds == ASSUME TimelyLeases PROVE Spec => []WorkerHoldsRow
<1>1. IInv /\ HoldInv /\ [Next]_vars => HoldInv'
  BY HoldStep
<1>2. HoldInv => WorkerHoldsRow
  BY DEF HoldInv
<1>. QED  BY <1>1, <1>2, HoldInit, Invariance, PTL DEF Spec

\* Under the same condition no two workers download one track at a time
\* (claim_download, repository.py:196-222).
THEOREM OneWorker == ASSUME TimelyLeases PROVE Spec => []OneWorkerPerTrack
<1>1. IInv /\ HoldInv /\ [Next]_vars => HoldInv'
  BY HoldStep
<1>2. HoldInv => OneWorkerPerTrack
  BY DEF HoldInv
<1>. QED  BY <1>1, <1>2, HoldInit, Invariance, PTL DEF Spec
-----------------------------------------------------------------------------
(* Every step changes a row by one statement of the repository, or not.    *)

ByRequest(r, s) ==
  \/ s = Inserted(r)
  \/ Acquirable(Inserted(r)) /\ s = Queued(Inserted(r))
  \/ s = MarkEnqueueFailed(r)
  \/ \E u \in TaskIds : s = SetTaskId(r, u)

ByWorker(r, s) ==
  \/ s = FailQueued(r)
  \/ Retriable(r) /\ s = PreparedRetry(r)
  \/ \E u \in TaskIds : \/ Claimable(r, u) /\ s = Claimed(r, u)
                        \/ s = MarkFailed(r, u)

ByTime(r, s) ==
  \/ s = RequeueStale(r)
  \/ r.lease = "running" /\ s = LeasePassed(r)
  \/ r.status = "queued" /\ s = RequestAged(r)

ByReconciler(t, r, s) ==
  t \in reconciler.missing /\ r.status = "ready" /\ s = MarkStorageMissing(r)

ByCompletion(t, r, s) ==
  \E w \in Workers : /\ worker[w].pc = "uploaded" /\ worker[w].track = t
                     /\ s = MarkReady(r, worker[w].task)

RowStep(t) ==
  \/ row'[t] = row[t] \/ ByRequest(row[t], row'[t]) \/ ByWorker(row[t], row'[t])
  \/ ByTime(row[t], row'[t])
  \/ ByCompletion(t, row[t], row'[t]) \/ ByReconciler(t, row[t], row'[t])

LEMMA OneRowStep ==
  ASSUME IInv, NEW t \in Tracks, NEW s \in Tracks, NEW r,
         row' = [row EXCEPT ![s] = r],
         ByRequest(row[s], r) \/ ByWorker(row[s], r) \/ ByTime(row[s], r)
  PROVE  RowStep(t)
<1>1. row \in [Tracks -> Row]
  BY DEF IInv, TypeOK
<1>. QED  BY <1>1 DEF RowStep

LEMMA StepIsRowStep == ASSUME IInv, [Next]_vars, NEW t \in Tracks PROVE RowStep(t)
<1>1. /\ \A c \in Callers : caller[c].pc # "idle" => caller[c].track \in Tracks
      /\ \A c \in Callers : caller[c].pc \in {"assigning", "rebinding"} => caller[c].task \in TaskIds
      /\ \A w \in Workers : worker[w].pc # "idle" =>
                              worker[w].track \in Tracks /\ worker[w].task \in TaskIds
  BY DEF IInv, TypeOK
<1>2. CASE row' = row
  BY <1>2 DEF RowStep
<1>3. CASE row' # row /\ \E c \in Callers : CallerStep(c)
  <2>1. PICK c \in Callers : CallerStep(c)
    BY <1>3
  <2> DEFINE s == caller[c].track
  <2>2. CASE QueueExisting(c)
    <3>1. s \in Tracks /\ row' = [row EXCEPT ![s] = Queued(row[s])] /\ Acquirable(row[s])
      BY <1>1, <1>3, <2>2 DEF QueueExisting
    <3>2. row[s] = Inserted(row[s])
      BY <3>1 DEF Acquirable, Inserted
    <3>3. ByRequest(row[s], Queued(row[s]))
      BY <3>1, <3>2 DEF ByRequest
    <3>. QED  BY <3>1, <3>3, OneRowStep
  <2>3. CASE UpsertAndQueue(c)
    <3>1. s \in Tracks /\ row' = [row EXCEPT ![s] = Queued(Inserted(row[s]))]
          /\ Acquirable(Inserted(row[s]))
      BY <1>1, <1>3, <2>3 DEF UpsertAndQueue
    <3>2. ByRequest(row[s], Queued(Inserted(row[s])))
      BY <3>1 DEF ByRequest
    <3>. QED  BY <3>1, <3>2, OneRowStep
  <2>4. CASE AssignTask(c) \/ Rebind(c)
    <3>1. /\ s \in Tracks /\ caller[c].task \in TaskIds
          /\ row' = [row EXCEPT ![s] = SetTaskId(row[s], caller[c].task)]
      BY <1>1, <2>4 DEF AssignTask, Rebind
    <3>2. ByRequest(row[s], SetTaskId(row[s], caller[c].task))
      BY <3>1 DEF ByRequest
    <3>. QED  BY <3>1, <3>2, OneRowStep
  <2>5. CASE Abandon(c)
    <3>1. s \in Tracks /\ row' = [row EXCEPT ![s] = MarkEnqueueFailed(row[s])]
      BY <1>1, <2>5 DEF Abandon
    <3>2. ByRequest(row[s], MarkEnqueueFailed(row[s]))
      BY DEF ByRequest
    <3>. QED  BY <3>1, <3>2, OneRowStep
  <2>. QED
    BY <1>3, <2>1, <2>2, <2>3, <2>4, <2>5
    DEF CallerStep, Admit, ProviderRejects, Publish, EnqueueFails, CallerDies
<1>4. CASE row' # row /\ \E w \in Workers : WorkerStep(w)
  <2>1. PICK w \in Workers : WorkerStep(w)
    BY <1>4
  <2> DEFINE s == worker[w].track
             u == worker[w].task
  <2>2. CASE Refuse(w)
    <3>1. s \in Tracks /\ row' = [row EXCEPT ![s] = FailQueued(row[s])]
      BY <1>1, <2>2 DEF Refuse
    <3>2. ByWorker(row[s], FailQueued(row[s]))
      BY DEF ByWorker
    <3>. QED  BY <3>1, <3>2, OneRowStep
  <2>3. CASE Claim(w)
    <3>1. s \in Tracks /\ u \in TaskIds /\ row' = [row EXCEPT ![s] = Claimed(row[s], u)]
          /\ Claimable(row[s], u)
      BY <1>1, <1>4, <2>3 DEF Claim
    <3>2. ByWorker(row[s], Claimed(row[s], u))
      BY <3>1 DEF ByWorker
    <3>. QED  BY <3>1, <3>2, OneRowStep
  <2>4. CASE Complete(w)
    <3>1. s \in Tracks /\ u \in TaskIds /\ row' = [row EXCEPT ![s] = MarkReady(row[s], u)]
      BY <1>1, <2>4 DEF Complete
    <3>2. ByCompletion(s, row[s], MarkReady(row[s], u))
      BY <2>4 DEF ByCompletion, Complete
    <3>3. row \in [Tracks -> Row]
      BY DEF IInv, TypeOK
    <3>. QED  BY <3>1, <3>2, <3>3 DEF RowStep
  <2>5. CASE NoMatch(w) \/ AttemptFails(w)
    <3>1. s \in Tracks /\ u \in TaskIds /\ row' = [row EXCEPT ![s] = MarkFailed(row[s], u)]
      BY <1>1, <2>5 DEF NoMatch, AttemptFails
    <3>2. ByWorker(row[s], MarkFailed(row[s], u))
      BY <3>1 DEF ByWorker
    <3>. QED  BY <3>1, <3>2, OneRowStep
  <2>6. CASE Retry(w)
    <3>1. s \in Tracks /\ row' = [row EXCEPT ![s] = PreparedRetry(row[s])] /\ Retriable(row[s])
      BY <1>1, <1>4, <2>6 DEF Retry
    <3>2. ByWorker(row[s], PreparedRetry(row[s]))
      BY <3>1 DEF ByWorker
    <3>. QED  BY <3>1, <3>2, OneRowStep
  <2>. QED
    BY <1>4, <2>1, <2>2, <2>3, <2>4, <2>5, <2>6
    DEF WorkerStep, Deliver, StartFails, Start, Upload, FailureUnrecorded, Republish,
        RepublishFails, Ack, WorkerDies
<1>5. CASE row' # row /\ RecoverStep
  <2>1. CASE Recover
    <3>1. row'[t] = RequeueStale(row[t])
      BY <2>1 DEF Recover
    <3>. QED  BY <3>1 DEF RowStep, ByTime
  <2>2. CASE RecoverDisabled
    <3>1. row'[t] = FailQueued(row[t])
      BY <2>2 DEF RecoverDisabled
    <3>. QED  BY <3>1 DEF RowStep, ByWorker
  <2>. QED  BY <1>5, <2>1, <2>2 DEF RecoverStep, RecoverDies, RecoverPublish
<1>6. CASE row' # row /\ ReconcilerStep
  <2>1. RepairMissing
    BY <1>6 DEF ReconcilerStep, ReadStorageKeys, ListObjectKeys, ReconcilerDies, DeleteOrphan
  <2>2. CASE t \in reconciler.missing
    BY <2>1, <2>2 DEF RepairMissing, RowStep, ByReconciler, IInv, RowInv, ReconcilerReadsReady
  <2>3. CASE t \notin reconciler.missing
    BY <2>1, <2>3 DEF RepairMissing, RowStep
  <2>. QED  BY <2>2, <2>3
<1>7. CASE row' # row /\ EnvironmentStep
  <2>1. PICK s \in Tracks : ImportTrack(s) \/ LeaseExpires(s) \/ RequestAges(s)
    BY <1>7 DEF EnvironmentStep, ObjectLost, SetPlayback, CachesExpire
  <2>2. CASE ImportTrack(s)
    <3>1. row' = [row EXCEPT ![s] = Inserted(row[s])] /\ ByRequest(row[s], Inserted(row[s]))
      BY <2>2 DEF ImportTrack, ByRequest
    <3>. QED  BY <3>1, OneRowStep
  <2>3. CASE LeaseExpires(s)
    <3>1. row' = [row EXCEPT ![s] = LeasePassed(row[s])] /\ ByTime(row[s], LeasePassed(row[s]))
      BY <2>3 DEF LeaseExpires, ByTime
    <3>. QED  BY <3>1, OneRowStep
  <2>4. CASE RequestAges(s)
    <3>1. row' = [row EXCEPT ![s] = RequestAged(row[s])] /\ ByTime(row[s], RequestAged(row[s]))
      BY <2>4 DEF RequestAges, ByTime
    <3>. QED  BY <3>1, OneRowStep
  <2>. QED  BY <2>1, <2>2, <2>3, <2>4
<1>. QED
  BY <1>2, <1>3, <1>4, <1>5, <1>6, <1>7 DEF Next, vars

\* "ready" is left only through the reconciler.
LEMMA ReadyStays ==
  ASSUME IInv, [Next]_vars, NEW t \in Tracks, row[t].status = "ready"
  PROVE  row'[t].status = "ready" \/ ByReconciler(t, row[t], row'[t])
<1> DEFINE r == row[t]
<1>1. RowStep(t) /\ r \in GoodRow
  BY StepIsRowStep, RowType
<1> HIDE DEF r
<1>2. r.status = "ready" /\ r.lease = "none"
  BY <1>1 DEF r, GoodRow, Row, RowOK
<1>3. ASSUME NEW s, ByRequest(r, s) PROVE s = r
  BY <1>2, <1>3 DEF ByRequest, Inserted, Acquirable, MarkEnqueueFailed, SetTaskId
<1>4. ASSUME NEW s, ByWorker(r, s) PROVE s = r
  BY <1>2, <1>4 DEF ByWorker, FailQueued, Retriable, Claimable, MarkReady, MarkFailed, Owns
<1>5. ASSUME NEW s, ByTime(r, s) PROVE s = r
  BY <1>2, <1>5 DEF ByTime, RequeueStale, Exhausted, Stale
<1>6. ASSUME NEW s, ByCompletion(t, r, s) PROVE s = r
  BY <1>2, <1>6 DEF ByCompletion, MarkReady, Owns
<1>. QED
  BY <1>1, <1>2, <1>3, <1>4, <1>5, <1>6 DEF RowStep, r

\* "ready" is reached only by a worker that has uploaded the object.
LEMMA ReadyByCompletion ==
  ASSUME IInv, [Next]_vars, NEW t \in Tracks,
         row[t].status # "ready", row'[t].status = "ready"
  PROVE  \E w \in Workers : worker[w].pc = "uploaded" /\ worker[w].track = t
<1> DEFINE r == row[t]
           s == row'[t]
<1>1. RowStep(t) /\ r \in GoodRow
  BY StepIsRowStep, RowType
<1>2. r.status # "ready" /\ s.status = "ready" /\ s # r
  OBVIOUS
<1> HIDE DEF r, s
<1>3. r \in Row
  BY <1>1 DEF GoodRow
<1>4. ~ByRequest(r, s)
  BY <1>2, <1>3 DEF ByRequest, Inserted, NewRow, AbsentRow, Queued, MarkEnqueueFailed,
     SetTaskId, Row
<1>5. ~ByWorker(r, s)
  BY <1>2, <1>3 DEF ByWorker, FailQueued, PreparedRetry, Claimed, MarkFailed, Row
<1>6. ~ByTime(r, s)
  BY <1>2, <1>3 DEF ByTime, RequeueStale, LeasePassed, RequestAged, Row
<1>7. ~ByReconciler(t, r, s)
  BY <1>2 DEF ByReconciler
<1>. QED  BY <1>1, <1>2, <1>4, <1>5, <1>6, <1>7 DEF RowStep, ByCompletion, r, s

-----------------------------------------------------------------------------
(* The database and the object store.                                      *)

\* What the reconciler found missing is still missing.
StillMissing == \A t \in reconciler.missing : t \notin objects

LEMMA ReconcilerMoves ==
  ASSUME IInv, ReconcilerStep
  PROVE  /\ reconciler'.missing \subseteq reconciler.missing \cup (Tracks \ objects)
         /\ objects' \subseteq objects
         /\ ~DeleteOrphans /\ reconciler.orphans = {}
              => objects' = objects /\ reconciler'.orphans = {}
<1>1. /\ reconciler.expected \subseteq Tracks
      /\ reconciler = [pc |-> reconciler.pc, expected |-> reconciler.expected,
                       missing |-> reconciler.missing, orphans |-> reconciler.orphans]
  BY DEF IInv, TypeOK
<1>2. CASE ReadStorageKeys
  <2>1. reconciler'.missing = reconciler.missing /\ reconciler'.orphans = reconciler.orphans
    BY <1>1, <1>2 DEF ReadStorageKeys
  <2>. QED  BY <1>2, <2>1 DEF ReadStorageKeys
<1>3. CASE ListObjectKeys
  BY <1>1, <1>3 DEF ListObjectKeys, ObjectKeys
<1>4. CASE RepairMissing
  BY <1>1, <1>4 DEF RepairMissing, IdleReconciler
<1>5. CASE ReconcilerDies
  BY <1>5 DEF ReconcilerDies, IdleReconciler
<1>6. CASE \E t \in Tracks : DeleteOrphan(t)
  <2>1. PICK t \in Tracks : DeleteOrphan(t)
    BY <1>6
  <2>2. reconciler'.missing \subseteq reconciler.missing
    BY <1>1, <2>1 DEF DeleteOrphan, IdleReconciler
  <2>. QED  BY <2>1, <2>2 DEF DeleteOrphan, DeleteObject
<1>. QED  BY <1>2, <1>3, <1>4, <1>5, <1>6 DEF ReconcilerStep

LEMMA MissingStep ==
  IInv /\ HoldInv /\ StillMissing /\ [Next]_vars => StillMissing'
<1> SUFFICES ASSUME IInv, HoldInv, StillMissing, [Next]_vars PROVE StillMissing'
  OBVIOUS
<1>1. CASE \E w \in Workers : Upload(w)
  <2>1. PICK w \in Workers : Upload(w)
    BY <1>1
  <2>2. Busy(w, worker[w].track) /\ worker[w].track \in Tracks
    BY <2>1 DEF Upload, Busy, IInv, TypeOK
  <2>3. worker[w].track \notin reconciler.missing
    BY <2>2, BusyDownloads DEF IInv, RowInv, ReconcilerReadsReady
  <2>. QED  BY <2>1, <2>3 DEF Upload, Put, StillMissing
<1>2. CASE ReconcilerStep
  BY <1>2, ReconcilerMoves DEF StillMissing
<1>3. CASE \E t \in Tracks : ObjectLost(t)
  BY <1>3 DEF ObjectLost, StillMissing
<1>4. CASE UNCHANGED <<objects, reconciler>>
  BY <1>4 DEF StillMissing
<1>5. CASE \E c \in Callers : CallerStep(c)
  BY <1>4, <1>5 DEF CallerStep, Admit, QueueExisting, ProviderRejects, UpsertAndQueue,
       AssignTask, Publish, Rebind, EnqueueFails, Abandon, CallerDies
<1>6. CASE \E w \in Workers : WorkerStep(w)
  BY <1>1, <1>4, <1>6 DEF WorkerStep, Deliver, StartFails, Start, Refuse, Claim, Complete,
       NoMatch, AttemptFails, FailureUnrecorded, Retry, Republish, RepublishFails, Ack, WorkerDies
<1>7. CASE RecoverStep
  BY <1>4, <1>7 DEF RecoverStep, Recover, RecoverDisabled, RecoverDies, RecoverPublish
<1>8. CASE EnvironmentStep
  BY <1>3, <1>4, <1>8 DEF EnvironmentStep, ImportTrack, LeaseExpires, RequestAges,
       SetPlayback, CachesExpire
<1>. QED
  BY <1>2, <1>4, <1>5, <1>6, <1>7, <1>8 DEF Next, vars

\* Reconciliation works from two listings taken one after the other, yet it
\* takes "ready" away only from a track whose object is missing at that
\* moment (tasks.py:51-67).
THEOREM DemotionSound == ASSUME TimelyLeases PROVE Spec => OnlyBrokenDemoted
<1>1. Init => HoldInv /\ StillMissing
  BY HoldInit DEF Init, StillMissing, IdleReconciler
<1>2. IInv /\ HoldInv /\ StillMissing /\ [Next]_vars => HoldInv' /\ StillMissing'
  BY HoldStep, MissingStep
<1>3. IInv /\ StillMissing /\ [Next]_vars =>
        [\A t \in Tracks :
           row[t].status = "ready" /\ row'[t].status # "ready" => ~Presigned(t)]_vars
  BY ReadyStays DEF ByReconciler, StillMissing, Presigned, ObjectExists
<1>. QED  BY <1>1, <1>2, <1>3, Invariance, PTL DEF Spec, OnlyBrokenDemoted

ObjectInv ==
  /\ \A t \in Tracks : row[t].status = "ready" => Presigned(t)
  /\ \A w \in Workers : worker[w].pc = "uploaded" => worker[w].track \in objects
  /\ reconciler.orphans = {}

LEMMA WorkerTypes ==
  ASSUME IInv, NEW w \in Workers
  PROVE  worker = [v \in Workers |-> worker[v]] /\ DOMAIN worker = Workers
         /\ worker[w] = [pc |-> worker[w].pc, track |-> worker[w].track,
                         task |-> worker[w].task, retries |-> worker[w].retries]
  BY DEF IInv, TypeOK

\* A worker is at "uploaded" because it has just put its object, or was there
\* before.
LEMMA UploadedBy ==
  ASSUME IInv, NEW v \in Workers, NEW w \in Workers, WorkerStep(v),
         worker'[w].pc = "uploaded"
  PROVE  \/ Upload(v) /\ worker'[w].track \in objects'
         \/ worker'[w].pc = worker[w].pc /\ worker'[w].track = worker[w].track
<1> DEFINE Moves(x) == worker' = [worker EXCEPT ![v] = x] /\ x.pc # "uploaded"
<1>1. ASSUME NEW x, Moves(x) PROVE worker'[w] = worker[w]
  BY <1>1, WorkerTypes
<1>2. ASSUME NEW pc, Step(v, pc), pc # "uploaded"
      PROVE  worker'[w] = worker[w]
  BY <1>2, WorkerTypes DEF Step
<1>3. CASE Upload(v)
  BY <1>3, WorkerTypes DEF Upload, Put, Step
<1>4. CASE Deliver(v)
  <2>1. PICK m \in queue : Moves([pc |-> "starting", track |-> m.track, task |-> m.task,
                                  retries |-> m.retries])
    BY <1>4 DEF Deliver
  <2>. QED  BY <1>1, <2>1
<1>5. CASE Ack(v) \/ WorkerDies(v)
  <2>1. Moves(IdleWorker)
    BY <1>5 DEF Ack, WorkerDies, IdleWorker
  <2>. QED  BY <1>1, <2>1
<1> HIDE DEF Moves
<1>6. CASE ~Upload(v) /\ ~Deliver(v) /\ ~Ack(v) /\ ~WorkerDies(v)
  <2>1. \E pc \in WorkerPC \ {"uploaded"} : Step(v, pc)
    BY <1>6 DEF WorkerStep, StartFails, Start, Refuse, Claim, Complete, NoMatch, AttemptFails,
       FailureUnrecorded, Retry, Republish, RepublishFails, WorkerPC
  <2>. QED  BY <1>2, <2>1
<1>. QED  BY <1>3, <1>4, <1>5, <1>6

LEMMA ObjectStep ==
  ASSUME ObjectsDurable, ~DeleteOrphans
  PROVE  IInv /\ ObjectInv /\ [Next]_vars => ObjectInv'
<1> SUFFICES ASSUME IInv, ObjectInv, [Next]_vars PROVE ObjectInv'
  OBVIOUS
<1>1. objects \subseteq objects' /\ reconciler'.orphans = {}
  <2>1. CASE \E c \in Callers : CallerStep(c)
    BY <2>1 DEF CallerStep, Admit, QueueExisting, ProviderRejects, UpsertAndQueue, AssignTask,
         Publish, Rebind, EnqueueFails, Abandon, CallerDies, ObjectInv
  <2>2. CASE \E w \in Workers : WorkerStep(w)
    BY <2>2 DEF WorkerStep, Deliver, StartFails, Start, Refuse, Claim, Upload, Put, Complete,
         NoMatch, AttemptFails, FailureUnrecorded, Retry, Republish, RepublishFails, Ack, WorkerDies,
         ObjectInv
  <2>3. CASE RecoverStep
    BY <2>3 DEF RecoverStep, Recover, RecoverDisabled, RecoverDies, RecoverPublish, ObjectInv
  <2>4. CASE ReconcilerStep
    BY <2>4, ReconcilerMoves DEF ObjectInv
  <2>5. CASE EnvironmentStep
    BY <2>5 DEF EnvironmentStep, ImportTrack, LeaseExpires, RequestAges, ObjectLost,
         SetPlayback, CachesExpire, ObjectInv
  <2>6. CASE UNCHANGED vars
    BY <2>6 DEF vars, ObjectInv
  <2>. QED  BY <2>1, <2>2, <2>3, <2>4, <2>5, <2>6 DEF Next
<1>2. ASSUME NEW w \in Workers, worker'[w].pc = "uploaded" PROVE worker'[w].track \in objects'
  <2>1. CASE \E v \in Workers : WorkerStep(v)
    <3>1. PICK v \in Workers : WorkerStep(v)
      BY <2>1
    <3>2. \/ Upload(v) /\ worker'[w].track \in objects'
          \/ worker'[w].pc = worker[w].pc /\ worker'[w].track = worker[w].track
      BY <1>2, <3>1, WorkerTypes, UploadedBy
    <3>. QED  BY <1>1, <1>2, <3>2 DEF ObjectInv
  <2>2. CASE UNCHANGED worker
    BY <1>1, <1>2, <2>2 DEF ObjectInv
  <2>3. (\E c \in Callers : CallerStep(c)) => UNCHANGED worker
    BY DEF CallerStep, Admit, QueueExisting, ProviderRejects, UpsertAndQueue, AssignTask,
         Publish, Rebind, EnqueueFails, Abandon, CallerDies
  <2>4. RecoverStep \/ ReconcilerStep \/ EnvironmentStep => UNCHANGED worker
    BY DEF RecoverStep, Recover, RecoverDisabled, RecoverDies, RecoverPublish, ReconcilerStep,
         ReadStorageKeys, ListObjectKeys, RepairMissing, ReconcilerDies, DeleteOrphan,
         EnvironmentStep, ImportTrack, LeaseExpires, RequestAges, ObjectLost, SetPlayback,
         CachesExpire
  <2>. QED  BY <2>1, <2>2, <2>3, <2>4 DEF Next, vars
<1>3. ASSUME NEW t \in Tracks, row'[t].status = "ready", row[t].status # "ready"
      PROVE  t \in objects'
  BY <1>1, <1>3, ReadyByCompletion DEF ObjectInv
<1>4. \A t \in Tracks : row'[t].status = "ready" => Presigned(t)'
  BY <1>1, <1>3 DEF ObjectInv, Presigned, ObjectExists
<1>. QED  BY <1>1, <1>2, <1>4 DEF ObjectInv

\* A track offered for playback streams, as long as the store keeps what it
\* has and orphans are not deleted (service.py:268-305).
THEOREM ObjectsPresent ==
  ASSUME ObjectsDurable, ~DeleteOrphans PROVE Spec => []ReadyStreams
<1>1. Init => ObjectInv
  <2>. SUFFICES ASSUME Init PROVE ObjectInv
    OBVIOUS
  <2>1. \A t \in Tracks : row[t].status # "ready"
    BY DEF Init, AbsentRow
  <2>. QED  BY <2>1 DEF Init, ObjectInv, IdleReconciler, IdleWorker
<1>2. IInv /\ ObjectInv /\ [Next]_vars => ObjectInv'
  BY ObjectStep
<1>3. IInv /\ ObjectInv => ReadyStreams
  BY KeyIffReadyHolds DEF ObjectInv, ReadyStreams, Streams, KeyIffReady
<1>. QED  BY <1>1, <1>2, <1>3, Invariance, PTL DEF Spec

-----------------------------------------------------------------------------
(* The pipeline implements the life cycle.                                 *)

\* How one row may change, in the terms of TrackLifecycle.
Moved(r, s) ==
  \/ Lifecycle!Moves(r.status, r.attempts, s.status, s.attempts)
  \/ s.status = r.status /\ s.attempts = r.attempts

LEMMA RequestMoves ==
  ASSUME NEW r \in GoodRow, NEW s, ByRequest(r, s) PROVE Moved(r, s)
<1>1. /\ r \in Row /\ (r.status = "absent" => r.attempts = 0)
      /\ NewRow \in Row /\ NewRow.status = "not_requested" /\ NewRow.attempts = 0
  BY InitialRows DEF GoodRow, RowOK, NewRow, AbsentRow
<1>2. CASE s = Inserted(r)
  BY <1>1, <1>2 DEF Inserted, Moved, Lifecycle!Moves, Lifecycle!Imported
<1>3. CASE Acquirable(Inserted(r)) /\ s = Queued(Inserted(r))
  <2>1. PICK i \in Row : i = Inserted(r)
    BY <1>1 DEF Inserted
  <2>2. /\ s.status = "queued"
        /\ s.attempts = IF i.attempts >= MaxAttempts THEN 0 ELSE i.attempts
    BY <1>3, <2>1 DEF Queued, Row
  <2>3. /\ i.attempts = r.attempts
        /\ r.status \in {"absent", "not_requested", "failed"}
    BY <1>1, <1>3, <2>1 DEF Inserted, Acquirable
  <2>. QED  BY <2>2, <2>3 DEF Moved, Lifecycle!Moves, Lifecycle!Requested
<1>4. CASE s = MarkEnqueueFailed(r)
  BY <1>1, <1>4 DEF MarkEnqueueFailed, Row, Moved, Lifecycle!Moves, Lifecycle!Failed
<1>5. CASE \E u \in TaskIds : s = SetTaskId(r, u)
  BY <1>1, <1>5 DEF SetTaskId, Row, Moved
<1>. QED  BY <1>2, <1>3, <1>4, <1>5 DEF ByRequest

LEMMA WorkerMoves ==
  ASSUME NEW r \in GoodRow, NEW s, ByWorker(r, s) PROVE Moved(r, s)
<1>1. r \in Row
  BY DEF GoodRow
<1>2. CASE s = FailQueued(r)
  BY <1>1, <1>2 DEF FailQueued, Row, Moved, Lifecycle!Moves, Lifecycle!Failed
<1>3. CASE Retriable(r) /\ s = PreparedRetry(r)
  BY <1>1, <1>3 DEF Retriable, PreparedRetry, Row, Moved, Lifecycle!Moves, Lifecycle!Requeued
<1>4. CASE \E u \in TaskIds : Claimable(r, u) /\ s = Claimed(r, u)
  BY <1>1, <1>4 DEF Claimable, Claimed, Row, Moved, Lifecycle!Moves, Lifecycle!Attempted
<1>5. CASE \E u \in TaskIds : s = MarkFailed(r, u)
  BY <1>1, <1>5 DEF MarkFailed, Owns, Row, Moved, Lifecycle!Moves, Lifecycle!Failed
<1>. QED  BY <1>2, <1>3, <1>4, <1>5 DEF ByWorker

LEMMA TimeMoves ==
  ASSUME NEW r \in GoodRow, NEW s, ByTime(r, s) PROVE Moved(r, s)
<1>1. r \in Row /\ (r.status = "queued" => r.attempts < MaxAttempts)
  BY DEF GoodRow, RowOK
<1>2. CASE s = RequeueStale(r) /\ Exhausted(r)
  BY <1>1, <1>2 DEF RequeueStale, Exhausted, Row, Moved, Lifecycle!Moves, Lifecycle!Failed
<1>3. CASE s = RequeueStale(r) /\ ~Exhausted(r)
  BY <1>1, <1>3 DEF RequeueStale, Stale, Row, Moved, Lifecycle!Moves, Lifecycle!Requeued
<1>4. CASE s = LeasePassed(r) \/ s = RequestAged(r)
  BY <1>1, <1>4 DEF LeasePassed, RequestAged, Row, Moved
<1>. QED  BY <1>2, <1>3, <1>4 DEF ByTime

LEMMA FinishMoves ==
  ASSUME NEW r \in GoodRow, NEW s, NEW t, ByCompletion(t, r, s) \/ ByReconciler(t, r, s)
  PROVE  Moved(r, s)
<1>1. r \in Row
  BY DEF GoodRow
<1>2. CASE ByCompletion(t, r, s)
  BY <1>1, <1>2
  DEF ByCompletion, MarkReady, Owns, Row, Moved, Lifecycle!Moves, Lifecycle!Succeeded
<1>3. CASE ByReconciler(t, r, s)
  BY <1>1, <1>3
  DEF ByReconciler, MarkStorageMissing, Row, Moved, Lifecycle!Moves, Lifecycle!Missing
<1>. QED  BY <1>2, <1>3

\* Every step of the pipeline is a step of the life cycle.
LEMMA StepMoves == IInv /\ IInv' /\ [Next]_vars => [Lifecycle!Next]_<<
    [t \in Tracks |-> row[t].status], [t \in Tracks |-> row[t].attempts]>>
<1> SUFFICES ASSUME IInv, IInv', [Next]_vars PROVE Lifecycle!Next
  OBVIOUS
<1>1. ASSUME NEW t \in Tracks PROVE Moved(row[t], row'[t])
  <2>1. RowStep(t) /\ row[t] \in GoodRow
    BY StepIsRowStep, RowType
  <2>. QED
    BY <2>1, RequestMoves, WorkerMoves, TimeMoves, FinishMoves DEF RowStep, Moved
<1>2. ASSUME NEW t \in Tracks
      PROVE  row'[t].status \in Status /\ row'[t].attempts \in 0..MaxAttempts
  BY DEF IInv, TypeOK, Row
<1>. QED  BY <1>1, <1>2 DEF Lifecycle!Next, Lifecycle!Statuses, Status, Moved

\* Seen from outside, a track follows the life cycle of TrackLifecycle: no
\* race, retry or crash invents a transition or an attempt (models.py:16,
\* repository.py:64-352).
THEOREM Refinement == Spec => ImplementsLifecycle
<1>1. Init => Lifecycle!Init
  BY DEF Init, Lifecycle!Init, AbsentRow
<1>. QED  BY <1>1, StepMoves, Invariance, PTL DEF Spec, ImplementsLifecycle, Lifecycle!Spec
=============================================================================
