------------------------------ MODULE TrackRow ------------------------------
(***************************************************************************)
(* One row of the `tracks` table, as the download pipeline sees it, and    *)
(* the statements of modules/tracks/repository.py that change it.  Every   *)
(* statement is one transaction in the code, so each is one operator here: *)
(* a function from the row before to the row after, in which the WHERE     *)
(* clause is the condition of the IF (a row that does not match is left    *)
(* alone).                                                                 *)
(*                                                                         *)
(* Data is abstracted to what the statements test:                         *)
(*   status    download_status, plus "absent" for "no such row yet";       *)
(*   attempts  download_attempts;                                          *)
(*   task      download_task_id, NoTask for SQL NULL;                      *)
(*   lease     download_lease_expires_at: "none" is NULL, "running" is in  *)
(*             the future, "expired" in the past;                          *)
(*   old       download_requested_at is more than five minutes ago;        *)
(*   key       storage_key is not NULL (its value is a function of the     *)
(*             track: service.py:346).                                     *)
(***************************************************************************)
EXTENDS Integers

CONSTANTS
  TaskIds,      \* Celery task ids, uuid4 values in the code
  NoTask,       \* SQL NULL
  MaxAttempts   \* settings.CELERY_TASK_MAX_RETRIES

\* The code reads CELERY_TASK_MAX_RETRIES (default 3) as the attempt budget;
\* a budget of 0 would make every acquire requeue a row no worker may claim.
ASSUME BudgetAssumption == MaxAttempts \in Nat \ {0}
ASSUME NoTaskAssumption == NoTask \notin TaskIds

Status == {"absent", "not_requested", "queued", "downloading", "ready", "failed"}

Row == [status   : Status,
        attempts : 0..MaxAttempts,
        task     : TaskIds \cup {NoTask},
        lease    : {"none", "running", "expired"},
        old      : BOOLEAN,
        key      : BOOLEAN]

AbsentRow == [status |-> "absent", attempts |-> 0, task |-> NoTask,
              lease |-> "none", old |-> FALSE, key |-> FALSE]

\* A row as an INSERT leaves it: metadata only, nothing requested.
NewRow == [AbsentRow EXCEPT !.status = "not_requested"]

-----------------------------------------------------------------------------
(* The API side: queue_existing and upsert_and_queue share this rule.      *)

Acquirable(r) == r.status \in {"not_requested", "failed"}

\* Mutant: a request that never gives the attempts back.
QueuedKeepingAttempts(r) ==
  [r EXCEPT !.status = "queued", !.lease = "none", !.old = FALSE]

\* Mutant: a request that always gives the attempts back.
QueuedFromScratch(r) ==
  [r EXCEPT !.status = "queued", !.attempts = 0, !.lease = "none", !.old = FALSE]

Queued(r) == [r EXCEPT !.status   = "queued",
                       !.attempts = IF @ >= MaxAttempts THEN 0 ELSE @,
                       !.lease    = "none",
                       !.old      = FALSE]

\* insert ... on conflict do nothing
Inserted(r) == IF r.status = "absent" THEN NewRow ELSE r

SetTaskId(r, u) ==
  IF r.status = "queued" THEN [r EXCEPT !.task = u] ELSE r

MarkEnqueueFailed(r) ==
  IF r.status = "queued" THEN [r EXCEPT !.status = "failed"] ELSE r

-----------------------------------------------------------------------------
(* The worker side.                                                        *)

\* mark_queued_failed and fail_queued_playback_disabled
FailQueued(r) ==
  IF r.status = "queued"
    THEN [r EXCEPT !.status = "failed", !.lease = "none"] ELSE r

\* Mutant: a claim that only looks at whether the work is done.
ClaimableUnlessReady(r, u) == r.status # "ready"

Claimable(r, u) == r.status = "queued" /\ r.task \in {u, NoTask}

Claimed(r, u) == [r EXCEPT !.status   = "downloading",
                           !.attempts = @ + 1,
                           !.task     = u,
                           !.lease    = "running"]

\* The fence of mark_ready and mark_failed.
Owns(r, u) == r.status = "downloading" /\ r.task = u

MarkReady(r, u) ==
  IF Owns(r, u)
    THEN [r EXCEPT !.status = "ready", !.key = TRUE, !.lease = "none"] ELSE r

\* Mutant: a failure recorded by track id alone.
MarkFailedUnfenced(r, u) == [r EXCEPT !.status = "failed", !.lease = "none"]

MarkFailed(r, u) ==
  IF Owns(r, u)
    THEN [r EXCEPT !.status = "failed", !.lease = "none"] ELSE r

\* Mutant: one retry too many.
RetriableOnceMore(r) == r.status = "failed" /\ r.attempts <= MaxAttempts

Retriable(r) == r.status = "failed" /\ r.attempts < MaxAttempts

PreparedRetry(r) == [r EXCEPT !.status = "queued", !.old = FALSE, !.task = NoTask]

-----------------------------------------------------------------------------
(* The periodic tasks.                                                     *)

Exhausted(r) ==
  /\ r.status = "downloading"
  /\ r.lease = "expired"
  /\ r.attempts >= MaxAttempts

\* Mutant: every download is stale, its lease is not looked at.
StaleIgnoringLease(r) ==
  /\ r.status = "downloading" \/ (r.status = "queued" /\ r.old)
  /\ r.attempts < MaxAttempts

\* Mutant: only downloads are recovered, lost messages are not.
StaleDownloadsOnly(r) ==
  r.status = "downloading" /\ r.lease = "expired" /\ r.attempts < MaxAttempts

\* Mutant: only lost messages are recovered, dead workers are not.
StaleQueuedOnly(r) ==
  r.status = "queued" /\ r.old /\ r.attempts < MaxAttempts

Stale(r) ==
  /\ \/ r.status = "downloading" /\ r.lease = "expired"
     \/ r.status = "queued" /\ r.old
  /\ r.attempts < MaxAttempts

\* Mutant: the requeued row stays bound to the task id of the lost message.
RequeueKeepingTask(r) ==
  IF Exhausted(r) THEN [r EXCEPT !.status = "failed", !.lease = "none"]
  ELSE IF Stale(r) THEN [r EXCEPT !.status = "queued", !.lease = "none", !.old = FALSE]
  ELSE r

\* Both UPDATEs of requeue_stale, in their order and in one transaction.
RequeueStale(r) ==
  IF Exhausted(r) THEN [r EXCEPT !.status = "failed", !.lease = "none"]
  ELSE IF Stale(r) THEN [r EXCEPT !.status = "queued", !.lease = "none",
                                  !.old = FALSE, !.task = NoTask]
  ELSE r

\* Mutant: the key goes, the status stays.
ForgetStorageKey(r) == [r EXCEPT !.key = FALSE]

\* mark_storage_missing: selected by id alone, whatever the status is by now.
MarkStorageMissing(r) == [r EXCEPT !.status = "failed", !.key = FALSE]

-----------------------------------------------------------------------------
(* The passage of time.                                                    *)

LeasePassed(r) == [r EXCEPT !.lease = "expired"]

RequestAged(r) == [r EXCEPT !.old = TRUE]
=============================================================================
