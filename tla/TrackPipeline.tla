---------------------------- MODULE TrackPipeline ----------------------------
(***************************************************************************)
(* Acquisition of tracks: API requests that queue a download and publish a *)
(* Celery message, workers that claim the row, download, upload and finish *)
(* it, and the two periodic tasks that recover stale downloads and         *)
(* reconcile the database with the object store.                           *)
(*                                                                         *)
(* One action is one await-free stretch of the code: usually one database  *)
(* transaction or one call to the broker or the object store.  Between two *)
(* of them anything else may run.                                          *)
(***************************************************************************)
EXTENDS TrackRow, FiniteSets

CONSTANTS
  Tracks,           \* (source, source_id) pairs: the rows there can be
  Callers,          \* API requests in POST /tracks/acquire at the same time
  Workers,          \* slots of the Celery worker pool
  NoTrack,
  MaxFaults,        \* bound: crashes, broker and storage failures, lost objects
  TimelyLeases,     \* TRUE: no execution outlives its lease
  ObjectsDurable,   \* TRUE: the store loses no object by itself
  PlaybackChanges,  \* TRUE: an administrator switches playback off and on
  DeleteOrphans     \* the delete_orphans argument of reconcile_track_storage

ASSUME NoTrackAssumption == NoTrack \notin Tracks
ASSUME FaultsAssumption == MaxFaults \in Nat
ASSUME SwitchesAssumption ==
  /\ TimelyLeases \in BOOLEAN /\ ObjectsDurable \in BOOLEAN
  /\ PlaybackChanges \in BOOLEAN /\ DeleteOrphans \in BOOLEAN

MaxRetries == MaxAttempts - 1

VARIABLES
  row,          \* the tracks table
  objects,      \* the tracks whose object is in the store
  queue,        \* broker messages not delivered, or to be delivered again
  caller,       \* per API request: where it is
  worker,       \* per pool slot: where it is and the message it holds
  recovering,   \* tracks recover_stale_downloads has yet to publish
  reconciler,   \* reconcile_storage: where it is, and what it read
  playback,     \* features.playback of the committed configuration
  visible,      \* the values a process may be served from a cached snapshot
  faults        \* faults so far, up to MaxFaults

vars == <<row, objects, queue, caller, worker, recovering, reconciler,
          playback, visible, faults>>
envVars == <<playback, visible>>

-----------------------------------------------------------------------------
Message == [track : Tracks, task : TaskIds, retries : 0..MaxRetries]

CallerPC == {"idle", "admitted", "fetching", "assigning", "publishing",
             "rebinding", "abandoning"}
WorkerPC == {"idle", "starting", "claiming", "downloading", "uploaded",
             "retrying", "republishing", "finished"}

IdleCaller == [pc |-> "idle", track |-> NoTrack, task |-> NoTask]
IdleWorker == [pc |-> "idle", track |-> NoTrack, task |-> NoTask, retries |-> 0]
IdleReconciler == [pc |-> "idle", expected |-> {}, missing |-> {}, orphans |-> {}]

TypeOK ==
  /\ row \in [Tracks -> Row]
  /\ objects \in SUBSET Tracks
  /\ queue \in SUBSET Message
  /\ caller \in [Callers -> [pc : CallerPC, track : Tracks \cup {NoTrack},
                             task : TaskIds \cup {NoTask}]]
  /\ worker \in [Workers -> [pc : WorkerPC, track : Tracks \cup {NoTrack},
                             task : TaskIds \cup {NoTask}, retries : 0..MaxRetries]]
  /\ \A c \in Callers : caller[c].pc # "idle" => caller[c].track \in Tracks
  /\ \A c \in Callers : caller[c].pc \in {"assigning", "publishing", "rebinding"}
                          => caller[c].task \in TaskIds
  /\ \A w \in Workers : worker[w].pc # "idle" =>
                          worker[w].track \in Tracks /\ worker[w].task \in TaskIds
  /\ \A w \in Workers : worker[w].pc = "republishing" => worker[w].retries < MaxRetries
  /\ recovering \in SUBSET Tracks
  /\ reconciler \in [pc : {"idle", "listing", "repairing", "deleting"},
                     expected : SUBSET Tracks, missing : SUBSET Tracks,
                     orphans : SUBSET Tracks]
  /\ playback \in BOOLEAN
  /\ visible \in SUBSET BOOLEAN
  /\ faults \in 0..MaxFaults

Init ==
  /\ row = [t \in Tracks |-> AbsentRow]
  /\ objects = {}
  /\ queue = {}
  /\ caller = [c \in Callers |-> IdleCaller]
  /\ worker = [w \in Workers |-> IdleWorker]
  /\ recovering = {}
  /\ reconciler = IdleReconciler
  /\ playback = TRUE
  /\ visible = {TRUE}
  /\ faults = 0

-----------------------------------------------------------------------------
\* uuid4: an id that nothing in the system refers to any more is as good as new.
Fresh(u) ==
  /\ \A t \in Tracks : row[t].task # u
  /\ \A m \in queue : m.task # u
  /\ \A c \in Callers : caller[c].task # u
  /\ \A w \in Workers : worker[w].task # u

Fault == faults < MaxFaults /\ faults' = faults + 1

Goto(c, pc) == caller' = [caller EXCEPT ![c].pc = pc]
Leave(c) == caller' = [caller EXCEPT ![c] = IdleCaller]
Step(w, pc) == worker' = [worker EXCEPT ![w].pc = pc]

Held(w) == [track |-> worker[w].track, task |-> worker[w].task,
            retries |-> worker[w].retries]

(* The object store: one object under each track's key.                    *)

\* upload_file: when it returns, the object is there and has its full size.
Put(t) == objects' = objects \cup {t}

DeleteObject(t) == objects' = objects \ {t}

\* list_object_keys
ObjectKeys == objects

ObjectExists(t) == t \in objects

\* get_presigned_url raises for a key without an object.
Presigned(t) == ObjectExists(t)

\* get_stream_url and get_download_descriptor answer with a URL.
Streams(t) == row[t].status = "ready" /\ row[t].key /\ Presigned(t)

\* w is executing the claimed part of TrackDownloadProcessor.process for t.
Busy(w, t) == worker[w].pc \in {"downloading", "uploaded"} /\ worker[w].track = t

-----------------------------------------------------------------------------
(* POST /tracks/acquire: TracksService.acquire and _enqueue.               *)

Admit(c, t) ==
  /\ caller[c].pc = "idle"
  /\ TRUE \in visible
  /\ caller' = [caller EXCEPT ![c] = [pc |-> "admitted", track |-> t, task |-> NoTask]]
  /\ UNCHANGED <<row, objects, queue, worker, recovering, reconciler, envVars, faults>>

\* queue_existing, under SELECT ... FOR UPDATE, then the first line of _enqueue.
QueueExisting(c) ==
  LET t == caller[c].track IN
  /\ caller[c].pc = "admitted"
  /\ \/ /\ row[t].status = "absent"
        /\ Goto(c, "fetching")
        /\ UNCHANGED row
     \/ /\ Acquirable(row[t])
        /\ row' = [row EXCEPT ![t] = Queued(@)]
        /\ \E u \in TaskIds :
             /\ Fresh(u)
             /\ caller' = [caller EXCEPT ![c].pc = "assigning", ![c].task = u]
     \/ /\ row[t].status \in {"queued", "downloading", "ready"}
        /\ Leave(c)
        /\ UNCHANGED row
  /\ UNCHANGED <<objects, queue, worker, recovering, reconciler, envVars, faults>>

\* provider.get raises, or _validate_item rejects what it returned.
ProviderRejects(c) ==
  /\ caller[c].pc = "fetching"
  /\ Leave(c)
  /\ UNCHANGED <<row, objects, queue, worker, recovering, reconciler, envVars, faults>>

\* upsert_and_queue: another request may have inserted the row meanwhile.
UpsertAndQueue(c) ==
  LET t == caller[c].track
      r == Inserted(row[t]) IN
  /\ caller[c].pc = "fetching"
  /\ IF Acquirable(r)
       THEN /\ row' = [row EXCEPT ![t] = Queued(r)]
            /\ \E u \in TaskIds :
                 /\ Fresh(u)
                 /\ caller' = [caller EXCEPT ![c].pc = "assigning", ![c].task = u]
       ELSE Leave(c) /\ UNCHANGED row
  /\ UNCHANGED <<objects, queue, worker, recovering, reconciler, envVars, faults>>

\* _enqueue: set_task_id, apply_async, and set_task_id once more.
AssignTask(c) ==
  /\ caller[c].pc = "assigning"
  /\ row' = [row EXCEPT ![caller[c].track] = SetTaskId(@, caller[c].task)]
  /\ Goto(c, "publishing")
  /\ UNCHANGED <<objects, queue, worker, recovering, reconciler, envVars, faults>>

PublishedBy(c) == [track |-> caller[c].track, task |-> caller[c].task, retries |-> 0]

Publish(c) ==
  /\ caller[c].pc = "publishing"
  /\ queue' = queue \cup {PublishedBy(c)}
  /\ Goto(c, "rebinding")
  /\ UNCHANGED <<row, objects, worker, recovering, reconciler, envVars, faults>>

Rebind(c) ==
  /\ caller[c].pc = "rebinding"
  /\ row' = [row EXCEPT ![caller[c].track] = SetTaskId(@, caller[c].task)]
  /\ Leave(c)
  /\ UNCHANGED <<objects, queue, worker, recovering, reconciler, envVars, faults>>

\* Either call in the try block raises; a publish that raises may still have
\* reached the broker.
EnqueueFails(c) ==
  /\ Fault
  /\ \/ caller[c].pc = "assigning" /\ UNCHANGED queue
     \/ caller[c].pc = "publishing" /\ queue' \in {queue, queue \cup {PublishedBy(c)}}
  /\ Goto(c, "abandoning")
  /\ UNCHANGED <<row, objects, worker, recovering, reconciler, envVars>>

Abandon(c) ==
  /\ caller[c].pc = "abandoning"
  /\ row' = [row EXCEPT ![caller[c].track] = MarkEnqueueFailed(@)]
  /\ Leave(c)
  /\ UNCHANGED <<objects, queue, worker, recovering, reconciler, envVars, faults>>

\* The API process stops, or the client's request is cancelled.
CallerDies(c) ==
  /\ Fault
  /\ caller[c].pc # "idle"
  /\ Leave(c)
  /\ UNCHANGED <<row, objects, queue, worker, recovering, reconciler, envVars>>

\* A playlist import stores metadata without queueing anything.
ImportTrack(t) ==
  /\ row[t].status = "absent"
  /\ row' = [row EXCEPT ![t] = Inserted(@)]
  /\ UNCHANGED <<objects, queue, caller, worker, recovering, reconciler, envVars, faults>>

-----------------------------------------------------------------------------
(* tracks.download on a worker: download_track, _process, process.         *)

Deliver(w) ==
  /\ worker[w].pc = "idle"
  /\ \E m \in queue :
       /\ queue' = queue \ {m}
       /\ worker' = [worker EXCEPT ![w] = [pc |-> "starting", track |-> m.track,
                                           task |-> m.task, retries |-> m.retries]]
  /\ UNCHANGED <<row, objects, caller, recovering, reconciler, envVars, faults>>

\* ensure_bucket, the configuration read or the claim raises.
StartFails(w) ==
  /\ Fault
  /\ worker[w].pc \in {"starting", "claiming"}
  /\ Step(w, "retrying")
  /\ UNCHANGED <<row, objects, queue, caller, recovering, reconciler, envVars>>

\* The configuration this process sees allows playback, ...
Start(w) ==
  /\ worker[w].pc = "starting"
  /\ TRUE \in visible
  /\ Step(w, "claiming")
  /\ UNCHANGED <<row, objects, queue, caller, recovering, reconciler, envVars, faults>>

\* ... or forbids it: mark_queued_failed, which no task id fences.
Refuse(w) ==
  /\ worker[w].pc = "starting"
  /\ FALSE \in visible
  /\ row' = [row EXCEPT ![worker[w].track] = FailQueued(@)]
  /\ Step(w, "finished")
  /\ UNCHANGED <<objects, queue, caller, recovering, reconciler, envVars, faults>>

Claim(w) ==
  LET t == worker[w].track
      u == worker[w].task IN
  /\ worker[w].pc = "claiming"
  /\ IF Claimable(row[t], u)
       THEN row' = [row EXCEPT ![t] = Claimed(@, u)] /\ Step(w, "downloading")
       ELSE UNCHANGED row /\ Step(w, "finished")
  /\ UNCHANGED <<objects, queue, caller, recovering, reconciler, envVars, faults>>

\* Resolve, download, encode and put the object under the track's one key.
Upload(w) ==
  /\ worker[w].pc = "downloading"
  /\ Put(worker[w].track)
  /\ Step(w, "uploaded")
  /\ UNCHANGED <<row, queue, caller, recovering, reconciler, envVars, faults>>

\* Mutant: the row is marked ready before the object is put.
CompleteEarly(w) ==
  /\ worker[w].pc \in {"downloading", "uploaded"}
  /\ row' = [row EXCEPT ![worker[w].track] = MarkReady(@, worker[w].task)]
  /\ Step(w, "finished")
  /\ UNCHANGED <<objects, queue, caller, recovering, reconciler, envVars, faults>>

Complete(w) ==
  /\ worker[w].pc = "uploaded"
  /\ row' = [row EXCEPT ![worker[w].track] = MarkReady(@, worker[w].task)]
  /\ Step(w, "finished")
  /\ UNCHANGED <<objects, queue, caller, recovering, reconciler, envVars, faults>>

\* AmbiguousTrackMatch is final: no retry.
NoMatch(w) ==
  /\ worker[w].pc = "downloading"
  /\ row' = [row EXCEPT ![worker[w].track] = MarkFailed(@, worker[w].task)]
  /\ Step(w, "finished")
  /\ UNCHANGED <<objects, queue, caller, recovering, reconciler, envVars, faults>>

\* Any other exception, the soft time limit and a failed check after the
\* upload included: mark_failed, then raise into download_track.
AttemptFails(w) ==
  /\ worker[w].pc \in {"downloading", "uploaded"}
  /\ row' = [row EXCEPT ![worker[w].track] = MarkFailed(@, worker[w].task)]
  /\ Step(w, "retrying")
  /\ UNCHANGED <<objects, queue, caller, recovering, reconciler, envVars, faults>>

\* The database fails under mark_ready or mark_failed: the exception reaches
\* download_track with the row still "downloading".
FailureUnrecorded(w) ==
  /\ Fault
  /\ worker[w].pc \in {"downloading", "uploaded"}
  /\ Step(w, "retrying")
  /\ UNCHANGED <<row, objects, queue, caller, recovering, reconciler, envVars>>

\* The except clause of download_track: prepare_retry, which no task id fences.
Retry(w) ==
  LET t == worker[w].track IN
  /\ worker[w].pc = "retrying"
  /\ IF worker[w].retries < MaxRetries /\ Retriable(row[t])
       THEN row' = [row EXCEPT ![t] = PreparedRetry(@)] /\ Step(w, "republishing")
       ELSE UNCHANGED row /\ Step(w, "finished")
  /\ UNCHANGED <<objects, queue, caller, recovering, reconciler, envVars, faults>>

\* self.retry publishes the same task id again, with one more retry counted.
Republish(w) ==
  /\ worker[w].pc = "republishing"
  /\ queue' = queue \cup {[Held(w) EXCEPT !.retries = @ + 1]}
  /\ Step(w, "finished")
  /\ UNCHANGED <<row, objects, caller, recovering, reconciler, envVars, faults>>

RepublishFails(w) ==
  /\ Fault
  /\ worker[w].pc = "republishing"
  /\ Step(w, "finished")
  /\ UNCHANGED <<row, objects, queue, caller, recovering, reconciler, envVars>>

\* acks_late: the message is acknowledged only now.
Ack(w) ==
  /\ worker[w].pc = "finished"
  /\ worker' = [worker EXCEPT ![w] = IdleWorker]
  /\ UNCHANGED <<row, objects, queue, caller, recovering, reconciler, envVars, faults>>

\* The process is lost and its message delivered again
\* (task_reject_on_worker_lost), or the hard time limit kills it, which
\* acknowledges the message.
WorkerDies(w) ==
  /\ Fault
  /\ worker[w].pc # "idle"
  /\ queue' \in {queue, queue \cup {Held(w)}}
  /\ worker' = [worker EXCEPT ![w] = IdleWorker]
  /\ UNCHANGED <<row, objects, caller, recovering, reconciler, envVars>>

-----------------------------------------------------------------------------
(* tracks.recover_stale_downloads, every 60 seconds.                       *)

Recover ==
  /\ TRUE \in visible
  /\ row' = [t \in Tracks |-> RequeueStale(row[t])]
  /\ recovering' = recovering \cup {t \in Tracks : Stale(row[t])}
  /\ UNCHANGED <<objects, queue, caller, worker, reconciler, envVars, faults>>

RecoverDisabled ==
  /\ FALSE \in visible
  /\ row' = [t \in Tracks |-> FailQueued(row[t])]
  /\ UNCHANGED <<objects, queue, caller, worker, recovering, reconciler, envVars, faults>>

\* One apply_async of the loop: Celery generates the task id and the row
\* keeps NULL.
RecoverPublish(t) ==
  /\ t \in recovering
  /\ \E u \in TaskIds :
       /\ Fresh(u)
       /\ queue' = queue \cup {[track |-> t, task |-> u, retries |-> 0]}
  /\ recovering' = recovering \ {t}
  /\ UNCHANGED <<row, objects, caller, worker, reconciler, envVars, faults>>

\* The broker refuses a message, or the process stops: the loop is abandoned.
RecoverDies ==
  /\ Fault
  /\ recovering # {}
  /\ recovering' = {}
  /\ UNCHANGED <<row, objects, queue, caller, worker, reconciler, envVars>>

-----------------------------------------------------------------------------
(* tracks.reconcile_storage, once a day.                                   *)

\* Mutant: every row is expected to have an object, finished or not.
ReadEveryKey ==
  /\ reconciler.pc = "idle"
  /\ reconciler' = [reconciler EXCEPT !.pc = "listing",
                                      !.expected = {t \in Tracks : row[t].status # "absent"}]
  /\ UNCHANGED <<row, objects, queue, caller, worker, recovering, envVars, faults>>

ReadStorageKeys ==
  /\ reconciler.pc = "idle"
  /\ reconciler' = [reconciler EXCEPT !.pc = "listing",
                                      !.expected = {t \in Tracks : row[t].key}]
  /\ UNCHANGED <<row, objects, queue, caller, worker, recovering, envVars, faults>>

ListObjectKeys ==
  /\ reconciler.pc = "listing"
  /\ reconciler' = [pc |-> "repairing",
                    expected |-> {},
                    missing |-> reconciler.expected \ ObjectKeys,
                    orphans |-> IF DeleteOrphans THEN ObjectKeys \ reconciler.expected
                                                 ELSE {}]
  /\ UNCHANGED <<row, objects, queue, caller, worker, recovering, envVars, faults>>

RepairMissing ==
  /\ reconciler.pc = "repairing"
  /\ row' = [t \in Tracks |-> IF t \in reconciler.missing
                                THEN MarkStorageMissing(row[t]) ELSE row[t]]
  /\ reconciler' = IF reconciler.orphans # {}
                     THEN [IdleReconciler EXCEPT !.pc = "deleting",
                                                 !.orphans = reconciler.orphans]
                     ELSE IdleReconciler
  /\ UNCHANGED <<objects, queue, caller, worker, recovering, envVars, faults>>

DeleteOrphan(t) ==
  /\ reconciler.pc = "deleting"
  /\ t \in reconciler.orphans
  /\ DeleteObject(t)
  /\ reconciler' = IF reconciler.orphans = {t} THEN IdleReconciler
                   ELSE [reconciler EXCEPT !.orphans = @ \ {t}]
  /\ UNCHANGED <<row, queue, caller, worker, recovering, envVars, faults>>

ReconcilerDies ==
  /\ Fault
  /\ reconciler.pc # "idle"
  /\ reconciler' = IdleReconciler
  /\ UNCHANGED <<row, objects, queue, caller, worker, recovering, envVars>>

-----------------------------------------------------------------------------
(* The environment.                                                        *)

\* With TimelyLeases the lease outlives every execution: 1200 s against the
\* hard time limit of 900 s.  Without it a paused machine or a long task may
\* be overtaken.
LeaseExpires(t) ==
  /\ row[t].lease = "running"
  /\ TimelyLeases => \A w \in Workers : ~Busy(w, t)
  /\ row' = [row EXCEPT ![t] = LeasePassed(@)]
  /\ UNCHANGED <<objects, queue, caller, worker, recovering, reconciler, envVars, faults>>

RequestAges(t) ==
  /\ row[t].status = "queued"
  /\ ~row[t].old
  /\ row' = [row EXCEPT ![t] = RequestAged(@)]
  /\ UNCHANGED <<objects, queue, caller, worker, recovering, reconciler, envVars, faults>>

ObjectLost(t) ==
  /\ ~ObjectsDurable
  /\ Fault
  /\ t \in objects
  /\ objects' = objects \ {t}
  /\ UNCHANGED <<row, queue, caller, worker, recovering, reconciler, envVars>>

\* An administrator flips features.playback; each process may go on serving
\* the old value from its cache until the entry is five seconds old.
SetPlayback ==
  /\ PlaybackChanges
  /\ playback' = ~playback
  /\ visible' = visible \cup {playback'}
  /\ UNCHANGED <<row, objects, queue, caller, worker, recovering, reconciler, faults>>

CachesExpire ==
  /\ visible' = {playback}
  /\ UNCHANGED <<row, objects, queue, caller, worker, recovering, reconciler, playback, faults>>

-----------------------------------------------------------------------------
CallerStep(c) ==
  \/ \E t \in Tracks : Admit(c, t)
  \/ QueueExisting(c) \/ ProviderRejects(c) \/ UpsertAndQueue(c)
  \/ AssignTask(c) \/ Publish(c) \/ Rebind(c)
  \/ EnqueueFails(c) \/ Abandon(c) \/ CallerDies(c)

WorkerStep(w) ==
  \/ Deliver(w) \/ StartFails(w) \/ Start(w) \/ Refuse(w) \/ Claim(w)
  \/ Upload(w) \/ Complete(w) \/ NoMatch(w)
  \/ AttemptFails(w) \/ FailureUnrecorded(w)
  \/ Retry(w) \/ Republish(w) \/ RepublishFails(w) \/ Ack(w) \/ WorkerDies(w)

RecoverStep ==
  \/ Recover \/ RecoverDisabled \/ RecoverDies
  \/ \E t \in Tracks : RecoverPublish(t)

ReconcilerStep ==
  \/ ReadStorageKeys \/ ListObjectKeys \/ RepairMissing \/ ReconcilerDies
  \/ \E t \in Tracks : DeleteOrphan(t)

EnvironmentStep ==
  \/ \E t \in Tracks : ImportTrack(t) \/ LeaseExpires(t) \/ RequestAges(t) \/ ObjectLost(t)
  \/ SetPlayback \/ CachesExpire

Next ==
  \/ \E c \in Callers : CallerStep(c)
  \/ \E w \in Workers : WorkerStep(w)
  \/ RecoverStep \/ ReconcilerStep \/ EnvironmentStep

Spec == Init /\ [][Next]_vars

(* Fairness: what the deployment drives by itself.  An API handler runs to *)
(* its end; a free pool slot takes a message and an execution ends (the    *)
(* hard time limit sees to it); beat schedules both periodic tasks; leases *)
(* and requests grow old and cached snapshots expire.  Requests, imports   *)
(* and configuration changes come when they come, and so do faults, of     *)
(* which there are at most MaxFaults.                                      *)
CallerProgress(c) ==
  \/ QueueExisting(c) \/ ProviderRejects(c) \/ UpsertAndQueue(c)
  \/ AssignTask(c) \/ Publish(c) \/ Rebind(c) \/ Abandon(c)

WorkerProgress(w) ==
  \/ Start(w) \/ Refuse(w) \/ Claim(w) \/ Upload(w) \/ Complete(w) \/ NoMatch(w)
  \/ AttemptFails(w) \/ Retry(w) \/ Republish(w) \/ Ack(w)

Fairness ==
  /\ \A c \in Callers : WF_vars(CallerProgress(c))
  /\ \A w \in Workers : WF_vars(Deliver(w)) /\ WF_vars(WorkerProgress(w))
  /\ WF_vars(Recover \/ RecoverDisabled)
  /\ WF_vars(ReadStorageKeys \/ ListObjectKeys \/ RepairMissing)
  /\ \A t \in Tracks : /\ WF_vars(RecoverPublish(t))
                       /\ WF_vars(DeleteOrphan(t))
                       /\ WF_vars(LeaseExpires(t))
                       /\ WF_vars(RequestAges(t))
  /\ WF_vars(CachesExpire)

FairSpec == Spec /\ Fairness

-----------------------------------------------------------------------------
(* Properties.                                                             *)

\* A row has a storage key exactly while it is "ready": get_stream_url
\* (service.py:272) and the reconciler (repository.py:332) each look at one of
\* the two and rely on the other.
KeyIffReady == \A t \in Tracks : row[t].key <=> row[t].status = "ready"

\* Whatever requests, crashes and retries did to it, an unfinished row is one
\* that requeue_stale will match once its lease or its five minutes have
\* passed; a queued row out of attempts, or a downloading row without a lease,
\* would stay as it is for ever (repository.py:286).
NeverStranded ==
  \A t \in Tracks :
    /\ row[t].status = "queued" => Stale(RequestAged(row[t]))
    /\ row[t].status = "downloading" =>
         /\ row[t].lease # "none"
         /\ Stale(LeasePassed(row[t])) \/ Exhausted(LeasePassed(row[t]))

\* A worker that runs the media pipeline for a track holds the row: no
\* request, retry, recovery, reconciliation or second delivery takes it away
\* before the worker gives it up, so the work is never in vain.
WorkerHoldsRow ==
  \A w \in Workers, t \in Tracks :
    Busy(w, t) => Owns(row[t], worker[w].task) /\ row[t].lease = "running"

\* At most one worker downloads a track and writes its object.
OneWorkerPerTrack ==
  \A w1, w2 \in Workers, t \in Tracks : Busy(w1, t) /\ Busy(w2, t) => w1 = w2

\* A track offered for playback streams: its row has the key and the store the
\* object, so get_stream_url and get_download_descriptor (service.py:268-305)
\* need not answer that the storage is unavailable.
ReadyStreams == \A t \in Tracks : row[t].status = "ready" => Streams(t)

\* Of all executions that still run, at most one passes the fence of
\* mark_ready and mark_failed: a stale one cannot overwrite a new attempt.
StaleWorkerFenced ==
  \A w1, w2 \in Workers, t \in Tracks :
    /\ Busy(w1, t) /\ Owns(row[t], worker[w1].task)
    /\ Busy(w2, t) /\ Owns(row[t], worker[w2].task)
    => w1 = w2

\* Reconciliation takes "ready" away only from a track whose object is
\* missing at that moment, although it decides from two earlier listings.
OnlyBrokenDemoted ==
  [][\A t \in Tracks :
       row[t].status = "ready" /\ row'[t].status # "ready" => ~Presigned(t)]_vars

\* The pipeline implements the life cycle of TrackLifecycle.
Lifecycle == INSTANCE TrackLifecycle WITH
  status   <- [t \in Tracks |-> row[t].status],
  attempts <- [t \in Tracks |-> row[t].attempts]

ImplementsLifecycle == Lifecycle!Spec

\* A queued track does not stay queued: a worker claims it or it fails, even
\* when its message was lost or its row was bound to a task id nobody holds.
QueuedLeaves ==
  \A t \in Tracks : row[t].status = "queued" ~> row[t].status # "queued"

\* A download ends, or is requeued while attempts are left, even when its
\* worker is gone.  While a process may see playback disabled nothing recovers
\* the row (tasks.py:45-47): it is excepted until playback is back, and no
\* longer.
DownloadLeaves ==
  \A t \in Tracks :
    row[t].status = "downloading" ~>
      row[t].status # "downloading" \/ FALSE \in visible

\* A "ready" track that does not stream, its object being gone, does not stay
\* "ready".
BrokenRepaired ==
  \A t \in Tracks :
    row[t].status = "ready" /\ ~Streams(t) ~> row[t].status # "ready"
=============================================================================
