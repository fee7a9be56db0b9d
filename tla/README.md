# Verification of Fuze

Fuze is a self-hosted music player: a FastAPI backend with PostgreSQL, Redis and
MinIO, a Celery worker that downloads audio, a React/Tauri client, an operator
CLI and an installer. This directory holds TLA+ models of the parts of Fuze
whose correctness depends on the order in which things happen, the TLC
configurations that check them on small instances, and TLAPS proofs of the main
results for every size of the system. Paths below are relative to the
repository; `backend/` stands for `src/backend/`.

To check a module: `tlc -workers 2 -config X.cfg MCModule.tla`; to check the
proofs: `tlapm M.tla` for `TrackPipelineProofs`, `AuthSessionsProofs`,
`UserAdminProofs`, `InstanceConfigProofs`, `PlaylistsProofs`,
`PlaylistOrderProofs`, `ProviderSearchProofs` and `RateLimitProofs`.
`PROJECT.json` lists the runs, the source lines every definition stands for, the
theorems, the hazards and, for every checked property, a mutation of the model
that the property catches.

## 1. Inventory of the system

### Track acquisition and download pipeline (modelled)
`backend/modules/tracks/{service,repository,models}.py`, `backend/worker/*.py`.

* State: one row of `tracks` per (source, source id) with status, attempts,
  Celery task id, lease, request time and storage key; the broker's messages;
  the objects in MinIO; for each API request and worker the place in its code.
* Operations: `POST /tracks/acquire` (`acquire`, `_enqueue`), the Celery task
  `tracks.download` (`process`, its retry), `tracks.recover_stale_downloads`
  every minute, `tracks.reconcile_storage` every day, playlist import.
* Interactions: API and workers share the row only through single statements
  with a WHERE clause; API publishes to the broker between two of them.
* Hard: messages are redelivered when a worker is lost (`acks_late`), published
  twice, or lost after the row was changed; two statements are not fenced by a
  task id; leases run out while a worker still runs; the configuration a process
  sees may be five seconds old; reconciliation acts on two earlier listings.
* Correct when: at most one worker downloads a track; a finished track can be
  streamed; an unfinished one never gets stuck; the attempt budget holds.

### Object storage (modelled)
`backend/integrations/storage.py`. State: the objects, one key per track.
Operations: put with a check of the size, list, delete, look up, sign a URL.
They are operators of `TrackPipeline`; what a client sees of a track (`Streams`)
is the row, the key and the object together.

### Authentication, sessions and access keys (modelled in part)
`backend/modules/auth/*`, `cli/commands/users.py`, `cli/commands/rescue.py`.

* State: `users.is_active` and password, `access_keys`, `auth_sessions`.
* Operations: login with password or key, rotation of the refresh token, logout,
  issue, revoke and reset of keys, reset of passwords.
* Interactions: concurrent PostgreSQL transactions at READ COMMITTED; row locks
  of `SELECT ... FOR UPDATE`, UPDATE and of foreign keys.
* Hard: one token presented twice at once; a credential taken back while a login
  or a rotation is between its INSERT and its COMMIT; lock cycles.
* Correct when: a login has one live session; taking back a credential ends what
  came from it; every command ends.

### Users and administrators (modelled)
`backend/modules/users/*`, `bootstrap-admin`, `promote-user`, `users create`.

* State: role, active flag and existence of each user.
* Operations: create, update, delete, promote, bootstrap.
* Hard: the decision "this removes an administrator" is taken on an unlocked
  read; the count is of the rows its SELECT found before it waited for their
  locks; two administrators remove each other.
* Correct when: what a request has counted stays true until its write; the last
  administrator is taken away only by a request that missed one in its target,
  in one of two ways that are named.

### Instance configuration (modelled)
`backend/modules/admin/service.py`, `rescue import-legacy-config`.

* State: the one row of `instance_settings` with its version, the rows of
  `instance_secrets`, the audit; in each process a cached snapshot with the time
  of its read, and the lock under which it is refreshed.
* Operations: `get_snapshot`, `read`, `update` (compare and swap on the
  version), import of a legacy configuration.
* Hard: caches of several processes and no notification between them; a snapshot
  read while it is being replaced; validation and write in different statements;
  an import that does not compare versions.
* Correct when: no process serves a configuration that was replaced five seconds
  ago; an edit replaces what its author saw; an enabled provider has credentials.

### Playlists (modelled)
`backend/modules/playlists/{service,repository,router}.py`.

* State: `playlists`, `playlist_items` with a position unique per playlist, the
  rows of `tracks` that imports insert.
* Operations: create, rename, delete, add, remove, reorder, import of one list
  and of a whole Yandex library; deletion of a user cascades.
* Interactions: PostgreSQL transactions; `FOR UPDATE` on the playlist row; the
  unique keys of positions and of tracks.
* Hard: reorder and remove move positions in two statements past a unique
  constraint that is tested row by row; an import calls the provider inside its
  transaction; two imports wait for each other's tracks.
* Correct when: positions are 0, 1, 2, ...; a request on items never meets the
  constraint; each request is one step of a list of sequences; all end.

### Search and provider cache (modelled)
`backend/modules/tracks/providers.py` (`search_cached`), `backend/integrations/cache.py`.

* State: per query an entry and a lock in Redis, both with a time to live; for
  each search the place in its code and its deadline.
* Operations: look up, lock, wait and poll, call the provider with a timeout,
  store, release by token.
* Hard: a lock must outlive the call it protects although its life begins in
  Redis before the search is told of it, and is a whole number of seconds; a late
  holder must not release the next one's lock; a wait overruns its deadline by a
  poll; waiters give up while the answer arrives; Redis fails.
* Correct when: a search told of its lock within the margin has it as long as it
  asks; every search is answered in bounded time.

### Provider clients (modelled in part)
`backend/integrations/{spotify,yandex,youtube}.py`. The Spotify client keeps a
token, a lock for fetching it and a retry window for all searches of a process;
searches are cut off by their timeout at any await, and credentials change.
Correct when: no request carries a token of other credentials, no cut-off search
leaves the lock behind, a token is fetched once. The Yandex client is built once
under the same kind of lock; the YouTube client keeps nothing.

### Rate limiting (modelled)
`backend/core/rate_limit.py`. State: a counter per client, scope and window in
Redis with a time to live of one second more than the window. Hard: the window
is chosen before the call of Redis, and the counter may be gone when it is
counted; Redis fails with or without having counted. Correct when: a window lets
in no more than its limit; Retry-After leads out of it.

### Client (not modelled yet)
`src/frontend`: offline downloads (`services/offlineMediaRepository.ts`, at most
two at once, paused, resumed, verified against the real file), the player queue
(`lib/store.ts`, `AudioEngine.tsx`), the shared refresh of an expired session
(`lib/api.ts`), search requests that answer out of order (`SearchModal.tsx`).

### Installer and update (not modelled yet)
`deploy/install.sh`, `deploy/bundle/deploy/backup.sh`. State: the release tree,
the environment file, the running deployment. Operations: install, update with
backup and restore of the previous deployment. Hard: a failure between two
steps of the update.

### Not to be modelled
Database migrations, user interface components and styles, the Tauri shell,
loading of settings, CLI commands that only wrap docker, env files or module
manifests, `main.py` wiring and health checks, verification scripts, assets.
They keep no state of their own that steps of several actors change.

## 2. Plan

| # | module | composes / implements | state |
|---|--------|-----------------------|-------|
| 1 | `TrackRow`, `TrackPipeline`, `TrackLifecycle`, `TrackPipelineProofs` | `TrackPipeline` extends `TrackRow`, implements `TrackLifecycle` | checked and proved |
| 2 | `AuthSessions`, `AuthSessionsProofs` | | checked and proved |
|   | `UserAdmin`, `UserAdminProofs` | | checked and proved |
| 3 | `InstanceConfig`, `InstanceConfigProofs` | | checked and proved |
| 4 | `PlaylistOrder`, `Playlists`, `PlaylistsProofs`, `PlaylistOrderProofs` | `Playlists` implements `PlaylistOrder` | checked and proved |
| 5 | `SpotifyClient`, `ProviderSearch`, `ProviderSearchProofs` | `ProviderSearch` extends `SpotifyClient`: its searches make the calls | checked and proved |
| 6 | `RateLimit`, `RateLimitProofs` | | checked and proved |
| 7 | `OfflineMedia`, `PlayerQueue`, `ClientRefresh` | `ClientRefresh` composes with the rotation of `AuthSessions` | planned |
| 8 | `Installer` | | planned |

Runs are merged where one set of bounds answers several questions of a module.

Every safety and action property of the passing runs, the two refinements among
them, is also a theorem (section 5). Left for
proofs are the invariants of modules 7 and 8 once those are written, and the
safety part of what the liveness properties rest on: who a waiting request or
command can be waiting for.
Every module a theorem is about is written without
RECURSIVE operators, its constants carry named assumptions, and its invariants
are conjunctions of named parts.

## 3. What is modelled, and how

Common conventions. One action stands for one stretch of code without an await,
or one database transaction where nothing inside it can be observed; between two
actions anything else may happen. `pc` in a record says where a request, worker
or command is. Operators introduced by a comment that begins with "Mutant" are
not part of the specification: each is a plausible bug of the definition that
follows it, and `PROJECT.json` names the property that catches it.

### TrackRow
The `tracks` row and the statements of `repository.py`, each an operator from
the row before to the row after; the WHERE clause is the condition of its IF.
Time is abstracted: a lease is none, running or expired, and a request is older
than five minutes or not. The values of keys, titles and errors are left out.

### TrackPipeline
API requests (`Admit` ... `Rebind`, `Abandon`), worker executions (`Deliver` ...
`Ack`, with `Retry` and `Republish` for the except clause of the task), the two
periodic tasks, and the environment. The queue is a set of messages: two equal
messages merge, which is sound for the properties here because ids are fresh
for each publish except a redelivery or retry of the same execution. `Fresh`
picks an id nothing refers to any more, so that the set of ids can stay small.
`MaxFaults` bounds crashes, lost publishes and lost objects.
`Put`, `ObjectKeys`, `DeleteObject` and `Presigned` are the calls of the object
store. What the configuration switch does to the pipeline is two variables: the committed value and the values some
process may still be served.

### TrackLifecycle
What the pipeline promises about a track, without messages, ids, leases or
processes. `TrackPipeline!ImplementsLifecycle` states the refinement: status and
attempts of every row move only as the life cycle allows.

### AuthSessions
Requests and operator commands as PostgreSQL transactions at READ COMMITTED. The
row locks a transaction holds follow from where it is, so they are operators
(`SessionLocked`, `KeyWriteLocked`, `UserTaken`, ...), not variables. An UPDATE
of many rows is two steps: the rows it will visit are those committed when it
begins; it then waits for each and tests it again. Foreign keys take key-share
locks, which only `FOR UPDATE` excludes. Tokens are abstracted to the session
they name; all the refresh tokens of a session's chain stay presentable for ever.
`login` is the session a chain of rotations began with. An access token is
accepted exactly for a session that is `Live`. A session that is revoked or
expired and that no request refers to is forgotten and its number given again,
likewise keys, so that small numbers of both last for runs of any length. The
passwords of a user are not told apart: no text promises more of their reset
than that the active sessions are revoked.

### UserAdmin
A request reads its user, then (if it believes that it removes an administrator)
selects, locks and counts the active administrators, then writes the attributes
that differ from what it read, as the ORM does. The SELECT takes the rows that
match when it begins (`candidates`), waits for the lock of each and returns those
that still match; the locks of the others are kept too, as PostgreSQL keeps them,
until the transaction ends (`RowLocked`). `Register`, `CreateUser` and
`CreateByCommand` are the three ways to a new user. `bootstrap-admin` is three
steps under an advisory lock. Promotions and
reactivations happen meanwhile. `bootstrapped` remembers the administrators that
`bootstrap-admin` created and nobody has changed since.

### InstanceConfig
`history` is the sequence of committed configurations; a snapshot consists of
the place in it its row was read from and the place its credentials were read
from. `gone` counts the ticks since each was replaced. All providers are one.
A saved page remembers the place it was loaded from (`base`).

### PlaylistOrder and Playlists
`Playlists` has the tables and, for each request, its transaction: what it has
written and not committed, and its place. `Seen` is what one of its statements
sees. `Move` is an UPDATE of many positions: it fails if two rows would end with
one position, and may fail if one would pass through another's, since a unique
constraint that is not deferrable is tested row by row. `PlaylistOrder` promises sequences
that change in one step per request; `Shown` sorts the rows by position, and
`ImplementsOrder` is the refinement. Ids that nothing refers to are given again.
What a request answers is left out.

### SpotifyClient and ProviderSearch
An action of `SpotifyClient` is what runs between two awaits of one event loop;
`ProviderSearch` begins its calls, cuts them off at their timeout and lets time
pass. Time is in ticks of which `Second` make a second, so that the timeout, a
float in the code, need not be whole. Each wait has a deadline past which `Tick`
is not enabled: so every bound the code puts on a wait is part of the model.

A Redis command takes up to `RedisTime`, which stands for all of it: connecting,
waiting for the socket and the retries of the client library. It may fail at any
time, before or after its effect. Of the SET of the lock the effect (`SetLock`)
and the reply (`Acquired`, `NotAcquired`) are two steps, since the life of the lock
begins with the one and the call with the other; `since` is how much of that life
has gone when the search is told. `LockLife` is what the code sets: whole seconds,
the fraction of the timeout cut off, and two more. A poll is the sleep (`Pause`)
and a get; the deadline of the wait is looked at only before a poll begins
(`PollMisses`), so a wait may overrun it by a poll.
An answer in Redis is only its life, which tells whether it has items. The
credentials of a call are chosen when it begins: its request read them earlier, and
nothing says that they are still the stored ones.

### RateLimit
One client in one scope (others have keys of their own). A request reads the
clock in `Arrive` and is counted at most `MaxDelay` seconds later; the client
library may count it again, the answer may be lost, and Redis may lose its keys.
A window is named by its first second. `admitted` and `prompt` count what was let
in since Redis last lost its keys; they are there for the property only.

## 4. Runs

| run | question | bounds |
|-----|----------|--------|
| `pipeline_stalled` | is the table consistent when leases may expire under a running worker? | 1 track, 2 requests, 2 workers, 2 task ids in use at once, 2 attempts, 1 fault |
| `pipeline_timely` | does a worker keep its row, alone, and can a ready track be streamed? is the life cycle kept? | 1 track, 1 request at a time, 2 workers, 2 task ids, 2 attempts, 1 fault; leases outlive executions, playback goes off and on |
| `pipeline_fair` | are exactly the broken tracks demoted, and all of them? does every queued track leave the queue, every download end or be requeued? | 1 request at a time, 1 worker, 2 task ids, 2 attempts, 1 fault; objects get lost, orphans are deleted |
| `pipeline_fence` | is a stale execution fenced off? (violated) | 2 workers, 1 fault |
| `auth` | no fork of a login, complete reset of keys, no login past a revocation; do refreshes and commands end? | 2 keys, 1 password, 3 sessions at once, 2 requests, 1 command |
| `auth_revoke_key` | does revoke-key end all sessions of its key? (violated) | 1 key, 2 sessions, 1 request |
| `admin_kept` | does a count hold until the write, and who can lose the last administrator? one bootstrap? | 3 users, 2 requests, 2 bootstraps |
| `admin_lost` | is the last administrator safe? (violated) | 2 users, 2 requests, 1 bootstrap |
| `config` | how stale is a cache, and does it ever go back? do saves replace what was shown, with credentials present? | 2 readers, 2 pages, 1 import, 3 changes, time to live 1 |
| `playlists` | do positions stay contiguous, does a request on items meet the constraint, is each request one step of the abstract lists, do all end? | 2 users, 2 requests, 2 playlists, 3 items, 2 tracks |
| `search` | does the lock outlive the call, is every search answered in time? are tokens fetched once and sent for their credentials only, is their lock always given back? | 2 searches, 2 credentials, a tick half a second: timeout 3, Redis 3, pause 1, everything that expires after 1 |
| `ratelimit` | how many requests does a window let in? where does Retry-After lead? | 2 requests at once, limit 2, window 2, delay up to 4, 6 seconds |

Why the bounds are enough to be interesting. Two executions of a task need two
workers; two requests let the task ids of one overwrite those of the other; two
task ids let a requeue by recovery meet the message of an earlier publish, and
are free again as soon as nothing refers to them; two attempts distinguish the
first, the last and an exhausted one; one fault may fall on any step of any
actor. With the second attempt of `pipeline_fair` a row whose worker died is requeued
the first time and failed the second, and a retry may be prepared and lost. Where one
request runs at a time, later ones still meet the messages, workers and recoveries
of earlier ones; `pipeline_stalled` has two inside `acquire` together. One track is enough because no statement relates two rows, and what the
runs show of one the proofs show of any number. A fork or an escape of a session
needs two requests and a command at most; three sessions are a login and two
rotations. All credentials of the auth runs belong to one user because the locks
of different users never meet. Three items and two requests are a swap, a gap
and a writer beside them; an imported file that repeats a track and a shelf
naming the tracks in the other order meet in a deadlock. Two searches are a
holder and a waiter. In `search` the timeout is a second and a half, so the
lock lives three seconds and its margin over a call is three ticks of the four in
two seconds; a Redis command takes up to those three, so that a reply comes
within the margin or just too late. Without the condition on `since` in
`LockOutlivesCall`, or with a margin one tick longer, the run fails, and a search
takes up to one tick less than the bound of `AnsweredInTime`. For the rate limit a delay of
two seconds over the window is the most for which a window has two counters and
not three, which is also the assumption of its proof. Symmetry is used only in
runs without liveness, over sets of interchangeable ids.

Fairness. Pipeline: a running handler runs on, a free pool slot takes a message,
an execution ends (the hard time limit of `celery_app.py` sees to it), beat
schedules recovery and reconciliation, leases and requests age and caches
expire. Nothing is assumed of users, of the playback switch, or of faults, of
which there are finitely many. Sessions: a transaction that can go on does;
strong fairness stands for PostgreSQL's first-come lock queues; a deadlock is
broken. Playlists: the same, for the same reasons. A search and a rate-limited
request have deadlines instead, so that what must happen in time is a safety
property there. The other modules have no liveness property.

### What the violated runs show
* `pipeline_fence`: `mark_ready` and `mark_failed` are fenced by the Celery task
  id, which retries and redeliveries keep. With an expired lease two executions
  of one task both pass. The object is the same, so the damage is a wrong status.
* `auth_revoke_key`: a rotation that is between INSERT and COMMIT when
  `revoke-key` begins its second UPDATE leaves a live session of the revoked key.
  `KeyResetComplete` shows why `reset-access-key` has no such gap: `FOR UPDATE`
  on the user excludes the key-share lock of the INSERT.
* `admin_lost`: whether a change removes an administrator is decided on an
  unlocked read. A user who becomes an administrator after that read is disabled
  or deleted without a count.

The count has a gap of its own, which `LostOnlyMissed` names beside that one
(`NobodyCounted` beside `NotSeen`). A user read as an administrator is demoted
before the SELECT begins and promoted while it waits for the lock of the other
administrator, whom a third change removes. Neither is in the count, which is empty;
the code tests whether the user is the only one counted, so the write goes on and
takes the only administrator away. Without `NobodyCounted` the property fails in
`admin_kept` in exactly this way; with it the theorem `LostMissed` shows that there
is no third gap.

A case that is excepted, not violated: an import that has read the version before
a save sets the version number back to the one a page has been given meanwhile, or
behind it; the next save of that page, at once or when other saves have brought the
number up again, replaces what came between without a conflict. `Overtaken` in
`InstanceConfig` names it; without it `NoLostUpdate` fails in `config`. Equal
numbers alone are not all of it: the invariant for the proof could not be kept
with that narrower exception, and two imports with saves between them (more
commits than `config` has) do refute it.

A margin that is used up by the defaults: the lock of a search lives two seconds
longer than a whole number of seconds of its call, less the fraction `int()` cuts
off (`Margin`). Its life begins with the effect of the SET, and the default socket
timeout of Redis is two seconds as well: the reply to the first try of a SET comes
at the very edge of the margin at the latest when the timeout is whole, while a
retry of the client library, a longer socket timeout or a fractional timeout may
bring it later.
The lock may then expire during the call and a second search ask the provider
too. `LockOutlivesCall` is therefore stated for a search told within the margin.

A bound that is weaker than it looks: `WithinLimit` promises a window its limit
only for requests that are counted within a second of reading the clock. The key
lives one second longer than its window, the two timeouts of Redis two seconds
each; a request of the last second that is counted later may start a new count,
and one window then lets in up to twice its limit. The run reaches that.

## 5. Proofs

`TrackPipelineProofs` proves, for every number of tracks, requests, workers,
task ids, attempts and faults:

| theorem | statement | assumption |
|---------|-----------|------------|
| `TypeCorrect` | `Spec => []TypeOK` | |
| `KeyStored` | `Spec => []KeyIffReady` | |
| `TableSafe` | `Spec => []NeverStranded` | |
| `WorkerHolds` | `Spec => []WorkerHoldsRow` | `TimelyLeases` |
| `OneWorker` | `Spec => []OneWorkerPerTrack` | `TimelyLeases` |
| `DemotionSound` | `Spec => OnlyBrokenDemoted` | `TimelyLeases` |
| `ObjectsPresent` | `Spec => []ReadyStreams` | `ObjectsDurable`, `~DeleteOrphans` |
| `Refinement` | `Spec => ImplementsLifecycle` | |

They rest on the assumptions of the two modules about their constants only (at
least one attempt, a natural number of faults, `NoTrack` and `NoTask` outside the
sets they stand beside, Boolean switches).

The inductive invariant is `IInv == TypeOK /\ RowsGood /\ ReconcilerReadsReady`.
`RowsGood` says of each row which fields go together: a key exactly when ready, a
lease exactly while downloading, attempts left while queued, one spent while
downloading. `KeyIffReady` and `NeverStranded` follow from it and are not
inductive themselves: a retry or a requeue must know that the row it takes over
has no key and attempts left. The lemmas about rows show that each statement of
`TrackRow` keeps a row good, and the proofs go through the actions by actor.
`ReconcilerReadsReady` says that a track the reconciler has read or found missing
is still "ready", because nobody else takes a row out of "ready"; without it
`MarkStorageMissing` could take the row of a running download.

On top of `IInv`, `HoldInv` (`WorkerHoldsRow` and `OneWorkerPerTrack` together) is
inductive while leases outlive executions: each needs the other, as a second worker
of a track would finish the row under the first. `StillMissing` carries to the
repair what the reconciler found in its two listings: an object it has found
missing stays missing, since only a running download stores one and the row of a
missing track is ready, not downloading. `ObjectInv` says that a ready row has its object and that a worker
about to mark its row ready has stored it; with `KeyIffReady` that is `ReadyStreams`. For the refinement, `StepIsRowStep` reduces each
action to what it does to one row, and each of these is a move of the life cycle
or changes neither status nor attempts.

`AuthSessionsProofs` proves of `AuthSessions`, for any credentials and owners, any
number of sessions, operator commands and (finitely many) concurrent requests:

| theorem | statement | assumption |
|---------|-----------|------------|
| `AuthTypes` | `Spec => []TypeOK` | |
| `LoginNeverForks` | `Spec => []OneLivePerLogin` | |
| `ResetLeavesNoSession` | `Spec => []KeyResetComplete` | |
| `RevocationStopsLogins` | `Spec => []NoLoginOutlivesKey` | |

The inductive invariant is `AuthInv == TypeOK /\ SessionInv /\ KeyInv`.
`OneLivePerLogin` needs that a session a rotation has locked is still the live one
it read (`LockedIsRead`), that no two rotations hold the same (`OneRotationEach`)
and that nothing refers to the number of a session not yet committed
(`NewIsFresh`). The model gives numbers again, so `RoomForAll` shows with a
cardinality that each request that will need one finds one: that is what
`Requests` is finite for, and an `INSERT` never waits for room in the code.
For the commands, `LoginKeyActive` says that while a login holds its key's row no
command takes the key back, `NoneUnderReset` that `FOR UPDATE` on the user leaves
no uncommitted session of that user, and `SweepCovers` what a sweep may miss: for
a reset nothing, for `revoke-key` only sessions that a rotation began. The last is
exactly the gap `auth_revoke_key` shows, so the invariant says that there is no
other. The lemmas go through the actions twice, `Sessions...` and `Keys...`.

`InstanceConfigProofs` proves of `InstanceConfig`, for any number of processes,
readers, pages, imports and commits and every time to live:

| theorem | statement | assumption |
|---------|-----------|------------|
| `ConfigTypes` | `Spec => []TypeOK` | |
| `Staleness` | `Spec => []StaleWithinTTL` | |
| `SavesReplaceWhatTheyShow` | `Spec => []NoLostUpdate` | |
| `SavesKeepCredentials` | `Spec => []CredentialsPresent` | |
| `NewerOnly` | `Spec => NeverGoesBack` | |

They are theorems of `Spec`; `SpecAfterFirstSave` of the run `config` begins in a
state `Spec` reaches by the first save, and shows the same on a small instance. The inductive invariant is `ConfigInv`.
`SnapshotsDated` compares ages: what a reader or a cache has was replaced no
longer ago than its read began, which survives every tick because both grow
together. `OneReaderEach` and `RowsInOrder` (the refresh lock, and the order of
what a process has had, reads and keeps) give `NeverGoesBack`. For the saves,
`VersionsGrow` says that the version is above that of every earlier place unless
an import has set it back (`SetBack`); so a save that finds its page's version
either follows its page directly or is `Overtaken`. `PagesChecked` carries the
credentials a page was checked against to its commit, and `CommitKeeps` brings
the two together.

`PlaylistsProofs` proves of `Playlists`, for any number of users, requests,
playlists, items and tracks and any finite lists to import:

| theorem | statement | assumption |
|---------|-----------|------------|
| `PlaylistTypes` | `Spec => []TypeOK` | |
| `Contiguous` | `Spec => []PositionsContiguous` | |
| `ItemsNeverConflict` | `Spec => []NoItemConflict` | |

`PositionsContiguous` speaks of committed rows only, and a commit writes what its
transaction has prepared over several statements. The inductive invariant
`PlaylistInv` therefore says of each transaction what it has written and what it
has still to write. `Kinds`, `Places` and `Rows` say where a transaction of each
kind can be, which playlists it has locked or made, and whose rows it has
written; `Plan` says how positions stand on the way: an addition has counted the
items there are, a removal and a reorder carry a list of the rest that names each
item once (`Lists`), have moved all of it to negative positions after the first
statement, and have it packed as 0, 1, 2, ... after the second. `Before` ties the
positions after a removal to those before it, from which the abstract lists see
that the rest keeps its order. `Apart` says that two transactions never have a
locked playlist, a new playlist or a written row in common, so that one's commit
leaves the other's plan true. `ItemsNeverConflict` falls out of `Kinds`: a
request on items is never in conflict, because each of its UPDATEs is shown to
meet neither a row that stays nor one that moves (`MoveAsideKeeps`,
`MoveBackKeeps`). What a statement sees is reduced to these rows once, in
`SeenHere` and the lemmas after it.

`PlaylistOrderProofs` extends it:

| theorem | statement | assumption |
|---------|-----------|------------|
| `OrderImplemented` | `Spec => ImplementsOrder` | |

`Entries` is the sequence a playlist shows. With positions packed it has each item
once, at the place its position says (`EntryAt`), so equal rows show equal
sequences, one row more is an `Append` (`EntryAdded`), one less a `RemoveAt`
(`EntryTaken`), and a packed renumbering is a permutation (`EntriesMoved`). Every step
but a commit and the deletion of a user leaves the tables alone; the commits are
taken by kind (`AddShown`, `TakeShown`, `PermuteShown`, `AppearShown`,
`DropShown`), and `StepShown` puts them together.

`RateLimitProofs` proves of `RateLimit`, for every limit and window above zero,
any number of concurrent requests and every delay up to `Window + 2`:

| theorem | statement | assumption |
|---------|-----------|------------|
| `RateTypes` | `Spec => []TypeOK` | |
| `LimitHolds` | `Spec => []WithinLimit` | |
| `RetryHeeded` | `Spec => []RetryInLaterWindow` | |

`WithinLimit` is not inductive: a counter that starts again would let in any
number. `KeyCounts` ties what a window has let in to its key: to the count of the
first key, to that of a second one (whose expiry shows that the first had
expired), or, when there is no key, to the time that must have passed.
`PromptCounts` says that prompt requests only ever meet the first. `Delayed`
bounds the age of a request, so that `CountedInTime` excludes a third key.

`ProviderSearchProofs` proves of `ProviderSearch` and `SpotifyClient`, for any
number of searches and credentials and for every timeout:

| theorem | statement | assumption |
|---------|-----------|------------|
| `SearchTypesHold` | `Spec => []TypeOK` | |
| `OneFetch` | `Spec => FetchedOnce` | |
| `TokenFits` | `Spec => []TokenMatches` | |
| `TokenLockFree` | `Spec => []TokenLockLeft` | |
| `LockLasts` | `Spec => []LockOutlivesCall` | |
| `InTime` | `Spec => []AnsweredInTime` | |

The inductive invariant is `SearchInv`. `ClientInv` is the part of the client:
`TokenMatches` and `TokenLockLeft` together with the types, proved once for every
step of the client, whichever search takes it. `SearchOK` says of each search that
the time it has taken and the time it may still take where it is add up to
`Latest` of that place, from which `AnsweredInTime` follows; which for a wait counts
the poll that overruns its deadline; and, by `HoldsLock`, what is left of the lock it
has set. `LockOutlivesCall` alone is not inductive, since the lock would have to be
known to outlive the next tick, and says nothing of a search that waits for the
reply. `HoldsLock` therefore says of that one that the life left and the time since
the SET make up `LockLife`, and of a call told of its lock within the margin that
the lock has longer to live than the call may take; the step between the two is
`LifeAndMargin`: whatever the fraction of a second in the timeout, `LockLife` is the
timeout and `Margin`. A lock whose search is over is named `Lost`, so that no
search can mistake it for its own. On top of it, `LivesInv` bounds how long each
entry, lock, token and window has left and says that what has no time left is
gone, which completes the types. `FetchInv` says that who posts for a token holds
the token lock, and that no token would serve it unless Spotify has refused one:
a check made before the wait for the lock would not give that, the one the code
repeats under the lock does. `FetchedOnce` is the action form of it.

`UserAdminProofs` proves of `UserAdmin`, for any number of users, requests and
commands:

| theorem | statement | assumption |
|---------|-----------|------------|
| `AdminTypes` | `Spec => []TypeOK` | |
| `CountLasts` | `Spec => []CountStaysTrue` | |
| `OneBootstrap` | `Spec => []BootstrapOnce` | |
| `LostMissed` | `Spec => LostOnlyMissed` | |

The inductive invariant is `AdminInv`. `HoldsAdmins` says that every administrator
a request has counted is still active, not only one of them: which one remains
decides the locks, since a write waits for any row another request has counted.
`StaysActive` shows that of all steps only the write of a request can take an
active administrator away, so `LostOnlyMissed` comes down to that one step: the
user written is the last administrator, so if the request counted anybody,
`HoldsAdmins` gives a second active one, which that step leaves alone.
`BootstrapInv` says that users bootstrap-admin has created, while nobody changes
them, are active administrators, and that a command that counted none holds the
lock alone; so none is left over when it inserts.

Only model-checked: the liveness properties (`BrokenRepaired`, `QueuedLeaves` and
`DownloadLeaves` of `pipeline_fair`, `RefreshEnds` and `CommandEnds` of `auth`,
`RequestsEnd` of `playlists`), because fairness and ENABLED are outside the
prover; absence of deadlock; and of course what the three violated runs refute.

## 6. Limits

Not modelled: the components the inventory marks so; inside the modelled ones,
how a provider result is matched to a video (it matches, does not, or fails),
the deletion of a user as far as its keys and sessions go (its playlists go in
`Playlists`), what requests answer, reads that change nothing, the Yandex device login
and client, the YouTube client, waits for row locks between `update` and the import (an
abort leaves no trace). Message order is not assumed: the queue delivers in any
order, which covers Redis and its visibility timeout except that a message is
not delivered twice while its execution still runs unless that execution dies.

Playback is switched in `pipeline_timely` and stays on in `pipeline_fair`. While a
process may see it disabled, `DownloadLeaves` asks nothing: the code does leave a row
"downloading" then. The exception is on its right-hand side, so a row still
"downloading" once playback is on for good would have to leave it; no run asks that.
A Redis command that has been given up has no effect afterwards. The lock cycles of
`auth` are those of two requests and one command.
