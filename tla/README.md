# TLA+ models of the cloud/tape backup job

This directory holds TLA+ models of the tape backup job in
`src/src/api2/cloud/backup.rs`: the API handler that starts it, the worker,
and the media set it writes. It also models the setting values of
`pbs-api-types` that pass through the API and the configuration files, and
records what is not modelled. `PROJECT.json` lists the components, the runs, the mutants,
the map from definitions to source lines, the findings and the hazards.

## The system

### Components

| Part | Source | State | Operations |
|---|---|---|---|
| Orchestrator `backup()` | backup.rs 127-197 | drive lock, device state, worker task | permission check, `lock_tape_device`, spawns the worker thread, `set_tape_device_state`, notification, state reset |
| Worker `backup_worker` | backup.rs 200-385 | group list, `errors`, `need_catalog`, `StoreProgress`, summary | online status, group listing/sort/filter, per-group snapshot selection, commit, catalog, export, final error check |
| Snapshot transfer `backup_snapshot` | backup.rs 404-497 | snapshot reader, chunk iterator, current medium uuid | open, chunk loop with LEOM rotation, reader join, snapshot archive with one retry |
| Chunk reader thread | `spawn_chunk_reader_thread` (not in repo; spec.md 4.3) | bounded channel | sends chunks in order, an error item, hangs up or panics |
| PoolWriter / MediaPool | not in repo (spec.md 4.3-4.4) | loaded medium, media status, media content, media-set catalog | `load_writable_media`, `append_*_archive`, `set_media_status_full`, `contains_snapshot`, `commit` |
| API types | `pbs-api-types/src/*` | configuration files (values only) | parsers and printers (`GroupFilter`, `MediaLocation`, `BackupLocation`, `MaintenanceType`, `Role`, `CloudNotify`, policies), the serde shape of the record types, `MaintenanceMode::check`, `privs_to_priv_names`, `KeepOptions::keeps_something` |
| S3 upload handlers | `cloud/drive.rs`, `lib.rs` | remote object store | one request per call |

### How the parts interact

`backup()` locks the drive and starts a worker thread. The worker thread runs
`backup_worker`. For every snapshot, `backup_snapshot` starts a chunk reader
thread. That thread streams chunks through a bounded channel. The worker
consumes the channel through a peekable iterator and hands the chunks to
`PoolWriter::append_chunk_archive`. When a medium reaches logical end of media
(LEOM), the worker marks it Full and continues the same stream on the next
writable medium.

The task's abort flag can be set at any moment. The worker polls it with
`check_abort` only at fixed points.

### What makes it hard

- Two threads share the channel.
- Media rotation happens in the middle of a stream.
- Two archive writers each retry once on the next volume.
- Skipping of snapshots that are already in the media set catalog.
- Failures at several levels:
  - the snapshot vanishes: Ignored;
  - the snapshot cannot be opened: Error;
  - a read error, a reader panic or running out of media: the whole job fails.
- An abort request polled only at some points.

## Modules

| Module | Models | Run modules |
|---|---|---|
| `BackupOrchestrator.tla` | `check_backup_permission` and `backup()` (backup.rs 68-83, 127-197) | `MC_BackupOrchestrator.tla` |
| `TapeBackupJob.tla` | `backup_worker`, `backup_snapshot`, `update_media_online_status`, the reader thread, the PoolWriter | `MC_TapeBackupJob.tla` |
| `MediaSet.tla` | what the PoolWriter promises about the media set (spec.md 4.3) | refined by `TapeBackupJob` |
| `TapeBackupRerun.tla` | successive runs of `backup_worker` on one pool, with a crash at any step; only `pool_writer.commit()` (backup.rs 343) persists | used by `TapeBackupService` |
| `TapeBackupService.tla` | `backup()` requests on one drive whose worker closure runs the job of `TapeBackupRerun`, with a process crash | `MC_TapeBackupService.tla` |
| `ConfigValues.tla` | setting values of `pbs-api-types`: verified, saved, loaded, used | `MC_ConfigValues.tla` |
| `ConfigRecords.tla` | the serde shape of 50 record types of `pbs-api-types` (jobs, remote, network, metrics, openid, key derivation, maintenance, ACL, cloud device/changer/media/tape, node) | used by `ConfigValues` |
| `PruneKeepOptions.tla` | `KeepOptions`/`PruneJobOptions::keeps_something` (jobs.rs 588-616, 648-651) | itself |

### BackupOrchestrator

The API handler runs once per request, on the caller's thread. The worker
closure runs on the thread `WorkerTask::new_thread` starts. Per request, `hpc`
is the handler's position and `wpc` the worker's. `holder` is the drive lock
and `devState` the drive state marker that `set_tape_device_state` writes.
`email`, `jobResult` and `notified` are the closure's locals.

- `CheckPermission`: the three `check_privs` calls of `check_backup_permission`
  against the constant `Privs` (what the ACL grants the caller).
  `CachedUserInfo::new` can still fail.
- `LoadConfig`: `lookup_datastore` and the pool and drive configs, each a `?`.
- `LockDrive`: `lock_tape_device` fails at once when the drive is locked.
  Otherwise it takes the lock, and `lookup_user_email` finds an email or not.
- `Spawn`: `new_thread` moves the guard into the closure. A failed spawn drops
  the closure, and with it the guard.
- `SetDeviceState`: the `?` at 165 returns from the closure, dropping the guard.
- `RunJob`: `backup_worker` abstracted to `Ok` or `Err`; `TapeBackupJob` models it.
- `Notify`: `send_tape_backup_status` when there is an email.
- `ResetDeviceState`: `let _ = set_tape_device_state(drive, "")`. The write may
  fail silently; the guard is released when the closure returns.

### TapeBackupJob

`TapeBackupJob.tla` models the worker, `backup_snapshot`, the reader thread,
the PoolWriter and the abort flag in one module. These parts interact
step by step, so they are not split.

**Data abstraction.**
- A snapshot is `<<group, time>>`.
- A chunk is its index within the snapshot.
- A medium is a model value with `Capacity` units:
  - a chunk takes 1 unit;
  - a snapshot archive takes `ArchiveSize` units;
  - a catalog archive takes `CatalogSize` units;
  - `InitialUse` gives the units each medium already holds from earlier runs of the media set.

**Variables.** The worker's control point is `pc`. Every other local of
`backup_worker` and `backup_snapshot` is its own variable: `groupList`, `gi`,
`snapList`, `snapNo`, `cur`, `errors`, `needCatalog`, `summary` and `progress`.
The writer's state is `loaded`, `uuid`, `status`, `content`, `index`,
`usedMedia` and `committed`. The reader's state is `chan`, `rstate` and `rnext`.

**Actions.** Each action is one stretch of code between two points where
another thread or the abort flag can matter. Each action takes every branch of
that stretch:

- `UpdateMediaOnlineStatus` (387-402)
- `ListGroups` (214-247)
- `StartGroup` (264-291: progress reset, `list_backups`, finished filter, empty group, sort, latest-only `pop`)
- `NextSnapshot` (289-330: `contains_snapshot` skip, `need_catalog`)
- `OpenSnapshot` (410-437)
- `ChunkCheck` (440)
- `ChunkPeek` (442-449, with `load_writable_media`)
- `ChunkAppend` (451-458)
- `JoinReader` (461-463)
- `SnapLoad` (465-467)
- `SnapAppend` (469-477)
- `SnapRetry` (479-481)
- `SnapAppend2` (482-496)
- `Commit` (343-345)
- `CatLoad`, `CatAppend`, `CatRetry`, `CatAppend2` (346-361)
- `Export` (364-384)
- `ReaderSend` and `ReaderEnd` (the reader thread)
- `RequestAbort`

A `?` or `bail!` is `Fail`: the job ends with `result` set, as `job_result`
returned from the worker closure.

The PoolWriter operators follow spec.md 4.3, because their source is not in
this repository:

- `load_writable_media` keeps the loaded medium while it is Writable, otherwise
  loads another Writable medium, and fails when none is left.
- `append_chunk_archive` takes a prefix of the Ok items of the stream, up to
  the free space. Hitting LEOM leaves the rest of the stream in place.

`MC_TapeBackupJob.tla` gives the function-valued constants for TLC.

### MediaSet and the refinement

`MediaSet.tla` states, without any of the job's control flow, what the media
set looks like to a reader:

- an append-only log of records, each record on one medium;
- a medium takes records only while it is not Full;
- a medium is written in one stretch: the session writes it only while it is
  the current medium, or when it was never written and every earlier medium is
  Full;
- the records on a medium never exceed the room it had when the job began;
- Full is final;
- the session ends, under weak fairness of `Finish`.

`TapeBackupJob` instantiates it as `MS`. The refinement mapping is:

- `log`: `MediaLog`, the content of each used medium in the order the media
  were first used;
- `full`: the media whose status is Full;
- `done`: `pc = "done"`;
- `Room`: capacity minus the initial use.

`ImplementsMediaSet == MS!Spec` is a property of the `job_core` run.

### TapeBackupRerun

`TapeBackupRerun` extends `TapeBackupJob` and adds two variables:

- `runs`: how many runs of the job have started, bounded by `MaxRuns`;
- `durable`: the media-set catalog and the media status as the last
  `commit()` left them.

The actions:

- `CommitPersist`: the worker's `Commit` step, which also copies the catalog
  and the media status into `durable`. Every other worker step is
  `TapeBackupJob`'s own.
- `Crash`: the host goes down at any step before the run ends.
- `Rerun`: a run has ended (Ok, error, abort or crash), and the job is started
  again without `force-media-set`, which is its default. The new run begins
  from `durable` and from the media content, which survives on tape. Nothing
  else of the old worker survives.

The model is what spec.md 4.3 relies on when it says that a re-run repairs a
partial failure. The module has no specification of its own.
`TapeBackupService` decides when a run starts.

### TapeBackupService

This module composes `BackupOrchestrator` with the job. The orchestrator is a
named instance `O`, with every request on one drive `Drive`. The job is
`TapeBackupRerun`'s. A new variable `jobOwner` names the request whose worker
is inside `backup_worker`.

- `Handler(r)` is the orchestrator's handler: permission check, configuration,
  `lock_tape_device`, and the spawn that moves the lock guard into the worker
  closure.
- `Worker(r)` is the closure:
  - `O!SetDeviceState`;
  - `StartWorker`, the call of `backup_worker`, which is `Rerun`: a new
    MediaPool and PoolWriter built from the persisted pool state;
  - `FinishWorker`, which is `O!RunJob` with the job's own result;
  - `O!Notify` and `O!ResetDeviceState`.
- The job's steps, the reader thread and the abort request are
  `TapeBackupJob`'s.
- `ProcessCrash`: the process dies while a job runs.
  - The job stops where it is, as in `Crash`.
  - Handlers in progress end with an error.
  - Workers stop.
  - The drive lock, a lock file held by the guard, is released with the
    process.
  - The drive-state marker survives or is gone. Its store is outside the
    repository, and a daemon restart and a reboot differ.

Before the first request, no worker runs, the catalog is empty, and the media
hold what `InitialUse` says.

### ConfigValues

A setting travels through four steps, and each step is an action:

1. `Submit`: the API parameter is verified by the schema's `VerifyFn`. For
   most kinds that is `FromStr`; for `BackupLocation` it also checks the
   bucket or vault name.
   The allocation and retention policies go through their `VerifyFn`
   (`AllocationPolicyFormat`, `RetentionPolicyFormat`), which runs `from_str`.
   A `CloudInterface` can instead be built by `CloudInterface::new` (the
   `Construct` action), which is the only constructor of a record type in the
   crate.
2. `Save`: the value is written to the configuration file, through `Display`
   (`forward_serialize_to_display`) or serde.
3. `Load`: the file is read back, through `FromStr`
   (`forward_deserialize_to_from_str`) or serde.
4. `Use`: the loaded value is used. A `MaintenanceMode` runs `check` for every
   `Option<Operation>`. A `Role` is expanded by `privs_to_priv_names`.

**Kinds covered:**
- `GroupFilter`/`FilterType` (jobs.rs 331-430);
- `MediaLocation`;
- `BackupLocation` with its `VerifyFn`;
- `MaintenanceType`;
- `Role` and `PRIVILEGES`;
- `MediaSetPolicy` and `RetentionPolicy`, which are stored as the verified string;
- `CloudNotify`;
- the 50 record types of `ConfigRecords` (next section), saved and loaded
  through serde.

**Data abstraction.** A string is a sequence of tokens. A token is a separator
the parsers split on (":" or "-"), a keyword, or a name. Each `split_once`,
`starts_with` and `strip_prefix` of the code is therefore kept exactly. Name
length limits are below this abstraction.

**Collaborators outside the repository.** Their behaviour is stated in the
module's constants:

- `BACKUP_GROUP_SCHEMA` accepts the words in `GroupIds`;
- `BackupType` parses the words in `BackupTypes`;
- `CalendarEvent` accepts `CalendarEvents`, and `TimeSpan` accepts `TimeSpans`;
- `VAULT_NAME_SCHEMA` is referenced but defined nowhere, and is taken as the
  safe-id format of the bucket name.

`Init` enumerates every string up to `MaxLen` tokens over each kind's
alphabet. That is 5 tokens for group filters, the length of
`exclude:group:<group>`.

### ConfigRecords

Each `#[derive(Serialize, Deserialize)]` struct and enum of `pbs-api-types` is a
record of its serde attributes, not of its Rust types:

- `rename_all` becomes `RenameAll`, which works over a field name given as a
  sequence of words. `kebab-case`, `lowercase` and `PascalCase` are kept apart.
- A field has one of these kinds:
  - plain;
  - `Option` skipped when `None`;
  - `Option` written as `null`;
  - `#[serde(default)]` with its `skip_serializing_if` predicate (`is_true`,
    `is_false`, `Vec::is_empty`, `String::is_empty`);
  - `proxmox_serde::string_as_base64` (the passwords of `remote.rs`);
  - `#[serde(flatten)]`;
  - `flatten` of an `Option`;
  - a nested struct.
- An enum is a set of variant names after its `rename_all`.
- A type defined outside the repository, such as `TapeBackupJobSetup`,
  `JobScheduleStatus` or `RateLimitConfig`, is one opaque key.

`Serialize` and `Deserialize` are mutually recursive over these kinds:

- `Deserialize` fails (`Err`) on a missing required key or an unknown variant;
- it fills in the default of a missing defaulted key;
- a flattened struct takes its keys from the parent object.

An `ASSUME` checks that no two keys of one record collide after renaming and
flattening. serde would reject such a struct only at run time.

The input objects (`Objects`) are every combination of present and absent
keys, with one value per leaf type. A nested object is any object its own type
accepts. Plain field values are abstracted to one string, one number and
`true`, because no serde attribute in the code looks at them. A defaulted
field ranges over its default and one other value, so both sides of its skip
predicate are tried. A base64 password is the encoding of an empty or a
non-empty password.

### PruneKeepOptions

`keeps_something` adds the six `Option<u64>` counts with `+`. That addition
panics on overflow in a debug build and wraps in a release build. The crate
sets no `overflow-checks` profile, so both builds are possible, and `build` is
chosen in `Init`.

The width is a constant: 64 in the code, 8 in the run, because TLC integers
are 32-bit. The counts tried are 1, 2 and 2^(w-1)-1, the top of the signed
integer schema's range. The wrap happens at any width.

## Runs

`job_core` (`MC_TapeBackupJob.cfg`, pass). The configuration:

- 4 groups:
  - group 1 has two finished snapshots;
  - group 2 has one finished snapshot;
  - group 3 has one unfinished snapshot, so it is an empty group after the finished filter;
  - group 4 is filtered out.
- `latest_only` and `force_media_set` both free.
- A prior catalog that is empty or already holds `<<1,1>>`.
- 2 chunks per snapshot and a channel of 2 slots.
- 4 media of capacity 5:
  - two are already 4/5 used, so LEOM, a snapshot archive that does not fit, and a catalog that does not fit all happen;
  - two are empty, so the retries can succeed.
- With a changer, so the online-status refresh can fail.

The checked properties:

- `TypeOK`, including that no medium is written past its capacity.
- `ChunksInOrder`: for every snapshot, the chunks on the media are 1, 2, ... in medium order. Nothing is lost or repeated across LEOM.
- `SuccessIsDurable`: a snapshot in the summary has its archive on the media, after all of its chunks.
- `NoDuplicateArchive`: no snapshot archive is on the media set twice, counting the prior catalog.
- `CompleteOnSuccess`: a job that ends Ok archived exactly the expected snapshots, i.e. the filter, finished filter and latest-only selection minus vanished snapshots.
- `SnapshotOrder`: snapshot archives appear in group order, oldest snapshot first.
- `ProgressMonotone` (action property): the `StoreProgress` percentage never decreases.
- `Termination` (liveness): every job ends.
- `ImplementsMediaSet` (refinement, with `MediaSet`'s weak fairness of
  `Finish`): the job's writes, through the mapping
  above, are a behaviour of `MediaSet`.

Each property has a mutant in `PROJECT.json`, a plausible bug of the mapped
code that TLC shows breaks it. Examples: LEOM not marking the medium Full, an
error item taken for the end of the stream, `contains_snapshot` not consulted,
and the sort reversed.

Five violation runs of `TapeBackupJob` check what spec.md promises and the
code does not do:

- `catalog_without_writes` (`CatalogOnlyIfWritten`): `need_catalog` is set
  before the snapshot result is known (303, 329). A job whose snapshots all
  vanish still writes a catalog.
- `commit_before_catalog` (`NoWriteAfterCommit`): `commit()` at 343 precedes
  the catalog write at 345-361.
- `abort_not_honoured` (`NoWriteAfterAbort`): `check_abort` is never polled on
  the open/vanished path, the catalog path or between 479 and 482. TLC shows an
  abort requested early, every snapshot vanishing, and then the catalog being
  written. That job can also end Ok.
- `refresh_fatal` (`OnlineRefreshNonFatal`): an error of the changer query in
  `update_media_online_status` is propagated with `?` (392-399). The job ends
  before any group is processed, although spec.md 4.1 calls the refresh
  best-effort.
- `join_failure_fatal` (`JoinFailureIsolated`): a panicked reader makes
  `backup_snapshot` bail (461-463), and the `?` at 305/331 ends the whole job.
  spec.md 7 says a join failure is fatal for that snapshot only.

`orchestrator` (`MC_BackupOrchestrator.cfg`, pass) runs four requests:

- `r1` and `r2` on drive `d1`;
- `r3` and `r4` on drive `d2`;
- `r4` comes from a caller without Tape.Write on the pool.

Every step that can fail does. Two requests per drive are enough for every
interleaving of one job with a competitor: the competitor's lock attempt can
fall before, during or after the first job's run and reset. A third request
on the same drive adds nothing new. The checked properties:

- `TypeOK`.
- `DriveExclusive`: every running worker holds its drive's lock.
- `DriveStateNamesRunningJob`: while a job runs and notifies, the drive's state
  marker names it.
- `ErrorHasNoEffect`: a request answered with an error left no worker, lock or
  marker.
- `LocksReleased` (liveness): every lock that is taken is released.

Two violation runs of the orchestrator:

- `notify_skipped` (`NotifyEveryOutcome`): when `set_tape_device_state` fails
  at 165, the closure returns before the notification. spec.md 4.1 says the
  notification is attempted whatever the outcome.
- `stale_drive_marker` (`MarkerOnlyWhileLocked`): a failed reset at 191 is
  ignored and the guard dropped. The drive then names a finished job while it
  is free, or while the next job holds it. spec.md 4.1 says the marker is
  cleared on every exit path.

`config_values` (`MC_ConfigValues.cfg`, pass) runs every input of every kind
through the four steps: every string up to the bound, and every object of every
record type, plus a `CloudInterface` built by `new` (353,440 states, about 40 s
without coverage reporting). The checked properties:

- `TypeOK`: the file holds only tokens of the kind. For a record, the file
  holds only that record's keys.
- `SavedValueReloads`: a value that was accepted and saved is loaded back as
  an equal value, by the type's `PartialEq`. This covers both `Display` impls
  marked "used for serializing below, caution!". For the 50 record types, it
  means every `skip_serializing_if` agrees with its field's default, and every
  flatten, rename and base64 field reads back what it wrote. A `CloudInterface` from
  `new`, with every `Option` `None` and no tags, is read back equal.
- `ParseIsExact`: printing an accepted value gives back the input, except an
  optional `include:`. No parser drops part of its input.
- `MaintenanceAsDocumented`: `check` allows what the doc comments say:
  - read-only allows reads and lookups;
  - offline allows only lookups;
  - a bucket being deleted allows nothing.

  The order of the early returns decides this.
- `RoleGrantsAsDocumented`: `privs_to_priv_names` of each role names exactly
  the privileges its doc comment grants, in `PRIVILEGES` order. This includes
  `Admin = u64::MAX`.

`service` (`MC_TapeBackupService.cfg`, pass) runs two `backup()` requests on
one drive. The second request either meets the lock of the first one's running
job and is rejected, or makes the re-run after it. The job has:

- one group with one finished snapshot of one chunk;
- three media of capacity 4, with archives of size 2 and a channel of 1;
- `m1` has one unit left.

So a run can fill `m1`, mark it Full, and then fail, crash or be aborted
before `commit()`. The next run then starts from a persisted media status
that no longer matches the media. The run has 310,698 states and takes about
30 s. Chunk streaming across LEOM is left to `job_core`; two chunks and two
groups here take 13 minutes. The checked properties:

- `CommittedIsOnTape`: every snapshot in the persisted catalog has its archive
  and all of its chunks on the media, whatever earlier runs did. A re-run skips
  such a snapshot through `contains_snapshot`. If one entered the catalog half
  written, no re-run would ever repair it.
- `NoRewriteOfCommitted` (action property): no run without
  `force-media-set` appends the archive of a snapshot in the persisted catalog.
- `WritesOnlyUnderLock` (action property): the media are appended only by the
  job of the request that holds the drive lock and whose upid the drive-state
  marker shows. This relates the handler's `lock_tape_device` and guard move to
  the worker's writes. It fails if the handler kept the guard and dropped it on
  return.
- `WorkerReturns` (liveness): a worker that enters `backup_worker` returns,
  and its drive lock is released, whatever the job meets and whatever the other
  request does.

The converse does not hold. A snapshot archived by a run that ended before
`commit()` is not in the persisted catalog, and the next run writes it again.
The media set then holds two copies of that snapshot. spec.md 4.3 calls
re-runs after partial failure safe. Section 8 (Idempotence) says a re-run
against a media set that already contains a snapshot must skip it, with no
duplicate archive. Read literally, that statement is broken here: the first copy
is on the media, but `contains_snapshot` consults only the catalog that
`commit()` persisted. The copies are wasted space, not lost data. They are
recorded as a hazard note in `PROJECT.json` rather than as a violation run,
because every run slot of the project is taken.

`keep_overflow` (`MC_PruneKeepOptions.cfg`, violation, `KeepsSomethingExact`):

- Two counts at the top of the range plus a count of 2 make the sum wrap to 0.
  A release build then answers that the options keep nothing.
- A debug build panics instead.

**Why the bounds are enough.** Every action fires in the passing run, and so
does every branch of the worker's code. That includes:

- LEOM in the middle of a stream;
- both retries succeeding and both failing;
- running out of media;
- read errors and panics;
- vanished and failing snapshots;
- an abort at each polling point;
- skipped, empty and filtered groups.

Two snapshots in one group are needed for order and latest-only. Two chunks
and a channel of 2 let LEOM split a stream and let the reader run ahead.
Larger values repeat the same shapes.

## Fairness

In `BackupOrchestrator`, every handler call runs on its own request thread and
every worker on its own thread. `WF_vars(Handler(r))` and `WF_vars(Worker(r))`
are therefore assumed per request. Nothing else is needed for `LocksReleased`.
`ConfigValues` and `PruneKeepOptions` check only invariants and assume no
fairness.

In `TapeBackupJob`, the worker runs on its own thread (`WorkerTask::new_thread`), and each reader
on its own OS thread. Both therefore get weak fairness: `WF_vars(JobStep)` and
`WF_vars(ReaderStep)`. The abort request is an external event and has no
fairness. `Termination` therefore holds whether or not an abort ever comes.

`TapeBackupService` keeps both sets of conditions:

- weak fairness of the job's steps and of the reader;
- weak fairness of each request's handler and worker.

A crash and an abort are external events and get no fairness.
`WorkerReturns` therefore holds whether or not they happen.

## Not modelled

- **Export/eject and `get_used_media_labels`.** Both are I/O on the changer.
- **How `commit()` persists the catalog.** That code is not in this
  repository. `TapeBackupRerun` takes `commit()` to be atomic, as spec.md 4.3
  describes it.
- **The S3 upload and download handlers.** This covers `cloud::upload_to_cloud`,
  `download_from_cloud` and `main` in `lib.rs`, and `upload_file` in
  `cloud/drive.rs`. Each is one request to the object store, with no state of
  its own and no retry in the code. A model would only restate the store's
  semantics.
- **`#[api]` schema declarations and regex constants.** The serde side of the
  record types is in `ConfigRecords`. The schemas the `proxmox` `api` macro
  generates are not in this repository, and neither is that macro's semantics.
  The routers of `backup.rs` are also not modelled. The few formats that the
  modelled parsers use appear as the constants of `ConfigValues`. Two
  schema/serde mismatches were found by reading the code and are not checked:
  - `CloudConfig`'s schema names a property `service_url` (remote.rs 33),
    while serde's kebab-case writes `service-url`;
  - `CloudInterface`'s `tags` is not marked `optional` in its schema
    (network.rs 101), but serde defaults it and skips it when empty.
- **`#[serde(flatten)]` of an `Option` struct whose fields are all optional**
  (`CloudBackupDeviceInfo`, cloud/device.rs 73). An object without those keys
  reads back as `Some` of an empty struct, not `None`. `ConfigRecords` models
  this, and `SavedValueReloads` checks the round trip of every value the API
  accepts, which is always `Some`. A `None` built in code would not survive a
  save and a reload. Nothing in the repository builds one, so only the hazard
  note in `PROJECT.json` records it.
- **Code that does not compile.** `lib.rs` declares `mod cloud` twice.
  `CloudVerificationJobConfig` in `jobs.rs` is cut off in the middle of its
  definition. Neither is modelled.
- **`node.rs` helpers** `from_uname_parts` and `get_legacy`. They are
  formatting only.
- **Two jobs of one pool on two drives.** `lock_tape_device` serializes jobs
  per drive only. Whether `MediaPool` or `PoolWriter::new` locks the pool is
  decided outside the repository, and spec.md says nothing about it. This is
  a hazard note in `PROJECT.json`.
- **Some `?` error paths of the job.** Each would end the job through `Fail`,
  like the error paths that are modelled. They are left out to keep the state
  space small. After each of them the job writes nothing more:
  - `drive::config()?` when the pool has no changer (backup.rs 389);
  - `commit()?` (343);
  - the `?` of `spawn_chunk_reader_thread` (435);
  - the writer's `?` at 454 and 457, other than LEOM;
  - the export and eject `?`s (364-368).
- **`acl_path` of the job configs.** It delegates to `BackupNamespace`, which
  is not in this repository.

The modules map a little under half of the implementation's lines. Most of the rest is
the declarative code listed above. spec.md estimates that about 450 of the
roughly 3,500 lines implement the core.

## Plan for later sittings

1. **Two drives of one pool.** Model two drives of one pool in
   `TapeBackupService` if the repository comes to say whether the PoolWriter
   locks the pool.
2. **A property for the uncommitted-duplicate gap.** Add one if the spec comes
   to state whether a re-run may write a snapshot again.
3. **Retries of the object store client.** Model them if the repository comes
   to configure them.
