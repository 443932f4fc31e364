# Verification of the envelope-encryption module

This directory models the encryption and key-rotation module of the repository
in TLA+: what the key service does to the data-encryption keys (DEKs), and what
a rotation does to the records they encrypt, field by field. TLC checks the
models on small instances; TLAPS proves every safety property of the passing
runs, and both refinements, for all instances. Every definition that models code
is listed in `PROJECT.json` under `map` with its lines; paths below are relative
to `src/app/` unless they say otherwise.

## The system

| Component | State | Operations | Talks to |
|---|---|---|---|
| `service/encryption/encryption.service.js` | none | `encrypt`, `decrypt`, `inspect` | KeyService |
| `service/encryption/key.service.js` | `_activeDekCache`, one per KeyService object | `getActiveDek`, `getDek`, `generateDek`, `activateDek`, `_bootstrapFirstDek` | `encryption_keys`, a KEK provider |
| `encryption_keys` (model, migrations) | one row per DEK version: status, wrapped key; unique on `(key_type, version)` | insert, update, find, max | PostgreSQL |
| `service/encryption/rotation.service.js` | none | `createRotation`, `enqueueRotation`, `cancelRotation`, `getRotation` | KeyService, `encryption_rotations`, the queue |
| `encryption_rotations` (model, migration) | status, to_version, total_records, counters, `last_processed_id` | insert, update, findByPk | PostgreSQL |
| BullMQ queue (library) | one job per rotation id: state, attempts left, lock token, stalls | add, take, settle, promote, stall, remove | Redis |
| `workers/encryption.rotation.worker.js` | the frame of `_processJob`; `_isRunning`, `_worker`, `_bullmqConnection`, `_deps` | `_processJob`, `_migrateRecordFields`, `configure`, `start`, `stop`, `isRunning` | everything above, an advisory lock per target |
| `service/encryption/rotation.progress.js` | none | `persistCheckpoint`, `reportProgress` | `encryption_rotations`, the job |
| `service/encryption/rotation.socket.js` | rooms | the queue's events to rooms; `emitCancelled` | QueueEvents, Socket.IO, the rotation controller |
| `service/encryption/rotation.registry.js` | a Map of targets | `registerTarget`, `getTarget` | the worker, RotationService |
| `providers/` (env, kms), `config/encryption.config.js` | KEKs by version, read once | `wrapKey`, `unwrapKey`, `getEncryptionConfig` | KeyService |
| `crypto/` (aes-gcm, envelope) | none | `encrypt`, `decrypt`, the envelope's format; a value opens with its own key and its own AAD | everyone |
| `service/encryption/testing/in-memory.target.js` | an array of rows | `insert`, `findAll`, `update`, `reset` | the worker, the worker test controller |
| controllers, routes, scripts | none that matters here | HTTP shells, tests | the services |

What is hard in it:

- **Interleavings at awaits.** A KeyService is shared by all requests of its
  process; each of its operations is suspended several times, and nothing is
  re-read after an await. Several processes (API servers, workers, and the
  test-routes module) each hold a KeyService of their own over one table.
- **Transactions at READ COMMITTED.** `activateDek` is two UPDATEs in one
  transaction with no lock of its own around them.
- **Failures in the middle**: a statement that throws, a commit whose answer is
  lost, a process that dies, a job BullMQ believes to be stalled, a database
  session that is lost, or given back to the pool, with the advisory lock in it.
- **A loop that counts what it catches**, inside a transaction that does not
  forgive: a refused UPDATE is one failed record to the loop, and the end of the
  transaction to PostgreSQL.
- **A singleton with overlapping calls**: `start` and `stop` are suspended between
  their test of `_isRunning` and what they do about it.
- **Three sources of truth** about a rotation: its row, its job, and the records;
  and a fourth account of it, the events a subscriber hears.
- **Environments that change** under rows that stay: which KEK wrapped a DEK is
  nowhere written down.

What makes each part correct, and so what the properties below say:

- keys: an envelope can always be opened again; a version that is not activated
  encrypts nothing; an activated installation never looks like a fresh one; rows
  are never lost or rewritten;
- rotations: a checkpoint tells the truth about the records behind it; a version
  is activated only over migrated records; two runs work on one target only if
  one has lost its session; a cancellation that nobody overwrites stops the
  worker; a rotation ends, and its row says how;
- stored values: who wrote a value reads it back before, during and after its
  migration; no row is half migrated; no failure counted means all moved;
- the worker process: after `start` and `stop` there is what `isRunning` says;
- subscribers: progress does not go back, 100 percent is short of no more records
  than were inserted meanwhile, the end is told;
- KEKs: relabelling and rolling deployments lose nothing, and a KEK that was
  supplied opens its rows.

`PROJECT.json` lists the hazards one by one, at the line where each one bites.

## The modules

| Module | Lines of work |
|---|---|
| `DekTable` | abstract: what the key service promises. A row per version, minted with a new key, activated, retired; the envelopes issued. No caches, calls or transactions. |
| `KeyService` | detailed: KeyService and EncryptionService, one action per await, over `encryption_keys` with row locks. `Implements` is its refinement of `DekTable` (same variables, caches and calls hidden). |
| `KeyServiceProofs` | the theorems about `KeyService`. |
| `JobQueue` | the BullMQ queue as the code configures and uses it (external). |
| `RotationPipeline` | RotationService, the queue (it extends `JobQueue`), the worker's `_processJob`, and the tables they share. |
| `RotationPipelineProofs` | the theorems about `RotationPipeline`. |
| `RotationSocket` | extends `RotationPipeline` with what a subscriber hears: the event stream, the listener, the rooms, the controller's notice. |
| `RotationSocketProofs` | the theorems about `RotationSocket`; extends `RotationPipelineProofs`. |
| `EncryptedStore` | abstract: what a rotation promises about the stored values. Rows come, fields are filled, values move to the new version, by whole rows. |
| `RecordMigration` | detailed: `_migrateRecordFields` and the batch loop, over AES-GCM, envelopes and three kinds of target. `Implements` is its refinement of `EncryptedStore`. |
| `RecordMigrationProofs` | the theorems about `RecordMigration`. |
| `WorkerLifecycle` | `configure`, `start`, `stop` and `isRunning` of the worker singleton, and the BullMQ Workers it makes. |
| `WorkerProcess` | composes the two: the Workers of `WorkerLifecycle` take and finish the attempts of `RecordMigration`. |
| `WorkerProcessProofs` | the theorems about `WorkerLifecycle` and `WorkerProcess`; extends `RecordMigrationProofs`. |
| `KekProvider` | the two KEK providers, KeyService as their caller, and an operator who restarts processes with other environments. |
| `KekProviderProofs` | the theorems about `KekProvider`. |
| `MCKeyService`, `MCRotationPipeline`, `MCRotationSocket`, `MCRecordMigration`, `MCWorkerProcess`, `MCKekProvider` | instances for TLC. |

### KeyService: state and actions

`status` and `wrapped` are the table; `cache[s]` is the `_activeDekCache` of
service `s`; `call[c]` is the frame of one call in flight: the await it is
suspended at, what it was asked for, the version and key in its locals, and the
rows its transaction still wants and has written. `issued` records the envelopes
`encrypt()` has returned, as pairs of the version in the tag and the key of the
ciphertext.

| Code | Actions |
|---|---|
| `encrypt` / `getActiveDek` | `EncryptCached`, `EncryptMiss`, `FindActive`, `FindNoActive` |
| `getDek`, `decrypt` | `DecryptStart`, `GetDekHit`, `GetDekMiss`, `FetchRow`, `FetchNoRow`, `GotDek` |
| `generateDek` | `GenerateStart`, `ReadMax`, `Create`, `CreateRefused` |
| `activateDek` | `ActivateStart`, `RetireSnapshot`, `RetireRow`, `ActivateRow`, `ActivateNoRow`, `Commit`, `Invalidate` |
| a rejected await, a lost answer, a dead process | `Fail`, `CreateAckLost`, `CommitAckLost`, `Restart` |
| PostgreSQL's deadlock detector | `DeadlockVictim` |

The bootstrap is `encrypt` going through `generateDek` and `activateDek` in the
same frame. An UPDATE takes its candidate rows from a snapshot, locks them one
by one, and evaluates its WHERE clause again on each row it has locked: that is
what READ COMMITTED does, and why two activations need not see each other. Keys
are abstract; `FreshKeys` says only that a random key is never one in use.

### RotationPipeline: state and actions

`st`, `to`, `total` and `ckpt` are the columns of a rotation's row; `job` is its
job; `records[t][i]` is a record as the version that encrypts it and what is
inside, and `size[t]` how many there are; `run[w]` the frame of `_processJob` in
worker `w`, with its local counters and the batch it has read; `creating` and
`cancel` the frames of `createRotation` and `cancelRotation`. `lock[t]` is the
worker whose session has the advisory lock of `t`, `leaked` the targets whose lock
is in a session that has gone back to the pool, `lost` the workers whose run has
lost its session and does not know.

History: `late` counts the batches committed after a cancellation, whatever the
row says by then; `overwritten` are the rotations whose cancellation has been
overwritten by COMPLETED or FAILED; `unguarded` those of which a run has lost its
lock; `missed` the records given up; `overtaken` the rotations beside which an
older one of the same target has committed a batch.

| Code | Actions |
|---|---|
| `createRotation` | `Mint`, `CountRows`, `CreateRow`, `Enqueue`, `CreateDies` |
| `cancelRotation` | `CancelRead`, `CancelUpdate`, `CancelGetJob`, `CancelRemove`, `CancelReread`, `CancelFails` |
| `_processJob` | `TakeJob`, `Load`, `GetLock` / `Locked`, `Mark`, `Check`, `Fetch`, `Migrate` / `MigrateUnlucky`, `Complete`, `Activate`, `Report`, `MarkFailed`, `Release`, `SettleJob` |
| a rejected await, a death, a false stall | `Fail`, `Crash`, `FalseStall` |
| the session of the lock: the query of the lock or the unlock rejects, the session is lost, the pool closes it | `LeakLock`, `LoseSession`, `PoolDrops` |
| BullMQ | `Queue` (backoff over, stalled-job check) |
| the application's own writes | `AppWrite`, `Insert` |

The advisory lock belongs to the session, not to the run. `acquireRotationLock`
and `releaseRotationLock` give the session back to the pool without closing it
when their query rejects, so the lock may stay in it (`LeakLock`): it blocks the
other processes, and this one too unless the pool hands out the same session,
which gets the lock a second time, until the pool closes it or the process dies.
A rejected unlock may also have taken effect: that is `Fail` at `release`. While
a batch runs in sessions of its own, the one with the lock is idle; when it is lost
(`LoseSession`) the run goes on, and its unlock throws at the end.

A batch's transaction is one action: nothing inside it is visible before it
commits, and the records it writes are those read earlier by `Fetch`.
`activateDek` is one action here; its own steps are KeyService's business. A
report of progress rejects when the job has been removed: `LeaveWithReport`, and
the end of `MigrateBatch`, then go to the catch block.

### RotationSocket: state and actions

`stream` is the queue's event stream, as far as the listener has not read it;
`joined` the rooms of one subscriber; `heard[r]` the last progress message and
the final messages it got. `Step` is a step of `RotationPipeline` together with
what it says: `Said` derives the event from the step (a worker that reports, a
job that ends for good), and a `cancelRotation` that returns is followed by the
controller's notice, which does not go through the stream. One that throws, or
dies, after its UPDATE is followed by none; `unanswered` remembers it. The last
statement of `cancelRotation`, a `findByPk` behind its try block, is one of the
places where it can throw. A percentage is of `total[r]`, which
`createRotation` counted, and is capped at 100. `Listen` passes one
event on to its room, `Subscribe` is `rotation:subscribe`, and `CancelEnded` is a
cancellation of a rotation that has ended, which the controller announces too.
The listener is up throughout, as `rotation.socket.js` assumes; it reads the
stream from its end, so a restart of the API process would lose events.

### RecordMigration: state and actions

`rows[i][f]` is the value in field `f` of row `i`: the version in its tag, the AAD
it was made with, and what is inside, which is named for the cell it was written
to; a value of version 0 is empty, or something that is no envelope. `run` is the
rotation's job and the frame of `_processJob`: the counters, the batch as
`findAll` returned it, the rows its transaction has updated, and whether a
statement of it has been refused. `ckpt` is the row of the rotation. `target` is
one of the three kinds of target there are: a table of the application, the rows
`test.js` puts into the in-memory target (with the worker's AAD), and the rows
`/test/records/seed` puts there (with none).

| Code | Actions |
|---|---|
| application, `test.js`, `seedRecords`, `resetRecords` | `Insert`, `Store`, `Reset` |
| `createRotation` / `startTestRotation` | `CreateRotation` |
| the batch loop of `_processJob` | `Start`, `Fetch`, `FetchNone`, `Commit`, `RollBack`, `Activate` |
| `_migrateRecordFields` and the catch around it | `MigrateRecord`: `Skip`, `UpdateTable`, `UpdateMemory`, `RecordFails`, `UpdateFails` |
| a rejected await, a dead process | `Interrupt` |

Each record is a step, because the two kinds of storage part there: the UPDATE
of a table is seen by nobody before the commit and undone with it, and a record
in memory puts its own data back at once. `RotationPipeline` has the batch as
one step and the lock, cancellation and second worker around it; here nothing
else competes for the job, and values have fields and AAD. `IsEmpty`, `Whole` and
the other operators of `EncryptedStore` are the abstract side; the mapping
`Stored` forgets the AAD and keeps whether the value opens with it.

### WorkerLifecycle and WorkerProcess: state and actions

`configured`, `isRunning`, `worker` and `connection` are the singleton's fields;
`made[k]` the `k`-th Worker and its connection, which live on when the singleton
has lost sight of them; `calls[c]` the await the `c`-th call is suspended at;
`taken` the Worker whose processor runs. A Worker takes jobs from its construction
on, not from the end of `start`.

| Code | Actions |
|---|---|
| `configure` | `Configure` |
| `start` | `StartCall`, `Started`, `StartFails` |
| `stop` | `StopCall`, `Closed`, `Quit` |
| BullMQ's Worker (external) | `Take`, `Finish` |

`WorkerProcess` joins `Take` with `Start` of the rotation and `Finish` with the
steps that end an attempt, so that `close()` waits for the very loop of
`RecordMigration`.

### KekProvider: state and actions

`env[p]` is what process `p` was started with; `row[d]` the status of DEK
version `d` and the KEK that wrapped it; `cache[p]` the version `p` has cached.
`Keyring(e)` is the map its provider's constructor builds (`EnvKeyring`,
`KmsKeyring`; a KMS provider is one with its `kmsClient` handed in, for without
one it wraps and unwraps nothing), `UnwrapKek` the KEK `getDek` asks
for. `Encrypt`, `Bootstrap`, `Generate` and `Activate` are whole calls, since
their interleavings are in `KeyService`; `Deploy` restarts one process with any
environment of the instance, so deployments roll and roll back.

A definition whose name begins with `Slip` is a plausible mistake in the
definition that follows it. Nothing uses it; the project's mutation runs put it
in that definition's place and expect the property named in `PROJECT.json` to
fail.

## What the runs check

| Run | Instance | Shows |
|---|---|---|
| `keys_shared` | 1 service, 2 calls, 2 versions, 3 keys, all faults, fair | `TypeOK`, `EnvelopesDecryptable`, `OnlyActivatedKeysEncrypt`, `ActiveNeverLost`, `RowsAreKept`, `Implements`, `CallsReturn` hold |
| `keys_two_active` | 2 services, 1 call each | `SingleActive` fails (finding) |
| `keys_stale_cache` | 1 service, 2 calls | `CacheHoldsTheActiveDek` fails (finding) |
| `rotation_one` | 1 rotation, 2 workers, 3 records and 1 inserted, in batches of 2, record 2 unreadable, record 1 rewritten by the application, up to 2 faults of any kind | `TypeOK`, `CountersMatchCheckpoint`, `CheckpointCoversMigration`, `ActivatedMeansMigrated`, `OneLateBatch`, `LockedWhileAtWork` hold |
| `rotation_dead_job` | 2 rotations of one target, 2 workers, no faults | `DeadJobsHaveTerminalRows` fails (finding) |
| `rotation_cancelled` | 1 rotation, 1 worker, 1 record | `CancelledIsFinal` fails (finding) |
| `rotation_lost_update` | 1 rotation, 1 worker, 1 record, the application writing | `NoLostUpdate` fails (finding) |
| `rotation_socket` | 1 rotation, 1 worker, 2 records and 1 inserted, in batches of 2, 2 faults (statements, keys, crashes), 1 subscriber, fair | `SocketTypeOK`, `HundredMeansMigrated`, `TheEndIsLast`, `ProgressNeverGoesBack`, `SubscribersHearTheEnd`, `RotationsSettle` hold |
| `record_migration` | 1 rotation of each kind of target, 3 rows, 2 fields, batches of 2, 2 faults | `TypeOK`, `ReadersReadBack`, `NoFailuresMeansMigrated`, `Implements` hold |
| `worker_process` | 4 calls of `start` and `stop`, 1 rotation of 1 row, 1 fault, fair | `LifeTypeOK`, `IsRunningTellsTheTruth`, `EveryCallReturns` hold |
| `kek_deploys` | 2 processes, 2 DEK versions, 6 environments of both providers | `TypeOK`, `SameKekReads`, `BootstrapsOnce` hold |
| `kek_raised` | 2 processes, a KEK replaced with the old one as legacy key | `SuppliedKeksOpenTheirRows` fails (finding) |

**Bounds.** Two calls are what a race needs; three concurrent activations add
waiting but no new order of two updates. Two versions let a version be minted and
activated while a call still holds the one before it; three keys are one per
version and one in the hands of a second `generateDek`. An insert above
`MaxVersion` is refused like a duplicate, so no call can wait at the bound. Two
services are in a violation run; the theorems cover any number of services,
versions and keys. Three
records in batches of two give a full batch, a short one and an empty one; an
unreadable record in the first batch makes the counters differ from the number
of records; a fourth record, inserted at any moment, makes the total differ from
it too. Two faults allow two attempts to be cut off at different points, or one
after a stall or with its session lost; a cancellation, the application and a
second worker come on top. The theorems allow any number of faults. The one symmetry (worker processes, in `rotation_one`) is used
with no liveness property. The two record properties say nothing about a record
the application has rewritten (`AppWrites`): written behind the checkpoint under
the still ACTIVE old version it stays there by design, where the RETIRED row keeps
it readable. The other records of the same rotation are not exempt.
A later rotation of the same target moves the records on to a newer version, which
is why "unmigrated" means a version below the rotation's. An older one that is
gone on with takes them back, and no line of the code says which of the two must
win: the three properties about migrated records promise nothing of a rotation
that has been `overtaken` in this way. With one rotation per target none ever is.

`rotation_socket` leaves out false stalls: BullMQ then runs a job twice at once,
and the first run reports after the second has ended, so `TheEndIsLast` does not
hold with them. Without them a job has one run at a time, so one worker, whose
successor after a crash is itself, stands for any number; `rotation_one` has the
two. Two records and one inserted are a batch and a second one, with a total of
2 or 3 according to when they are counted. Two faults cut two attempts off in
different batches, which is what a progress that goes back needs, or make a record
fail for 100 percent to be said before it is migrated.

`record_migration` begins with every mixture of empty, old and current values in
two rows of two fields, and lets a third row come at any time. Two rows in a batch
are what an aborted transaction needs: one updated, and the next refused. Two
faults refuse a statement in one attempt and cut off another. Two fields show a
row that has one field that opens and one that does not.

`worker_process` needs four calls for a worker that is started, stopped by two
calls at once and started again, or started, stopped, started and stopped. One row
is enough for a `stop` in the middle of an attempt, and one fault for a second
attempt that another Worker takes. The six environments of `kek_deploys` are
one KEK, the same relabelled, a new one with the old as legacy key, a vendor's
key, the same relabelled with both ids, and with the new id forgotten. Two DEK
versions are enough: a second bootstrap and a version minted beside the ACTIVE
one both need only the second.

**Fairness.** `KeyService!FairSpec` has strong fairness of `Continue(c)`: a
promise in flight is settled, and PostgreSQL's lock queue is first come, first
served, so a waiting UPDATE is not passed over for ever by transactions that
come later. Starting a call is never fair. `RotationPipeline!FairSpec` has weak
fairness of a worker's steps and of the continuation of calls and jobs: worker
processes and Redis are up. `SocketFairSpec` adds that the listener keeps reading. `ProcessFairSpec` has weak
fairness of the processor of a Worker that has a job, of the end of its attempt,
and of each call that is suspended: promises in one event loop are settled.
It is not assumed that a Worker takes a job.
Nobody has to ask for a rotation or a cancellation,
and no fault has to occur. `Quiet` lets a finished system stutter, so TLC's
deadlock check stays on everywhere.

**What liveness leaves out.** `RotationsSettle` exempts one way to end: BullMQ's
`maxStalledCount` is left at 1, so the second stall of a job fails it with no
worker to write the row, which stays RUNNING, although `rotation.progress.js`
line 31 speaks of a crashed worker that resumes. `Settled` then asks only that the
job be over and no worker at it. It is checked with two faults: with three
failures, one in each attempt and before its try block, the catch block that
writes the row is never reached and the row stays QUEUED. False stalls are not
among the faults of that run, and neither are lost sessions: a lock left in the
pool refuses attempts as another rotation's does in `rotation_dead_job`, and they
are used up in the same way. `SubscribersHearTheEnd` exempts a rotation whose
cancellation has removed the job and then thrown.

## Where the code and its words disagree

1. Two activations at once leave two ACTIVE versions (`key.service.js` 153):
   `keys_two_active`.
2. An `encrypt()` in flight puts the retired key back into the cache that
   `activateDek` has just cleared (`key.service.js` 83): `keys_stale_cache`. The
   caches of other processes are not cleared at all. Both keep old envelopes
   readable (that is proved); what is lost is that new ones use the new key.
3. A rotation behind another one of the same target burns its attempts on the
   lock and is left QUEUED with a dead job (worker, 106): `rotation_dead_job`.
4. A cancellation can be overwritten by COMPLETED or FAILED (worker, 169 and
   179): `rotation_cancelled`. FAILED over CANCELLED goes further: the attempt
   that follows it no longer finds the row cancelled, migrates whatever is left
   and activates the version. `OneLateBatch` is therefore about cancellations
   that nobody has overwritten.
5. A record the application writes while its batch is in flight goes back to its
   earlier value (worker, 137 and 220): `rotation_lost_update`.
6. A KEK that is supplied as a legacy key opens nothing (`key.service.js` 104):
   `kek_raised`. The version in the configuration, not the row's, goes to
   `unwrapKey`.

Seen on the way, with no run of its own:

- `seedRecords` encrypts with no AAD and the worker decrypts with
  `Model:field:primaryKey`, so no seeded row ever migrates, although the worker
  test controller (128) and `scripts/testEncryptionPipeline.js` (331) say it does.
  `test.js` line 813 knows. In `record_migration` it is the target `seeded`, whose
  values stay readable for whoever seeded them, and are counted as failed.
- A second `start` before the first has returned, or a `start` while a `stop` waits,
  overwrites the references to the first Worker: nobody closes it any more, or
  `stop` quits the connection of the new one. `IsRunningTellsTheTruth` is
  therefore about calls made in turn.
- When the last `findByPk` of `cancelRotation` (`rotation.service.js` 129) rejects
  after the job has been removed, the controller answers 400 and sends no notice,
  and the removed job has no event: whoever is in the room waits for ever.
- `total_records` is counted once, before the row is created. Records inserted
  later count as processed, so 100 percent is said while as many records as have
  been inserted may have failed or be ahead of the worker.
- An unlock that is rejected leaves the advisory lock in a session of the pool,
  and a lost session leaves its run without one; then a second worker may be at
  work on the same target, and a cancellation may see two batches committed.
- A refused UPDATE is caught and counted as one failed record; the rest of the
  batch is refused too and the checkpoint with it, so the attempt ends and the
  batch is done again. Nothing is lost by it but the attempt.

Also: `rotation.socket.js` line 36 connects to
`config.redis.url`, which `getEncryptionConfig` does not set, so the listener
uses the client's default address; a cancelled job that returns is announced as
`rotation:completed`; `RotationService.io` is never set; and migration 000003
creates the table that 000001 has created.

## What is proved

Every invariant and action property of a passing run is a theorem. The inductive
invariants were first checked by TLC as invariants of small instances, and on
larger ones: five calls of `start` and `stop`, and, by simulation, two rotations of
one target with every kind of fault.

**`KeyServiceProofs`**, for every number of services, calls, keys and
versions and every set of faults, from the named assumptions of `KeyService`
(each call belongs to a service, `NoKey` is no key, `MaxVersion` is positive,
`Faults` are kinds of faults):

- `TypeCorrect`: `Spec => []TypeOK`
- `EnvelopesStayDecryptable`: `Spec => []EnvelopesDecryptable`
- `PendingKeysUnused`: `Spec => []OnlyActivatedKeysEncrypt`
- `AnActiveVersionStays`: `Spec => []ActiveNeverLost`
- `RowsStayKept`: `Spec => RowsAreKept`
- `ServiceImplementsTable`: `Spec => Implements`, the refinement of `DekTable`

None of these properties is inductive. What the code relies on without writing
it down is that every pair of version and key outside the table agrees with the
table: `Inv` says so of the issued envelopes, of every cache, and of every frame
according to the await it is suspended at (`FramesOK`). It adds what a frame on
its way to encrypting knows (its version has been active), what a transaction
holds (`held` and the target of the commit are existing rows, and every other
row it has written was ACTIVE), and `ActiveNeverLost` itself: a commit that
retires the last ACTIVE version activates its own in the same step.

The argument: the table changes in `Create`, `CreateAckLost`, `Commit` and
`CommitAckLost` only. `MintStep` and `CommitStep` show that those changes keep
every usable pair usable and every ever-active version so; `FrameStable` lifts
this to the frames of the other calls; each action then owes only its own frame.
`TableSteps` reads `RowsAreKept` off the same two kinds of step. The refinement
needs one fact more, `KeysNew`: the keys that calls carry to their inserts are in
no row and differ from each other, so an insert mints a key that `DekTable`
counts as new.

**`RotationPipelineProofs`**, for every number of rotations, targets, workers and
records, every batch size and set of faults, from the assumptions of `JobQueue`
and `RotationPipeline` (a token of nobody, at least one attempt, batches of at
least one record, finitely many rotations, at least one):

- `TypeCorrect`: `Spec => []TypeOK`
- `Exclusion`: `Spec => []LockedWhileAtWork`, whose two exceptions, a lost session
  and a lock in the pool, are faults and not states of the run: a run that has
  its session has the lock
- `CountersAccount`: `Spec => []CountersMatchCheckpoint`
- `ResumeLeavesNoneOut`: `Spec => []CheckpointCoversMigration`
- `ActivationIsSafe`: `Spec => []ActivatedMeansMigrated`
- `CancelStopsSoon`: `Spec => []OneLateBatch`, except for a rotation whose
  cancellation has been overwritten or of which a run has lost its lock

A frame of `_processJob` works from a checkpoint it read before it had the lock
and from a page it read before its transaction, so `Inv` says of both what the
properties say of the tables: `CountsOK` that the counters of every frame add up,
that its batch is the page after them, and that a frame which has found no more
records has passed all that were counted; `Covers` that what lies behind a
checkpoint, in the row or in a frame, is migrated or given up, and that a fetched
record that needs no work still needs none when the batch commits. A batch
changes records only to its own version, so it is a step forward for every
rotation of the target but newer ones, which it overtakes (`CommitSteady`); a
cached DEK that the application still writes under makes a record "rewritten",
which no property counts. Versions are minted once (`Minted`), so activating one
owes its rotation alone. That nobody is at work on a rotation before its row
exists (`Created`) keeps late frames of an earlier life out. A record inserted
meanwhile is in front of every checkpoint and changes none of this
(`TargetSteady`); that is why `ActivationIsSafe` speaks of the records that were
counted. `Sessions` is the lock's side: a run past the lock has it or has lost it,
a lock that is not in the pool is that of such a run, and a run without one makes
its rotation `unguarded`. `LateOK` follows a cancellation past the one batch in
flight: until it is overwritten every attempt meets it, and while the runs have
their lock no second worker can be at a batch of the same rotation, and `Check`
comes before the next one.

**`RotationSocketProofs`**, from the same assumptions:

- `SocketTypeCorrect`: `SocketSpec => []SocketTypeOK`
- `HundredIsReliable`: `SocketSpec => []HundredMeansMigrated`
- `EndsSayNoMore`: `SocketSpec => []TheEndIsLast`, where `"stall" \notin Faults`
- `ProgressGrows`: `SocketSpec => ProgressNeverGoesBack`, where
  `"stall" \notin Faults`

The pipeline goes its own way whatever is heard (`PipelineUnaffected`), so its
`Inv` holds here. `SocketSteps` says once what a step does to the stream: an event
at its end, one event less at its head, or nothing. `Hundred` puts the claim on
every event on its way: counters with at least `total` records done leave behind,
by `Covers`, no more than have failed, and ahead no more than there are after the
checkpoint; together that is no more than there are beyond the total (`AllDone`).
The total stands from the moment a worker can be at the rotation, and an insertion
adds as much to one side as to the other (`CertainStays`). The other two hold only while BullMQ takes no living worker for a
dead one, and the hypothesis says so: TLC finds both violated with false stalls.
Without them `AloneInv` is inductive: whoever is at a rotation holds the token of
its job, is the only one there, and has the counters of its row. Then a report
says what the table says and the numbers heard, on their way and in the table are
in order (`Forward`); and once a job is over nobody is left to report and nothing
revives it (`LastWords`).

**`RecordMigrationProofs`**, for every set of fields, every number of rows,
every batch size and every number of faults, from `BoundsAssumption` alone (the
bounds are natural numbers, a batch has at least one row, and the rows there are
at first are within the bound):

- `TypeCorrect`: `Spec => []TypeOK`
- `WritersReadBack`: `Spec => []ReadersReadBack`
- `MigrationImplements`: `Spec => Implements`, the refinement of `EncryptedStore`
- `NoFailuresMigrate`: `Spec => []NoFailuresMeansMigrated`

The loop computes from a batch it read earlier and writes to a table the
application has gone on using, so its invariant relates the two. `Honest` says
that a value is what its writer made of the cell it stands in; `BatchKept` that
the rows of the batch are still there, and how each field may have changed since
it was read (`Since`: filled in when it was empty, or moved to the new version);
`TxMigrates` that the transaction has updated only rows of the batch that
migrate. From these, what the commit writes is the re-encryption of what is in
the table (`CommitRows`), and the same for a record in memory (`MemoryRows`). For
the refinement every action then writes nothing, adds a row, fills a field, or
moves whole rows (`RewrapRefines`).

`NoFailuresMigrate` needs more than that: where each value stands that was there
when the rotation was created. `Progress` splits these into those behind the
checkpoint, which are moved if the row counts no failure; those the loop has
passed since, which are moved or will be by the commit; and those ahead. What
makes an empty `findAll` the end is the pagination by key: a non-empty set of
keys has a least one (`LeastKey`), so an empty page has nothing behind it
(`NoneNext`), and a page leaves no gap before its last row (`NextIdsClosed`).

**`WorkerProcessProofs`**, for every number of calls and every rotation of
`RecordMigration`, from `BoundsAssumption` and `MaxCallsAssumption`:

- `SingletonTypeCorrect`: `ProcessSpec => []LifeTypeOK`
- `StopsGracefully`: `ProcessSpec => []IsRunningTellsTheTruth`

`ProcessMigrates` (`ProcessSpec => Spec`) says that a process does nothing to the
rows that `RecordMigration` does not, so everything proved there holds in a
process that is started and stopped at any time. `LifeInv` says what a call in
flight knows of the latest pair of Worker and connection, and that every earlier
pair is closed and quit, as long as calls are made in turn (`InOrder`). What needs
no such condition is that a Worker is never closed over its job (`JobHeld`), and
that there is an attempt at the rotation exactly when a processor runs
(`OneAttempt`).

**`KekProviderProofs`**, for every number of processes, KEKs, environments and
versions, from the assumptions of `KekProvider`:

- `TypeCorrect`: `Spec => []TypeOK`
- `SameKekIsEnough`: `Spec => []SameKekReads`
- `OneBootstrap`: `Spec => []BootstrapsOnce`

A row was wrapped with the active KEK of some deployment there has been, and
every envelope and cache entry has its row (`Inv`): if all those deployments had
the same active KEK it opens every row, whatever it was called. Nothing removes
the ACTIVE row, and a row that does not open makes the call throw, so there is no
second bootstrap.

Only model-checked: liveness (`CallsReturn`, `RotationsSettle`,
`SubscribersHearTheEnd`, `EveryCallReturns`), which is out of the prover's reach,
as is `ENABLED`; and the six properties that the code violates.

## Not modelled, and why

- What is inside an envelope: IVs, tags, base64, the length checks of `crypto/`. A
  ciphertext opens under its own key with its own AAD and no other way.
- `rotation:unsubscribe`, a restart of the listener: whoever is not in the room,
  or whose listener is down, hears nothing, and nothing promises otherwise.
- The other controllers and routes (the BullMQ echo and the Redis ping among
  them), configuration parsing, the checks of `registerTarget`, tests and scripts:
  stateless, run once, or not part of the system. Controllers are callers, and
  the models let a call come at any time.
- Records that are deleted: `total` and the pages would be of fewer records.
- Rows that commit out of the order of their ids: one inserted behind the
  checkpoint by a transaction that began before it is passed over by `id > lastId`.
  The models insert in order, and a new row is written under the version that is
  ACTIVE, which stays readable.
- Which of two rotations of one target must win: one that failed late and is
  retried after a newer one has completed takes records back to the older version
  and activates it again. The model does that too; no property judges it
  (`overtaken`).

## Plan

Done, in this order: `DekTable`, `KeyService`, its theorems, `JobQueue`,
`RotationPipeline`, `RotationSocket`, `KekProvider`, `EncryptedStore`,
`RecordMigration`, `WorkerLifecycle`, `WorkerProcess`, the theorems of
`RecordMigration`, the refinement of `DekTable`, the theorems of
`RotationPipeline`, `KekProvider`, `WorkerProcess` and `RotationSocket`.

Next, in order of what they can show:

1. Under which conditions the violated properties hold, as theorems:
   `SingleActive` while activations do not overlap, `NoLostUpdate` without writes
   by the application, `CancelledIsFinal` for a cancellation the worker has seen.
2. Several rotations: which version is ACTIVE after rotations of one target fail
   and are retried out of order.
