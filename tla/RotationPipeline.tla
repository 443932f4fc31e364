-------------------------- MODULE RotationPipeline --------------------------
(***************************************************************************)
(* A DEK rotation from end to end: RotationService.createRotation and      *)
(* cancelRotation (rotation.service.js), the BullMQ queue (JobQueue), and  *)
(* EncryptionRotationWorker._processJob (encryption.rotation.worker.js),   *)
(* over the tables of PostgreSQL they share: the rotations, the status of  *)
(* each DEK version, the records of the targets, and the advisory locks.   *)
(*                                                                         *)
(* Each action is one await of the code: one statement, one transaction,   *)
(* or one call of the queue, with the JavaScript that follows it.  The     *)
(* keys themselves are left to KeyService: here a record is the version    *)
(* that encrypts it and the plaintext inside, and activateDek is atomic.   *)
(***************************************************************************)
EXTENDS JobQueue, FiniteSets

CONSTANTS
  Targets,      \* registered targets: one encrypted model each
  TargetOf,     \* the target of each rotation
  NumRecords,   \* records per target at first, with primary keys 1..NumRecords
  MaxRecords,   \* bound: records per target at last
  BatchSize,    \* config.rotation.batchSize
  Unreadable,   \* ids of records that no key decrypts, in every target
  AppWrites,    \* ids of records the application rewrites meanwhile
  Faults,       \* the faults a behaviour may contain, a subset of FaultKinds:
                \* "failure" an await that rejects, "key" a key that cannot be
                \* had just now, "session" a database session that is lost or
                \* left with its lock, "crash", "stall" a token that runs out
  MaxFaults     \* bound: so many of them in one behaviour

FaultKinds == {"failure", "key", "session", "crash", "stall"}

ASSUME TargetOfAssumption == TargetOf \in [Rotations -> Targets]
ASSUME SizesAssumption == /\ MaxRecords \in Nat
                          /\ NumRecords \in 0..MaxRecords
                          /\ BatchSize \in Nat \ {0}
                          /\ MaxFaults \in Nat
ASSUME RotationsAssumption == IsFiniteSet(Rotations) /\ Rotations # {}
ASSUME RecordsAssumption == /\ Unreadable \subseteq 1..NumRecords
                            /\ AppWrites \subseteq 1..MaxRecords
ASSUME FaultsAssumption == Faults \subseteq FaultKinds

Ids == 1..MaxRecords
\* Version 1 is ACTIVE to begin with; every rotation mints one more.
Versions == 1..Cardinality(Rotations) + 1

VARIABLES
  dek,       \* dek[v]: status of DEK version v
  st,        \* st[r]: status of row r of encryption_rotations
  to,        \* to[r]: its to_version; 0: none minted yet
  total,     \* total[r]: its total_records, counted by createRotation
  ckpt,      \* ckpt[r]: its processed_records, failed_records and
             \* last_processed_id
  creating,  \* creating[r]: where createRotation of r is suspended
  cancel,    \* cancel[r]: where cancelRotation of r is suspended
  records,   \* records[t][i]: record i of target t
  size,      \* size[t]: the records of t there are so far, 1..size[t]
  lock,      \* lock[t]: the worker whose session has the advisory lock of t
  leaked,    \* targets whose lock is with a session back in the pool
  lost,      \* workers whose run has lost its lock with its session
  run,       \* run[w]: the frame of _processJob in worker w
  faults,    \* bound: the faults still to come
  late,      \* history: batches of r committed after r was CANCELLED
  missed,    \* history: records of r that the worker has given up
  overtaken, \* history: rotations beside which an older one of the same
             \* target has committed a batch
  overwritten,  \* history: cancelled rotations whose row says otherwise since
  unguarded     \* history: rotations of which a run has lost its lock

rows == <<st, to, total, ckpt>>
callers == <<creating, cancel>>
data == <<records, size>>
locks == <<lock, leaked, lost>>
history == <<late, missed, overtaken, overwritten, unguarded>>
vars == <<job, dek, rows, callers, data, locks, run, faults, history>>

DekStatuses == {"ABSENT", "PENDING", "ACTIVE", "RETIRED"}
RowStatuses == {"NONE", "QUEUED", "RUNNING", "COMPLETED", "FAILED", "CANCELLED"}
Checkpoints == [done : 0..MaxRecords, failed : 0..MaxRecords,
                last : 0..MaxRecords]
NoCheckpoint == [done |-> 0, failed |-> 0, last |-> 0]

\* What is inside a record: nothing a key can open, the plaintext it was
\* inserted with, or one the application has written since.
Plaintexts == {"unreadable", "original", "rewritten"}
Records == [ver : Versions, plain : Plaintexts]
BatchRecords == [id : Ids, ver : Versions, plain : Plaintexts]

(* Where _processJob is suspended:                                         *)
(*   load      findByPk of the rotation                                    *)
(*   lock      pg_try_advisory_lock                                        *)
(*   mark      the update to RUNNING                                       *)
(*   check     the fresh look at the row, before each batch                *)
(*   fetch     findAll of the next batch                                   *)
(*   migrate   the transaction of the batch and its checkpoint             *)
(*   complete  the update to COMPLETED                                     *)
(*   activate  activateDek(to_version)                                     *)
(*   report    the last progress report                                    *)
(*   fail      the update to FAILED, in the catch block                    *)
(*   release   the finally block                                           *)
(*   settle    the job's result, on its way to the queue                   *)
TryPCs == {"mark", "check", "fetch", "migrate", "complete", "activate", "report"}
LockedPCs == TryPCs \cup {"fail", "release"}
PCs == LockedPCs \cup {"idle", "load", "lock", "settle"}

Frames == [pc    : PCs,
           r     : Rotations,
           seen  : RowStatuses,          \* rotation.status, read before the lock
           at    : Checkpoints,          \* processed, failed and lastId
           batch : SUBSET BatchRecords,
           ok    : BOOLEAN]              \* _processJob returns, or throws

Idle == [pc |-> "idle", r |-> CHOOSE r \in Rotations : TRUE, seen |-> "NONE",
         at |-> NoCheckpoint, batch |-> {}, ok |-> TRUE]

CreatePCs == {"idle", "count", "create", "enqueue", "over"}
CancelPCs == {"idle", "update", "getJob", "remove", "reread"}

TypeOK ==
  /\ QueueTypeOK
  /\ dek \in [Versions -> DekStatuses]
  /\ st \in [Rotations -> RowStatuses]
  /\ to \in [Rotations -> Versions \cup {0}]
  /\ total \in [Rotations -> 0..MaxRecords]
  /\ ckpt \in [Rotations -> Checkpoints]
  /\ creating \in [Rotations -> CreatePCs]
  /\ cancel \in [Rotations -> CancelPCs]
  /\ records \in [Targets -> [Ids -> Records]]
  /\ size \in [Targets -> 0..MaxRecords]
  /\ lock \in [Targets -> Workers \cup {NoWorker}]
  /\ leaked \in SUBSET Targets
  /\ lost \in SUBSET Workers
  /\ run \in [Workers -> Frames]
  /\ faults \in 0..MaxFaults
  /\ late \in [Rotations -> Nat]
  /\ missed \in [Rotations -> SUBSET Ids]
  /\ overtaken \in SUBSET Rotations
  /\ overwritten \in SUBSET Rotations
  /\ unguarded \in SUBSET Rotations

Init ==
  /\ QueueInit
  /\ dek = [v \in Versions |-> IF v = 1 THEN "ACTIVE" ELSE "ABSENT"]
  /\ st = [r \in Rotations |-> "NONE"]
  /\ to = [r \in Rotations |-> 0]
  /\ total = [r \in Rotations |-> 0]
  /\ ckpt = [r \in Rotations |-> NoCheckpoint]
  /\ creating = [r \in Rotations |-> "idle"]
  /\ cancel = [r \in Rotations |-> "idle"]
  /\ records = [t \in Targets |-> [i \in Ids |->
        [ver |-> 1,
         plain |-> IF i \in Unreadable THEN "unreadable" ELSE "original"]]]
  /\ size = [t \in Targets |-> NumRecords]
  /\ lock = [t \in Targets |-> NoWorker]
  /\ leaked = {}
  /\ lost = {}
  /\ run = [w \in Workers |-> Idle]
  /\ faults = MaxFaults
  /\ late = [r \in Rotations |-> 0]
  /\ missed = [r \in Rotations |-> {}]
  /\ overtaken = {}
  /\ overwritten = {}
  /\ unguarded = {}

\* One fault of this kind happens.
Fault(kind) ==
  /\ kind \in Faults
  /\ faults > 0
  /\ faults' = faults - 1

-----------------------------------------------------------------------------
(* createRotation.  A Slip* definition is the one after it as a plausible  *)
(* mistake would have it; the properties are seen to fail with it, and     *)
(* nothing else refers to it.                                              *)

\* generateDek: the next version, PENDING.
Mint(r) ==
  /\ creating[r] = "idle"
  /\ \E v \in Versions :
       /\ dek[v] = "ABSENT"
       /\ \A u \in Versions : u < v => dek[u] # "ABSENT"
       /\ dek' = [dek EXCEPT ![v] = "PENDING"]
       /\ to' = [to EXCEPT ![r] = v]
  /\ creating' = [creating EXCEPT ![r] = "count"]
  /\ UNCHANGED <<job, st, total, ckpt, cancel, data, locks, run, faults, history>>

\* model.count(): the records there are now.
CountRows(r) ==
  /\ creating[r] = "count"
  /\ total' = [total EXCEPT ![r] = size[TargetOf[r]]]
  /\ creating' = [creating EXCEPT ![r] = "create"]
  /\ UNCHANGED <<job, dek, st, to, ckpt, cancel, data, locks, run, faults, history>>

CreateRow(r) ==
  /\ creating[r] = "create"
  /\ st' = [st EXCEPT ![r] = "QUEUED"]
  /\ creating' = [creating EXCEPT ![r] = "enqueue"]
  /\ UNCHANGED <<job, dek, to, total, ckpt, cancel, data, locks, run, faults, history>>

SlipAttempts == 1     \* the option left out: BullMQ's default
AttemptsOption == Attempts

Enqueue(r) ==
  /\ creating[r] = "enqueue"
  /\ Add(r, AttemptsOption)
  /\ creating' = [creating EXCEPT ![r] = "over"]
  /\ UNCHANGED <<dek, rows, cancel, data, locks, run, faults, history>>

\* A statement or the queue fails, or the process dies: the PENDING version,
\* or the QUEUED row, is left behind, and nothing takes it up again.
CreateDies(r) ==
  /\ Fault("failure")
  /\ creating[r] \in {"count", "create", "enqueue"}
  /\ creating' = [creating EXCEPT ![r] = "over"]
  /\ UNCHANGED <<job, dek, rows, cancel, data, locks, run, history>>

-----------------------------------------------------------------------------
(* cancelRotation.                                                         *)

Terminal == {"COMPLETED", "FAILED", "CANCELLED"}
Cancellable == {"QUEUED", "RUNNING"}

CancelRead(r) ==
  /\ cancel[r] = "idle"
  /\ st[r] \notin Terminal \cup {"NONE"}
  /\ cancel' = [cancel EXCEPT ![r] = "update"]
  /\ UNCHANGED <<job, dek, rows, creating, data, locks, run, faults, history>>

\* The guarded UPDATE; the call goes on even when it matched no row.
CancelUpdate(r) ==
  /\ cancel[r] = "update"
  /\ st' = IF st[r] \in Cancellable THEN [st EXCEPT ![r] = "CANCELLED"] ELSE st
  /\ cancel' = [cancel EXCEPT ![r] = "getJob"]
  /\ UNCHANGED <<job, dek, to, total, ckpt, creating, data, locks, run, faults, history>>

CancelGetJob(r) ==
  /\ cancel[r] = "getJob"
  /\ cancel' = [cancel EXCEPT ![r] = IF job[r].state \in {"waiting", "delayed"}
                                       THEN "remove" ELSE "reread"]
  /\ UNCHANGED <<job, dek, rows, creating, data, locks, run, faults, history>>

\* job.remove(), some time after the look at its state.
CancelRemove(r) ==
  /\ cancel[r] = "remove"
  /\ Remove(r)
  /\ cancel' = [cancel EXCEPT ![r] = "reread"]
  /\ UNCHANGED <<dek, rows, creating, data, locks, run, faults, history>>

\* The last findByPk, and the return to the controller.
CancelReread(r) ==
  /\ cancel[r] = "reread"
  /\ cancel' = [cancel EXCEPT ![r] = "idle"]
  /\ UNCHANGED <<job, dek, rows, creating, data, locks, run, faults, history>>

\* Something fails: the errors of the queue are swallowed, with the job left
\* alone; those of the UPDATE and of the last findByPk are thrown, and a
\* process that dies returns from nowhere.
CancelFails(r) ==
  /\ Fault("failure")
  /\ cancel[r] # "idle"
  /\ \/ cancel' = [cancel EXCEPT ![r] = "idle"]
     \/ /\ cancel[r] \in {"getJob", "remove"}
        /\ cancel' = [cancel EXCEPT ![r] = "reread"]
  /\ UNCHANGED <<job, dek, rows, creating, data, locks, run, history>>

-----------------------------------------------------------------------------
(* _processJob.                                                            *)

\* Worker w goes on with its frame as given.
Go(w, pc, seen, at, batch, ok) ==
  run' = [run EXCEPT ![w] = [pc |-> pc, r |-> run[w].r, seen |-> seen,
                             at |-> at, batch |-> batch, ok |-> ok]]
\* ... with nothing changed but the pc.
GoTo(w, pc) ==
  Go(w, pc, run[w].seen, run[w].at, run[w].batch, run[w].ok)
\* ... leaving the try block, or the function, with a result.
Leave(w, pc, ok) == Go(w, pc, "NONE", NoCheckpoint, {}, ok)

TakeJob(w) ==
  /\ run[w].pc = "idle"
  /\ \E r \in Rotations :
       /\ Take(r, w)
       /\ run' = [run EXCEPT ![w] = [Idle EXCEPT !.pc = "load", !.r = r]]
  /\ UNCHANGED <<dek, rows, callers, data, locks, faults, history>>

\* What a run starts from: the whole row as it is before the lock is taken.
SlipResume(c) == [done |-> c.done, failed |-> c.failed, last |-> 0]
SlipFromStart(c) == NoCheckpoint
Resume(c) == c

Load(w) ==
  LET r == run[w].r IN
  /\ run[w].pc = "load"
  /\ IF st[r] = "CANCELLED" THEN Leave(w, "settle", TRUE)
     ELSE Go(w, "lock", st[r], Resume(ckpt[r]), {}, TRUE)
  /\ UNCHANGED <<job, dek, rows, callers, data, locks, faults, history>>

\* pg_try_advisory_lock: a session that has the lock already gets it again.
Free(t, w) == lock[t] \in {NoWorker, w}

GetLock(w) ==
  LET t == TargetOf[run[w].r] IN
  /\ run[w].pc = "lock"
  /\ Free(t, w)
  /\ lock' = [lock EXCEPT ![t] = w]
  /\ GoTo(w, "mark")
  /\ UNCHANGED <<job, dek, rows, callers, data, leaked, lost, faults, history>>

\* "... is locked by another rotation": thrown before the try block, so the
\* row is not marked FAILED.  It may be the worker's own session that has it,
\* left in the pool, when the pool has handed out another one.
Locked(w) ==
  /\ run[w].pc = "lock"
  /\ lock[TargetOf[run[w].r]] # NoWorker
  /\ Leave(w, "settle", FALSE)
  /\ UNCHANGED <<job, dek, rows, callers, data, locks, faults, history>>

Mark(w) ==
  LET r == run[w].r IN
  /\ run[w].pc = "mark"
  /\ st' = IF run[w].seen = "QUEUED" /\ st[r] = "QUEUED"
             THEN [st EXCEPT ![r] = "RUNNING"] ELSE st
  /\ GoTo(w, "check")
  /\ UNCHANGED <<job, dek, to, total, ckpt, callers, data, locks, faults, history>>

\* reportProgress: job.updateProgress rejects once the job has been removed.
Reports(r) == job[r].state # "none"
LeaveWithReport(w) ==
  IF Reports(run[w].r) THEN Leave(w, "release", TRUE) ELSE Leave(w, "fail", FALSE)

\* Cancelled: report, and return through the finally block.
Check(w) ==
  /\ run[w].pc = "check"
  /\ IF st[run[w].r] = "CANCELLED" THEN LeaveWithReport(w) ELSE GoTo(w, "fetch")
  /\ UNCHANGED <<job, dek, rows, callers, data, locks, faults, history>>

\* Keyset pagination: the next BatchSize records above lastId.
Page(last) == (last + 1)..(last + BatchSize)

SlipIsLast(batch) == Cardinality(batch) < BatchSize
IsLast(batch) == batch = {}

Fetch(w) ==
  LET t == TargetOf[run[w].r]
      ids == (1..size[t]) \cap Page(run[w].at.last)
      batch == {[id |-> i, ver |-> records[t][i].ver,
                 plain |-> records[t][i].plain] : i \in ids}
  IN
  /\ run[w].pc = "fetch"
  /\ IF IsLast(batch) THEN GoTo(w, "complete")
     ELSE Go(w, "migrate", run[w].seen, run[w].at, batch, TRUE)
  /\ UNCHANGED <<job, dek, rows, callers, data, locks, faults, history>>

\* The records of a batch that are not migrated yet, as they were fetched.
Old(batch, v) == {e \in batch : e.ver # v}

SlipCounted(c, batch, bad) ==   \* records that need no work not counted
  [done |-> c.done + Cardinality({e \in batch : e.ver = 1} \ bad),
   failed |-> c.failed + Cardinality(bad),
   last |-> CHOOSE i \in {e.id : e \in batch} : \A e \in batch : e.id <= i]
SlipFailed(c, batch, bad) ==    \* a failure counted as done
  [done |-> c.done + Cardinality(batch),
   failed |-> c.failed,
   last |-> CHOOSE i \in {e.id : e \in batch} : \A e \in batch : e.id <= i]
\* The counters and lastId after a batch of which `bad` failed.
Counted(c, batch, bad) ==
  [done |-> c.done + Cardinality(batch \ bad),
   failed |-> c.failed + Cardinality(bad),
   last |-> CHOOSE i \in {e.id : e \in batch} : \A e \in batch : e.id <= i]

SlipAfterBatch == "fetch"    \* the look at the status moved out of the loop
AfterBatch == "check"

\* The transaction of one batch commits.  Each record is written back as it
\* was when fetched, re-encrypted; failures are counted and passed over; the
\* checkpoint is written in the same transaction, and the progress is reported
\* after it.  `unlucky` are records whose DEK could not be fetched or unwrapped
\* just now.
MigrateBatch(w, unlucky) ==
  LET r == run[w].r
      t == TargetOf[r]
      todo == Old(run[w].batch, to[r])
      bad == {e \in todo : e.plain = "unreadable"} \cup unlucky
      good == todo \ bad
      at == Counted(run[w].at, run[w].batch, bad)
  IN
  /\ records' = [records EXCEPT ![t] = [i \in Ids |->
        IF \E e \in good : e.id = i
          THEN [ver |-> to[r],
                plain |-> (CHOOSE e \in good : e.id = i).plain]
          ELSE records[t][i]]]
  /\ ckpt' = [ckpt EXCEPT ![r] = at]
  /\ IF Reports(r) THEN Go(w, AfterBatch, run[w].seen, at, {}, TRUE)
                   ELSE Leave(w, "fail", FALSE)
  /\ late' = IF st[r] = "CANCELLED" \/ r \in overwritten
               THEN [late EXCEPT ![r] = @ + 1] ELSE late
  /\ missed' = [missed EXCEPT ![r] = @ \cup {e.id : e \in bad}]
  /\ overtaken' = overtaken \cup {s \in Rotations : TargetOf[s] = t /\ to[s] > to[r]}
  /\ UNCHANGED <<job, dek, st, to, total, callers, size, locks, overwritten,
                 unguarded>>

Migrate(w) ==
  /\ run[w].pc = "migrate"
  /\ MigrateBatch(w, {})
  /\ UNCHANGED faults

\* The same, while the key service or its provider fails for some records.
MigrateUnlucky(w) ==
  /\ run[w].pc = "migrate"
  /\ Fault("key")
  /\ \E e \in Old(run[w].batch, to[run[w].r]) : MigrateBatch(w, {e})

\* A status written with no condition on the one it replaces.
Overwrite(r, status) ==
  /\ st' = [st EXCEPT ![r] = status]
  /\ overwritten' = IF st[r] = "CANCELLED" THEN overwritten \cup {r} ELSE overwritten
  /\ UNCHANGED <<late, missed, overtaken, unguarded>>

Complete(w) ==
  /\ run[w].pc = "complete"
  /\ Overwrite(run[w].r, "COMPLETED")
  /\ GoTo(w, "activate")
  /\ UNCHANGED <<job, dek, to, total, ckpt, callers, data, locks, faults>>

Activate(w) ==
  LET v == to[run[w].r] IN
  /\ run[w].pc = "activate"
  /\ dek' = [u \in Versions |-> IF u = v THEN "ACTIVE"
                                ELSE IF dek[u] = "ACTIVE" THEN "RETIRED"
                                ELSE dek[u]]
  /\ GoTo(w, "report")
  /\ UNCHANGED <<job, rows, callers, data, locks, faults, history>>

Report(w) ==
  /\ run[w].pc = "report"
  /\ LeaveWithReport(w)
  /\ UNCHANGED <<job, dek, rows, callers, data, locks, faults, history>>

\* The catch block.
MarkFailed(w) ==
  /\ run[w].pc = "fail"
  /\ Overwrite(run[w].r, "FAILED")
  /\ Leave(w, "release", FALSE)
  /\ UNCHANGED <<job, dek, to, total, ckpt, callers, data, locks, faults>>

\* pg_advisory_unlock in the session that has the lock of t: a session that has
\* got it twice keeps it.
SlipUnlocked(t) == lock     \* forgotten
Unlocked(t) == IF t \in leaked THEN lock ELSE [lock EXCEPT ![t] = NoWorker]

\* The end of the run's hold on its target; a lost session unlocks nothing.
LetGo(w) ==
  /\ lock' = IF w \in lost THEN lock ELSE Unlocked(TargetOf[run[w].r])
  /\ lost' = lost \ {w}
  /\ UNCHANGED leaked

\* The finally block: in a lost session the unlock throws.
Release(w) ==
  /\ run[w].pc = "release"
  /\ LetGo(w)
  /\ Leave(w, "settle", run[w].ok /\ w \notin lost)
  /\ UNCHANGED <<job, dek, rows, callers, data, faults, history>>

SettleJob(w) ==
  /\ run[w].pc = "settle"
  /\ Settle(run[w].r, w, run[w].ok)
  /\ run' = [run EXCEPT ![w] = Idle]
  /\ UNCHANGED <<dek, rows, callers, data, locks, faults, history>>

-----------------------------------------------------------------------------
(* Faults, the queue's own steps, and the application.                     *)

\* The await worker w is at rejects: in the try block that leads to the catch
\* block, in the catch block to the finally block, and elsewhere out.  A commit
\* or an unlock whose answer is lost looks like the await after it rejecting.
Fail(w) ==
  /\ Fault("failure")
  /\ \/ run[w].pc \in TryPCs /\ Leave(w, "fail", FALSE) /\ UNCHANGED locks
     \/ run[w].pc = "fail" /\ Leave(w, "release", FALSE) /\ UNCHANGED locks
     \/ run[w].pc \in {"load", "lock"} /\ Leave(w, "settle", FALSE) /\ UNCHANGED locks
     \/ run[w].pc = "release" /\ Leave(w, "settle", FALSE) /\ LetGo(w)
  /\ UNCHANGED <<job, dek, rows, callers, data, history>>

\* The query of the lock or of the unlock rejects, and its session, alive and
\* with the lock, goes back to the pool.
LeakLock(w) ==
  LET t == TargetOf[run[w].r] IN
  /\ Fault("session")
  /\ \/ run[w].pc = "lock" /\ Free(t, w)
     \/ run[w].pc = "release" /\ w \notin lost
  /\ lock' = [lock EXCEPT ![t] = w]
  /\ leaked' = leaked \cup {t}
  /\ Leave(w, "settle", FALSE)
  /\ UNCHANGED <<job, dek, rows, callers, data, lost, history>>

\* The session with the lock ends, idle as it is; the run does not notice.
LoseSession(w) ==
  LET t == TargetOf[run[w].r] IN
  /\ Fault("session")
  /\ run[w].pc \in LockedPCs
  /\ w \notin lost
  /\ lock' = [lock EXCEPT ![t] = NoWorker]
  /\ leaked' = leaked \ {t}
  /\ lost' = lost \cup {w}
  /\ unguarded' = unguarded \cup {run[w].r}
  /\ UNCHANGED <<job, dek, rows, callers, data, run, late, missed, overtaken,
                 overwritten>>

WorksOn(w, t) == run[w].pc \in LockedPCs /\ TargetOf[run[w].r] = t

\* The pool closes a session it has no use for, and the lock left in it goes.
PoolDrops(t) ==
  /\ t \in leaked
  /\ ~WorksOn(lock[t], t)
  /\ lock' = [lock EXCEPT ![t] = NoWorker]
  /\ leaked' = leaked \ {t}
  /\ UNCHANGED <<job, dek, rows, callers, data, lost, run, faults, history>>

\* The process of worker w dies: its transaction rolls back, its sessions and
\* their advisory locks end, and nobody renews its token.
Crash(w) ==
  LET r == run[w].r IN
  /\ Fault("crash")
  /\ run[w].pc # "idle"
  /\ run' = [run EXCEPT ![w] = Idle]
  /\ lock' = [t \in Targets |-> IF lock[t] = w THEN NoWorker ELSE lock[t]]
  /\ leaked' = {t \in leaked : lock[t] # w}
  /\ lost' = lost \ {w}
  /\ IF job[r].token = w THEN ExpireToken(r) ELSE UNCHANGED job
  /\ UNCHANGED <<dek, rows, callers, data, history>>

\* The token runs out while the worker is alive, and goes on.
FalseStall(r) ==
  /\ Fault("stall")
  /\ job[r].token # NoWorker
  /\ ExpireToken(r)
  /\ UNCHANGED <<dek, rows, callers, data, locks, run, history>>

Queue(r) ==
  /\ Promote(r) \/ Stalled(r)
  /\ UNCHANGED <<dek, rows, callers, data, locks, run, faults, history>>

\* The application rewrites a record, under the ACTIVE version or under an
\* older one that some process still has in its cache.
AppWrite(t, i) ==
  /\ i \in AppWrites /\ i <= size[t]
  /\ \E v \in Versions :
       /\ dek[v] \in {"ACTIVE", "RETIRED"}
       /\ records' = [records EXCEPT ![t] =
             [@ EXCEPT ![i] = [ver |-> v, plain |-> "rewritten"]]]
  /\ UNCHANGED <<job, dek, rows, callers, size, locks, run, faults, history>>

\* It inserts a record, with the next primary key, under such a version too.
Insert(t) ==
  /\ size[t] < MaxRecords
  /\ size' = [size EXCEPT ![t] = @ + 1]
  /\ \E v \in Versions :
       /\ dek[v] \in {"ACTIVE", "RETIRED"}
       /\ records' = [records EXCEPT ![t] =
             [@ EXCEPT ![size[t] + 1] = [ver |-> v, plain |-> "original"]]]
  /\ UNCHANGED <<job, dek, rows, callers, locks, run, faults, history>>

-----------------------------------------------------------------------------

Work(w) ==
  \/ TakeJob(w) \/ Load(w) \/ GetLock(w) \/ Locked(w) \/ Mark(w)
  \/ Check(w) \/ Fetch(w) \/ Migrate(w)
  \/ Complete(w) \/ Activate(w) \/ Report(w)
  \/ MarkFailed(w) \/ Release(w) \/ SettleJob(w)

Continue(r) ==
  \/ CountRows(r) \/ CreateRow(r) \/ Enqueue(r)
  \/ CancelUpdate(r) \/ CancelGetJob(r) \/ CancelRemove(r) \/ CancelReread(r)
  \/ Queue(r)

\* Every rotation asked for and settled, every call returned: nothing is left
\* to do, and nobody has to ask for more.
Quiet ==
  /\ \A r \in Rotations : /\ creating[r] = "over" /\ cancel[r] = "idle"
                          /\ job[r].state \in {"none", "completed", "failed"}
  /\ \A w \in Workers : run[w].pc = "idle"

Next ==
  \/ \E r \in Rotations : \/ Mint(r) \/ CancelRead(r) \/ Continue(r)
                          \/ CreateDies(r) \/ CancelFails(r) \/ FalseStall(r)
  \/ \E w \in Workers : \/ Work(w) \/ MigrateUnlucky(w) \/ Fail(w) \/ Crash(w)
                         \/ LeakLock(w) \/ LoseSession(w)
  \/ \E t \in Targets : PoolDrops(t) \/ Insert(t)
  \/ \E t \in Targets, i \in Ids : AppWrite(t, i)
  \/ Quiet /\ UNCHANGED vars

Spec == Init /\ [][Next]_vars

\* Workers, the queue and calls in flight go on; nobody has to ask for a
\* rotation or for its cancellation, and no fault has to happen.
FairSpec ==
  /\ Spec
  /\ \A w \in Workers : WF_vars(Work(w))
  /\ \A r \in Rotations : WF_vars(Continue(r))

-----------------------------------------------------------------------------
(* Properties.                                                             *)

RecordsOf(r) == records[TargetOf[r]]

\* Under an older version than the new one; what the application has written
\* meanwhile is under whichever version it had at hand.
Unmigrated(r, ids) ==
  {i \in ids : LET rec == RecordsOf(r)[i] IN
                 rec.ver < to[r] /\ rec.plain # "rewritten"}

\* However often a rotation is stopped and resumed, its counters account for
\* every record up to its last_processed_id, once.
CountersMatchCheckpoint ==
  \A r \in Rotations : ckpt[r].done + ckpt[r].failed = ckpt[r].last

\* "resume exactly where it left off": no record a checkpoint has passed is
\* left under an older version without being counted as failed, so a run that
\* starts from any checkpoint, an outdated one included, leaves none out.  Only
\* an older rotation of the same target, gone on with since, takes records back.
CheckpointCoversMigration ==
  \A r \in Rotations \ overtaken :
    Cardinality(Unmigrated(r, 1..ckpt[r].last)) <= ckpt[r].failed

\* A version is activated only once every record that createRotation counted is
\* encrypted under it or a newer one, but for those the worker has given up and
\* those an older rotation has taken back.
ActivatedMeansMigrated ==
  \A r \in Rotations \ overtaken :
    to[r] # 0 /\ dek[to[r]] \in {"ACTIVE", "RETIRED"}
      => Unmigrated(r, 1..total[r]) \subseteq missed[r]

\* "checked by the worker between batches so it can stop gracefully": after a
\* cancellation is in the table, at most the batch in flight still commits, in
\* whatever attempt.  There are two ways out of it.  An attempt under way may
\* write COMPLETED or FAILED over the cancellation, and the attempt that
\* follows a FAILED goes on with the rest; and a worker that has lost its lock
\* does not keep a second one out.
OneLateBatch == \A r \in Rotations \ (overwritten \cup unguarded) : late[r] <= 1

\* Two rotations, or two workers with the same one, are at work on the same
\* target only if one of them has lost its session; and a lock that outlives
\* the run it was taken for is one whose session has gone back to the pool
\* with it, which an unlock that took effect never leaves behind.
LockedWhileAtWork ==
  /\ \A w \in Workers \ lost :
       run[w].pc \in LockedPCs => lock[TargetOf[run[w].r]] = w
  /\ \A t \in Targets \ leaked :
       lock[t] # NoWorker => WorksOn(lock[t], t) /\ lock[t] \notin lost

\* "DB status is the source of truth": once the queue has given a job up, its
\* row says how the rotation ended.
DeadJobsHaveTerminalRows ==
  \A r \in Rotations :
    job[r].state = "failed" /\ (\A w \in Workers : run[w].r = r => run[w].pc = "idle")
      => st[r] \in Terminal

\* A cancelled rotation stays cancelled.
CancelledIsFinal ==
  [][\A r \in Rotations : st[r] = "CANCELLED" => st'[r] = "CANCELLED"]_vars

\* A migration changes the key of a record and never its plaintext: what the
\* application has written is not replaced by what was there before.
NoLostUpdate ==
  [][\A t \in Targets : \A i \in Ids :
       records[t][i].plain = "rewritten"
         => records'[t][i].plain = "rewritten"]_vars

\* A rotation that has been queued ends: its row becomes terminal and stays
\* so, its job is over, and no worker is at it.  A job that BullMQ gives up for
\* having stalled too often is the exception: nobody is left to write its row.
Settled(r) ==
  /\ st[r] \in Terminal \/ job[r].stalls > MaxStalled
  /\ job[r].state \in {"none", "completed", "failed"}
  /\ \A w \in Workers : run[w].r = r => run[w].pc = "idle"
RotationsSettle ==
  \A r \in Rotations : job[r].state # "none" ~> [](Settled(r))

=============================================================================
