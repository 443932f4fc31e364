----------------------- MODULE RotationPipelineProofs -----------------------
(***************************************************************************)
(* The safety of RotationPipeline, for any number of rotations, workers,   *)
(* targets, records and faults.  TypeCorrect, Exclusion, CountersAccount,  *)
(* ResumeLeavesNoneOut, ActivationIsSafe and CancelStopsSoon, at the end,  *)
(* all follow from one inductive invariant, Inv.                           *)
(*                                                                         *)
(* The properties alone are not inductive.  A frame of _processJob holds a *)
(* checkpoint read before the lock was taken, and a page read before the   *)
(* transaction: Inv says of both what the properties say of the tables     *)
(* (CountsOK, Covers), that the versions of two rotations differ (Minted), *)
(* that nobody is at work at a rotation before createRotation has inserted *)
(* its row (Created), that a run without its lock is one of an unguarded   *)
(* rotation (Sessions), and that after the one batch committed late no     *)
(* other is under way (LateOK).                                            *)
(***************************************************************************)
EXTENDS RotationPipeline, TLAPS, FiniteSetTheorems

Live == {"waiting", "active", "delayed"}

\* Only an active job has a token, and a job that may be tried again has an
\* attempt left for it.
JobOK(j) ==
  /\ j.token # NoWorker => j.state = "active"
  /\ j.state \in Live => j.left >= 1 /\ j.stalls <= MaxStalled
JobsOK == \A r \in Rotations : JobOK(job[r])

\* Every rotation has a version of its own, which has not been there before,
\* and which is still PENDING when its records are counted.
Minted ==
  /\ dek[1] # "ABSENT"
  /\ \A r \in Rotations : to[r] # 0 => to[r] # 1 /\ dek[to[r]] # "ABSENT"
  /\ \A r, s \in Rotations : to[r] # 0 /\ to[r] = to[s] => r = s
  /\ \A r \in Rotations : creating[r] = "count" => dek[to[r]] = "PENDING"

\* Before createRotation has inserted its row nothing is known of a rotation.
NotBegun(r) ==
  /\ st[r] = "NONE"
  /\ ckpt[r] = NoCheckpoint
  /\ late[r] = 0
  /\ job[r].state = "none"
  /\ \A w \in Workers : run[w].pc # "idle" => run[w].r # r
Unborn == {"idle", "count", "create"}
Created ==
  \A r \in Rotations : /\ creating[r] \in Unborn => NotBegun(r)
                       /\ creating[r] = "idle" <=> to[r] = 0

\* A run that has lost its lock is at work all the same.
Held(f) == f.pc \in LockedPCs
Sessions ==
  /\ LockedWhileAtWork
  /\ \A w \in lost : Held(run[w]) /\ run[w].r \in unguarded

\* The counters, those of the table and those of every frame, n records being
\* there; a batch is the page of records after lastId, each of them once.
Counts(c) == c.done + c.failed = c.last
IdsOf(batch) == {e.id : e \in batch}
Fetched(batch, last, n) ==
  /\ \E m \in Ids : last < m /\ m <= n /\ IdsOf(batch) = last + 1..m
  /\ \A d, e \in batch : d.id = e.id => d = e
FrameCounts(f, n, counted) ==
  /\ Counts(f.at) /\ f.at.last <= n
  /\ f.pc = "idle" => f.at = NoCheckpoint
  /\ f.pc = "migrate" => Fetched(f.batch, f.at.last, n)
  /\ f.pc \in {"complete", "activate"} => counted <= f.at.last
SizeOf(r) == size[TargetOf[r]]
CountsOK ==
  /\ \A r \in Rotations : /\ Counts(ckpt[r]) /\ ckpt[r].last <= SizeOf(r)
                          /\ total[r] <= SizeOf(r)
  /\ \A w \in Workers :
       FrameCounts(run[w], SizeOf(run[w].r), total[run[w].r])

\* The records among ids that are still under a version before v, as
\* Unmigrated has it; what is left of them up to a checkpoint has been given up
\* and counted ...
Behind(recs, v, ids) ==
  {i \in ids : recs[i].ver < v /\ recs[i].plain # "rewritten"}
Covered(recs, v, given, c) ==
  /\ Cardinality(Behind(recs, v, 1..c.last)) <= c.failed
  /\ Behind(recs, v, 1..c.last) \subseteq given
\* ... and a record that a batch need not migrate is migrated still.
BatchCovered(recs, v, batch) ==
  \A e \in batch : ~(e.ver < v) => e.id \notin Behind(recs, v, IdsOf(batch))
FrameCovered(recs, v, given, f) ==
  /\ Covered(recs, v, given, f.at)
  /\ f.pc = "migrate" => BatchCovered(recs, v, f.batch)
Covers ==
  \A r \in Rotations \ overtaken :
    /\ Covered(RecordsOf(r), to[r], missed[r], ckpt[r])
    /\ \A w \in Workers :
         run[w].r = r => FrameCovered(RecordsOf(r), to[r], missed[r], run[w])
Activated ==
  \A r \in Rotations \ overtaken :
    to[r] # 0 /\ dek[to[r]] \in {"ACTIVE", "RETIRED"}
      => Behind(RecordsOf(r), to[r], 1..total[r]) \subseteq missed[r]

\* After the one late batch nobody is at another.
AtBatch(f) == f.pc \in {"fetch", "migrate"}
LateOK ==
  \A r \in Rotations \ (overwritten \cup unguarded) :
    /\ late[r] \in {0, 1}
    /\ late[r] = 1 =>
         /\ st[r] = "CANCELLED"
         /\ \A w \in Workers : run[w].r = r => ~AtBatch(run[w])

Inv == /\ TypeOK
       /\ JobsOK
       /\ Minted
       /\ Created
       /\ Sessions
       /\ CountsOK
       /\ Covers
       /\ Activated
       /\ LateOK

-----------------------------------------------------------------------------
(* Types.                                                                  *)

LEMMA VersionsType == Versions \subseteq Nat /\ 1 \in Versions /\ 0 \notin Versions
BY RotationsAssumption, FS_CardinalityType DEF Versions

LEMMA NoCheckpointType == NoCheckpoint \in Checkpoints
BY SizesAssumption DEF NoCheckpoint, Checkpoints

LEMMA IdleType == Idle \in Frames
BY RotationsAssumption, NoCheckpointType
   DEF Idle, Frames, PCs, LockedPCs, TryPCs, RowStatuses

LEMMA FrameType ==
  ASSUME TypeOK, NEW w \in Workers
  PROVE  /\ run[w] \in Frames
         /\ run[w].pc \in PCs
         /\ run[w].r \in Rotations
         /\ TargetOf[run[w].r] \in Targets
         /\ run[w].seen \in RowStatuses
         /\ run[w].at \in Checkpoints
         /\ run[w].batch \in SUBSET BatchRecords
         /\ run[w].ok \in BOOLEAN
<1>1. run[w] \in Frames
  BY DEF TypeOK
<1> QED
  BY <1>1, TargetOfAssumption DEF Frames

LEMMA GoType ==
  ASSUME TypeOK, NEW w \in Workers, NEW pc \in PCs, NEW seen \in RowStatuses,
         NEW at \in Checkpoints, NEW batch \in SUBSET BatchRecords,
         NEW ok \in BOOLEAN, Go(w, pc, seen, at, batch, ok)
  PROVE  run' \in [Workers -> Frames]
<1>1. [pc |-> pc, r |-> run[w].r, seen |-> seen, at |-> at, batch |-> batch,
       ok |-> ok] \in Frames
  BY FrameType DEF Frames
<1> QED
  BY <1>1 DEF TypeOK, Go

LEMMA GoToType ==
  ASSUME TypeOK, NEW w \in Workers, NEW pc \in PCs, GoTo(w, pc)
  PROVE  run' \in [Workers -> Frames]
BY FrameType, GoType DEF GoTo

LEMMA LeaveType ==
  ASSUME TypeOK, NEW w \in Workers, NEW pc \in PCs, NEW ok \in BOOLEAN,
         Leave(w, pc, ok)
  PROVE  run' \in [Workers -> Frames]
<1>1. "NONE" \in RowStatuses /\ {} \in SUBSET BatchRecords
  BY DEF RowStatuses
<1> QED
  BY <1>1, GoType, NoCheckpointType DEF Leave

LEMMA LeaveWithReportType ==
  ASSUME TypeOK, NEW w \in Workers, LeaveWithReport(w)
  PROVE  run' \in [Workers -> Frames]
BY LeaveType DEF LeaveWithReport, PCs, LockedPCs

LocksTypeOK ==
  /\ lock \in [Targets -> Workers \cup {NoWorker}]
  /\ leaked \in SUBSET Targets
  /\ lost \in SUBSET Workers

LEMMA LocksType ==
  ASSUME TypeOK, NEW w \in Workers,
         UNCHANGED locks \/ GetLock(w) \/ LetGo(w) \/ LeakLock(w)
           \/ LoseSession(w) \/ Crash(w)
  PROVE  LocksTypeOK'
<1> USE DEF TypeOK, LocksTypeOK
<1>1. CASE UNCHANGED locks
  BY <1>1 DEF locks
<1>2. CASE GetLock(w)
  BY <1>2 DEF GetLock
<1>3. CASE LetGo(w)
  BY <1>3 DEF LetGo, Unlocked
<1>4. CASE LeakLock(w)
  BY <1>4, FrameType DEF LeakLock
<1>5. CASE LoseSession(w)
  BY <1>5 DEF LoseSession
<1>6. CASE Crash(w)
  BY <1>6 DEF Crash
<1> QED
  BY <1>1, <1>2, <1>3, <1>4, <1>5, <1>6

(* The queue.                                                              *)

LEMMA PutInv ==
  ASSUME TypeOK, JobsOK, NEW r \in Rotations, NEW state \in JobStates,
         NEW token \in Workers \cup {NoWorker}, NEW left \in 0..Attempts,
         NEW stalls \in 0..MaxStalled + 1,
         Put(r, state, token, left, stalls),
         token # NoWorker => state = "active",
         state \in Live => left >= 1 /\ stalls <= MaxStalled
  PROVE  QueueTypeOK' /\ JobsOK'
<1>1. [state |-> state, token |-> token, left |-> left, stalls |-> stalls] \in Jobs
  BY DEF Jobs
<1> QED
  BY <1>1 DEF Put, TypeOK, QueueTypeOK, JobsOK, JobOK

LEMMA JobType ==
  ASSUME TypeOK, JobsOK, NEW r \in Rotations
  PROVE  /\ job[r].state \in JobStates
         /\ job[r].token \in Workers \cup {NoWorker}
         /\ job[r].left \in 0..Attempts /\ job[r].left \in Int
         /\ job[r].stalls \in 0..MaxStalled + 1 /\ job[r].stalls \in Int
         /\ JobOK(job[r])
<1>1. job[r] \in Jobs
  BY DEF TypeOK, QueueTypeOK
<1> QED
  BY <1>1, AttemptsAssumption DEF Jobs, JobsOK

LEMMA AddInv ==
  ASSUME TypeOK, JobsOK, NEW r \in Rotations, Add(r, AttemptsOption)
  PROVE  QueueTypeOK' /\ JobsOK'
<1>1. CASE job[r].state = "none"
  BY <1>1, PutInv, AttemptsAssumption DEF Add, AttemptsOption, JobStates
<1>2. CASE job[r].state # "none"
  BY <1>2 DEF Add, TypeOK, QueueTypeOK, JobsOK
<1> QED
  BY <1>1, <1>2

LEMMA TakeInv ==
  ASSUME TypeOK, JobsOK, NEW r \in Rotations, NEW w \in Workers, Take(r, w)
  PROVE  QueueTypeOK' /\ JobsOK'
BY JobType, PutInv DEF Take, JobStates, JobOK, Live

LEMMA SettleInv ==
  ASSUME TypeOK, JobsOK, NEW r \in Rotations, NEW w \in Workers,
         NEW ok \in BOOLEAN, Settle(r, w, ok)
  PROVE  QueueTypeOK' /\ JobsOK'
<1>1. CASE job[r].token # w
  BY <1>1 DEF Settle, TypeOK, QueueTypeOK, JobsOK
<1>2. CASE job[r].token = w
  <2>1. /\ job[r].left - 1 \in 0..Attempts
        /\ job[r].stalls <= MaxStalled
    BY <1>2, JobType, NoWorkerAssumption, AttemptsAssumption DEF JobOK, Live
  <2>2. CASE ok
    BY <1>2, <2>1, <2>2, JobType, PutInv DEF Settle, JobStates, Live
  <2>3. CASE ~ok /\ job[r].left > 1
    BY <1>2, <2>1, <2>3, JobType, PutInv DEF Settle, JobStates, Live
  <2>4. CASE ~ok /\ ~(job[r].left > 1)
    BY <1>2, <2>1, <2>4, JobType, PutInv DEF Settle, JobStates, Live
  <2> QED
    BY <2>2, <2>3, <2>4
<1> QED
  BY <1>1, <1>2

LEMMA QueueStepInv ==
  ASSUME TypeOK, JobsOK, NEW r \in Rotations, Promote(r) \/ Stalled(r)
  PROVE  QueueTypeOK' /\ JobsOK'
<1>1. CASE Promote(r)
  BY <1>1, JobType, PutInv DEF Promote, JobStates, JobOK, Live
<1>2. CASE Stalled(r)
  <2>1. /\ job[r].stalls + 1 \in 0..MaxStalled + 1
        /\ job[r].left >= 1
        /\ job[r].stalls < MaxStalled => job[r].stalls + 1 <= MaxStalled
    BY <1>2, JobType, AttemptsAssumption DEF Stalled, JobOK, Live
  <2> QED
    BY <1>2, <2>1, JobType, PutInv DEF Stalled, JobStates, Live
<1> QED
  BY <1>1, <1>2

LEMMA ExpireInv ==
  ASSUME TypeOK, JobsOK, NEW r \in Rotations, job[r].token # NoWorker,
         ExpireToken(r)
  PROVE  QueueTypeOK' /\ JobsOK'
BY JobType, PutInv DEF ExpireToken, JobStates, JobOK, Live

LEMMA RemoveInv ==
  ASSUME TypeOK, JobsOK, NEW r \in Rotations, Remove(r)
  PROVE  QueueTypeOK' /\ JobsOK'
<1>1. NoJob \in Jobs /\ JobOK(NoJob)
  BY AttemptsAssumption DEF NoJob, Jobs, JobStates, JobOK, Live
<1> QED
  BY <1>1 DEF Remove, TypeOK, QueueTypeOK, JobsOK

-----------------------------------------------------------------------------
(* Pages of records, and the counters.                                     *)

\* The CHOOSE of Counted picks the last id of the page.
LEMMA PageLast ==
  ASSUME NEW last \in 0..MaxRecords, NEW batch \in SUBSET BatchRecords,
         NEW n, Fetched(batch, last, n)
  PROVE  \E m \in Ids :
           /\ m > last /\ m <= n
           /\ IdsOf(batch) = last + 1..m
           /\ m = CHOOSE i \in {e.id : e \in batch} : \A e \in batch : e.id <= i
<1>1. PICK m \in Ids : last < m /\ m <= n /\ IdsOf(batch) = last + 1..m
  BY DEF Fetched
<1>3. m \in Nat /\ m > last
  BY <1>1, SizesAssumption DEF Ids
<1>4. m \in IdsOf(batch) /\ \A i \in IdsOf(batch) : i <= m /\ i \in Nat
  BY <1>1, <1>3, SizesAssumption
<1>5. m \in {e.id : e \in batch} /\ \A e \in batch : e.id <= m
  BY <1>4 DEF IdsOf
<1>6. ASSUME NEW i \in {e.id : e \in batch}, \A e \in batch : e.id <= i
      PROVE  i = m
  BY <1>4, <1>5, <1>6, <1>3 DEF IdsOf
<1> QED
  BY <1>1, <1>3, <1>5, <1>6

LEMMA BatchCardinality ==
  ASSUME NEW a \in Nat, NEW b \in Nat, a < b, NEW batch, IdsOf(batch) = a + 1..b,
         \A d, e \in batch : d.id = e.id => d = e
  PROVE  IsFiniteSet(batch) /\ Cardinality(batch) = b - a
<1> DEFINE g == [i \in a + 1..b |-> CHOOSE e \in batch : e.id = i]
<1>1. \A i \in a + 1..b : g[i] \in batch /\ g[i].id = i
  BY DEF IdsOf
<1>2. g \in Bijection(a + 1..b, batch)
  <2>1. g \in [a + 1..b -> batch]
    BY <1>1
  <2>2. \A i, j \in a + 1..b : g[i] = g[j] => i = j
    BY <1>1
  <2>3. \A e \in batch : \E i \in a + 1..b : g[i] = e
    BY <1>1 DEF IdsOf
  <2> HIDE DEF g
  <2> QED
    BY <2>1, <2>2, <2>3 DEF Bijection, Injection, Surjection, IsInjective
<1>3. IsFiniteSet(a + 1..b) /\ Cardinality(a + 1..b) = b - a
  BY FS_Interval
<1> QED
  BY <1>2, <1>3, FS_Bijection DEF ExistsBijection

\* The counters after a batch account for it.
LEMMA CountedInv ==
  ASSUME NEW at \in Checkpoints, Counts(at), NEW batch \in SUBSET BatchRecords,
         NEW n, Fetched(batch, at.last, n), NEW bad \in SUBSET batch
  PROVE  /\ Counted(at, batch, bad) \in Checkpoints
         /\ Counts(Counted(at, batch, bad))
         /\ Counted(at, batch, bad).last <= n
         /\ IdsOf(batch) = at.last + 1..Counted(at, batch, bad).last
         /\ Counted(at, batch, bad).last > at.last
         /\ Counted(at, batch, bad).failed = at.failed + Cardinality(bad)
         /\ IsFiniteSet(bad) /\ Cardinality(bad) \in Nat
<1>1. at.done \in Nat /\ at.failed \in Nat /\ at.last \in 0..MaxRecords
  BY SizesAssumption DEF Checkpoints
<1>2. PICK m \in Ids :
        /\ m > at.last /\ m <= n
        /\ IdsOf(batch) = at.last + 1..m
        /\ m = CHOOSE i \in {e.id : e \in batch} : \A e \in batch : e.id <= i
  BY <1>1, PageLast
<1>3. IsFiniteSet(batch) /\ Cardinality(batch) = m - at.last
  BY <1>1, <1>2, BatchCardinality DEF Fetched, Ids
<1>4. /\ IsFiniteSet(bad) /\ Cardinality(bad) \in Nat
      /\ IsFiniteSet(batch \ bad) /\ Cardinality(batch \ bad) \in Nat
      /\ Cardinality(batch \ bad) + Cardinality(bad) = Cardinality(batch)
  <2>1. batch \cap bad = bad
    OBVIOUS
  <2>2. IsFiniteSet(bad) /\ IsFiniteSet(batch \ bad)
    BY <1>3, FS_Subset
  <2>3. Cardinality(batch \ bad) = Cardinality(batch) - Cardinality(bad)
    <3>1. Cardinality(batch \ bad) = Cardinality(batch) - Cardinality(batch \cap bad)
      BY <1>3, FS_Difference
    <3> QED
      BY <2>1, <3>1, Zenon
  <2>4. Cardinality(bad) \in Nat /\ Cardinality(batch \ bad) \in Nat
        /\ Cardinality(batch) \in Nat
    BY <1>3, <2>2, FS_CardinalityType
  <2> QED
    BY <2>2, <2>3, <2>4
<1>5. Counted(at, batch, bad) =
        [done |-> at.done + Cardinality(batch \ bad),
         failed |-> at.failed + Cardinality(bad), last |-> m]
  BY <1>2 DEF Counted
<1>6. Counts(Counted(at, batch, bad))
  <2>1. /\ Counted(at, batch, bad).done = at.done + Cardinality(batch \ bad)
        /\ Counted(at, batch, bad).failed = at.failed + Cardinality(bad)
        /\ Counted(at, batch, bad).last = m
    BY <1>5
  <2>2. at.done + at.failed = at.last
    BY DEF Counts
  <2>3. /\ Cardinality(batch \ bad) + Cardinality(bad) = m - at.last
        /\ Cardinality(batch \ bad) \in Int /\ Cardinality(bad) \in Int
        /\ at.done \in Int /\ at.failed \in Int /\ at.last \in Int /\ m \in Int
    BY <1>1, <1>2, <1>3, <1>4 DEF Ids
  <2>4. ASSUME NEW x, NEW y, x = Cardinality(batch \ bad), y = Cardinality(bad)
        PROVE  (at.done + x) + (at.failed + y) = m
    BY <2>2, <2>3, <2>4
  <2>5. (at.done + Cardinality(batch \ bad)) + (at.failed + Cardinality(bad)) = m
    BY <2>4, Zenon
  <2> QED
    BY <2>1, <2>5 DEF Counts
<1>7. Counted(at, batch, bad) \in Checkpoints
  BY <1>1, <1>3, <1>4, <1>5, <1>6, SizesAssumption DEF Counts, Checkpoints, Ids
<1> QED
  BY <1>2, <1>4, <1>5, <1>6, <1>7

-----------------------------------------------------------------------------
(* The commit of a batch.                                                  *)

\* A worker only works at rotations that have a version.
LEMMA AtWork ==
  ASSUME TypeOK, Created, NEW w \in Workers, run[w].pc # "idle"
  PROVE  /\ run[w].r \in Rotations
         /\ creating[run[w].r] \notin Unborn
         /\ to[run[w].r] \in Versions /\ to[run[w].r] # 0
<1>1. run[w].r \in Rotations
  BY FrameType
<1>2. creating[run[w].r] \notin Unborn
  BY <1>1 DEF Created, NotBegun
<1>3. to[run[w].r] # 0
  BY <1>1, <1>2 DEF Created, Unborn
<1> QED
  BY <1>1, <1>2, <1>3 DEF TypeOK

\* What the commit of worker w does, `bad` being the records that failed.
Commits(w, bad) ==
  LET r == run[w].r
      t == TargetOf[r]
      at == Counted(run[w].at, run[w].batch, bad)
  IN
  /\ bad \subseteq run[w].batch
  /\ records' \in [Targets -> [Ids -> Records]]
  /\ \A u \in Targets \ {t} : records'[u] = records[u]
  /\ \A i \in Ids : records'[t][i] = records[t][i] \/ records'[t][i].ver = to[r]
  /\ \A e \in run[w].batch \ bad : e.ver = to[r] \/ records'[t][e.id].ver = to[r]
  /\ ckpt' = [ckpt EXCEPT ![r] = at]
  /\ \/ Go(w, "check", run[w].seen, at, {}, TRUE)
     \/ Leave(w, "fail", FALSE)
  /\ late' = IF st[r] = "CANCELLED" \/ r \in overwritten
               THEN [late EXCEPT ![r] = @ + 1] ELSE late
  /\ missed' = [missed EXCEPT ![r] = @ \cup IdsOf(bad)]
  /\ overtaken' =
       overtaken \cup {s \in Rotations : TargetOf[s] = t /\ to[s] > to[r]}
  /\ UNCHANGED <<job, dek, st, to, total, callers, size, locks, overwritten,
                 unguarded>>

LEMMA BatchCommits ==
  ASSUME TypeOK, Created, NEW w \in Workers, run[w].pc = "migrate",
         NEW unlucky \in SUBSET Old(run[w].batch, to[run[w].r]),
         MigrateBatch(w, unlucky)
  PROVE  \E bad \in SUBSET run[w].batch : Commits(w, bad)
<1> DEFINE r == run[w].r
           t == TargetOf[r]
           todo == Old(run[w].batch, to[r])
           bad == {e \in todo : e.plain = "unreadable"} \cup unlucky
           good == todo \ bad
<1>1. /\ r \in Rotations /\ t \in Targets /\ to[r] \in Versions
      /\ run[w].batch \subseteq BatchRecords
  BY AtWork, FrameType
<1>2. bad \subseteq run[w].batch /\ good \subseteq run[w].batch
  BY DEF Old
<1>3. records' = [records EXCEPT ![t] = [i \in Ids |->
        IF \E e \in good : e.id = i
          THEN [ver |-> to[r], plain |-> (CHOOSE e \in good : e.id = i).plain]
          ELSE records[t][i]]]
  BY DEF MigrateBatch
<1>4. ASSUME NEW i \in Ids
      PROVE  /\ records'[t][i] \in Records
             /\ records'[t][i] = records[t][i] \/ records'[t][i].ver = to[r]
             /\ (\E e \in good : e.id = i) => records'[t][i].ver = to[r]
  <2>1. CASE \E e \in good : e.id = i
    <3>1. records'[t][i] =
            [ver |-> to[r], plain |-> (CHOOSE e \in good : e.id = i).plain]
      BY <1>1, <1>3, <2>1 DEF TypeOK
    <3>2. (CHOOSE e \in good : e.id = i) \in good
      BY <2>1
    <3>3. (CHOOSE e \in good : e.id = i).plain \in Plaintexts
      BY <1>1, <1>2, <3>2 DEF BatchRecords
    <3> QED
      BY <1>1, <3>1, <3>3 DEF Records
  <2>2. CASE ~\E e \in good : e.id = i
    <3>1. records'[t][i] = records[t][i]
      BY <1>1, <1>3, <2>2 DEF TypeOK
    <3> QED
      BY <1>1, <2>2, <3>1 DEF TypeOK
  <2> QED
    BY <2>1, <2>2
<1>5. records' \in [Targets -> [Ids -> Records]]
  <2>1. DOMAIN records' = Targets /\ DOMAIN records'[t] = Ids
    BY <1>1, <1>3 DEF TypeOK
  <2>2. records'[t] \in [Ids -> Records]
    <3>1. records'[t] = [i \in Ids |-> records'[t][i]]
      BY <1>1, <1>3 DEF TypeOK
    <3> QED
      BY <1>4, <3>1
  <2> QED
    BY <1>1, <1>3, <2>2 DEF TypeOK
<1>6. \A u \in Targets \ {t} : records'[u] = records[u]
  BY <1>1, <1>3 DEF TypeOK
<1>7. ASSUME NEW e \in run[w].batch \ bad
      PROVE  e.ver = to[r] \/ records'[t][e.id].ver = to[r]
  <2>1. e.id \in Ids
    BY <1>1 DEF BatchRecords
  <2> QED
    BY <1>4, <2>1 DEF Old
<1>8. /\ Go(w, "check", run[w].seen, Counted(run[w].at, run[w].batch, bad), {}, TRUE)
         \/ Leave(w, "fail", FALSE)
      /\ ckpt' = [ckpt EXCEPT ![r] = Counted(run[w].at, run[w].batch, bad)]
      /\ late' = IF st[r] = "CANCELLED" \/ r \in overwritten
                   THEN [late EXCEPT ![r] = @ + 1] ELSE late
      /\ missed' = [missed EXCEPT ![r] = @ \cup IdsOf(bad)]
      /\ overtaken' =
           overtaken \cup {s \in Rotations : TargetOf[s] = t /\ to[s] > to[r]}
      /\ UNCHANGED <<job, dek, st, to, total, callers, size, locks, overwritten,
                     unguarded>>
  BY DEF MigrateBatch, IdsOf, AfterBatch
<1> HIDE DEF bad
<1>9. Commits(w, bad)
  BY <1>2, <1>4, <1>5, <1>6, <1>7, <1>8 DEF Commits
<1> QED
  BY <1>2, <1>9

\* Both actions that commit a batch.
LEMMA MigrateCommits ==
  ASSUME TypeOK, Created, NEW w \in Workers, Migrate(w) \/ MigrateUnlucky(w)
  PROVE  /\ run[w].pc = "migrate"
         /\ \E bad \in SUBSET run[w].batch : Commits(w, bad)
         /\ faults' = faults \/ Fault("key")
<1>1. CASE Migrate(w)
  <2>1. {} \in SUBSET Old(run[w].batch, to[run[w].r])
    OBVIOUS
  <2> QED
    BY <1>1, <2>1, BatchCommits DEF Migrate
<1>2. CASE MigrateUnlucky(w)
  <2>1. PICK e \in Old(run[w].batch, to[run[w].r]) : MigrateBatch(w, {e})
    BY <1>2 DEF MigrateUnlucky
  <2>2. {e} \in SUBSET Old(run[w].batch, to[run[w].r])
    OBVIOUS
  <2> QED
    BY <1>2, <2>1, <2>2, BatchCommits DEF MigrateUnlucky
<1> QED
  BY <1>1, <1>2

-----------------------------------------------------------------------------
(* TypeOK and JobsOK are kept.                                             *)

LEMMA InitType == Init => TypeOK
<1> SUFFICES ASSUME Init PROVE TypeOK
  OBVIOUS
<1>1. NoJob \in Jobs
  BY AttemptsAssumption DEF NoJob, Jobs, JobStates
<1>2. QueueTypeOK
  BY <1>1 DEF Init, QueueInit, QueueTypeOK
<1>3. records \in [Targets -> [Ids -> Records]]
  BY VersionsType DEF Init, Records, Plaintexts
<1>4. /\ dek \in [Versions -> DekStatuses]
      /\ st \in [Rotations -> RowStatuses]
      /\ to \in [Rotations -> Versions \cup {0}]
  BY DEF Init, DekStatuses, RowStatuses
<1>5. ckpt \in [Rotations -> Checkpoints] /\ run \in [Workers -> Frames]
  BY NoCheckpointType, IdleType DEF Init
<1>6. /\ total \in [Rotations -> 0..MaxRecords]
      /\ size \in [Targets -> 0..MaxRecords]
      /\ lock \in [Targets -> Workers \cup {NoWorker}]
      /\ leaked \in SUBSET Targets /\ lost \in SUBSET Workers
      /\ faults \in 0..MaxFaults
      /\ late \in [Rotations -> Nat]
      /\ missed \in [Rotations -> SUBSET Ids]
      /\ overtaken \in SUBSET Rotations
      /\ overwritten \in SUBSET Rotations /\ unguarded \in SUBSET Rotations
  BY SizesAssumption DEF Init
<1>7. /\ creating \in [Rotations -> CreatePCs]
      /\ cancel \in [Rotations -> CancelPCs]
  BY DEF Init, CreatePCs, CancelPCs
<1> QED
  BY <1>2, <1>3, <1>4, <1>5, <1>6, <1>7 DEF TypeOK

LEMMA FaultType ==
  ASSUME TypeOK, NEW kind, Fault(kind)
  PROVE  faults' \in 0..MaxFaults
BY SizesAssumption DEF Fault, TypeOK

LEMMA CommitsType ==
  ASSUME TypeOK, CountsOK, Created, NEW w \in Workers, run[w].pc = "migrate",
         NEW bad \in SUBSET run[w].batch, Commits(w, bad),
         faults' \in 0..MaxFaults
  PROVE  TypeOK'
<1> DEFINE r == run[w].r
           at == Counted(run[w].at, run[w].batch, bad)
<1>1. /\ r \in Rotations /\ run[w].batch \in SUBSET BatchRecords
      /\ run[w].at \in Checkpoints /\ run[w].seen \in RowStatuses
  BY FrameType
<1>2. Counts(run[w].at) /\ Fetched(run[w].batch, run[w].at.last, SizeOf(r))
  BY DEF CountsOK, FrameCounts
<1>3. at \in Checkpoints
  BY <1>1, <1>2, CountedInv
<1> HIDE DEF at
<1>4. run' \in [Workers -> Frames]
  <2>1. CASE Go(w, "check", run[w].seen, at, {}, TRUE)
    BY <1>1, <1>3, <2>1, GoType DEF PCs, LockedPCs, TryPCs
  <2>2. CASE Leave(w, "fail", FALSE)
    BY <2>2, LeaveType DEF PCs, LockedPCs
  <2> QED
    BY <2>1, <2>2 DEF Commits, at
<1>5. ckpt' \in [Rotations -> Checkpoints]
  BY <1>1, <1>3 DEF Commits, TypeOK, at
<1>6. IdsOf(bad) \subseteq Ids
  BY <1>1 DEF IdsOf, BatchRecords
<1>7. missed' \in [Rotations -> SUBSET Ids] /\ late' \in [Rotations -> Nat]
      /\ overtaken' \in SUBSET Rotations
  BY <1>1, <1>6 DEF Commits, TypeOK
<1>8. records' \in [Targets -> [Ids -> Records]]
  BY DEF Commits
<1>9. UNCHANGED <<job, dek, st, to, total, callers, size, locks, overwritten,
                  unguarded>>
  BY DEF Commits
<1> QED
  BY <1>4, <1>5, <1>7, <1>8, <1>9 DEF TypeOK, QueueTypeOK, callers, locks

\* Whose step it is.
CallerStep(r) == \/ Mint(r) \/ CancelRead(r) \/ Continue(r)
                 \/ CreateDies(r) \/ CancelFails(r) \/ FalseStall(r)
WorkerStep(w) == \/ Work(w) \/ MigrateUnlucky(w) \/ Fail(w) \/ Crash(w)
                 \/ LeakLock(w) \/ LoseSession(w)

\* Steps of createRotation, cancelRotation and the queue.
LEMMA CallersType ==
  ASSUME TypeOK, JobsOK, NEW r \in Rotations, CallerStep(r)
  PROVE  TypeOK' /\ JobsOK'
<1> USE DEF TypeOK, rows, callers, data, locks, history, CreatePCs, CancelPCs
<1>1. CASE Mint(r)
  BY <1>1 DEF Mint, QueueTypeOK, JobsOK, DekStatuses
<1>2. CASE CancelRead(r) \/ CancelReread(r)
  BY <1>2 DEF CancelRead, CancelReread, QueueTypeOK, JobsOK
<1>3. CASE CreateRow(r)
  BY <1>3 DEF CreateRow, QueueTypeOK, JobsOK, RowStatuses
<1>11. CASE CountRows(r)
  <2>1. size[TargetOf[r]] \in 0..MaxRecords
    BY TargetOfAssumption
  <2> QED
    BY <1>11, <2>1 DEF CountRows, QueueTypeOK, JobsOK
<1>4. CASE Enqueue(r)
  <2>1. QueueTypeOK' /\ JobsOK'
    BY <1>4, AddInv DEF Enqueue
  <2> QED
    BY <1>4, <2>1 DEF Enqueue
<1>5. CASE CancelUpdate(r)
  BY <1>5 DEF CancelUpdate, QueueTypeOK, JobsOK, RowStatuses
<1>6. CASE CancelGetJob(r)
  BY <1>6 DEF CancelGetJob, QueueTypeOK, JobsOK
<1>7. CASE CancelRemove(r)
  <2>1. QueueTypeOK' /\ JobsOK'
    BY <1>7, RemoveInv DEF CancelRemove
  <2> QED
    BY <1>7, <2>1 DEF CancelRemove
<1>8. CASE Queue(r)
  <2>1. QueueTypeOK' /\ JobsOK'
    BY <1>8, QueueStepInv DEF Queue
  <2> QED
    BY <1>8, <2>1 DEF Queue
<1>9. CASE CreateDies(r) \/ CancelFails(r)
  <2>1. faults' \in 0..MaxFaults
    BY <1>9, FaultType DEF CreateDies, CancelFails
  <2> QED
    BY <1>9, <2>1 DEF CreateDies, CancelFails, QueueTypeOK, JobsOK
<1>10. CASE FalseStall(r)
  <2>1. QueueTypeOK' /\ JobsOK' /\ faults' \in 0..MaxFaults
    BY <1>10, ExpireInv, FaultType DEF FalseStall
  <2> QED
    BY <1>10, <2>1 DEF FalseStall
<1> QED
  BY <1>1, <1>2, <1>3, <1>4, <1>5, <1>6, <1>7, <1>8, <1>9, <1>10, <1>11
     DEF CallerStep, Continue

\* Steps of a worker that leave the job alone.
LEMMA WorkerType ==
  ASSUME TypeOK, NEW w \in Workers, run' \in [Workers -> Frames],
         LocksTypeOK',
         dek' \in [Versions -> DekStatuses], st' \in [Rotations -> RowStatuses],
         faults' \in 0..MaxFaults,
         overwritten' \in SUBSET Rotations, unguarded' \in SUBSET Rotations,
         UNCHANGED <<job, to, total, ckpt, callers, data, late, missed, overtaken>>
  PROVE  TypeOK'
BY DEF TypeOK, LocksTypeOK, QueueTypeOK, callers, data

\* ... that keep the history of it as well.
LEMMA QuietWorkerType ==
  ASSUME TypeOK, NEW w \in Workers, run' \in [Workers -> Frames],
         LocksTypeOK',
         dek' \in [Versions -> DekStatuses], st' \in [Rotations -> RowStatuses],
         faults' \in 0..MaxFaults,
         UNCHANGED <<job, to, total, ckpt, callers, data, history>>
  PROVE  TypeOK'
<1>1. UNCHANGED <<late, missed, overtaken, overwritten, unguarded>>
  BY DEF history
<1>2. overwritten' \in SUBSET Rotations /\ unguarded' \in SUBSET Rotations
  BY <1>1 DEF TypeOK
<1> QED
  BY <1>1, <1>2, WorkerType

LEMMA BatchType ==
  ASSUME TypeOK, NEW t \in Targets, NEW ids \in SUBSET Ids
  PROVE  {[id |-> i, ver |-> records[t][i].ver,
           plain |-> records[t][i].plain] : i \in ids} \in SUBSET BatchRecords
<1>1. \A i \in ids : records[t][i] \in Records
  BY DEF TypeOK
<1> QED
  BY <1>1 DEF Records, BatchRecords

LEMMA WorkType ==
  ASSUME TypeOK, JobsOK, CountsOK, Created, NEW w \in Workers,
         WorkerStep(w)
  PROVE  TypeOK' /\ JobsOK'
<1> DEFINE r == run[w].r
<1>0. /\ run[w].r \in Rotations /\ TargetOf[run[w].r] \in Targets
      /\ run[w].at \in Checkpoints /\ run[w].seen \in RowStatuses
      /\ run[w].ok \in BOOLEAN
  BY FrameType
<1>1. CASE TakeJob(w)
  <2>1. PICK q \in Rotations :
          /\ Take(q, w)
          /\ run' = [run EXCEPT ![w] = [Idle EXCEPT !.pc = "load", !.r = q]]
    BY <1>1 DEF TakeJob
  <2>2. [Idle EXCEPT !.pc = "load", !.r = q] \in Frames
    BY IdleType DEF Frames, PCs
  <2>3. run' \in [Workers -> Frames]
    BY <2>1, <2>2 DEF TypeOK
  <2>4. QueueTypeOK' /\ JobsOK'
    BY <2>1, TakeInv
  <2> QED
    BY <1>1, <2>3, <2>4 DEF TakeJob, TypeOK, rows, callers, data, locks, history
<1>2. CASE Load(w)
  <2>1. ckpt[r] \in Checkpoints /\ st[r] \in RowStatuses
    BY <1>0 DEF TypeOK
  <2>2. run' \in [Workers -> Frames]
    <3>1. CASE Leave(w, "settle", TRUE)
      BY <3>1, LeaveType DEF PCs
    <3>2. CASE Go(w, "lock", st[r], ckpt[r], {}, TRUE)
      BY <2>1, <3>2, GoType DEF PCs
    <3> QED
      BY <1>2, <3>1, <3>2 DEF Load, Resume
  <2> QED
    BY <1>2, <2>2, QuietWorkerType, LocksType DEF Load, TypeOK, rows, JobsOK
<1>3. CASE GetLock(w)
  <2>1. run' \in [Workers -> Frames]
    BY <1>3, GoToType DEF GetLock, PCs, LockedPCs, TryPCs
  <2> QED
    BY <1>3, <2>1, QuietWorkerType, LocksType DEF GetLock, TypeOK, rows, JobsOK
<1>4. CASE Locked(w)
  <2>1. run' \in [Workers -> Frames]
    BY <1>4, LeaveType DEF Locked, PCs
  <2> QED
    BY <1>4, <2>1, QuietWorkerType, LocksType DEF Locked, TypeOK, rows, JobsOK
<1>5. CASE Mark(w)
  <2>1. run' \in [Workers -> Frames]
    BY <1>5, GoToType DEF Mark, PCs, LockedPCs, TryPCs
  <2>2. st' \in [Rotations -> RowStatuses]
    BY <1>5 DEF Mark, TypeOK, RowStatuses
  <2> QED
    BY <1>5, <2>1, <2>2, QuietWorkerType, LocksType DEF Mark, TypeOK, JobsOK
<1>6. CASE Check(w)
  <2>1. run' \in [Workers -> Frames]
    BY <1>6, GoToType, LeaveWithReportType DEF Check, PCs, LockedPCs, TryPCs
  <2> QED
    BY <1>6, <2>1, QuietWorkerType, LocksType DEF Check, TypeOK, rows, JobsOK
<1>7. CASE Fetch(w)
  <2> DEFINE t == TargetOf[r]
             batch == {[id |-> i, ver |-> records[t][i].ver,
                        plain |-> records[t][i].plain] :
                         i \in (1..size[t]) \cap Page(run[w].at.last)}
  <2>1. batch \in SUBSET BatchRecords
    <3>1. 1..size[t] \subseteq Ids
      <4>1. size[t] \in 0..MaxRecords
        BY <1>0 DEF TypeOK
      <4> QED
        BY <4>1, SizesAssumption DEF Ids
    <3> QED
      BY <1>0, <3>1, BatchType
  <2>2. GoTo(w, "complete") \/ Go(w, "migrate", run[w].seen, run[w].at, batch, TRUE)
    BY <1>7 DEF Fetch
  <2> HIDE DEF batch
  <2>3. run' \in [Workers -> Frames]
    BY <1>0, <2>1, <2>2, GoToType, GoType DEF PCs, LockedPCs, TryPCs
  <2> QED
    BY <1>7, <2>3, QuietWorkerType, LocksType DEF Fetch, TypeOK, rows, JobsOK
<1>8. CASE Migrate(w) \/ MigrateUnlucky(w)
  <2>1. PICK bad \in SUBSET run[w].batch : Commits(w, bad)
    BY <1>8, MigrateCommits
  <2>2. faults' \in 0..MaxFaults /\ run[w].pc = "migrate"
    BY <1>8, MigrateCommits, FaultType DEF TypeOK
  <2>3. job' = job
    BY <2>1 DEF Commits
  <2> QED
    BY <2>1, <2>2, <2>3, CommitsType DEF JobsOK
<1>9. CASE Complete(w)
  <2>1. run' \in [Workers -> Frames]
    BY <1>9, GoToType DEF Complete, PCs, LockedPCs, TryPCs
  <2>2. /\ st' \in [Rotations -> RowStatuses]
        /\ overwritten' \in SUBSET Rotations /\ unguarded' = unguarded
    BY <1>0, <1>9 DEF Complete, Overwrite, TypeOK, RowStatuses
  <2> QED
    BY <1>9, <2>1, <2>2, WorkerType, LocksType DEF Complete, Overwrite, TypeOK, JobsOK
<1>10. CASE Activate(w)
  <2>1. run' \in [Workers -> Frames]
    BY <1>10, GoToType DEF Activate, PCs, LockedPCs, TryPCs
  <2>2. dek' \in [Versions -> DekStatuses]
    BY <1>10 DEF Activate, TypeOK, DekStatuses
  <2> QED
    BY <1>10, <2>1, <2>2, QuietWorkerType, LocksType DEF Activate, TypeOK, rows, JobsOK
<1>11. CASE Report(w)
  <2>1. run' \in [Workers -> Frames]
    BY <1>11, LeaveWithReportType DEF Report
  <2> QED
    BY <1>11, <2>1, QuietWorkerType, LocksType DEF Report, TypeOK, rows, JobsOK
<1>12. CASE MarkFailed(w)
  <2>1. run' \in [Workers -> Frames]
    BY <1>12, LeaveType DEF MarkFailed, PCs, LockedPCs
  <2>2. /\ st' \in [Rotations -> RowStatuses]
        /\ overwritten' \in SUBSET Rotations /\ unguarded' = unguarded
    BY <1>0, <1>12 DEF MarkFailed, Overwrite, TypeOK, RowStatuses
  <2> QED
    BY <1>12, <2>1, <2>2, WorkerType, LocksType
       DEF MarkFailed, Overwrite, TypeOK, JobsOK
<1>13. CASE Release(w)
  <2>1. run' \in [Workers -> Frames]
    BY <1>0, <1>13, LeaveType DEF Release, PCs
  <2> QED
    BY <1>13, <2>1, QuietWorkerType, LocksType DEF Release, TypeOK, rows, JobsOK
<1>14. CASE SettleJob(w)
  <2>1. QueueTypeOK' /\ JobsOK'
    BY <1>0, <1>14, SettleInv DEF SettleJob
  <2>2. run' \in [Workers -> Frames]
    BY <1>14, IdleType DEF SettleJob, TypeOK
  <2> QED
    BY <1>14, <2>1, <2>2 DEF SettleJob, TypeOK, rows, callers, data, locks, history
<1>15. CASE Fail(w)
  <2>1. run' \in [Workers -> Frames]
    BY <1>15, LeaveType DEF Fail, PCs, LockedPCs
  <2>2. LocksTypeOK' /\ faults' \in 0..MaxFaults
    BY <1>15, LocksType, FaultType DEF Fail
  <2> QED
    BY <1>15, <2>1, <2>2, QuietWorkerType DEF Fail, TypeOK, rows, JobsOK
<1>16. CASE Crash(w)
  <2>1. QueueTypeOK' /\ JobsOK'
    BY <1>0, <1>16, ExpireInv, NoWorkerAssumption
       DEF Crash, TypeOK, QueueTypeOK, JobsOK
  <2>2. run' \in [Workers -> Frames]
    BY <1>16, IdleType DEF Crash, TypeOK
  <2>3. LocksTypeOK' /\ faults' \in 0..MaxFaults
    BY <1>16, LocksType, FaultType DEF Crash
  <2> QED
    BY <1>16, <2>1, <2>2, <2>3
       DEF Crash, TypeOK, LocksTypeOK, rows, callers, data, history
<1>17. CASE LeakLock(w)
  <2>1. run' \in [Workers -> Frames]
    BY <1>17, LeaveType DEF LeakLock, PCs
  <2>2. LocksTypeOK' /\ faults' \in 0..MaxFaults
    BY <1>17, LocksType, FaultType DEF LeakLock
  <2> QED
    BY <1>17, <2>1, <2>2, QuietWorkerType DEF LeakLock, TypeOK, rows, JobsOK
<1>18. CASE LoseSession(w)
  <2>1. LocksTypeOK' /\ faults' \in 0..MaxFaults
    BY <1>18, LocksType, FaultType DEF LoseSession
  <2>2. unguarded' \in SUBSET Rotations /\ overwritten' = overwritten
    BY <1>0, <1>18 DEF LoseSession, TypeOK
  <2> QED
    BY <1>18, <2>1, <2>2, WorkerType DEF LoseSession, TypeOK, rows, JobsOK
<1> QED
  BY <1>1, <1>2, <1>3, <1>4, <1>5, <1>6, <1>7, <1>8, <1>9, <1>10, <1>11, <1>12,
     <1>13, <1>14, <1>15, <1>16, <1>17, <1>18 DEF WorkerStep, Work

LEMMA TargetStepType ==
  ASSUME TypeOK, NEW t \in Targets,
         PoolDrops(t) \/ Insert(t) \/ \E i \in Ids : AppWrite(t, i)
  PROVE  TypeOK' /\ job' = job
<1>1. CASE PoolDrops(t)
  BY <1>1 DEF PoolDrops, TypeOK, QueueTypeOK, rows, callers, data, history
<1>2. ASSUME NEW i \in Ids, NEW rec \in Records,
             records' = [records EXCEPT ![t] = [@ EXCEPT ![i] = rec]]
      PROVE  records' \in [Targets -> [Ids -> Records]]
  BY <1>2 DEF TypeOK
<1>3. ASSUME NEW v \in Versions, NEW plain \in Plaintexts
      PROVE  [ver |-> v, plain |-> plain] \in Records
  BY DEF Records
<1>4. CASE Insert(t)
  <2>1. size[t] + 1 \in Ids /\ size[t] \in 0..MaxRecords
    BY <1>4, SizesAssumption DEF Insert, TypeOK, Ids
  <2>2. size' \in [Targets -> 0..MaxRecords]
    BY <1>4, <2>1, SizesAssumption DEF Insert, TypeOK, Ids
  <2>3. PICK v \in Versions :
          records' = [records EXCEPT ![t] =
            [@ EXCEPT ![size[t] + 1] = [ver |-> v, plain |-> "original"]]]
    BY <1>4 DEF Insert
  <2>4. records' \in [Targets -> [Ids -> Records]]
    BY <1>2, <1>3, <2>1, <2>3 DEF Plaintexts
  <2> QED
    BY <1>4, <2>2, <2>4 DEF Insert, TypeOK, QueueTypeOK, rows, callers, locks, history
<1>5. ASSUME NEW i \in Ids, AppWrite(t, i)
      PROVE  TypeOK' /\ job' = job
  <2>1. PICK v \in Versions :
          records' = [records EXCEPT ![t] =
            [@ EXCEPT ![i] = [ver |-> v, plain |-> "rewritten"]]]
    BY <1>5 DEF AppWrite
  <2>2. records' \in [Targets -> [Ids -> Records]]
    BY <1>2, <1>3, <2>1 DEF Plaintexts
  <2> QED
    BY <1>5, <2>2 DEF AppWrite, TypeOK, QueueTypeOK, rows, callers, locks, history
<1> QED
  BY <1>1, <1>4, <1>5

LEMMA NextCases ==
  ASSUME [Next]_vars
  PROVE  \/ \E r \in Rotations : CallerStep(r)
         \/ \E w \in Workers : WorkerStep(w)
         \/ \E t \in Targets :
              PoolDrops(t) \/ Insert(t) \/ \E i \in Ids : AppWrite(t, i)
         \/ UNCHANGED vars
BY DEF Next, CallerStep, WorkerStep

LEMMA NextType ==
  ASSUME TypeOK, JobsOK, CountsOK, Created, [Next]_vars
  PROVE  TypeOK' /\ JobsOK'
<1>1. CASE UNCHANGED vars
  BY <1>1 DEF vars, rows, callers, data, locks, history, TypeOK, QueueTypeOK, JobsOK
<1>2. ASSUME NEW r \in Rotations, CallerStep(r)
      PROVE  TypeOK' /\ JobsOK'
  BY <1>2, CallersType
<1>3. ASSUME NEW w \in Workers, WorkerStep(w)
      PROVE  TypeOK' /\ JobsOK'
  BY <1>3, WorkType
<1>4. ASSUME NEW t \in Targets,
             PoolDrops(t) \/ Insert(t) \/ \E i \in Ids : AppWrite(t, i)
      PROVE  TypeOK' /\ JobsOK'
  BY <1>4, TargetStepType DEF JobsOK
<1> QED
  BY <1>1, <1>2, <1>3, <1>4, NextCases

-----------------------------------------------------------------------------
(* Whom a step concerns.                                                   *)

Untouched(q) ==
  /\ st'[q] = st[q] /\ to'[q] = to[q] /\ total'[q] = total[q]
  /\ ckpt'[q] = ckpt[q] /\ creating'[q] = creating[q]
  /\ job'[q] = job[q] /\ late'[q] = late[q]

\* Worker w goes on with the frame f, or with one at this pc.
Frame(w, f) == run'[w] = f /\ \A v \in Workers \ {w} : run'[v] = run[v]
At(w, pc) ==
  /\ run'[w].pc = pc /\ run'[w].r = run[w].r
  /\ \A v \in Workers \ {w} : run'[v] = run[v]

LEMMA GoFrame ==
  ASSUME TypeOK, NEW w \in Workers, NEW pc, NEW seen, NEW at, NEW batch, NEW ok,
         Go(w, pc, seen, at, batch, ok)
  PROVE  /\ Frame(w, [pc |-> pc, r |-> run[w].r, seen |-> seen, at |-> at,
                      batch |-> batch, ok |-> ok])
         /\ At(w, pc)
BY DEF Go, TypeOK, Frame, At

LEMMA LeaveFrame ==
  ASSUME TypeOK, NEW w \in Workers, NEW pc, NEW ok, Leave(w, pc, ok)
  PROVE  At(w, pc) /\ run'[w].at = NoCheckpoint
<1>1. Go(w, pc, "NONE", NoCheckpoint, {}, ok)
  BY DEF Leave
<1>2. Frame(w, [pc |-> pc, r |-> run[w].r, seen |-> "NONE", at |-> NoCheckpoint,
                batch |-> {}, ok |-> ok])
  BY <1>1, GoFrame
<1> QED
  BY <1>2 DEF Frame, At

LEMMA GoToFrame ==
  ASSUME TypeOK, NEW w \in Workers, NEW pc, GoTo(w, pc)
  PROVE  /\ At(w, pc)
         /\ run'[w].seen = run[w].seen /\ run'[w].at = run[w].at
         /\ run'[w].batch = run[w].batch
<1>1. Go(w, pc, run[w].seen, run[w].at, run[w].batch, run[w].ok)
  BY DEF GoTo
<1>2. Frame(w, [pc |-> pc, r |-> run[w].r, seen |-> run[w].seen, at |-> run[w].at,
                batch |-> run[w].batch, ok |-> run[w].ok])
  BY <1>1, GoFrame
<1> QED
  BY <1>2 DEF Frame, At

LEMMA IdleFrame ==
  ASSUME TypeOK, NEW w \in Workers, run' = [run EXCEPT ![w] = Idle]
  PROVE  Frame(w, Idle)
BY DEF TypeOK, Frame

\* The steps of a worker that leaves its rotation alone but for the pc.
LEMMA LeaveWithReportFrame ==
  ASSUME TypeOK, NEW w \in Workers, LeaveWithReport(w)
  PROVE  \/ At(w, "release") /\ run'[w].at = NoCheckpoint
         \/ At(w, "fail") /\ run'[w].at = NoCheckpoint
BY LeaveFrame DEF LeaveWithReport

LEMMA PutJob ==
  ASSUME TypeOK, NEW r \in Rotations, NEW state, NEW token, NEW left, NEW stalls,
         Put(r, state, token, left, stalls)
  PROVE  /\ job'[r] = [state |-> state, token |-> token, left |-> left,
                       stalls |-> stalls]
         /\ \A q \in Rotations \ {r} : job'[q] = job[q]
BY DEF Put, TypeOK, QueueTypeOK

\* A worker acts for the rotation in its frame only: where each of its actions
\* leads, and the rows it leaves alone.
LEMMA WorkerGoes ==
  ASSUME TypeOK, Created, NEW w \in Workers, WorkerStep(w), run[w].pc # "idle"
  PROVE  (\E pc : At(w, pc)) \/ Frame(w, Idle)
<1> USE GoFrame, GoToFrame, LeaveFrame, LeaveWithReportFrame, IdleFrame
<1>1. CASE Load(w)
  BY <1>1 DEF Load
<1>2. CASE GetLock(w) \/ Locked(w) \/ Check(w) \/ Report(w)
  BY <1>2 DEF GetLock, Locked, Check, Report
<1>3. CASE Mark(w) \/ Complete(w) \/ MarkFailed(w) \/ Activate(w) \/ Release(w)
  BY <1>3 DEF Mark, Complete, MarkFailed, Activate, Release
<1>4. CASE Fetch(w)
  BY <1>4 DEF Fetch
<1>5. CASE Migrate(w) \/ MigrateUnlucky(w)
  BY <1>5, MigrateCommits DEF Commits
<1>6. CASE SettleJob(w) \/ Crash(w)
  BY <1>6 DEF SettleJob, Crash
<1>7. CASE Fail(w) \/ LeakLock(w)
  BY <1>7 DEF Fail, LeakLock
<1>8. ~TakeJob(w)
  BY DEF TakeJob
<1>9. CASE LoseSession(w)
  <2>1. run' = run
    BY <1>9 DEF LoseSession
  <2> QED
    BY <2>1 DEF At
<1> QED
  BY <1>1, <1>2, <1>3, <1>4, <1>5, <1>6, <1>7, <1>8, <1>9 DEF WorkerStep, Work

LEMMA WorkerRows ==
  ASSUME TypeOK, Created, NEW w \in Workers, WorkerStep(w), run[w].pc # "idle",
         NEW q \in Rotations \ {run[w].r}
  PROVE  Untouched(q)
<1> DEFINE r == run[w].r
<1>0. r \in Rotations
  BY FrameType
<1> USE DEF rows, callers, history
<1>1. CASE \/ Load(w) \/ GetLock(w) \/ Locked(w) \/ Check(w) \/ Report(w)
           \/ Fetch(w) \/ Activate(w) \/ Release(w) \/ Fail(w)
           \/ LeakLock(w) \/ LoseSession(w)
  BY <1>1 DEF Load, GetLock, Locked, Check, Report, Fetch, Activate, Release, Fail,
              LeakLock, LoseSession, Untouched
<1>2. CASE Mark(w) \/ Complete(w) \/ MarkFailed(w)
  <2>1. st'[q] = st[q] /\ UNCHANGED <<to, total, ckpt, creating, job, late>>
    BY <1>0, <1>2 DEF Mark, Complete, MarkFailed, Overwrite, TypeOK
  <2> QED
    BY <2>1 DEF Untouched
<1>3. CASE Migrate(w) \/ MigrateUnlucky(w)
  <2>1. PICK bad \in SUBSET run[w].batch : Commits(w, bad)
    BY <1>3, MigrateCommits
  <2>2. ckpt'[q] = ckpt[q] /\ late'[q] = late[q] /\ UNCHANGED <<st, to, total, creating, job>>
    BY <1>0, <2>1 DEF Commits, TypeOK
  <2> QED
    BY <2>2 DEF Untouched
<1>4. CASE SettleJob(w) \/ Crash(w)
  <2>1. job' = job \/ \E state, token, left, stalls : Put(r, state, token, left, stalls)
    BY <1>4 DEF SettleJob, Crash, Settle, ExpireToken
  <2>2. job'[q] = job[q]
    BY <1>0, <2>1, PutJob
  <2> QED
    BY <1>4, <2>2 DEF SettleJob, Crash, Untouched
<1>5. ~TakeJob(w)
  BY DEF TakeJob
<1> QED
  BY <1>1, <1>2, <1>3, <1>4, <1>5 DEF WorkerStep, Work

LEMMA WorkerActs ==
  ASSUME TypeOK, Created, NEW w \in Workers, WorkerStep(w), run[w].pc # "idle"
  PROVE  /\ \A q \in Rotations \ {run[w].r} : Untouched(q)
         /\ run'[w].pc = "idle" \/ run'[w].r = run[w].r
         /\ \A v \in Workers \ {w} : run'[v] = run[v]
<1>1. \A q \in Rotations \ {run[w].r} : Untouched(q)
  BY WorkerRows
<1>2. Frame(w, Idle) => run'[w].pc = "idle"
  BY DEF Frame, Idle
<1> QED
  BY <1>1, <1>2, WorkerGoes DEF At, Frame

\* A worker takes a job that waits.
LEMMA TakeActs ==
  ASSUME TypeOK, NEW w \in Workers, WorkerStep(w), run[w].pc = "idle"
  PROVE  /\ TakeJob(w)
         /\ \E r \in Rotations :
              /\ Take(r, w)
              /\ run' = [run EXCEPT ![w] = [Idle EXCEPT !.pc = "load", !.r = r]]
              /\ run'[w] = [Idle EXCEPT !.pc = "load", !.r = r]
              /\ \A q \in Rotations \ {r} : Untouched(q)
              /\ job[r].state = "waiting" /\ job'[r].state = "active"
         /\ \A v \in Workers \ {w} : run'[v] = run[v]
<1>1. TakeJob(w)
  BY DEF WorkerStep, Work, Load, GetLock, Locked, Check, Report, Mark, Complete,
         MarkFailed, Fetch, Migrate, MigrateUnlucky, Activate, Release, SettleJob,
         Fail, Crash, LeakLock, LoseSession, LockedPCs, TryPCs
<1>2. PICK r \in Rotations :
        /\ Take(r, w)
        /\ run' = [run EXCEPT ![w] = [Idle EXCEPT !.pc = "load", !.r = r]]
  BY <1>1 DEF TakeJob
<1>3. /\ \A q \in Rotations \ {r} : job'[q] = job[q]
      /\ job[r].state = "waiting" /\ job'[r].state = "active"
  <2>1. Put(r, "active", w, job[r].left, job[r].stalls)
    BY <1>2 DEF Take
  <2>2. /\ job'[r] = [state |-> "active", token |-> w, left |-> job[r].left,
                      stalls |-> job[r].stalls]
        /\ \A q \in Rotations \ {r} : job'[q] = job[q]
    BY <2>1, PutJob
  <2> QED
    BY <1>2, <2>2 DEF Take
<1>4. \A q \in Rotations \ {r} : Untouched(q)
  BY <1>1, <1>3 DEF TakeJob, Untouched, rows, callers, history
<1>5. /\ run'[w] = [Idle EXCEPT !.pc = "load", !.r = r]
      /\ \A v \in Workers \ {w} : run'[v] = run[v]
  BY <1>2 DEF TypeOK
<1> QED
  BY <1>1, <1>2, <1>3, <1>4, <1>5

\* So does a step of createRotation, cancelRotation or the queue.
LEMMA CallerActs ==
  ASSUME TypeOK, NEW r \in Rotations, CallerStep(r)
  PROVE  /\ \A q \in Rotations \ {r} : Untouched(q)
         /\ run' = run
<1> USE DEF TypeOK, Untouched, rows, callers, history
<1>1. CASE \/ Mint(r) \/ CancelRead(r) \/ CreateRow(r) \/ CountRows(r)
           \/ CancelReread(r)
  BY <1>1 DEF Mint, CancelRead, CreateRow, CountRows, CancelReread
<1>2. CASE CreateDies(r) \/ CancelFails(r) \/ CancelUpdate(r) \/ CancelGetJob(r)
  BY <1>2 DEF CreateDies, CancelFails, CancelUpdate, CancelGetJob
<1>3. CASE Enqueue(r)
  BY <1>3, PutJob DEF Enqueue, Add
<1>4. CASE CancelRemove(r)
  BY <1>4 DEF CancelRemove, Remove, QueueTypeOK
<1>5. CASE Queue(r)
  BY <1>5, PutJob DEF Queue, Promote, Stalled
<1>6. CASE FalseStall(r)
  BY <1>6, PutJob DEF FalseStall, ExpireToken
<1> QED
  BY <1>1, <1>2, <1>3, <1>4, <1>5, <1>6 DEF CallerStep, Continue

-----------------------------------------------------------------------------
(* Minted and Created are kept.                                            *)

LEMMA VersionSteps ==
  ASSUME TypeOK, Created, [Next]_vars
  PROVE  \/ UNCHANGED <<dek, to>> /\ \A q \in Rotations :
               creating'[q] = "count" => creating[q] = "count"
         \/ \E r \in Rotations : Mint(r)
         \/ \E w \in Workers : Activate(w) /\ creating' = creating
<1> USE DEF rows, callers
<1>1. ASSUME NEW r \in Rotations, CallerStep(r), ~Mint(r)
      PROVE  UNCHANGED <<dek, to>> /\ \A q \in Rotations :
               creating'[q] = "count" => creating[q] = "count"
  <2>1. UNCHANGED <<dek, to>>
    BY <1>1 DEF CallerStep, Continue, CancelRead, CountRows, CreateRow, CreateDies,
       CancelFails, CancelUpdate, CancelGetJob, Enqueue, CancelRemove, CancelReread,
       Queue, FalseStall
  <2>2. \/ creating' = creating
        \/ \E pc \in {"create", "enqueue", "over"} :
             creating' = [creating EXCEPT ![r] = pc]
    BY <1>1 DEF CallerStep, Continue, CancelRead, CountRows, CreateRow, CreateDies,
       CancelFails, CancelUpdate, CancelGetJob, Enqueue, CancelRemove, CancelReread,
       Queue, FalseStall
  <2> QED
    BY <2>1, <2>2 DEF TypeOK
<1>2. ASSUME NEW w \in Workers, WorkerStep(w)
      PROVE  creating' = creating /\ (UNCHANGED <<dek, to>> \/ Activate(w))
  <2>1. CASE Migrate(w) \/ MigrateUnlucky(w)
    BY <2>1, MigrateCommits DEF Commits
  <2>2. CASE ~(Migrate(w) \/ MigrateUnlucky(w))
    BY <1>2, <2>2 DEF WorkerStep, Work, TakeJob, Load, GetLock, Locked, Check,
       Report, Mark, Complete, MarkFailed, Fetch, Activate, Release, SettleJob,
       Fail, Crash, LeakLock, LoseSession
  <2> QED
    BY <2>1, <2>2
<1>3. ASSUME NEW t \in Targets,
             PoolDrops(t) \/ Insert(t) \/ \E i \in Ids : AppWrite(t, i)
      PROVE  UNCHANGED <<dek, to, creating>>
  BY <1>3 DEF PoolDrops, Insert, AppWrite
<1> QED
  BY <1>1, <1>2, <1>3, NextCases DEF vars

LEMMA NextMinted ==
  ASSUME TypeOK, Created, Minted, [Next]_vars
  PROVE  Minted'
<1>1. CASE UNCHANGED <<dek, to>> /\ \A q \in Rotations :
             creating'[q] = "count" => creating[q] = "count"
  BY <1>1 DEF Minted
<1>2. ASSUME NEW r \in Rotations, Mint(r)
      PROVE  Minted'
  <2>1. PICK v \in Versions :
          /\ dek[v] = "ABSENT"
          /\ dek' = [dek EXCEPT ![v] = "PENDING"]
          /\ to' = [to EXCEPT ![r] = v]
          /\ creating' = [creating EXCEPT ![r] = "count"]
    BY <1>2 DEF Mint
  <2>2. v # 1 /\ v # 0 /\ \A q \in Rotations : to[q] # v
    BY <2>1, VersionsType DEF Minted
  <2>3. /\ to'[r] = v /\ \A q \in Rotations \ {r} : to'[q] = to[q]
        /\ dek'[v] = "PENDING" /\ \A u \in Versions \ {v} : dek'[u] = dek[u]
    BY <2>1 DEF TypeOK
  <2>4. dek'[1] # "ABSENT"
    BY <2>2, <2>3, VersionsType DEF Minted
  <2>5. \A q \in Rotations : to'[q] # 0 => to'[q] # 1 /\ dek'[to'[q]] # "ABSENT"
    BY <2>2, <2>3 DEF Minted, TypeOK
  <2>6. \A p, q \in Rotations : to'[p] # 0 /\ to'[p] = to'[q] => p = q
    BY <2>2, <2>3 DEF Minted
  <2>7. \A q \in Rotations : creating'[q] = "count" => dek'[to'[q]] = "PENDING"
    <3>1. \A q \in Rotations : creating[q] = "count" => to[q] # 0
      BY DEF Created
    <3> QED
      BY <2>1, <2>2, <2>3, <3>1 DEF Minted, TypeOK
  <2> QED
    BY <2>4, <2>5, <2>6, <2>7 DEF Minted
<1>3. ASSUME NEW w \in Workers, Activate(w), creating' = creating
      PROVE  Minted'
  <2>1. /\ to' = to
        /\ \A u \in Versions :
             /\ dek[u] # "ABSENT" => dek'[u] # "ABSENT"
             /\ dek[u] = "PENDING" /\ u # to[run[w].r] => dek'[u] = "PENDING"
    BY <1>3 DEF Activate, rows
  <2>2. \A q \in Rotations : creating[q] = "count" =>
          to[q] \in Versions /\ to[q] # to[run[w].r]
    <3>1. run[w].r \in Rotations /\ creating[run[w].r] # "count"
      BY <1>3, AtWork DEF Activate, Unborn
    <3> QED
      BY <3>1 DEF Minted, Created, TypeOK
  <2> QED
    BY <1>3, <2>1, <2>2, VersionsType DEF Minted, TypeOK
<1> QED
  BY <1>1, <1>2, <1>3, VersionSteps

LEMMA NotBegunStays ==
  ASSUME TypeOK, NEW q \in Rotations, NotBegun(q), Untouched(q),
         \A w \in Workers : \/ run'[w] = run[w]
                            \/ run'[w].pc = "idle"
                            \/ run'[w].r # q
  PROVE  NotBegun(q)'
BY DEF NotBegun, Untouched

LEMMA NextCreated ==
  ASSUME TypeOK, JobsOK, Created, [Next]_vars
  PROVE  Created'
<1> USE DEF rows, callers, history
<1>1. ASSUME NEW r \in Rotations, CallerStep(r)
      PROVE  Created'
  <2>1. run' = run /\ \A q \in Rotations \ {r} : Untouched(q)
    BY <1>1, CallerActs
  <2>2. \A q \in Rotations \ {r} :
          /\ creating'[q] \in Unborn => NotBegun(q)'
          /\ creating'[q] = "idle" <=> to'[q] = 0
    BY <2>1, NotBegunStays DEF Created, Untouched
  <2>3. /\ creating'[r] \in Unborn => NotBegun(r)'
        /\ creating'[r] = "idle" <=> to'[r] = 0
    <3>1. CASE Mint(r)
      <4>1. creating[r] = "idle" /\ creating'[r] = "count" /\ to'[r] \in Versions
        BY <3>1 DEF Mint, TypeOK
      <4>2. NotBegun(r)'
        BY <2>1, <3>1, <4>1 DEF Created, NotBegun, Mint, Unborn
      <4> QED
        BY <4>1, <4>2 DEF Versions
    <3>2. CASE CreateRow(r) \/ Enqueue(r) \/ CreateDies(r)
      <4>1. /\ creating'[r] \in {"enqueue", "over"} /\ to'[r] = to[r]
            /\ creating[r] # "idle"
        BY <3>2 DEF CreateRow, Enqueue, CreateDies, TypeOK
      <4> QED
        BY <4>1 DEF Created, Unborn
    <3>4. CASE CountRows(r)
      <4>1. /\ creating[r] = "count" /\ creating'[r] = "create"
            /\ UNCHANGED <<to, st, ckpt, late, job>>
        BY <3>4 DEF CountRows, TypeOK
      <4> QED
        BY <2>1, <4>1 DEF Created, NotBegun, Unborn
    <3>3. CASE \/ CancelRead(r) \/ CancelUpdate(r) \/ CancelGetJob(r)
               \/ CancelRemove(r) \/ CancelReread(r) \/ CancelFails(r)
               \/ Queue(r) \/ FalseStall(r)
      <4>1. UNCHANGED <<creating, to, ckpt, late>>
        BY <3>3 DEF CancelRead, CancelUpdate, CancelGetJob, CancelRemove,
                    CancelReread, CancelFails, Queue, FalseStall
      <4>2. st[r] = "NONE" => st'[r] = "NONE"
        BY <3>3 DEF CancelRead, CancelUpdate, CancelGetJob, CancelRemove,
                    CancelReread, CancelFails, Queue, FalseStall, Cancellable
      <4>3. job[r].state = "none" => job'[r].state = "none"
        BY <3>3 DEF CancelRead, CancelUpdate, CancelGetJob, CancelRemove,
                    CancelReread, CancelFails, Queue, FalseStall, Promote, Stalled, Remove,
                    NoJob, JobsOK, JobOK, TypeOK, QueueTypeOK
      <4> QED
        BY <2>1, <4>1, <4>2, <4>3 DEF Created, NotBegun
    <3> QED
      BY <1>1, <3>1, <3>2, <3>3, <3>4 DEF CallerStep, Continue
  <2> QED
    BY <2>2, <2>3 DEF Created
<1>2. ASSUME NEW w \in Workers, WorkerStep(w)
      PROVE  Created'
  <2>1. \E r \in Rotations :
          /\ creating[r] \notin Unborn
          /\ UNCHANGED <<creating, to>>
          /\ \A q \in Rotations \ {r} : Untouched(q)
          /\ run'[w].pc = "idle" \/ run'[w].r = r
          /\ \A v \in Workers \ {w} : run'[v] = run[v]
    <3>1. CASE run[w].pc = "idle"
      <4>1. PICK r \in Rotations :
              /\ run'[w] = [Idle EXCEPT !.pc = "load", !.r = r]
              /\ \A q \in Rotations \ {r} : Untouched(q)
              /\ job[r].state = "waiting"
        BY <1>2, <3>1, TakeActs
      <4>2. creating[r] \notin Unborn /\ run'[w].r = r
        BY <4>1 DEF Created, NotBegun, Idle
      <4> QED
        BY <1>2, <3>1, <4>1, <4>2, TakeActs DEF TakeJob
    <3>2. CASE run[w].pc # "idle"
      <4>1. UNCHANGED <<creating, to>>
        <5>1. CASE Migrate(w) \/ MigrateUnlucky(w)
          BY <5>1, MigrateCommits DEF Commits
        <5>2. CASE ~(Migrate(w) \/ MigrateUnlucky(w))
          BY <1>2, <5>2 DEF WorkerStep, Work, TakeJob, Load, GetLock, Locked, Check,
             Report, Mark, Complete, MarkFailed, Fetch, Activate, Release, SettleJob,
             Fail, Crash, LeakLock, LoseSession
        <5> QED
          BY <5>1, <5>2
      <4> QED
        BY <1>2, <3>2, <4>1, AtWork, WorkerActs
    <3> QED
      BY <3>1, <3>2
  <2>2. PICK r \in Rotations :
          /\ creating[r] \notin Unborn
          /\ UNCHANGED <<creating, to>>
          /\ \A q \in Rotations \ {r} : Untouched(q)
          /\ run'[w].pc = "idle" \/ run'[w].r = r
          /\ \A v \in Workers \ {w} : run'[v] = run[v]
    BY <2>1
  <2>3. \A q \in Rotations \ {r} : NotBegun(q) => NotBegun(q)'
    BY <2>2, NotBegunStays
  <2> QED
    BY <2>2, <2>3 DEF Created
<1>3. ASSUME NEW t \in Targets,
             PoolDrops(t) \/ Insert(t) \/ \E i \in Ids : AppWrite(t, i)
      PROVE  Created'
  BY <1>3 DEF PoolDrops, Insert, AppWrite, Created, NotBegun
<1>4. CASE UNCHANGED vars
  BY <1>4 DEF vars, Created, NotBegun
<1> QED
  BY <1>1, <1>2, <1>3, <1>4, NextCases

-----------------------------------------------------------------------------
(* Sessions is kept: every step of a worker either takes the lock of its   *)
(* target, or leaves the part of _processJob that holds it and lets go, or *)
(* loses the lock or leaves it behind, or does neither.                    *)

LEMMA WorkerLocks ==
  ASSUME TypeOK, Created, NEW w \in Workers, WorkerStep(w)
  PROVE  /\ \A v \in Workers \ {w} : run'[v] = run[v]
         /\ unguarded \subseteq unguarded'
         /\ \/ UNCHANGED locks /\ ~Held(run[w]) /\ ~Held(run'[w])
            \/ /\ UNCHANGED locks /\ Held(run[w]) /\ Held(run'[w])
               /\ run'[w].r = run[w].r
            \/ GetLock(w) /\ At(w, "mark")
            \/ run[w].pc = "release" /\ LetGo(w) /\ ~Held(run'[w])
            \/ LeakLock(w) /\ ~Held(run'[w])
            \/ LoseSession(w) /\ run' = run
            \/ Crash(w) /\ ~Held(run'[w])
<1> USE DEF Held, LockedPCs, TryPCs, history
<1>1. CASE TakeJob(w)
  BY <1>1, TakeActs DEF TakeJob, Idle
<1>2. CASE Load(w) \/ Locked(w)
  <2>1. At(w, "settle") \/ At(w, "lock")
    BY <1>2, GoFrame, LeaveFrame DEF Load, Locked
  <2> QED
    BY <1>2, <2>1 DEF Load, Locked, At
<1>3. CASE GetLock(w)
  BY <1>3, GoToFrame DEF GetLock, At
<1>4. CASE Check(w) \/ Report(w)
  <2>1. At(w, "release") \/ At(w, "fail") \/ At(w, "fetch")
    BY <1>4, LeaveWithReportFrame, GoToFrame DEF Check, Report
  <2> QED
    BY <1>4, <2>1 DEF Check, Report, At
<1>5. CASE Mark(w) \/ Complete(w) \/ MarkFailed(w) \/ Activate(w)
  <2>1. At(w, "check") \/ At(w, "activate") \/ At(w, "release") \/ At(w, "report")
    BY <1>5, GoToFrame, LeaveFrame DEF Mark, Complete, MarkFailed, Activate
  <2> QED
    BY <1>5, <2>1 DEF Mark, Complete, MarkFailed, Overwrite, Activate, At
<1>6. CASE Fetch(w)
  <2>1. At(w, "complete") \/ At(w, "migrate")
    BY <1>6, GoToFrame, GoFrame DEF Fetch
  <2> QED
    BY <1>6, <2>1 DEF Fetch, At
<1>7. CASE Migrate(w) \/ MigrateUnlucky(w)
  <2>1. At(w, "check") \/ At(w, "fail")
    BY <1>7, MigrateCommits, GoFrame, LeaveFrame DEF Commits
  <2> QED
    BY <1>7, <2>1, MigrateCommits DEF Commits, At
<1>8. CASE Release(w)
  BY <1>8, LeaveFrame DEF Release, At
<1>9. CASE SettleJob(w) \/ Crash(w)
  <2>1. /\ \A v \in Workers \ {w} : run'[v] = run[v]
        /\ run'[w].pc = "idle"
    <3>1. Frame(w, Idle)
      BY <1>9, IdleFrame DEF SettleJob, Crash
    <3>2. Idle.pc = "idle"
      BY DEF Idle
    <3> QED
      BY <3>1, <3>2 DEF Frame
  <2> QED
    BY <1>9, <2>1 DEF SettleJob, Crash
<1>10. CASE Fail(w)
  <2>1. \/ run[w].pc \in TryPCs /\ At(w, "fail") /\ UNCHANGED locks
        \/ run[w].pc = "fail" /\ At(w, "release") /\ UNCHANGED locks
        \/ run[w].pc \in {"load", "lock"} /\ At(w, "settle") /\ UNCHANGED locks
        \/ run[w].pc = "release" /\ At(w, "settle") /\ LetGo(w)
    BY <1>10, LeaveFrame DEF Fail
  <2>2. unguarded' = unguarded
    BY <1>10 DEF Fail
  <2> QED
    BY <2>1, <2>2 DEF At
<1>11. CASE LeakLock(w)
  BY <1>11, LeaveFrame DEF LeakLock, At
<1>12. CASE LoseSession(w)
  BY <1>12 DEF LoseSession
<1> QED
  BY <1>1, <1>2, <1>3, <1>4, <1>5, <1>6, <1>7, <1>8, <1>9, <1>10, <1>11, <1>12
     DEF WorkerStep, Work

\* What Sessions says, of locks and frames alone.
Guarded(lk, lkd, lst, fr) ==
  /\ \A v \in Workers \ lst : Held(fr[v]) => lk[TargetOf[fr[v].r]] = v
  /\ \A t \in Targets \ lkd : lk[t] # NoWorker =>
       /\ lk[t] \in Workers \ lst
       /\ Held(fr[lk[t]]) /\ TargetOf[fr[lk[t]].r] = t
  /\ \A v \in lst : Held(fr[v])

LEMMA SessionsGuarded ==
  ASSUME TypeOK
  PROVE  Sessions <=> /\ Guarded(lock, leaked, lost, run)
                      /\ \A v \in lost : run[v].r \in unguarded
BY DEF TypeOK, Sessions, LockedWhileAtWork, WorksOn, Guarded, Held

LEMMA WorkerGuarded ==
  ASSUME TypeOK, Created, Guarded(lock, leaked, lost, run),
         NEW w \in Workers, WorkerStep(w)
  PROVE  Guarded(lock', leaked', lost', run')
<1>1. /\ run[w].r \in Rotations /\ TargetOf[run[w].r] \in Targets
      /\ \A v \in Workers : TargetOf[run[v].r] \in Targets
      /\ \A v \in Workers \ {w} : run'[v] = run[v]
      /\ lost \subseteq Workers
  BY FrameType, WorkerLocks DEF TypeOK
<1> DEFINE t == TargetOf[run[w].r]
<1>2. /\ \A v \in Workers \ lost : Held(run[v]) => lock[TargetOf[run[v].r]] = v
      /\ \A u \in Targets \ leaked : lock[u] # NoWorker =>
           /\ lock[u] \in Workers \ lost
           /\ Held(run[lock[u]]) /\ TargetOf[run[lock[u]].r] = u
      /\ \A v \in lost : Held(run[v])
  BY DEF Guarded
<1>3. SUFFICES
        /\ \A v \in Workers \ lost' : Held(run'[v]) => lock'[TargetOf[run'[v].r]] = v
        /\ \A u \in Targets \ leaked' : lock'[u] # NoWorker =>
             /\ lock'[u] \in Workers \ lost'
             /\ Held(run'[lock'[u]]) /\ TargetOf[run'[lock'[u]].r] = u
        /\ \A v \in lost' : Held(run'[v])
  BY DEF Guarded
<1>4. CASE UNCHANGED locks /\ ~Held(run[w]) /\ ~Held(run'[w])
  <2>1. UNCHANGED <<lock, leaked, lost>>
    BY <1>4 DEF locks
  <2> QED
    BY <1>1, <1>2, <1>4, <2>1
<1>5. CASE /\ UNCHANGED locks /\ Held(run[w]) /\ Held(run'[w])
           /\ run'[w].r = run[w].r
  <2>1. UNCHANGED <<lock, leaked, lost>>
    BY <1>5 DEF locks
  <2> QED
    BY <1>1, <1>2, <1>5, <2>1
<1>6. CASE GetLock(w) /\ At(w, "mark")
  <2>1. /\ lock[t] \in {NoWorker, w}
        /\ \A u \in Targets : lock'[u] = IF u = t THEN w ELSE lock[u]
        /\ UNCHANGED <<leaked, lost>>
    BY <1>1, <1>6 DEF GetLock, Free, TypeOK
  <2>2. ~Held(run[w]) /\ Held(run'[w]) /\ run'[w].r = run[w].r
    BY <1>6 DEF GetLock, At, Held, LockedPCs, TryPCs
  <2>3. w \notin lost
    BY <1>2, <2>2
  <2> QED
    BY <1>1, <1>2, <2>1, <2>2, <2>3, NoWorkerAssumption
<1>7. CASE run[w].pc = "release" /\ LetGo(w) /\ ~Held(run'[w])
  <2>1. leaked' = leaked /\ lost' = lost \ {w}
    BY <1>7 DEF LetGo
  <2>2. CASE w \in lost \/ t \in leaked
    <3>1. lock' = lock
      BY <1>7, <2>2 DEF LetGo, Unlocked
    <3>2. \A u \in Targets \ leaked : lock[u] # w
      BY <1>2, <2>2, NoWorkerAssumption
    <3> QED
      BY <1>1, <1>2, <1>7, <2>1, <3>1, <3>2
  <2>3. CASE ~(w \in lost \/ t \in leaked)
    <3>1. \A u \in Targets : lock'[u] = IF u = t THEN NoWorker ELSE lock[u]
      BY <1>7, <2>3 DEF LetGo, Unlocked, TypeOK
    <3>2. lock[t] = w
      BY <1>2, <1>7, <2>3 DEF Held, LockedPCs
    <3> QED
      BY <1>1, <1>2, <1>7, <2>1, <2>3, <3>1, <3>2
  <2> QED
    BY <2>2, <2>3
<1>8. CASE LeakLock(w) /\ ~Held(run'[w])
  <2>1. /\ \A u \in Targets : lock'[u] = IF u = t THEN w ELSE lock[u]
        /\ leaked' = leaked \cup {t} /\ lost' = lost
    BY <1>8 DEF LeakLock, TypeOK
  <2>2. w \notin lost
    BY <1>2, <1>8 DEF LeakLock, Held, LockedPCs, TryPCs
  <2>3. lock[t] \in {NoWorker, w}
    BY <1>2, <1>8, <2>2 DEF LeakLock, Free, Held, LockedPCs
  <2> QED
    BY <1>1, <1>2, <1>8, <2>1, <2>2, <2>3, NoWorkerAssumption
<1>9. CASE LoseSession(w) /\ run' = run
  <2>1. /\ \A u \in Targets : lock'[u] = IF u = t THEN NoWorker ELSE lock[u]
        /\ leaked' = leaked \ {t} /\ lost' = lost \cup {w}
        /\ Held(run[w]) /\ w \notin lost
    BY <1>9 DEF LoseSession, Held, TypeOK
  <2>2. lock[t] = w
    BY <1>2, <2>1
  <2> QED
    BY <1>1, <1>2, <1>9, <2>1, <2>2
<1>10. CASE Crash(w) /\ ~Held(run'[w])
  <2>1. /\ \A u \in Targets : lock'[u] = IF lock[u] = w THEN NoWorker ELSE lock[u]
        /\ leaked' = {u \in leaked : lock[u] # w} /\ lost' = lost \ {w}
    BY <1>10 DEF Crash
  <2> QED
    BY <1>1, <1>2, <1>10, <2>1
<1> QED
  BY <1>4, <1>5, <1>6, <1>7, <1>8, <1>9, <1>10, WorkerLocks

LEMMA NextSessions ==
  ASSUME TypeOK, TypeOK', Created, Sessions, [Next]_vars
  PROVE  Sessions'
<1>0. /\ Guarded(lock, leaked, lost, run)
      /\ \A v \in lost : run[v].r \in unguarded
  BY SessionsGuarded
<1>1. SUFFICES /\ Guarded(lock', leaked', lost', run')
               /\ \A v \in lost' : run'[v].r \in unguarded'
  <2>1. Sessions' <=> /\ Guarded(lock', leaked', lost', run')
                      /\ \A v \in lost' : run'[v].r \in unguarded'
    BY DEF TypeOK, Sessions, LockedWhileAtWork, WorksOn, Guarded, Held
  <2> QED
    BY <2>1
<1>2. CASE UNCHANGED <<run, lock, leaked, lost, unguarded>>
  BY <1>0, <1>2
<1>3. ASSUME NEW w \in Workers, WorkerStep(w)
      PROVE  /\ Guarded(lock', leaked', lost', run')
             /\ \A v \in lost' : run'[v].r \in unguarded'
  <2>1. Guarded(lock', leaked', lost', run')
    BY <1>0, <1>3, WorkerGuarded
  <2>2. /\ \A v \in Workers \ {w} : run'[v] = run[v]
        /\ unguarded \subseteq unguarded'
        /\ lost \subseteq Workers
    BY <1>3, WorkerLocks DEF TypeOK
  <2>3. ASSUME NEW v \in lost'
        PROVE  run'[v].r \in unguarded'
    <3>1. CASE /\ UNCHANGED locks /\ Held(run[w]) /\ Held(run'[w])
               /\ run'[w].r = run[w].r
      BY <1>0, <2>2, <2>3, <3>1 DEF locks
    <3>2. CASE UNCHANGED locks /\ ~Held(run[w]) /\ ~Held(run'[w])
      BY <1>0, <2>2, <2>3, <3>2 DEF locks, Guarded
    <3>3. CASE GetLock(w) /\ At(w, "mark")
      BY <1>0, <2>2, <2>3, <3>3 DEF GetLock, At
    <3>4. CASE run[w].pc = "release" /\ LetGo(w)
      BY <1>0, <2>2, <2>3, <3>4 DEF LetGo
    <3>5. CASE LeakLock(w)
      BY <1>0, <2>2, <2>3, <3>5 DEF LeakLock, Guarded, Held, LockedPCs, TryPCs
    <3>6. CASE LoseSession(w) /\ run' = run
      BY <1>0, <2>2, <2>3, <3>6 DEF LoseSession
    <3>7. CASE Crash(w)
      BY <1>0, <2>2, <2>3, <3>7 DEF Crash
    <3> QED
      BY <1>3, <3>1, <3>2, <3>3, <3>4, <3>5, <3>6, <3>7, WorkerLocks
  <2> QED
    BY <2>1, <2>3
<1>4. ASSUME NEW r \in Rotations, CallerStep(r)
      PROVE  UNCHANGED <<run, lock, leaked, lost, unguarded>>
  <2>1. run' = run
    BY <1>4, CallerActs
  <2>2. UNCHANGED <<lock, leaked, lost, unguarded>>
    BY <1>4 DEF CallerStep, Continue, Mint, CancelRead, CountRows, CreateRow,
       CreateDies, CancelFails, CancelUpdate, CancelGetJob, Enqueue, CancelRemove,
       CancelReread, Queue, FalseStall, locks, history
  <2> QED
    BY <2>1, <2>2
<1>5. ASSUME NEW t \in Targets, Insert(t) \/ \E i \in Ids : AppWrite(t, i)
      PROVE  UNCHANGED <<run, lock, leaked, lost, unguarded>>
  BY <1>5 DEF Insert, AppWrite, locks, history
<1>6. ASSUME NEW t \in Targets, PoolDrops(t)
      PROVE  /\ Guarded(lock', leaked', lost', run')
             /\ \A v \in lost' : run'[v].r \in unguarded'
  <2>1. /\ \A u \in Targets : lock'[u] = IF u = t THEN NoWorker ELSE lock[u]
        /\ leaked' = leaked \ {t}
        /\ UNCHANGED <<run, lost, unguarded>>
        /\ ~(Held(run[lock[t]]) /\ TargetOf[run[lock[t]].r] = t)
    BY <1>6 DEF PoolDrops, WorksOn, Held, TypeOK, history
  <2> QED
    BY <1>0, <2>1, FrameType DEF Guarded
<1> QED
  BY <1>2, <1>3, <1>4, <1>5, <1>6, NextCases DEF vars, locks, history

-----------------------------------------------------------------------------
(* CountsOK is kept.  Where a step of a worker leaves its frame:           *)

\* From the first look at the row on, a frame goes on from its checkpoint.
Counting == {"lock"} \cup TryPCs

Left(w) == run'[w].at = NoCheckpoint /\ run'[w].pc \notin Counting
Begun(w) == /\ run'[w].pc = "lock" /\ run'[w].r = run[w].r
            /\ run'[w].at = ckpt[run[w].r]
Kept(w) == /\ run'[w].r = run[w].r /\ run'[w].at = run[w].at
           /\ run'[w].pc \notin {"idle", "migrate", "complete"}
           /\ run'[w].pc \in Counting => run[w].pc \in Counting
           /\ run'[w].pc = "activate" => run[w].pc = "complete"
           /\ run'[w].pc = "fetch" => st[run[w].r] # "CANCELLED"
BatchOf(w) ==
  LET t == TargetOf[run[w].r] IN
  {[id |-> i, ver |-> records[t][i].ver, plain |-> records[t][i].plain] :
     i \in (1..size[t]) \cap Page(run[w].at.last)}
GotBatch(w) == /\ run[w].pc = "fetch" /\ BatchOf(w) # {}
               /\ run'[w].pc = "migrate" /\ run'[w].r = run[w].r
               /\ run'[w].at = run[w].at /\ run'[w].batch = BatchOf(w)
GotNone(w) == /\ run[w].pc = "fetch" /\ BatchOf(w) = {}
              /\ run'[w].pc = "complete" /\ run'[w].r = run[w].r
              /\ run'[w].at = run[w].at

Matters == <<data, to, total, ckpt, missed, overtaken, late>>

LEMMA LeaveLeft ==
  ASSUME TypeOK, NEW w \in Workers, NEW pc, pc \notin Counting, NEW ok,
         Leave(w, pc, ok)
  PROVE  Left(w)
<1>1. At(w, pc) /\ run'[w].at = NoCheckpoint
  BY LeaveFrame
<1> QED
  BY <1>1 DEF At, Left

LEMMA GoToKept ==
  ASSUME TypeOK, NEW w \in Workers, NEW pc,
         pc \notin {"idle", "migrate", "complete"},
         pc \in Counting => run[w].pc \in Counting,
         pc = "activate" => run[w].pc = "complete",
         pc = "fetch" => st[run[w].r] # "CANCELLED", GoTo(w, pc)
  PROVE  Kept(w)
<1>1. At(w, pc) /\ run'[w].at = run[w].at
  BY GoToFrame
<1> QED
  BY <1>1 DEF At, Kept

LEMMA WorkerFrames ==
  ASSUME TypeOK, Created, NEW w \in Workers, WorkerStep(w),
         ~(Migrate(w) \/ MigrateUnlucky(w))
  PROVE  /\ UNCHANGED Matters
         /\ \/ Left(w) \/ Begun(w) \/ Kept(w) \/ GotBatch(w) \/ GotNone(w)
            \/ run' = run
<1>1. UNCHANGED Matters
  BY DEF WorkerStep, Work, TakeJob, Load, GetLock, Locked, Check, Report, Mark,
         Complete, MarkFailed, Overwrite, Fetch, Activate, Release, SettleJob, Fail,
         Crash, LeakLock, LoseSession, Matters, rows, history
<1>0. SUFFICES \/ Left(w) \/ Begun(w) \/ Kept(w) \/ GotBatch(w) \/ GotNone(w)
               \/ run' = run
  BY <1>1
<1>2. CASE TakeJob(w)
  <2>1. PICK r \in Rotations : run'[w] = [Idle EXCEPT !.pc = "load", !.r = r]
    BY <1>2, TakeActs DEF TakeJob
  <2>2. run'[w].pc = "load" /\ run'[w].at = NoCheckpoint
    BY <2>1 DEF Idle
  <2> QED
    BY <2>2 DEF Left, Counting, TryPCs
<1>3. CASE Load(w)
  <2>1. CASE st[run[w].r] = "CANCELLED"
    BY <1>3, <2>1, LeaveLeft DEF Load, Counting, TryPCs
  <2>2. CASE st[run[w].r] # "CANCELLED"
    <3>1. Go(w, "lock", st[run[w].r], ckpt[run[w].r], {}, TRUE)
      BY <1>3, <2>2 DEF Load, Resume
    <3> QED
      <4>1. Frame(w, [pc |-> "lock", r |-> run[w].r, seen |-> st[run[w].r],
                      at |-> ckpt[run[w].r], batch |-> {}, ok |-> TRUE])
        BY <3>1, GoFrame
      <4> QED
        BY <4>1 DEF Frame, Begun
  <2> QED
    BY <2>1, <2>2
<1>4. CASE GetLock(w)
  BY <1>4, GoToKept DEF GetLock, Counting, TryPCs
<1>5. CASE Locked(w) \/ MarkFailed(w) \/ Release(w) \/ LeakLock(w)
  BY <1>5, LeaveLeft DEF Locked, MarkFailed, Release, LeakLock, Counting, TryPCs
<1>6. CASE Check(w) \/ Report(w)
  <2>1. CASE LeaveWithReport(w)
    BY <2>1, LeaveLeft DEF LeaveWithReport, Counting, TryPCs
  <2>2. CASE st[run[w].r] # "CANCELLED" /\ GoTo(w, "fetch")
    BY <1>6, <2>2, GoToKept DEF Check, Report, Counting, TryPCs
  <2> QED
    BY <1>6, <2>1, <2>2 DEF Check, Report
<1>7. CASE Mark(w) \/ Complete(w) \/ Activate(w)
  BY <1>7, GoToKept DEF Mark, Complete, Activate, Counting, TryPCs
<1>8. CASE Fetch(w)
  <2>1. CASE BatchOf(w) = {}
    <3>1. run[w].pc = "fetch" /\ GoTo(w, "complete")
      BY <1>8, <2>1 DEF Fetch, IsLast, BatchOf
    <3>2. At(w, "complete") /\ run'[w].at = run[w].at
      BY <3>1, GoToFrame
    <3> QED
      BY <2>1, <3>1, <3>2 DEF At, GotNone
  <2>2. CASE BatchOf(w) # {}
    <3>1. Go(w, "migrate", run[w].seen, run[w].at, BatchOf(w), TRUE)
      BY <1>8, <2>2 DEF Fetch, IsLast, BatchOf
    <3>2. Frame(w, [pc |-> "migrate", r |-> run[w].r, seen |-> run[w].seen,
                    at |-> run[w].at, batch |-> BatchOf(w), ok |-> TRUE])
      BY <3>1, GoFrame
    <3> QED
      <4>1. run[w].pc = "fetch"
        BY <1>8 DEF Fetch
      <4> QED
        BY <2>2, <3>2, <4>1 DEF Frame, GotBatch
  <2> QED
    BY <2>1, <2>2
<1>9. CASE SettleJob(w) \/ Crash(w)
  <2>1. Frame(w, Idle)
    BY <1>9, IdleFrame DEF SettleJob, Crash
  <2>2. Idle.pc = "idle" /\ Idle.at = NoCheckpoint
    BY DEF Idle
  <2> QED
    BY <2>1, <2>2 DEF Frame, Left, Counting, TryPCs
<1>10. CASE Fail(w)
  <2>1. Leave(w, "fail", FALSE) \/ Leave(w, "release", FALSE) \/ Leave(w, "settle", FALSE)
    BY <1>10 DEF Fail
  <2> QED
    BY <2>1, LeaveLeft DEF Counting, TryPCs
<1>11. CASE LoseSession(w)
  BY <1>11 DEF LoseSession
<1> QED
  BY <1>1, <1>2, <1>3, <1>4, <1>5, <1>6, <1>7, <1>8, <1>9, <1>10, <1>11
     DEF WorkerStep, Work

LEMMA CommitFrame ==
  ASSUME TypeOK, NEW w \in Workers, NEW bad, Commits(w, bad)
  PROVE  /\ \/ Left(w)
            \/ /\ run'[w].at = Counted(run[w].at, run[w].batch, bad)
               /\ run'[w].pc = "check"
         /\ run'[w].r = run[w].r
<1>1. CASE Leave(w, "fail", FALSE)
  <2>1. Left(w) /\ At(w, "fail")
    BY <1>1, LeaveLeft, LeaveFrame DEF Counting, TryPCs
  <2> QED
    BY <2>1 DEF At
<1>2. CASE Go(w, "check", run[w].seen, Counted(run[w].at, run[w].batch, bad), {}, TRUE)
  <2>1. Frame(w, [pc |-> "check", r |-> run[w].r, seen |-> run[w].seen,
                  at |-> Counted(run[w].at, run[w].batch, bad), batch |-> {},
                  ok |-> TRUE])
    BY <1>2, GoFrame
  <2> QED
    BY <2>1 DEF Frame
<1> QED
  BY <1>1, <1>2 DEF Commits

LEMMA NoCounts == Counts(NoCheckpoint)
BY DEF NoCheckpoint, Counts

\* The page after a checkpoint is empty only at the end.
LEMMA EmptyPage ==
  ASSUME NEW last \in 0..MaxRecords, NEW n \in 0..MaxRecords,
         (1..n) \cap Page(last) = {}
  PROVE  n <= last
<1>1. last < n => last + 1 \in (1..n) \cap Page(last)
  BY SizesAssumption DEF Page
<1> QED
  BY <1>1, SizesAssumption

LEMMA BatchFetched ==
  ASSUME TypeOK, NEW w \in Workers, BatchOf(w) # {}
  PROVE  Fetched(BatchOf(w), run[w].at.last, SizeOf(run[w].r))
<1> DEFINE last == run[w].at.last
           n == SizeOf(run[w].r)
           m == IF last + BatchSize <= n THEN last + BatchSize ELSE n
<1>1. last \in 0..MaxRecords /\ n \in 0..MaxRecords
  BY FrameType DEF Checkpoints, SizeOf, TypeOK
<1>2. IdsOf(BatchOf(w)) = (1..n) \cap Page(last)
  <2>1. \A e \in BatchOf(w) : e.id \in (1..n) \cap Page(last)
    BY DEF BatchOf, SizeOf
  <2>2. ASSUME NEW i \in (1..n) \cap Page(last)
        PROVE  \E e \in BatchOf(w) : e.id = i
    <3> DEFINE rec == RecordsOf(run[w].r)[i]
               e == [id |-> i, ver |-> rec.ver, plain |-> rec.plain]
    <3>1. e \in BatchOf(w) /\ e.id = i
      BY DEF BatchOf, RecordsOf, SizeOf
    <3> QED
      BY <3>1
  <2> QED
    BY <2>1, <2>2 DEF IdsOf
<1>3. \A d, e \in BatchOf(w) : d.id = e.id => d = e
  BY DEF BatchOf
<1> HIDE DEF last, n
<1>4. (1..n) \cap Page(last) = last + 1..m
  BY <1>1, SizesAssumption DEF Page
<1>5. last + 1..m # {}
  BY <1>2, <1>4 DEF IdsOf
<1>6. m \in Ids /\ last < m /\ m <= n
  BY <1>1, <1>5, SizesAssumption DEF Ids
<1> HIDE DEF m
<1> QED
  BY <1>2, <1>3, <1>4, <1>6 DEF Fetched, last, n

\* More records may have come since.
LEMMA FrameCountsGrow ==
  ASSUME NEW f \in Frames, NEW n \in Nat, NEW n2 \in Nat, n <= n2, NEW counted,
         FrameCounts(f, n, counted)
  PROVE  FrameCounts(f, n2, counted)
<1>1. f.at.last \in Int
  BY SizesAssumption DEF Frames, Checkpoints
<1>2. f.at.last <= n2
  BY <1>1 DEF FrameCounts
<1>3. f.pc = "migrate" => Fetched(f.batch, f.at.last, n2)
  <2>1. ASSUME NEW m \in Ids, m <= n
        PROVE  m <= n2
    BY <2>1, SizesAssumption DEF Ids
  <2> QED
    BY <2>1 DEF FrameCounts, Fetched
<1> QED
  BY <1>2, <1>3 DEF FrameCounts

LEMMA CommitCounts ==
  ASSUME TypeOK, Created, CountsOK, NEW w \in Workers,
         Migrate(w) \/ MigrateUnlucky(w)
  PROVE  CountsOK'
<1> DEFINE r == run[w].r
<1>1. /\ FrameCounts(run[w], SizeOf(r), total[r]) /\ run[w].pc = "migrate"
      /\ run[w].at \in Checkpoints /\ r \in Rotations
      /\ run[w].batch \in SUBSET BatchRecords
  BY FrameType, MigrateCommits DEF CountsOK
<1>2. PICK bad \in SUBSET run[w].batch : Commits(w, bad)
  BY MigrateCommits
<1>3. UNCHANGED <<size, total>>
  BY <1>2 DEF Commits
<1> DEFINE at == Counted(run[w].at, run[w].batch, bad)
<1>4. Counts(at) /\ at.last <= SizeOf(r)
  BY <1>1, CountedInv DEF FrameCounts
<1>5. \A q \in Rotations : ckpt'[q] = ckpt[q] \/ (q = r /\ ckpt'[q] = at)
  <2>1. ckpt' = [ckpt EXCEPT ![r] = at]
    BY <1>2 DEF Commits
  <2>2. ckpt \in [Rotations -> Checkpoints]
    BY DEF TypeOK
  <2> HIDE DEF at
  <2> QED
    BY <1>1, <2>1, <2>2
<1>6. NoCheckpoint.last <= SizeOf(r)
  BY <1>1, TargetOfAssumption, SizesAssumption DEF NoCheckpoint, SizeOf, TypeOK
<1>7. FrameCounts(run'[w], SizeOf(r), total[r]) /\ run'[w].r = r
  BY <1>2, <1>4, <1>6, CommitFrame, NoCounts DEF FrameCounts, Left, Counting, TryPCs
<1> HIDE DEF at
<1>8. \A v \in Workers \ {w} : run'[v] = run[v]
  BY WorkerLocks DEF WorkerStep, Work
<1> QED
  BY <1>3, <1>4, <1>5, <1>7, <1>8 DEF CountsOK, SizeOf

LEMMA WorkerCounts ==
  ASSUME TypeOK, TypeOK', Created, CountsOK, NEW w \in Workers, WorkerStep(w),
         ~(Migrate(w) \/ MigrateUnlucky(w))
  PROVE  CountsOK'
<1> DEFINE r == run[w].r
           n == SizeOf(run'[w].r)
           counted == total[run'[w].r]
<1>1. /\ FrameCounts(run[w], SizeOf(r), total[r]) /\ r \in Rotations
      /\ run[w].at \in Checkpoints
      /\ Counts(ckpt[r]) /\ ckpt[r].last <= SizeOf(r)
      /\ total[r] \in Int /\ SizeOf(r) \in 0..MaxRecords /\ total[r] <= SizeOf(r)
  BY FrameType, SizesAssumption DEF CountsOK, TypeOK, SizeOf
<1>2. /\ UNCHANGED <<ckpt, size, total>>
      /\ \/ Left(w) \/ Begun(w) \/ Kept(w) \/ GotBatch(w) \/ GotNone(w)
         \/ run' = run
  BY WorkerFrames DEF Matters, data
<1>3. \A v \in Workers \ {w} : run'[v] = run[v]
  BY WorkerLocks
<1>4. FrameCounts(run'[w], n, counted)
  <2>1. CASE Left(w)
    <3>1. n \in Nat
      <4>1. run'[w] \in Frames
        BY DEF TypeOK
      <4> QED
        BY <4>1, TargetOfAssumption, SizesAssumption DEF Frames, SizeOf, TypeOK
    <3>2. NoCheckpoint.last <= n
      BY <3>1 DEF NoCheckpoint
    <3> QED
      BY <2>1, <3>2, NoCounts DEF Left, Counting, TryPCs, FrameCounts
  <2>2. CASE Begun(w) \/ Kept(w)
    BY <1>1, <2>2 DEF Begun, Kept, FrameCounts
  <2>3. CASE GotBatch(w)
    BY <1>1, <2>3, BatchFetched DEF GotBatch, FrameCounts
  <2>4. CASE GotNone(w)
    <3>1. (1..SizeOf(r)) \cap Page(run[w].at.last) = {}
      BY <2>4 DEF GotNone, BatchOf, SizeOf
    <3>2. SizeOf(r) <= run[w].at.last /\ run[w].at.last \in Int
      BY <1>1, <3>1, EmptyPage DEF Checkpoints
    <3>3. total[r] <= run[w].at.last
      BY <1>1, <3>2
    <3> QED
      BY <1>1, <2>4, <3>3 DEF GotNone, FrameCounts
  <2>5. CASE run' = run
    BY <1>1, <2>5
  <2> QED
    BY <1>2, <2>1, <2>2, <2>3, <2>4, <2>5
<1> QED
  BY <1>2, <1>3, <1>4 DEF CountsOK, SizeOf

LEMMA CallerCounts ==
  ASSUME TypeOK, Created, CountsOK, NEW r \in Rotations, CallerStep(r)
  PROVE  CountsOK'
<1>1. UNCHANGED <<run, ckpt, size>> /\ (CountRows(r) \/ UNCHANGED total)
  <2>1. run' = run
    BY CallerActs
  <2>2. UNCHANGED <<ckpt, size>> /\ (CountRows(r) \/ UNCHANGED total)
    BY DEF CallerStep, Continue, Mint, CancelRead, CountRows, CreateRow, CreateDies,
       CancelFails, CancelUpdate, CancelGetJob, Enqueue, CancelRemove, CancelReread,
       Queue, FalseStall, rows, data
  <2> QED
    BY <2>1, <2>2
<1>2. CASE UNCHANGED total
  BY <1>1, <1>2 DEF CountsOK, SizeOf
<1>3. CASE CountRows(r)
  <2>1. /\ total'[r] = SizeOf(r) /\ SizeOf(r) \in Int
        /\ \A q \in Rotations \ {r} : total'[q] = total[q]
    <3>1. SizeOf(r) \in Int
      BY TargetOfAssumption, SizesAssumption DEF SizeOf, TypeOK
    <3>2. total' = [total EXCEPT ![r] = SizeOf(r)]
      BY <1>3 DEF CountRows, SizeOf
    <3> QED
      BY <3>1, <3>2 DEF TypeOK
  <2>2. \A v \in Workers : run[v].r = r => run[v].pc = "idle"
    BY <1>3 DEF CountRows, Created, NotBegun, Unborn
  <2>3. ASSUME NEW v \in Workers
        PROVE  FrameCounts(run[v], SizeOf(run[v].r), total'[run[v].r])
    <3>1. FrameCounts(run[v], SizeOf(run[v].r), total[run[v].r])
          /\ run[v].r \in Rotations
      BY FrameType DEF CountsOK
    <3>2. CASE run[v].r = r
      BY <2>2, <3>1, <3>2 DEF FrameCounts
    <3>3. CASE run[v].r # r
      BY <2>1, <3>1, <3>3
    <3> QED
      BY <3>2, <3>3
  <2>4. \A q \in Rotations : total'[q] <= SizeOf(q)
    BY <2>1 DEF CountsOK
  <2> QED
    BY <1>1, <2>3, <2>4 DEF CountsOK, SizeOf
<1> QED
  BY <1>1, <1>2, <1>3

LEMMA InsertCounts ==
  ASSUME TypeOK, CountsOK, NEW t \in Targets, Insert(t)
  PROVE  CountsOK'
<1>1. UNCHANGED <<run, ckpt, total>>
  BY DEF Insert, rows
<1>2. \A q \in Rotations : /\ SizeOf(q) \in Nat /\ size'[TargetOf[q]] \in Nat
                           /\ SizeOf(q) <= size'[TargetOf[q]]
  BY TargetOfAssumption, SizesAssumption DEF Insert, SizeOf, TypeOK
<1>3. ASSUME NEW v \in Workers
      PROVE  FrameCounts(run[v], size'[TargetOf[run[v].r]], total[run[v].r])
  <2>1. run[v] \in Frames /\ run[v].r \in Rotations
    BY FrameType
  <2>2. FrameCounts(run[v], SizeOf(run[v].r), total[run[v].r])
    BY DEF CountsOK
  <2> QED
    BY <1>2, <2>1, <2>2, FrameCountsGrow
<1>4. ASSUME NEW q \in Rotations
      PROVE  ckpt[q].last <= size'[TargetOf[q]] /\ total[q] <= size'[TargetOf[q]]
  <2>1. ckpt[q].last \in Int /\ total[q] \in Int
    BY SizesAssumption DEF TypeOK, Checkpoints
  <2> QED
    BY <1>2, <2>1 DEF CountsOK
<1> QED
  BY <1>1, <1>3, <1>4 DEF CountsOK, SizeOf

LEMMA NextCounts ==
  ASSUME TypeOK, TypeOK', Created, CountsOK, [Next]_vars
  PROVE  CountsOK'
<1>1. CASE UNCHANGED <<run, ckpt, size, total>>
  BY <1>1 DEF CountsOK, SizeOf
<1>2. ASSUME NEW w \in Workers, WorkerStep(w)
      PROVE  CountsOK'
  BY <1>2, CommitCounts, WorkerCounts
<1>3. ASSUME NEW r \in Rotations, CallerStep(r)
      PROVE  CountsOK'
  BY <1>3, CallerCounts
<1>4. ASSUME NEW t \in Targets, PoolDrops(t) \/ \E i \in Ids : AppWrite(t, i)
      PROVE  UNCHANGED <<run, ckpt, size, total>>
  BY <1>4 DEF PoolDrops, AppWrite, rows, data
<1>5. ASSUME NEW t \in Targets, Insert(t)
      PROVE  CountsOK'
  BY <1>5, InsertCounts
<1> QED
  BY <1>1, <1>2, <1>3, <1>4, <1>5, NextCases DEF vars, rows, data

-----------------------------------------------------------------------------
(* What a checkpoint covers: facts of the data alone.                      *)

\* None of the first n records of recs is in recs2 further behind v.
NoFurther(recs, recs2, v, n) ==
  \A i \in 1..n : \/ recs2[i] = recs[i]
                   \/ ~(recs2[i].ver < v)
                   \/ recs2[i].plain = "rewritten"

LEMMA BehindShrinks ==
  ASSUME NEW recs, NEW recs2, NEW v, NEW n, NEW ids \in SUBSET (1..n),
         NoFurther(recs, recs2, v, n)
  PROVE  Behind(recs2, v, ids) \subseteq Behind(recs, v, ids)
BY DEF NoFurther, Behind

LEMMA BehindFinite ==
  ASSUME NEW recs, NEW v, NEW last \in 0..MaxRecords
  PROVE  /\ IsFiniteSet(Behind(recs, v, 1..last))
         /\ Cardinality(Behind(recs, v, 1..last)) \in Nat
         /\ 1..last \subseteq Ids
<1>1. last \in Int /\ 1..last \subseteq Ids
  BY SizesAssumption DEF Ids
<1>2. IsFiniteSet(1..last)
  BY <1>1, FS_Interval
<1>3. Behind(recs, v, 1..last) \subseteq 1..last
  BY DEF Behind
<1>4. IsFiniteSet(Behind(recs, v, 1..last))
  BY <1>2, <1>3, FS_Subset
<1> QED
  BY <1>1, <1>4, FS_CardinalityType

LEMMA CoveredStays ==
  ASSUME NEW recs, NEW recs2, NEW v, NEW given, NEW given2, NEW c \in Checkpoints,
         NEW n \in Nat, c.last <= n, NoFurther(recs, recs2, v, n), given \subseteq given2,
         Covered(recs, v, given, c)
  PROVE  Covered(recs2, v, given2, c)
<1> DEFINE old == Behind(recs, v, 1..c.last)
           new == Behind(recs2, v, 1..c.last)
<1>1. c.last \in 0..MaxRecords /\ c.failed \in Int
  BY SizesAssumption DEF Checkpoints
<1>2. /\ IsFiniteSet(old) /\ Cardinality(old) \in Nat
      /\ IsFiniteSet(new) /\ Cardinality(new) \in Nat
  BY <1>1, BehindFinite
<1>3. new \subseteq old
  <2>1. 1..c.last \subseteq 1..n
    BY <1>1, SizesAssumption
  <2> QED
    BY <2>1, BehindShrinks
<1>4. Cardinality(new) <= Cardinality(old)
  BY <1>2, <1>3, FS_Subset
<1>5. Cardinality(old) <= c.failed /\ old \subseteq given
  BY DEF Covered
<1> HIDE DEF old, new
<1>6. ASSUME NEW x \in Nat, NEW y \in Nat, x <= y, y <= c.failed
      PROVE  x <= c.failed
  BY <1>1, <1>6
<1>7. Cardinality(new) <= c.failed
  BY <1>2, <1>4, <1>5, <1>6, Zenon
<1>8. new \subseteq given2
  BY <1>3, <1>5
<1> QED
  BY <1>7, <1>8 DEF Covered, new

LEMMA FrameStays ==
  ASSUME NEW recs, NEW recs2, NEW v, NEW given, NEW given2, NEW f,
         f.at \in Checkpoints, NEW n \in Nat, NEW counted, FrameCounts(f, n, counted),
         NoFurther(recs, recs2, v, n), given \subseteq given2,
         FrameCovered(recs, v, given, f)
  PROVE  FrameCovered(recs2, v, given2, f)
<1>1. Covered(recs2, v, given2, f.at)
  BY CoveredStays DEF FrameCovered, FrameCounts
<1>2. ASSUME f.pc = "migrate"
      PROVE  Behind(recs2, v, IdsOf(f.batch)) \subseteq Behind(recs, v, IdsOf(f.batch))
  <2>1. f.at.last \in Nat
    BY SizesAssumption DEF Checkpoints
  <2>2. IdsOf(f.batch) \subseteq 1..n
    BY <1>2, <2>1, SizesAssumption DEF FrameCounts, Fetched, Ids
  <2> QED
    BY <2>2, BehindShrinks
<1> QED
  BY <1>1, <1>2 DEF FrameCovered, BatchCovered

\* Nothing is up to no checkpoint.
LEMMA NothingCovered ==
  ASSUME NEW recs, NEW v, NEW given
  PROVE  Covered(recs, v, given, NoCheckpoint)
<1>1. Behind(recs, v, 1..NoCheckpoint.last) = {}
  BY DEF Behind, NoCheckpoint
<1>2. Cardinality({}) = 0
  BY FS_EmptySet
<1>3. 0 <= NoCheckpoint.failed
  BY DEF NoCheckpoint
<1> QED
  BY <1>1, <1>2, <1>3 DEF Covered

\* The failed records are counted, at least once each.
LEMMA FailedCounted ==
  ASSUME NEW bad, IsFiniteSet(bad)
  PROVE  /\ IsFiniteSet(IdsOf(bad)) /\ Cardinality(IdsOf(bad)) \in Nat
         /\ Cardinality(IdsOf(bad)) <= Cardinality(bad)
<1> DEFINE g == [e \in bad |-> e.id]
<1>1. g \in Surjection(bad, IdsOf(bad))
  <2>1. g \in [bad -> IdsOf(bad)] /\ \A i \in IdsOf(bad) : \E e \in bad : g[e] = i
    BY DEF IdsOf
  <2> HIDE DEF g
  <2> QED
    BY <2>1 DEF Surjection
<1>2. IsFiniteSet(IdsOf(bad)) /\ Cardinality(IdsOf(bad)) <= Cardinality(bad)
  BY <1>1, FS_Surjection
<1> QED
  BY <1>2, FS_CardinalityType

\* A batch goes on with what the checkpoint covers: of its records only the
\* failed ones are left behind.
LEMMA CommitCovered ==
  ASSUME NEW recs, NEW recs2, NEW v, NEW given, NEW c \in Checkpoints,
         NEW batch \in SUBSET BatchRecords, NEW bad \in SUBSET batch,
         Counts(c), NEW n \in Nat, Fetched(batch, c.last, n),
         Covered(recs, v, given, c), BatchCovered(recs, v, batch),
         NoFurther(recs, recs2, v, n), v \in Nat,
         \A e \in batch \ bad : e.ver = v \/ recs2[e.id].ver = v
  PROVE  Covered(recs2, v, given \cup IdsOf(bad), Counted(c, batch, bad))
<1> DEFINE at == Counted(c, batch, bad)
           old == Behind(recs, v, 1..c.last)
           new == Behind(recs2, v, 1..at.last)
<1>1. /\ c.last \in 0..MaxRecords /\ c.failed \in Nat
      /\ at \in Checkpoints /\ at.last \in 0..MaxRecords /\ at.last <= n
      /\ IdsOf(batch) = c.last + 1..at.last
      /\ at.failed = c.failed + Cardinality(bad)
      /\ IsFiniteSet(bad) /\ Cardinality(bad) \in Nat
  <2>1. at \in Checkpoints
    BY CountedInv
  <2> HIDE DEF at
  <2>2. /\ c.last \in 0..MaxRecords /\ c.failed \in Nat /\ at.last \in 0..MaxRecords
    BY <2>1, SizesAssumption DEF Checkpoints
  <2> QED
    BY <2>1, <2>2, CountedInv DEF at
<1> HIDE DEF at
<1>2. ASSUME NEW i \in new
      PROVE  i \in old \cup IdsOf(bad)
  <2>1. /\ i \in 1..at.last /\ i \in 1..n
        /\ recs2[i].ver < v /\ recs2[i].plain # "rewritten"
    BY <1>1, SizesAssumption DEF Behind
  <2>2. recs[i].ver < v /\ recs[i].plain # "rewritten"
    BY <2>1 DEF NoFurther
  <2>3. CASE i \in 1..c.last
    BY <2>2, <2>3 DEF Behind
  <2>4. CASE i \notin 1..c.last
    <3>1. i \in IdsOf(batch)
      BY <1>1, <2>1, <2>4, SizesAssumption
    <3>2. PICK e \in batch : e.id = i
      BY <3>1 DEF IdsOf
    <3>3. ~(v < v)
      BY v \in Nat
    <3>4. e \in bad
      BY <2>1, <2>2, <3>1, <3>2, <3>3 DEF BatchCovered, Behind
    <3> QED
      BY <3>2, <3>4 DEF IdsOf
  <2> QED
    BY <2>3, <2>4
<1>3. /\ IsFiniteSet(old) /\ Cardinality(old) \in Nat
      /\ IsFiniteSet(new) /\ Cardinality(new) \in Nat
  BY <1>1, BehindFinite
<1>4. Cardinality(old) <= c.failed /\ old \subseteq given
  BY DEF Covered
<1> HIDE DEF old, new
<1>5. Cardinality(new) <= at.failed
  <2>1. /\ IsFiniteSet(IdsOf(bad)) /\ Cardinality(IdsOf(bad)) \in Nat
        /\ Cardinality(IdsOf(bad)) <= Cardinality(bad)
    BY <1>1, FailedCounted
  <2>2. /\ IsFiniteSet(old \cup IdsOf(bad))
        /\ Cardinality(old \cup IdsOf(bad)) =
             Cardinality(old) + Cardinality(IdsOf(bad))
               - Cardinality(old \cap IdsOf(bad))
    BY <1>3, <2>1, FS_Union
  <2>3. Cardinality(old \cap IdsOf(bad)) \in Nat
    BY <1>3, FS_Intersection, FS_CardinalityType
  <2>4. Cardinality(new) <= Cardinality(old \cup IdsOf(bad))
    BY <1>2, <2>2, FS_Subset
  <2>5. ASSUME NEW k \in Nat, NEW o \in Nat, NEW b \in Nat, NEW ids \in Nat,
               NEW both \in Nat, NEW all, all = o + ids - both, k <= all,
               o <= c.failed, ids <= b
        PROVE  k <= c.failed + b
    BY <1>1, <2>5
  <2>6. Cardinality(new) <= c.failed + Cardinality(bad)
    BY <1>1, <1>3, <1>4, <2>1, <2>2, <2>3, <2>4, <2>5, Zenon
  <2> QED
    BY <1>1, <2>6, Zenon
<1>6. new \subseteq given \cup IdsOf(bad)
  BY <1>2, <1>4
<1> QED
  BY <1>5, <1>6 DEF Covered, new, at

-----------------------------------------------------------------------------
(* Covers is kept.                                                         *)

\* What nearly every step does to the records of a rotation q.
Steady(q) == /\ to'[q] = to[q]
             /\ NoFurther(RecordsOf(q), RecordsOf(q)', to[q], SizeOf(q))
             /\ missed[q] \subseteq missed'[q]

LEMMA SizeType ==
  ASSUME TypeOK, NEW q \in Rotations
  PROVE  SizeOf(q) \in Nat /\ SizeOf(q) \in 0..MaxRecords /\ 1..SizeOf(q) \subseteq Ids
BY TargetOfAssumption, SizesAssumption DEF SizeOf, TypeOK, Ids

LEMMA SteadyFrame ==
  ASSUME TypeOK, CountsOK, NEW q \in Rotations, Steady(q), NEW v \in Workers,
         run[v].r = q,
         FrameCovered(RecordsOf(q), to[q], missed[q], run[v])
  PROVE  FrameCovered(RecordsOf(q)', to'[q], missed'[q], run[v])
<1>1. /\ run[v].at \in Checkpoints /\ SizeOf(q) \in Nat
      /\ FrameCounts(run[v], SizeOf(q), total[q])
  BY FrameType, SizeType DEF CountsOK
<1> QED
  BY <1>1, FrameStays DEF Steady

LEMMA SteadyCheckpoint ==
  ASSUME TypeOK, NEW q \in Rotations, Steady(q), NEW c \in Checkpoints,
         c.last <= SizeOf(q), Covered(RecordsOf(q), to[q], missed[q], c)
  PROVE  Covered(RecordsOf(q)', to'[q], missed'[q], c)
BY CoveredStays, SizeType DEF Steady

\* A commit beside which q is not overtaken takes none of its records back.
LEMMA CommitSteady ==
  ASSUME TypeOK, Created, NEW w \in Workers, NEW bad, Commits(w, bad),
         run[w].pc = "migrate", NEW q \in Rotations \ overtaken'
  PROVE  Steady(q) /\ q \notin overtaken
<1> DEFINE r == run[w].r
           t == TargetOf[r]
<1>0. r \in Rotations /\ t \in Targets /\ to[r] \in Nat /\ to[q] \in Nat
  <2>1. r \in Rotations /\ t \in Targets /\ to[r] \in Nat
    BY AtWork, FrameType, VersionsType
  <2>2. to[q] \in Nat
    <3>1. q \in Rotations /\ to[q] \in Versions \cup {0}
      BY DEF TypeOK
    <3>2. \A v \in Versions : v \in Nat
      BY VersionsType
    <3>3. CASE to[q] = 0
      BY <3>3
    <3>4. CASE to[q] \in Versions
      BY <3>2, <3>4
    <3> QED
      BY <3>1, <3>3, <3>4
  <2> QED
    BY <2>1, <2>2
<1>1. to'[q] = to[q] /\ q \notin overtaken
  BY DEF Commits
<1>2. missed[q] \subseteq missed'[q]
  BY <1>0 DEF Commits, TypeOK
<1>3. CASE TargetOf[q] # t
  BY <1>1, <1>2, <1>3, TargetOfAssumption DEF Commits, Steady, NoFurther, RecordsOf
<1>4. CASE TargetOf[q] = t
  <2>1. ~(to[q] > to[r])
    BY <1>4 DEF Commits
  <2>2. ~(to[r] < to[q])
    BY <1>0, <2>1
  <2>3. \A i \in Ids : records'[t][i] = records[t][i] \/ records'[t][i].ver = to[r]
    BY DEF Commits
  <2>4. NoFurther(RecordsOf(q), RecordsOf(q)', to[q], SizeOf(q))
    BY <1>4, <2>2, <2>3, SizeType DEF NoFurther, RecordsOf
  <2> QED
    BY <1>1, <1>2, <2>4 DEF Steady
<1> QED
  BY <1>3, <1>4

\* The checkpoint that the worker itself has just written.
LEMMA CommitCheckpoint ==
  ASSUME TypeOK, Created, CountsOK, NEW w \in Workers, run[w].pc = "migrate",
         NEW bad \in SUBSET run[w].batch, Commits(w, bad),
         NEW r \in Rotations, r = run[w].r, Steady(r),
         FrameCovered(RecordsOf(r), to[r], missed[r], run[w])
  PROVE  Covered(RecordsOf(r)', to'[r], missed'[r],
                 Counted(run[w].at, run[w].batch, bad))
<1>1. /\ to[r] \in Nat /\ run[w].at \in Checkpoints
      /\ run[w].batch \in SUBSET BatchRecords
  BY AtWork, FrameType, VersionsType
<1>2. /\ Counts(run[w].at) /\ SizeOf(r) \in Nat
      /\ Fetched(run[w].batch, run[w].at.last, SizeOf(r))
  BY SizeType DEF CountsOK, FrameCounts
<1>3. \A e \in run[w].batch \ bad : e.ver = to[r] \/ RecordsOf(r)'[e.id].ver = to[r]
  BY DEF Commits, RecordsOf
<1>4. /\ NoFurther(RecordsOf(r), RecordsOf(r)', to[r], SizeOf(r)) /\ to'[r] = to[r]
      /\ missed'[r] = missed[r] \cup IdsOf(bad)
  BY DEF Steady, Commits, TypeOK
<1>5. /\ Covered(RecordsOf(r), to[r], missed[r], run[w].at)
      /\ BatchCovered(RecordsOf(r), to[r], run[w].batch)
  BY DEF FrameCovered
<1>6. Covered(RecordsOf(r)', to[r], missed[r] \cup IdsOf(bad),
              Counted(run[w].at, run[w].batch, bad))
  BY <1>1, <1>2, <1>3, <1>4, <1>5, CommitCovered
<1> QED
  BY <1>4, <1>6

\* A page that has just been read.
LEMMA FetchCovered ==
  ASSUME NEW w \in Workers, NEW v
  PROVE  BatchCovered(RecordsOf(run[w].r), v, BatchOf(w))
BY DEF BatchCovered, BatchOf, RecordsOf, Behind

LEMMA CommitCovers ==
  ASSUME TypeOK, Created, CountsOK, Covers, NEW w \in Workers,
         Migrate(w) \/ MigrateUnlucky(w)
  PROVE  Covers'
<1>1. run[w].pc = "migrate"
  BY MigrateCommits
<1>2. PICK bad \in SUBSET run[w].batch : Commits(w, bad)
  BY MigrateCommits
<1>3. SUFFICES ASSUME NEW q \in Rotations \ overtaken'
               PROVE  /\ Covered(RecordsOf(q)', to'[q], missed'[q], ckpt'[q])
                      /\ \A v \in Workers : run'[v].r = q =>
                           FrameCovered(RecordsOf(q)', to'[q], missed'[q], run'[v])
  BY DEF Covers
<1>4. Steady(q) /\ q \notin overtaken
  BY <1>1, <1>2, CommitSteady
<1>5. /\ Covered(RecordsOf(q), to[q], missed[q], ckpt[q])
      /\ \A v \in Workers : run[v].r = q =>
           FrameCovered(RecordsOf(q), to[q], missed[q], run[v])
  BY <1>4 DEF Covers
<1>6. ASSUME q = run[w].r
      PROVE  Covered(RecordsOf(q)', to'[q], missed'[q],
                     Counted(run[w].at, run[w].batch, bad))
  BY <1>1, <1>2, <1>4, <1>5, <1>6, CommitCheckpoint
<1>7. Covered(RecordsOf(q)', to'[q], missed'[q], ckpt'[q])
  <2>1. CASE q = run[w].r
    <3>1. ckpt'[q] = Counted(run[w].at, run[w].batch, bad)
      BY <1>2, <2>1 DEF Commits, TypeOK
    <3> QED
      BY <1>6, <2>1, <3>1
  <2>2. CASE q # run[w].r
    <3>1. ckpt'[q] = ckpt[q] /\ ckpt[q] \in Checkpoints /\ ckpt[q].last <= SizeOf(q)
      BY <1>2, <2>2 DEF Commits, TypeOK, CountsOK
    <3> QED
      BY <1>4, <1>5, <3>1, SteadyCheckpoint
  <2> QED
    BY <2>1, <2>2
<1>8. ASSUME NEW v \in Workers, run'[v].r = q
      PROVE  FrameCovered(RecordsOf(q)', to'[q], missed'[q], run'[v])
  <2>1. CASE v = w
    <3>1. /\ \/ Left(w)
             \/ /\ run'[w].at = Counted(run[w].at, run[w].batch, bad)
                /\ run'[w].pc = "check"
          /\ run'[w].r = run[w].r
      BY <1>2, CommitFrame
    <3>2. CASE Left(w)
      BY <2>1, <3>2, NothingCovered DEF Left, Counting, TryPCs, FrameCovered
    <3>3. CASE /\ run'[w].at = Counted(run[w].at, run[w].batch, bad)
               /\ run'[w].pc = "check"
      BY <1>6, <1>8, <2>1, <3>1, <3>3 DEF FrameCovered
    <3> QED
      BY <3>1, <3>2, <3>3
  <2>2. CASE v # w
    <3>1. run'[v] = run[v]
      BY <2>2, WorkerLocks DEF WorkerStep, Work
    <3> QED
      BY <1>4, <1>5, <1>8, <3>1, SteadyFrame
  <2> QED
    BY <2>1, <2>2
<1> QED
  BY <1>7, <1>8

LEMMA WorkerCovers ==
  ASSUME TypeOK, Created, Covers, NEW w \in Workers, WorkerStep(w),
         ~(Migrate(w) \/ MigrateUnlucky(w))
  PROVE  Covers'
<1>1. /\ UNCHANGED <<records, to, ckpt, missed, overtaken>>
      /\ \/ Left(w) \/ Begun(w) \/ Kept(w) \/ GotBatch(w) \/ GotNone(w)
         \/ run' = run
  BY WorkerFrames DEF Matters, data
<1>2. SUFFICES ASSUME NEW q \in Rotations \ overtaken, NEW v \in Workers,
                      run'[v].r = q
               PROVE  FrameCovered(RecordsOf(q), to[q], missed[q], run'[v])
  BY <1>1 DEF Covers, RecordsOf
<1>3. /\ Covered(RecordsOf(q), to[q], missed[q], ckpt[q])
      /\ \A u \in Workers : run[u].r = q =>
           FrameCovered(RecordsOf(q), to[q], missed[q], run[u])
  BY DEF Covers
<1>4. CASE v # w
  BY <1>2, <1>3, <1>4, WorkerLocks
<1>5. CASE v = w /\ Left(w)
  BY <1>5, NothingCovered DEF Left, Counting, TryPCs, FrameCovered
<1>6. CASE v = w /\ Begun(w)
  BY <1>2, <1>3, <1>6 DEF Begun, FrameCovered
<1>7. CASE v = w /\ (Kept(w) \/ GotNone(w))
  BY <1>2, <1>3, <1>7 DEF Kept, GotNone, FrameCovered
<1>8. CASE v = w /\ GotBatch(w)
  BY <1>2, <1>3, <1>8, FetchCovered DEF GotBatch, FrameCovered
<1>9. CASE run' = run
  BY <1>2, <1>3, <1>9
<1> QED
  BY <1>1, <1>4, <1>5, <1>6, <1>7, <1>8, <1>9

\* A step of createRotation, cancelRotation or the queue that neither mints a
\* version nor counts the records leaves all of it alone.
LEMMA CallerData ==
  ASSUME TypeOK, NEW r \in Rotations, CallerStep(r)
  PROVE  /\ UNCHANGED <<run, ckpt, records, size, missed, overtaken, late,
                        overwritten, unguarded>>
         /\ Mint(r) \/ UNCHANGED <<to, dek>>
         /\ CountRows(r) \/ UNCHANGED total
<1>1. run' = run
  BY CallerActs
<1>2. /\ UNCHANGED <<ckpt, records, size, missed, overtaken, late,
                     overwritten, unguarded>>
      /\ Mint(r) \/ UNCHANGED <<to, dek>>
      /\ CountRows(r) \/ UNCHANGED total
  BY DEF CallerStep, Continue, Mint, CancelRead, CountRows, CreateRow, CreateDies,
     CancelFails, CancelUpdate, CancelGetJob, Enqueue, CancelRemove, CancelReread,
     Queue, FalseStall, rows, data, history
<1> QED
  BY <1>1, <1>2

LEMMA MintCovers ==
  ASSUME TypeOK, Created, CountsOK, Covers, NEW r \in Rotations, Mint(r)
  PROVE  Covers'
<1>1. UNCHANGED <<run, ckpt, records, missed, overtaken>>
  BY DEF Mint, data, history
<1>2. \A q \in Rotations \ {r} : to'[q] = to[q]
  BY CallerActs DEF CallerStep, Untouched
<1>3. /\ ckpt[r] = NoCheckpoint
      /\ \A v \in Workers : run[v].r = r => run[v].pc = "idle"
  BY DEF Mint, Created, NotBegun, Unborn
<1>4. \A v \in Workers : run[v].r = r => run[v].at = NoCheckpoint
  BY <1>3 DEF CountsOK, FrameCounts
<1>5. /\ Covered(RecordsOf(r), to'[r], missed[r], ckpt[r])
      /\ \A v \in Workers : run[v].r = r =>
           FrameCovered(RecordsOf(r), to'[r], missed[r], run[v])
  BY <1>3, <1>4, NothingCovered DEF FrameCovered
<1> QED
  BY <1>1, <1>2, <1>5 DEF Covers, RecordsOf

\* The application rewrites a record, or inserts one behind all there are.
LEMMA TargetSteady ==
  ASSUME TypeOK, NEW t \in Targets,
         PoolDrops(t) \/ Insert(t) \/ (\E i \in Ids : AppWrite(t, i)),
         NEW q \in Rotations
  PROVE  Steady(q)
<1>1. UNCHANGED <<to, missed>>
  BY DEF PoolDrops, Insert, AppWrite, rows, history
<1>2. CASE PoolDrops(t)
  BY <1>1, <1>2 DEF PoolDrops, Steady, NoFurther, RecordsOf, data
<1>3. CASE Insert(t)
  <2>1. size[t] \in Int
    BY SizesAssumption DEF TypeOK
  <2>2. PICK rec : records' = [records EXCEPT ![t] = [@ EXCEPT ![size[t] + 1] = rec]]
    BY <1>3 DEF Insert
  <2>3. \A u \in Targets : \A j \in 1..size[u] : records'[u][j] = records[u][j]
    <3>1. ASSUME NEW u \in Targets, NEW j \in 1..size[u]
          PROVE  records'[u][j] = records[u][j]
      <4>1. CASE u # t
        BY <2>2, <4>1 DEF TypeOK
      <4>2. CASE u = t
        <5>1. j # size[t] + 1
          BY <2>1, <4>2
        <5> QED
          BY <2>2, <4>2, <5>1 DEF TypeOK
      <4> QED
        BY <4>1, <4>2
    <3> QED
      BY <3>1
  <2> QED
    BY <1>1, <2>3, TargetOfAssumption DEF Steady, NoFurther, RecordsOf, SizeOf
<1>4. ASSUME NEW i \in Ids, AppWrite(t, i)
      PROVE  Steady(q)
  <2>1. PICK v \in Versions :
          records' = [records EXCEPT ![t] =
                        [@ EXCEPT ![i] = [ver |-> v, plain |-> "rewritten"]]]
    BY <1>4 DEF AppWrite
  <2>2. \A u \in Targets, j \in Ids :
          records'[u][j] = records[u][j] \/ records'[u][j].plain = "rewritten"
    BY <2>1 DEF TypeOK
  <2>3. NoFurther(RecordsOf(q), RecordsOf(q)', to[q], SizeOf(q))
    BY <2>2, SizeType, TargetOfAssumption DEF NoFurther, RecordsOf
  <2> QED
    BY <1>1, <2>3 DEF Steady
<1> QED
  BY <1>2, <1>3, <1>4

LEMMA NextCovers ==
  ASSUME TypeOK, Created, CountsOK, Covers, [Next]_vars
  PROVE  Covers'
<1>1. ASSUME NEW r \in Rotations, CallerStep(r)
      PROVE  Covers'
  <2>1. CASE Mint(r)
    BY <2>1, MintCovers
  <2>2. CASE ~Mint(r)
    BY <1>1, <2>2, CallerData DEF Covers, RecordsOf
  <2> QED
    BY <2>1, <2>2
<1>2. ASSUME NEW w \in Workers, WorkerStep(w)
      PROVE  Covers'
  BY <1>2, CommitCovers, WorkerCovers
<1>3. ASSUME NEW t \in Targets,
             PoolDrops(t) \/ Insert(t) \/ (\E i \in Ids : AppWrite(t, i))
      PROVE  Covers'
  <2>1. UNCHANGED <<run, ckpt, overtaken>>
    BY <1>3 DEF PoolDrops, Insert, AppWrite, rows, history
  <2>2. ASSUME NEW q \in Rotations \ overtaken
        PROVE  /\ Covered(RecordsOf(q)', to'[q], missed'[q], ckpt[q])
               /\ \A v \in Workers : run[v].r = q =>
                    FrameCovered(RecordsOf(q)', to'[q], missed'[q], run[v])
    <3>1. Steady(q) /\ ckpt[q] \in Checkpoints /\ ckpt[q].last <= SizeOf(q)
      BY <1>3, TargetSteady DEF TypeOK, CountsOK
    <3> QED
      BY <3>1, SteadyFrame, SteadyCheckpoint DEF Covers
  <2> QED
    BY <2>1, <2>2 DEF Covers
<1>4. CASE UNCHANGED vars
  BY <1>4 DEF vars, rows, data, history, Covers, RecordsOf
<1> QED
  BY <1>1, <1>2, <1>3, <1>4, NextCases

-----------------------------------------------------------------------------
(* Activated and LateOK are kept.                                          *)

LEMMA SteadyActivated ==
  ASSUME TypeOK, CountsOK, Activated, NEW q \in Rotations \ overtaken, Steady(q),
         to'[q] # 0, dek[to[q]] \in {"ACTIVE", "RETIRED"}
  PROVE  Behind(RecordsOf(q)', to'[q], 1..total[q]) \subseteq missed'[q]
<1>1. Behind(RecordsOf(q), to[q], 1..total[q]) \subseteq missed[q]
  BY DEF Activated, Steady
<1>2. Behind(RecordsOf(q)', to[q], 1..total[q])
        \subseteq Behind(RecordsOf(q), to[q], 1..total[q])
  <2>1. total[q] \in Int /\ SizeOf(q) \in Int /\ total[q] <= SizeOf(q)
    BY SizeType, SizesAssumption DEF CountsOK, TypeOK
  <2>2. 1..total[q] \subseteq 1..SizeOf(q)
    BY <2>1
  <2> QED
    BY <2>2, BehindShrinks DEF Steady
<1> QED
  BY <1>1, <1>2 DEF Steady

LEMMA StillSteady ==
  ASSUME NEW q \in Rotations, UNCHANGED <<to, records, missed>>
  PROVE  Steady(q)
BY DEF Steady, NoFurther, RecordsOf

LEMMA MintActivated ==
  ASSUME TypeOK, Minted, Activated, NEW r \in Rotations, Mint(r)
  PROVE  Activated'
<1>1. PICK v \in Versions :
        /\ dek[v] = "ABSENT"
        /\ dek' = [dek EXCEPT ![v] = "PENDING"]
        /\ to' = [to EXCEPT ![r] = v]
  BY DEF Mint
<1>2. UNCHANGED <<records, total, missed, overtaken>>
  BY DEF Mint, data, history
<1>3. SUFFICES ASSUME NEW q \in Rotations \ overtaken, to'[q] # 0,
                      dek'[to'[q]] \in {"ACTIVE", "RETIRED"}
               PROVE  Behind(RecordsOf(q), to'[q], 1..total[q]) \subseteq missed[q]
  BY <1>2 DEF Activated, RecordsOf
<1>4. q # r
  BY <1>1, <1>3 DEF TypeOK
<1>5. to'[q] = to[q]
  BY <1>1, <1>4 DEF TypeOK
<1>6. to[q] # v /\ to[q] \in Versions
  BY <1>1, <1>3, <1>5 DEF Minted, TypeOK
<1>7. dek'[to[q]] = dek[to[q]]
  BY <1>1, <1>6 DEF TypeOK
<1> QED
  BY <1>3, <1>5, <1>7 DEF Activated

\* activateDek: the rotation has run through to the end.
LEMMA ActivateActivated ==
  ASSUME TypeOK, Created, Minted, CountsOK, Covers, Activated,
         NEW w \in Workers, Activate(w)
  PROVE  Activated'
<1>1. UNCHANGED <<to, records, total, missed, overtaken>>
  BY DEF Activate, rows, data, history
<1>2. SUFFICES ASSUME NEW q \in Rotations \ overtaken, to[q] # 0,
                      dek'[to[q]] \in {"ACTIVE", "RETIRED"}
               PROVE  Behind(RecordsOf(q), to[q], 1..total[q]) \subseteq missed[q]
  BY <1>1 DEF Activated, RecordsOf
<1>3. CASE q = run[w].r
  <2>1. /\ total[q] <= run[w].at.last
        /\ total[q] \in Int /\ run[w].at.last \in Int
    BY <1>3, FrameType, SizesAssumption
       DEF Activate, CountsOK, FrameCounts, TypeOK, Checkpoints
  <2>2. Covered(RecordsOf(q), to[q], missed[q], run[w].at)
    BY <1>3 DEF Covers, FrameCovered
  <2>3. 1..total[q] \subseteq 1..run[w].at.last
    BY <2>1
  <2> QED
    BY <2>2, <2>3 DEF Covered, Behind
<1>4. CASE q # run[w].r
  <2>1. run[w].r \in Rotations
    BY FrameType
  <2>2. to[q] # to[run[w].r]
    BY <1>2, <1>4, <2>1 DEF Minted
  <2>3. to[q] \in Versions
    BY <1>2 DEF TypeOK
  <2>4. dek[to[q]] \in {"ACTIVE", "RETIRED"}
    BY <1>2, <2>2, <2>3 DEF Activate
  <2> QED
    BY <1>2, <2>4 DEF Activated
<1> QED
  BY <1>3, <1>4

LEMMA NextActivated ==
  ASSUME TypeOK, Created, Minted, CountsOK, Covers, Activated, [Next]_vars
  PROVE  Activated'
<1>1. ASSUME UNCHANGED <<dek, total>>, overtaken \subseteq overtaken',
             \A q \in Rotations \ overtaken' : Steady(q)
      PROVE  Activated'
  BY <1>1, SteadyActivated DEF Activated, Steady
<1>2. ASSUME NEW r \in Rotations, CallerStep(r)
      PROVE  Activated'
  <2>1. CASE Mint(r)
    BY <2>1, MintActivated
  <2>2. CASE CountRows(r)
    <3>1. /\ UNCHANGED <<dek, to, records, missed, overtaken>>
          /\ \A q \in Rotations \ {r} : total'[q] = total[q]
          /\ dek[to[r]] = "PENDING"
      BY <2>2 DEF CountRows, Minted, data, history, TypeOK
    <3> QED
      BY <3>1 DEF Activated, RecordsOf
  <2>3. CASE ~Mint(r) /\ ~CountRows(r)
    BY <1>1, <1>2, <2>3, CallerData, StillSteady
  <2> QED
    BY <2>1, <2>2, <2>3
<1>3. ASSUME NEW w \in Workers, WorkerStep(w)
      PROVE  Activated'
  <2>1. CASE Activate(w)
    BY <2>1, ActivateActivated
  <2>2. CASE Migrate(w) \/ MigrateUnlucky(w)
    <3>1. PICK bad \in SUBSET run[w].batch : Commits(w, bad)
      BY <2>2, MigrateCommits
    <3>2. \A q \in Rotations \ overtaken' : Steady(q)
      BY <2>2, <3>1, MigrateCommits, CommitSteady
    <3> QED
      BY <1>1, <3>1, <3>2 DEF Commits
  <2>3. CASE ~(Activate(w) \/ Migrate(w) \/ MigrateUnlucky(w))
    <3>1. UNCHANGED <<dek, to, records, total, missed, overtaken>>
      BY <1>3, <2>3 DEF WorkerStep, Work, TakeJob, Load, GetLock, Locked, Check,
         Report, Mark, Complete, MarkFailed, Overwrite, Fetch, Release, SettleJob,
         Fail, Crash, LeakLock, LoseSession, rows, data, history
    <3> QED
      BY <1>1, <3>1, StillSteady
  <2> QED
    BY <2>1, <2>2, <2>3
<1>4. ASSUME NEW t \in Targets,
             PoolDrops(t) \/ Insert(t) \/ (\E i \in Ids : AppWrite(t, i))
      PROVE  Activated'
  <2>1. UNCHANGED <<dek, total, overtaken>>
    BY <1>4 DEF PoolDrops, Insert, AppWrite, rows, history
  <2> QED
    BY <1>1, <1>4, <2>1, TargetSteady
<1>5. CASE UNCHANGED vars
  BY <1>1, <1>5, StillSteady DEF vars, rows, data, history
<1> QED
  BY <1>2, <1>3, <1>4, <1>5, NextCases

\* A cancellation stays in the table, but for the two statuses that are written
\* with no condition.
StaysCancelled(q) ==
  /\ overwritten \subseteq overwritten' /\ unguarded \subseteq unguarded'
  /\ st[q] = "CANCELLED" => st'[q] = "CANCELLED" \/ q \in overwritten'

LEMMA CallerStays ==
  ASSUME TypeOK, Created, NEW r \in Rotations, CallerStep(r), NEW q \in Rotations
  PROVE  StaysCancelled(q)
<1>0. UNCHANGED <<overwritten, unguarded>>
  BY CallerData
<1>1. st[q] = "CANCELLED" => st'[q] = "CANCELLED"
  <2>1. CASE CreateRow(r)
    <3>1. st[r] = "NONE" /\ st' = [st EXCEPT ![r] = "QUEUED"]
      BY <2>1 DEF CreateRow, Created, NotBegun, Unborn
    <3> QED
      BY <3>1 DEF TypeOK
  <2>2. CASE CancelUpdate(r)
    BY <2>2 DEF CancelUpdate, Cancellable, TypeOK
  <2>3. CASE ~(CreateRow(r) \/ CancelUpdate(r))
    BY <2>3 DEF CallerStep, Continue, Mint, CancelRead, CountRows, CreateDies,
       CancelFails, CancelGetJob, Enqueue, CancelRemove, CancelReread, Queue,
       FalseStall, rows
  <2> QED
    BY <2>1, <2>2, <2>3
<1> QED
  BY <1>0, <1>1 DEF StaysCancelled

LEMMA WorkerStays ==
  ASSUME TypeOK, Created, NEW w \in Workers, WorkerStep(w), NEW q \in Rotations
  PROVE  StaysCancelled(q)
<1> USE DEF StaysCancelled
<1>1. CASE Mark(w)
  BY <1>1 DEF Mark, history, TypeOK
<1>2. CASE Complete(w) \/ MarkFailed(w)
  <2>1. PICK status : Overwrite(run[w].r, status)
    BY <1>2 DEF Complete, MarkFailed
  <2> QED
    BY <2>1 DEF Overwrite, TypeOK
<1>3. CASE Migrate(w) \/ MigrateUnlucky(w)
  BY <1>3, MigrateCommits DEF Commits
<1>4. CASE ~(Mark(w) \/ Complete(w) \/ MarkFailed(w) \/ Migrate(w) \/ MigrateUnlucky(w))
  BY <1>4 DEF WorkerStep, Work, TakeJob, Load, GetLock, Locked, Check, Report,
     Fetch, Activate, Release, SettleJob, Fail, Crash, LeakLock, LoseSession,
     rows, history
<1> QED
  BY <1>1, <1>2, <1>3, <1>4

\* One rotation's share of LateOK.
Spared(q) == q \in overwritten \cup unguarded
Once(q) ==
  /\ late[q] \in {0, 1}
  /\ late[q] = 1 => /\ st[q] = "CANCELLED"
                    /\ \A v \in Workers : run[v].r = q => ~AtBatch(run[v])

\* The batch in flight when a rotation is cancelled: its worker has the lock, so
\* no other is at a batch of this rotation.
LEMMA CommitOnce ==
  ASSUME TypeOK, Created, Sessions, NEW w \in Workers,
         Migrate(w) \/ MigrateUnlucky(w), NEW q \in Rotations, ~Spared(q), Once(q)
  PROVE  Once(q)'
<1>1. PICK bad \in SUBSET run[w].batch : Commits(w, bad)
  BY MigrateCommits
<1>2. /\ run[w].pc = "migrate" /\ run[w].r \in Rotations
      /\ \A v \in Workers \ {w} : run'[v] = run[v]
  BY MigrateCommits, FrameType, WorkerLocks DEF WorkerStep, Work
<1>3. run'[w].r = run[w].r /\ ~AtBatch(run'[w])
  BY <1>1, CommitFrame DEF Left, Counting, TryPCs, AtBatch
<1>4. st' = st
  BY <1>1 DEF Commits
<1>5. CASE q = run[w].r /\ st[q] = "CANCELLED"
  <2>1. late[q] = 0
    BY <1>2, <1>5 DEF Once, AtBatch
  <2>2. late'[q] = 1
    BY <1>1, <1>5, <2>1 DEF Commits, TypeOK
  <2>3. ASSUME NEW v \in Workers \ {w}, run[v].r = q
        PROVE  ~AtBatch(run[v])
    <3>1. w \notin lost /\ v \notin lost
      BY <1>5, <2>3 DEF Sessions, Spared
    <3>2. lock[TargetOf[q]] = w
      BY <1>2, <1>5, <3>1 DEF Sessions, LockedWhileAtWork, LockedPCs, TryPCs
    <3> QED
      BY <2>3, <3>1, <3>2 DEF Sessions, LockedWhileAtWork, LockedPCs, TryPCs, AtBatch
  <2> QED
    BY <1>2, <1>3, <1>4, <1>5, <2>2, <2>3 DEF Once
<1>6. CASE ~(q = run[w].r /\ st[q] = "CANCELLED")
  <2>1. late'[q] = late[q]
    BY <1>1, <1>2, <1>6 DEF Commits, TypeOK, Spared
  <2> QED
    BY <1>2, <1>3, <1>4, <2>1 DEF Once
<1> QED
  BY <1>5, <1>6

\* Any other step of a worker: it does not begin a batch of what it sees
\* cancelled.
LEMMA WorkerOnce ==
  ASSUME TypeOK, Created, NEW w \in Workers, WorkerStep(w),
         ~(Migrate(w) \/ MigrateUnlucky(w)), NEW q \in Rotations, ~Spared(q)', Once(q)
  PROVE  Once(q)'
<1>1. late' = late /\ StaysCancelled(q) /\ \A v \in Workers \ {w} : run'[v] = run[v]
  BY WorkerFrames, WorkerStays, WorkerLocks DEF Matters
<1>2. ASSUME st[q] = "CANCELLED", run'[w].r = q, AtBatch(run'[w])
      PROVE  run[w].r = q /\ AtBatch(run[w])
  <2>1. \/ Left(w) \/ Begun(w) \/ Kept(w) \/ GotBatch(w) \/ GotNone(w)
        \/ run' = run
    BY WorkerFrames
  <2> QED
    BY <1>2, <2>1 DEF Left, Begun, Kept, GotBatch, GotNone, Counting, TryPCs, AtBatch
<1> QED
  BY <1>1, <1>2 DEF Once, StaysCancelled, Spared

LEMMA NextLate ==
  ASSUME TypeOK, Created, Sessions, LateOK, [Next]_vars
  PROVE  LateOK'
<1>0. SUFFICES ASSUME NEW q \in Rotations, ~Spared(q)'
               PROVE  Once(q)'
  BY DEF LateOK, Once, Spared
<1>1. ASSUME NEW r \in Rotations, CallerStep(r)
      PROVE  Once(q)'
  <2>1. UNCHANGED <<run, late>> /\ StaysCancelled(q)
    BY <1>1, CallerData, CallerStays
  <2> QED
    BY <1>0, <2>1 DEF LateOK, Once, StaysCancelled, Spared
<1>2. ASSUME NEW w \in Workers, WorkerStep(w)
      PROVE  Once(q)'
  <2>1. ~Spared(q) /\ Once(q)
    BY <1>0, <1>2, WorkerStays DEF LateOK, Once, StaysCancelled, Spared
  <2> QED
    BY <1>0, <1>2, <2>1, CommitOnce, WorkerOnce
<1>3. ASSUME NEW t \in Targets,
             PoolDrops(t) \/ Insert(t) \/ (\E i \in Ids : AppWrite(t, i))
      PROVE  Once(q)'
  BY <1>0, <1>3
     DEF PoolDrops, Insert, AppWrite, rows, history, LateOK, Once, Spared
<1>4. CASE UNCHANGED vars
  BY <1>0, <1>4 DEF vars, rows, history, LateOK, Once, Spared
<1> QED
  BY <1>1, <1>2, <1>3, <1>4, NextCases

-----------------------------------------------------------------------------
(* The invariant, and what follows from it.                                *)

LEMMA InitInv ==
  ASSUME Init
  PROVE  Inv
<1>1. TypeOK
  BY InitType
<1>2. /\ \A r \in Rotations :
           /\ st[r] = "NONE" /\ to[r] = 0 /\ ckpt[r] = NoCheckpoint
           /\ creating[r] = "idle" /\ late[r] = 0 /\ job[r] = NoJob
           /\ total[r] = 0
      /\ \A w \in Workers : run[w] = Idle
      /\ \A t \in Targets : lock[t] = NoWorker
      /\ lost = {}
  BY DEF Init, QueueInit
<1>3. Idle.pc = "idle" /\ Idle.at = NoCheckpoint /\ NoJob.state = "none"
  BY DEF Idle, NoJob
<1>10. JobsOK
  <2>1. JobOK(NoJob)
    BY DEF JobOK, NoJob, Live
  <2> QED
    BY <1>2, <2>1 DEF JobsOK
<1>4. Minted
  BY <1>2, VersionsType DEF Init, Minted
<1>5. Created
  BY <1>2, <1>3 DEF Created, NotBegun
<1>6. Sessions
  BY <1>2, <1>3 DEF Sessions, LockedWhileAtWork, LockedPCs, TryPCs
<1>7. CountsOK
  <2>1. ASSUME NEW q \in Rotations PROVE 0 <= SizeOf(q)
    <3>1. SizeOf(q) \in Nat
      BY <1>1, SizeType
    <3> QED
      BY <3>1
  <2>2. \A w \in Workers : run[w].r \in Rotations
    BY <1>1, FrameType
  <2> QED
    BY <1>2, <1>3, <2>1, <2>2, NoCounts DEF CountsOK, FrameCounts, NoCheckpoint
<1>8. Covers
  BY <1>2, <1>3, NothingCovered DEF Covers, FrameCovered
<1>9. Activated /\ LateOK
  BY <1>2, <1>3 DEF Activated, LateOK, AtBatch
<1> QED
  BY <1>1, <1>4, <1>5, <1>6, <1>7, <1>8, <1>9, <1>10 DEF Inv

LEMMA NextInv ==
  ASSUME Inv, [Next]_vars
  PROVE  Inv'
<1>1. TypeOK' /\ JobsOK'
  BY NextType DEF Inv
<1>2. Minted' /\ Created' /\ Sessions' /\ CountsOK'
  BY <1>1, NextMinted, NextCreated, NextSessions, NextCounts DEF Inv
<1>3. Covers' /\ Activated' /\ LateOK'
  BY NextCovers, NextActivated, NextLate DEF Inv
<1> QED
  BY <1>1, <1>2, <1>3 DEF Inv

LEMMA Invariance == Spec => []Inv
<1>1. Init => Inv
  BY InitInv
<1>2. Inv /\ [Next]_vars => Inv'
  BY NextInv
<1> QED
  BY <1>1, <1>2, PTL DEF Spec

\* TypeOK: the tables, the queue and every worker's frame stay within their
\* types whatever interleaving of createRotation, cancelRotation, the queue,
\* _processJob, insertions and their faults occurs; in particular the counters
\* of a rotation never exceed the records there are.
THEOREM TypeCorrect == Spec => []TypeOK
<1>1. Inv => TypeOK
  BY DEF Inv
<1> QED
  BY <1>1, Invariance, PTL

\* LockedWhileAtWork: between pg_try_advisory_lock and the finally block of
\* _processJob a worker whose session is alive holds the lock of its target
\* alone, even with two workers at the same job after a false stall, and even
\* when the lock it got is one that its own pool had kept.  A crash and an unlock
\* that took effect leave no lock behind; only a session that goes back to the
\* pool with its lock does, until the pool closes it.
THEOREM Exclusion == Spec => []LockedWhileAtWork
<1>1. Inv => LockedWhileAtWork
  BY DEF Inv, Sessions
<1> QED
  BY <1>1, Invariance, PTL

\* CountersMatchCheckpoint: processed_records and failed_records add up to the
\* ids up to last_processed_id, for any number of records, batch size, retries
\* and workers that start from an outdated row.
THEOREM CountersAccount == Spec => []CountersMatchCheckpoint
<1>1. Inv => CountersMatchCheckpoint
  BY DEF Inv, CountsOK, Counts, CountersMatchCheckpoint
<1> QED
  BY <1>1, Invariance, PTL

\* CheckpointCoversMigration: resuming from a checkpoint leaves no record out,
\* because all it has passed are migrated, or were counted as failed, even
\* where two workers run the same rotation because one has lost its lock.
THEOREM ResumeLeavesNoneOut == Spec => []CheckpointCoversMigration
<1>1. ASSUME Inv, NEW r \in Rotations \ overtaken
      PROVE  Cardinality(Unmigrated(r, 1..ckpt[r].last)) <= ckpt[r].failed
  <2>1. Unmigrated(r, 1..ckpt[r].last) =
          Behind(RecordsOf(r), to[r], 1..ckpt[r].last)
    BY DEF Unmigrated, Behind
  <2>2. Covered(RecordsOf(r), to[r], missed[r], ckpt[r])
    BY <1>1 DEF Inv, Covers
  <2> QED
    BY <2>1, <2>2 DEF Covered
<1>2. Inv => CheckpointCoversMigration
  BY <1>1 DEF CheckpointCoversMigration
<1> QED
  BY <1>2, Invariance, PTL

\* ActivatedMeansMigrated: activateDek comes after the last batch of a rotation
\* that has been through all the records createRotation counted, so that readers
\* of the new version find every one of them under it or a newer one, except those
\* given up and those an older rotation has taken back.
THEOREM ActivationIsSafe == Spec => []ActivatedMeansMigrated
<1>1. ASSUME Inv, NEW r \in Rotations \ overtaken, to[r] # 0,
             dek[to[r]] \in {"ACTIVE", "RETIRED"}
      PROVE  Unmigrated(r, 1..total[r]) \subseteq missed[r]
  <2>1. Unmigrated(r, 1..total[r]) = Behind(RecordsOf(r), to[r], 1..total[r])
    BY DEF Unmigrated, Behind
  <2> QED
    BY <1>1, <2>1 DEF Inv, Activated
<1>2. Inv => ActivatedMeansMigrated
  BY <1>1 DEF ActivatedMeansMigrated
<1> QED
  BY <1>2, Invariance, PTL

\* OneLateBatch: a cancellation that is in the table stops the rotation before
\* its next batch, in whatever attempt and with however many workers at the job,
\* unless an attempt under way writes COMPLETED or FAILED over it, or a worker
\* of the rotation loses its lock.
THEOREM CancelStopsSoon == Spec => []OneLateBatch
<1>1. ASSUME Inv, NEW r \in Rotations \ (overwritten \cup unguarded)
      PROVE  late[r] <= 1
  <2>1. late[r] = 0 \/ late[r] = 1
    BY <1>1 DEF Inv, LateOK
  <2>2. CASE late[r] = 0
    BY <2>2
  <2>3. CASE late[r] = 1
    BY <2>3
  <2> QED
    BY <2>1, <2>2, <2>3
<1>2. Inv => OneLateBatch
  BY <1>1 DEF OneLateBatch
<1> QED
  BY <1>2, Invariance, PTL

=============================================================================
